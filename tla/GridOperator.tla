---------------------------- MODULE GridOperator ----------------------------
(***************************************************************************)
(* The process `grid-operator run' for one vault: after a start it looks   *)
(* up the orders, then scans and keeps, for ever and serially.  Each       *)
(* action is one database transaction or one call over the network; the    *)
(* chain goes on between any two, and the process may die between any two. *)
(***************************************************************************)
EXTENDS GridKeeper

VARIABLE op     \* where the process is; batch, reply and stop are its locals

vars == <<chain, faults, db, op>>

Down == [pc |-> "down", batch |-> 0, reply |-> "none", stop |-> 0]

Init == ChainInit /\ DbInit /\ op = Down

Goto(pc) == op' = [op EXCEPT !.pc = pc]

\* The next round: nothing of the last one is remembered.
NextRound == op' = [Down EXCEPT !.pc = "round"]

Update(batch) == db' = [db EXCEPT !.batches[op.batch] = batch]

-----------------------------------------------------------------------------
(* run: start, discover, scan *)

Start == op.pc = "down" /\ Goto("discover") /\ UNCHANGED <<chain, faults, db>>

Discover ==
    /\ op.pc = "discover"
    /\ db' = refresh_orders /\ Goto("round") /\ UNCHANGED <<chain, faults>>

StartScan ==
    /\ op.pc = "round"
    /\ op' = [op EXCEPT !.pc = "scan", !.stop = scan_target]
    /\ UNCHANGED <<chain, faults, db>>

ScanHeight ==
    /\ op.pc = "scan" /\ db.scanned < op.stop
    /\ db' = scan_height(db.scanned + 1)
    /\ UNCHANGED <<chain, faults, op>>

-----------------------------------------------------------------------------
(* keep_once: freeze_batch, then process_batch *)

Idle ==
    /\ op.pc = "scan" /\ db.scanned >= op.stop
    /\ ActiveBatches = {} /\ waiting_orders = {}
    /\ NextRound /\ UNCHANGED <<chain, faults, db>>

Resume ==
    /\ op.pc = "scan" /\ db.scanned >= op.stop
    /\ ActiveBatches # {}
    /\ op' = [Down EXCEPT !.pc = "process", !.batch = Min(ActiveBatches)]
    /\ UNCHANGED <<chain, faults, db>>

Freeze ==
    /\ op.pc = "scan" /\ db.scanned >= op.stop
    /\ ActiveBatches = {} /\ waiting_orders # {}
    /\ db' = [db EXCEPT !.batches = Append(@, frozen_batch(next_items))]
    /\ op' = [Down EXCEPT !.pc = "process", !.batch = Len(db.batches) + 1]
    /\ UNCHANGED <<chain, faults>>

batch == db.batches[op.batch]

backing_off == batch.state = "ready" /\ batch.backoff

due == batch.state \notin {"intervention", "unknown", "broadcasting"} /\ ~backing_off

polled == batch.tx # 0 /\ batch.attempt \in {"broadcast", "timeout"}

LeaveAlone ==
    /\ op.pc = "process"
    /\ batch.state \in {"intervention", "unknown"} \/ backing_off
    /\ NextRound /\ UNCHANGED <<chain, faults, db>>

FindRestarted ==
    /\ op.pc = "process" /\ batch.state = "broadcasting"
    /\ Update(restarted(batch)) /\ NextRound /\ UNCHANGED <<chain, faults>>

PollAgain ==
    /\ op.pc = "process" /\ due /\ polled
    /\ Goto("poll") /\ UNCHANGED <<chain, faults, db>>

\* Signing begins with a simulation of the reconcile at the present height.
Sign ==
    /\ op.pc = "process" /\ due /\ ~polled
    /\ reconcile_accepted(batch.items)
    /\ Update(signed(batch)) /\ Goto("mark") /\ UNCHANGED <<chain, faults>>

SignFails ==
    /\ op.pc = "process" /\ due /\ ~polled
    /\ FaultIf(reconcile_accepted(batch.items))
    /\ Update(sign_failed(batch)) /\ NextRound /\ UNCHANGED chain

Mark ==
    /\ op.pc = "mark"
    /\ Update(marked(batch)) /\ Goto("send") /\ UNCHANGED <<chain, faults>>

\* The node takes the transaction, refuses it, or is not reached; what it
\* answers may be lost.
Send ==
    /\ op.pc = "send"
    /\ \/ /\ chain' = [chain EXCEPT !.txs = Append(@,
                         [batch |-> op.batch, orders |-> batch.items, height |-> 0,
                          status |-> "pending"])]
          /\ \E reply \in {"ok", "lost"} :
               /\ op' = [op EXCEPT !.pc = "answer", !.reply = reply]
               /\ FaultIf(reply = "lost")
       \/ /\ \E reply \in {"refused", "lost"} : op' = [op EXCEPT !.pc = "answer", !.reply = reply]
          /\ Fault /\ UNCHANGED chain
    /\ UNCHANGED db

AnswerOk ==
    /\ op.pc = "answer" /\ op.reply = "ok"
    /\ Update(answered(batch, Len(chain.txs))) /\ Goto("poll") /\ UNCHANGED <<chain, faults>>

AnswerLost ==
    /\ op.pc = "answer" /\ op.reply = "lost"
    /\ Update(answer_lost(batch)) /\ NextRound /\ UNCHANGED <<chain, faults>>

\* The code is saved first, without a change of state, then the failure.
AnswerRefused ==
    /\ op.pc = "answer" /\ op.reply = "refused"
    /\ Goto("refused") /\ UNCHANGED <<chain, faults, db>>

RecordRefused ==
    /\ op.pc = "refused"
    /\ Update(record_failure(batch, "check_failed")) /\ NextRound /\ UNCHANGED <<chain, faults>>

-----------------------------------------------------------------------------
(* _poll *)

PollConfirms ==
    /\ op.pc = "poll" /\ observed(batch.tx) /\ chain.txs[batch.tx].status = "ok"
    /\ db' = confirmed(op.batch) /\ Goto("refresh") /\ UNCHANGED <<chain, faults>>

PollFails ==
    /\ op.pc = "poll" /\ observed(batch.tx)
    /\ \/ /\ chain.txs[batch.tx].status = "reverted"
          /\ Update(record_failure(batch, "page_reverted"))
       \/ /\ chain.txs[batch.tx].status = "failed"
          /\ Update(record_failure(batch, "deliver_failed"))
    /\ NextRound /\ UNCHANGED <<chain, faults>>

PollTimesOut ==
    /\ op.pc = "poll" /\ ~observed(batch.tx)
    /\ Update(timed_out(batch)) /\ NextRound /\ UNCHANGED <<chain, faults>>

Refresh ==
    /\ op.pc = "refresh"
    /\ db' = refresh_orders /\ NextRound /\ UNCHANGED <<chain, faults>>

-----------------------------------------------------------------------------
(* Death of the process, its operator, time *)

\* A crash, or an exception nobody catches: the database keeps what was committed.
Crash == op.pc # "down" /\ op' = Down /\ Fault /\ UNCHANGED <<chain, db>>

\* The operator stops the process, which finishes its round, clears the
\* intervention and starts it again.
ClearIntervention ==
    /\ op.pc \in {"down", "round"}
    /\ \E b \in DOMAIN db.batches :
         /\ db.batches[b].state = "intervention"
         /\ db' = [db EXCEPT !.batches[b] = intervention_cleared(db.batches[b])]
    /\ op' = Down /\ UNCHANGED <<chain, faults>>

BackoffEnds ==
    /\ \E b \in DOMAIN db.batches :
         /\ db.batches[b].backoff
         /\ db' = [db EXCEPT !.batches[b] = [db.batches[b] EXCEPT !.backoff = FALSE]]
    /\ UNCHANGED <<chain, faults, op>>

-----------------------------------------------------------------------------

RunStep ==
    \/ Start \/ Discover \/ StartScan \/ ScanHeight
    \/ Idle \/ Resume \/ Freeze \/ LeaveAlone \/ FindRestarted \/ PollAgain
    \/ Sign \/ SignFails \/ Mark \/ Send \/ AnswerOk \/ AnswerLost \/ AnswerRefused \/ RecordRefused
    \/ PollConfirms \/ PollFails \/ PollTimesOut \/ Refresh

Next ==
    \/ RunStep
    \/ Crash \/ ClearIntervention \/ BackoffEnds
    \/ ChainNext /\ UNCHANGED <<db, op>>

Spec == Init /\ [][Next]_vars

\* The service manager restarts the process, its calls end, and blocks go on.
FairSpec == Spec /\ WF_vars(RunStep) /\ WF_vars(EmptyBlock /\ UNCHANGED <<db, op>>)

-----------------------------------------------------------------------------
(* Properties *)

\* The indexer records only fills the chain has, and a batch fails at most
\* MAX_FAILURES times before somebody looks at it.
TypeOK ==
    /\ chain \in ChainType /\ faults \in 0..MaxFaults
    /\ DOMAIN db.events \subseteq chain.fills
    /\ \A e \in DOMAIN db.events : db.events[e] \in {None} \cup DOMAIN db.batches
    /\ db.active \subseteq Orders /\ db.scanned \in 0..chain.tip
    /\ db.batches \in Seq(Batch)
    /\ \A b \in DOMAIN db.batches : db.batches[b].failures <= MAX_FAILURES
    /\ op.batch \in 0..Len(db.batches)

\* Whenever the process dies and whatever answer is lost, process_batch never
\* broadcasts while an earlier transaction may still be included, nor a batch
\* again that was reconciled.
NeverSentTwice ==
    \A i, j \in DOMAIN chain.txs : i < j =>
        /\ chain.txs[i].status # "pending"
        /\ chain.txs[i].batch = chain.txs[j].batch => chain.txs[i].status # "ok"

\* _confirm takes an event off the queue only for a transaction of its batch
\* that is final, reported the event's order and ran after the fill.
ReconciledOnChain ==
    \A e \in DOMAIN db.events : db.events[e] # None =>
        \E tx \in {chain.txs[i] : i \in DOMAIN chain.txs} :
            /\ tx.batch = db.events[e] /\ tx.status = "ok" /\ e.order \in tx.orders
            /\ e.height <= tx.height /\ tx.height + Depth <= chain.tip

\* _scan_height and refresh_orders together: a scanned fill that is not in the
\* queue was accounted for on the chain by somebody else's reconcile.
NoFillLost ==
    \A f \in chain.fills :
        f.height <= db.scanned /\ f \notin DOMAIN db.events =>
            f.height <= chain.covered[f.order]

\* freeze_batch never meets the UNIQUE constraint of batch_events: no event is
\* frozen into two batches.
FrozenOnce ==
    \A b, c \in DOMAIN db.batches :
        b # c => db.batches[b].events \cap db.batches[c].events = {}

\* Audit finding M-21 and README, "Transaction Safety", of the operator: a
\* confirmed batch has consumed every fill of its orders through the height its
\* transaction was executed at.
LateFillsConsumed ==
    \A b \in DOMAIN db.batches : db.batches[b].state = "confirmed" =>
        \A e \in DOMAIN db.events :
            covered_by(e, db.batches[b].items, chain.txs[db.batches[b].tx].height)
                => db.events[e] # None

\* A transaction whose answer was saved and that is included is recognised,
\* after timeouts and restarts too, and never polled for ever.
InclusionRecognised ==
    \A i \in 1..MaxHeight :
        (/\ i \in DOMAIN chain.txs /\ included(i)
         /\ \E b \in DOMAIN db.batches : db.batches[b].tx = i)
        ~> (\A b \in DOMAIN db.batches :
                db.batches[b].tx = i => db.batches[b].attempt
                    \in {"confirmed", "deliver_failed", "page_reverted"})

\* Every fill is scanned at last: neither polling nor a batch nobody attends to
\* holds the indexer back.
FillsScanned ==
    \A h \in 1..MaxHeight :
        (\E f \in chain.fills : f.height = h) ~> (db.scanned >= h)

=============================================================================
