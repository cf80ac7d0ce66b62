---------------------------- MODULE TrackedKeeper ----------------------------
(***************************************************************************)
(* What swap_keeper.py (for one vault) and the rebalancer's example keeper *)
(* share: poll the vault's plan, and keep the one rebalance in flight in a *)
(* JSON file.  The process may die, a save may fail and an answer may be   *)
(* lost between any two steps; the chain includes, drops back in a shallow *)
(* reorganisation, and finalizes transactions.                             *)
(***************************************************************************)
EXTENDS Integers, Sequences

CONSTANTS
    Plans,          \* fingerprints of the plans the vault may answer
    None,           \* nothing to rebalance, or nothing recorded
    MAX_BACKUPS,    \* copies kept of the state file: 3, or 0 in swap_keeper.py
    MaxTxs,         \* bound: transactions sent
    MaxFaults       \* bound: crashes, failed saves, lost or refused calls and answers, reorganisations

ASSUME TrackedKeeperAssumption ==
    /\ None \notin Plans
    /\ MAX_BACKUPS \in Nat /\ MaxTxs \in Nat /\ MaxFaults \in Nat

VARIABLES
    market,     \* the plan the vault answers
    txs,        \* the transactions the node accepted
    files,      \* the state file, followed by its backups
    tracker,    \* the tracker in memory
    pc,         \* where the process is
    failed,     \* history: plans rejected since the vault's plan last changed
    faults

vars == <<market, txs, files, tracker, pc, failed, faults>>
chain_vars == <<market, txs>>

Maybe == Plans \cup {None}

Tx == [plan : Plans, status : {"pending", "ok", "failed"}, final : BOOLEAN]

\* `hash' is the transaction's place in txs, 0 while no hash is known.
Tracker == [broadcasting : BOOLEAN, hash : Nat, plan : Maybe, suppressed : Maybe]

Clean == [broadcasting |-> FALSE, hash |-> 0, plan |-> None, suppressed |-> None]

Init ==
    /\ market \in Maybe /\ txs = <<>>
    /\ files = <<Clean>> /\ tracker = Clean /\ pc = "down"
    /\ failed = {} /\ faults = 0

Fault == faults < MaxFaults /\ faults' = faults + 1

Goto(step) == pc' = step

-----------------------------------------------------------------------------
(* The state file *)

disk == files[1]

saved(t) ==
    LET copies == IF Len(files) <= MAX_BACKUPS THEN Len(files) ELSE MAX_BACKUPS
    IN  <<t>> \o SubSeq(files, 1, copies)

\* A save that fails raises, and the round is over.  The file is the old one, be
\* it backed up already or not, or the new one, if only its directory could not
\* be synced.
Save(t, next) ==
    /\ tracker' = t
    /\ \/ files' = saved(t) /\ Goto(next) /\ UNCHANGED faults
       \/ files' \in {files, saved(disk), saved(t)} /\ Goto("round") /\ Fault

unknown_broadcast(t) == t.broadcasting /\ t.hash = 0

-----------------------------------------------------------------------------
(* keep_vault *)

Start ==
    /\ pc = "down" /\ tracker' = disk /\ Goto("round")
    /\ UNCHANGED <<chain_vars, files, failed, faults>>

\* Nothing is in flight: neither a hash, nor a broadcast nobody heard of again.
free(t) == t.hash = 0 /\ ~t.broadcasting

Pending ==
    /\ pc = "round" /\ tracker.hash # 0 /\ Goto("poll")
    /\ UNCHANGED <<chain_vars, files, tracker, failed, faults>>

NothingToDo ==
    /\ pc = "round" /\ free(tracker) /\ market = None
    /\ Save([tracker EXCEPT !.suppressed = None], "round")
    /\ UNCHANGED <<chain_vars, failed>>

\* Faulty variant (see README, "Mutants"): the marker waits for the broadcast.
marked_late(plan) == [tracker EXCEPT !.plan = plan]

marked(plan) == [tracker EXCEPT !.broadcasting = TRUE, !.plan = plan]

\* The plan is answered and simulated, and the marker saved.
Submit ==
    /\ pc = "round" /\ free(tracker)
    /\ market # None /\ market # tracker.suppressed
    /\ Save(marked(market), "send")
    /\ UNCHANGED <<chain_vars, failed>>

\* The node accepts the transaction, refuses it for good, or is not reached;
\* its answer may be lost.
Send ==
    /\ pc = "send"
    /\ \/ /\ Len(txs) < MaxTxs
          /\ txs' = Append(txs, [plan |-> tracker.plan, status |-> "pending", final |-> FALSE])
          /\ \/ Goto("accepted") /\ UNCHANGED faults
             \/ Goto("lost") /\ Fault
       \/ (Goto("refused") \/ Goto("lost")) /\ Fault /\ UNCHANGED txs
    /\ UNCHANGED <<market, files, tracker, failed>>

Accepted ==
    /\ pc = "accepted"
    /\ Save([tracker EXCEPT !.hash = Len(txs), !.broadcasting = FALSE], "poll")
    /\ UNCHANGED <<chain_vars, failed>>

\* Faulty variant (see README, "Mutants"): the rejected plan is not remembered.
rejected_once(t) == Clean

rejected(t) == [Clean EXCEPT !.suppressed = t.plan]

\* What is rejected while the plan is still the vault's is rejected for good.
remember(plan) == failed' = IF plan = market THEN failed \cup {plan} ELSE failed

Refused ==
    /\ pc = "refused"
    /\ Save(rejected(tracker), "round") /\ remember(tracker.plan)
    /\ UNCHANGED chain_vars

\* The marker stays.
Lost ==
    /\ pc = "lost" /\ Goto("round")
    /\ UNCHANGED <<chain_vars, files, tracker, failed, faults>>

-----------------------------------------------------------------------------
(* poll_pending *)

\* Faulty variant (see README, "Mutants"): inclusion is enough.
included(tx) == txs[tx].status # "pending"

\* Faulty variant (see README, "Mutants"): a failure is polled on.
succeeded(tx) == txs[tx].final /\ txs[tx].status = "ok"

confirmed(tx) == txs[tx].final

Confirm ==
    /\ pc = "poll" /\ confirmed(tracker.hash)
    /\ \/ txs[tracker.hash].status = "failed" /\ Save(rejected(tracker), "round")
          /\ remember(tracker.plan)
       \/ txs[tracker.hash].status # "failed" /\ Save(Clean, "round") /\ UNCHANGED failed
    /\ UNCHANGED chain_vars

\* Faulty variant (see README, "Mutants"): a transaction not seen in time is given up.
given_up(t) == Clean

still_unresolved(t) == t

\* Not final in time, or nothing was answered in time: a fault, if it was final.
TimeOut ==
    /\ pc = "poll" /\ IF confirmed(tracker.hash) THEN Fault ELSE UNCHANGED faults
    /\ tracker' = still_unresolved(tracker) /\ Goto("round")
    /\ UNCHANGED <<chain_vars, files, failed>>

Crash ==
    /\ pc # "down" /\ Goto("down") /\ tracker' = Clean /\ Fault
    /\ UNCHANGED <<chain_vars, files, failed>>

KeeperStep ==
    \/ Start \/ Pending \/ NothingToDo \/ Submit \/ Send
    \/ Accepted \/ Refused \/ Lost \/ Confirm \/ TimeOut

-----------------------------------------------------------------------------
(* The chain *)

keeper_vars == <<files, tracker, pc>>

\* Whatever the vault answers next is a different plan.
PlanChanges ==
    /\ market' \in Maybe \ {market} /\ failed' = {}
    /\ UNCHANGED <<txs, keeper_vars, faults>>

\* A rebalance succeeds only where there is one to do, and changes the plan.
Include(i) ==
    /\ txs[i].status = "pending"
    /\ \/ /\ market # None
          /\ txs' = [txs EXCEPT ![i].status = "ok"]
          /\ market' \in Maybe \ {market} /\ failed' = {}
       \/ /\ txs' = [txs EXCEPT ![i].status = "failed"]
          /\ UNCHANGED <<market, failed>>
    /\ UNCHANGED <<keeper_vars, faults>>

Finalize(i) ==
    /\ txs[i].status # "pending" /\ ~txs[i].final
    /\ txs' = [txs EXCEPT ![i].final = TRUE]
    /\ UNCHANGED <<market, failed, keeper_vars, faults>>

\* A reorganisation shallower than the confirmation depth takes effects back too.
Reorganise(i) ==
    /\ txs[i].status # "pending" /\ ~txs[i].final
    /\ txs' = [txs EXCEPT ![i].status = "pending"]
    /\ market' \in Maybe /\ failed' = {}
    /\ Fault /\ UNCHANGED keeper_vars

ChainStep ==
    \/ PlanChanges
    \/ \E i \in DOMAIN txs : Include(i) \/ Finalize(i) \/ Reorganise(i)

-----------------------------------------------------------------------------
(* Properties of both keepers *)

\* The file is never longer than its backups, and no hash is known before it is
\* the chain's.
TypeOK ==
    /\ market \in Maybe /\ txs \in Seq(Tx)
    /\ files \in Seq(Tracker) /\ Len(files) \in 1..(MAX_BACKUPS + 1)
    /\ tracker \in Tracker /\ tracker.hash <= Len(txs) /\ disk.hash <= Len(txs)
    /\ pc \in {"down", "round", "send", "accepted", "refused", "lost", "poll"}
    /\ failed \subseteq Plans /\ faults \in 0..MaxFaults

\* keep_vault holds back while anything may be in flight: when a transaction is
\* sent, every earlier one is final, whatever was lost before.
OneInFlight == \A i, j \in DOMAIN txs : i < j => txs[i].final

\* The marker before the broadcast and the hash after it: while the chain is not
\* final about a transaction, the file says so and a restart will find it.
UnresolvedIsSaved ==
    \A i \in DOMAIN txs : ~txs[i].final => disk.hash = i \/ unknown_broadcast(disk)

=============================================================================
