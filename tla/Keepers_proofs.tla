--------------------------- MODULE Keepers_proofs ---------------------------
(***************************************************************************)
(* The swap keeper never has two transactions in flight and never forgets  *)
(* one on disk, for any number of plans, transactions and faults.  Nor     *)
(* does the rebalancer's example keeper, as long as no failed broadcast is *)
(* taken for a rejection and no backup is restored; and each of those adds *)
(* one transaction at most.                                                *)
(***************************************************************************)
EXTENDS SwapKeeper, RebalancerKeeper, TLAPS, SequenceTheorems, FiniteSetTheorems

\* A running process knows, like its file, what may be open.
Memory ==
    pc # "down" =>
        \A i \in DOMAIN txs : ~txs[i].final => tracker.hash = i \/ unknown_broadcast(tracker)

\* Nothing is sent before all earlier transactions are final.
LastMayBeOpen == \A i \in DOMAIN txs : ~txs[i].final => i = Len(txs)

AllFinal == \A i \in DOMAIN txs : txs[i].final

\* What each step of a submission may rely on.
Submission ==
    /\ pc \in {"send", "accepted", "refused", "lost"} =>
         unknown_broadcast(disk) /\ unknown_broadcast(tracker) /\ tracker.plan \in Plans
    /\ pc \in {"send", "refused"} => AllFinal
    /\ pc = "accepted" => Len(txs) > 0
    /\ pc = "poll" => tracker.hash # 0 /\ tracker.hash \in DOMAIN txs
    /\ pc = "down" => tracker = Clean
    /\ \A t \in {tracker, disk} : t.hash # 0 => t.plan \in Plans

\* The inductive invariant of both keepers.
IInv == TypeOK /\ UnresolvedIsSaved /\ Memory /\ LastMayBeOpen /\ Submission

\* A successful save puts the tracker in front of the backups.
LEMMA SavedLemma ==
    ASSUME files \in Seq(Tracker), Len(files) \in 1..(MAX_BACKUPS + 1), NEW t \in Tracker
    PROVE  /\ saved(t) \in Seq(Tracker) /\ Len(saved(t)) \in 1..(MAX_BACKUPS + 1)
           /\ saved(t)[1] = t
<1> DEFINE copies == IF Len(files) <= MAX_BACKUPS THEN Len(files) ELSE MAX_BACKUPS
<1>1. copies \in 0..Len(files) /\ copies <= MAX_BACKUPS
  BY TrackedKeeperAssumption
<1>2. SubSeq(files, 1, copies) \in Seq(Tracker) /\ Len(SubSeq(files, 1, copies)) = copies
  BY <1>1
<1>3. <<t>> \in Seq(Tracker) /\ Len(<<t>>) = 1 /\ <<t>>[1] = t
  OBVIOUS
<1>4. saved(t) = <<t>> \o SubSeq(files, 1, copies)
  BY DEF saved
<1> HIDE DEF copies
<1> QED BY <1>1, <1>2, <1>3, <1>4, TrackedKeeperAssumption

\* The file is the tracker or what it was; the round goes on only with the tracker.
LEMMA SaveLemma ==
    ASSUME TypeOK, NEW t \in Tracker, NEW next, Save(t, next)
    PROVE  /\ tracker' = t
           /\ files' \in Seq(Tracker) /\ Len(files') \in 1..(MAX_BACKUPS + 1)
           /\ faults' \in 0..MaxFaults
           /\ \/ disk' = t /\ pc' \in {next, "round"}
              \/ disk' = disk /\ pc' = "round"
<1>1. /\ files \in Seq(Tracker) /\ Len(files) \in 1..(MAX_BACKUPS + 1)
      /\ disk \in Tracker /\ disk = files[1]
  BY DEF TypeOK, disk
<1>2. CASE files' = saved(t) /\ pc' \in {next, "round"}
  <2>1. files' \in Seq(Tracker) /\ Len(files') \in 1..(MAX_BACKUPS + 1) /\ disk' = t
    BY <1>1, <1>2, SavedLemma DEF disk
  <2> QED BY <1>2, <2>1, TrackedKeeperAssumption DEF Save, Fault, TypeOK
<1>3. CASE files' \in {files, saved(disk)} /\ pc' = "round"
  <2>0. /\ saved(disk) \in Seq(Tracker) /\ Len(saved(disk)) \in 1..(MAX_BACKUPS + 1)
        /\ saved(disk)[1] = disk
    BY <1>1, SavedLemma
  <2>1. files' \in Seq(Tracker) /\ Len(files') \in 1..(MAX_BACKUPS + 1) /\ files'[1] = files[1]
    <3>1. CASE files' = files
      BY <1>1, <3>1
    <3>2. CASE files' = saved(disk)
      BY <1>1, <2>0, <3>2
    <3> QED BY <1>3, <3>1, <3>2
  <2> QED BY <1>3, <2>1, TrackedKeeperAssumption DEF Save, Fault, TypeOK, disk
<1> QED BY <1>2, <1>3 DEF Save, Goto

\* A memory that is free has nothing in flight.
LEMMA FreeLemma ==
    ASSUME IInv, pc # "down", free(tracker)
    PROVE  AllFinal
BY DEF IInv, Memory, free, unknown_broadcast, AllFinal, TypeOK

LEMMA ConfirmedLemma ==
    ASSUME IInv, pc = "poll", confirmed(tracker.hash)
    PROVE  AllFinal
<1>1. tracker.hash \in DOMAIN txs /\ tracker.hash # 0
  BY DEF IInv, Submission, TypeOK
<1> QED BY <1>1 DEF IInv, Memory, unknown_broadcast, AllFinal, confirmed

LEMMA CleanLemma == Clean \in Tracker /\ ~Clean.broadcasting /\ Clean.hash = 0
BY DEF Clean, Tracker, Maybe

LEMMA RejectedLemma ==
    ASSUME NEW t \in Tracker
    PROVE  rejected(t) \in Tracker /\ rejected(t).hash = 0
BY DEF rejected, Clean, Tracker, Maybe

\* Where everything is final, any tracker may be saved at the end of a round.
LEMMA EndOfRound ==
    ASSUME IInv, AllFinal, NEW t \in Tracker, t.hash = 0, Save(t, "round"),
           UNCHANGED chain_vars, failed' \subseteq Plans
    PROVE  IInv'
<1>1. /\ tracker' = t /\ pc' = "round" /\ faults' \in 0..MaxFaults
      /\ files' \in Seq(Tracker) /\ Len(files') \in 1..(MAX_BACKUPS + 1)
      /\ disk' = t \/ disk' = disk
  BY SaveLemma DEF IInv
<1>2. TypeOK'
  BY <1>1 DEF IInv, TypeOK, chain_vars
<1>3. AllFinal'
  BY DEF AllFinal, chain_vars
<1> QED BY <1>1, <1>2, <1>3 DEF IInv, UnresolvedIsSaved, Memory, LastMayBeOpen, Submission, AllFinal

-----------------------------------------------------------------------------

LEMMA InitIInv == ASSUME Init PROVE IInv
<1>1. files \in Seq(Tracker) /\ Len(files) = 1 /\ disk = Clean
  BY CleanLemma DEF Init, disk
<1>2. txs \in Seq(Tx) /\ Len(txs) = 0 /\ DOMAIN txs = {}
  BY DEF Init
<1> QED
  BY <1>1, <1>2, CleanLemma, TrackedKeeperAssumption
     DEF Init, IInv, TypeOK, UnresolvedIsSaved, Memory, LastMayBeOpen, Submission

LEMMA StartStep == ASSUME IInv, Start PROVE IInv'
<1>1. disk \in Tracker
  BY DEF IInv, TypeOK, disk
<1>2. TypeOK'
  BY <1>1 DEF IInv, TypeOK, Start, Goto, chain_vars, disk
<1> QED
  BY <1>1, <1>2
     DEF IInv, TypeOK, UnresolvedIsSaved, Memory, LastMayBeOpen, Submission, Start, Goto,
         chain_vars, disk

LEMMA PendingStep == ASSUME IInv, Pending PROVE IInv'
<1>1. TypeOK'
  BY DEF IInv, TypeOK, Pending, Goto, chain_vars, disk
<1>2. tracker.hash \in DOMAIN txs
  BY DEF IInv, TypeOK, Pending, Tracker
<1> QED
  BY <1>1, <1>2
     DEF IInv, UnresolvedIsSaved, Memory, LastMayBeOpen, Submission, Pending, Goto, chain_vars,
         disk

LEMMA NothingToDoStep == ASSUME IInv, NothingToDo PROVE IInv'
<1>1. AllFinal
  BY FreeLemma DEF NothingToDo
<1> DEFINE t == [tracker EXCEPT !.suppressed = None]
<1>2. t \in Tracker /\ t.hash = 0
  BY DEF IInv, TypeOK, Tracker, Maybe, NothingToDo, free
<1>3. Save(t, "round") /\ UNCHANGED chain_vars /\ failed' \subseteq Plans
  BY DEF NothingToDo, IInv, TypeOK
<1> QED BY <1>1, <1>2, <1>3, EndOfRound

LEMMA SubmitStep == ASSUME IInv, Submit PROVE IInv'
<1>1. AllFinal
  BY FreeLemma DEF Submit
<1> DEFINE t == marked(market)
<1>2. t \in Tracker /\ unknown_broadcast(t) /\ t.plan \in Plans
  BY DEF IInv, TypeOK, Tracker, Maybe, Submit, free, marked, unknown_broadcast
<1>3. Save(t, "send") /\ UNCHANGED chain_vars /\ UNCHANGED failed
  BY DEF Submit
<1> HIDE DEF t
<1>4. /\ tracker' = t /\ faults' \in 0..MaxFaults
      /\ files' \in Seq(Tracker) /\ Len(files') \in 1..(MAX_BACKUPS + 1)
      /\ (disk' = t /\ pc' \in {"send", "round"}) \/ (disk' = disk /\ pc' = "round")
  BY <1>2, <1>3, SaveLemma DEF IInv
<1>5. t.hash = 0
  BY <1>2 DEF unknown_broadcast
<1>6. TypeOK'
  <2>1. Len(txs) \in Nat /\ market' = market /\ txs' = txs /\ failed' = failed
    BY <1>3 DEF IInv, TypeOK, chain_vars
  <2> QED BY <1>2, <1>4, <1>5, <2>1 DEF IInv, TypeOK
<1>7. AllFinal'
  BY <1>1, <1>3 DEF AllFinal, chain_vars
<1> QED
  BY <1>2, <1>4, <1>6, <1>7
     DEF IInv, UnresolvedIsSaved, Memory, LastMayBeOpen, Submission, AllFinal

LEMMA SendStep == ASSUME IInv, Send PROVE IInv'
<1>1. AllFinal /\ unknown_broadcast(disk) /\ unknown_broadcast(tracker) /\ tracker.plan \in Plans
  BY DEF IInv, Submission, Send
<1>2. /\ UNCHANGED <<market, files, tracker, failed>> /\ faults' \in 0..MaxFaults /\ disk' = disk
      /\ pc' \in {"accepted", "refused", "lost"} /\ (pc' = "accepted" => Len(txs') > 0)
      /\ (pc' = "refused" => UNCHANGED txs)
  <2>1. Fault => faults' \in 0..MaxFaults
    BY TrackedKeeperAssumption DEF Fault, IInv, TypeOK
  <2>2. Len(Append(txs, [plan |-> tracker.plan, status |-> "pending", final |-> FALSE])) > 0
    BY DEF IInv, TypeOK
  <2> QED BY <2>1, <2>2 DEF Send, Goto, IInv, TypeOK, disk
<1>3. CASE UNCHANGED txs
  BY <1>1, <1>2, <1>3
     DEF IInv, TypeOK, UnresolvedIsSaved, Memory, LastMayBeOpen, Submission, AllFinal,
         unknown_broadcast
<1>4. CASE txs' = Append(txs, [plan |-> tracker.plan, status |-> "pending", final |-> FALSE])
           /\ pc' \in {"accepted", "lost"}
  <2> DEFINE tx == [plan |-> tracker.plan, status |-> "pending", final |-> FALSE]
  <2>1. tx \in Tx
    BY <1>1 DEF Tx
  <2> HIDE DEF tx
  <2>2. txs' = Append(txs, tx) BY <1>4 DEF tx
  <2>3. /\ txs' \in Seq(Tx) /\ Len(txs') = Len(txs) + 1
        /\ \A i \in DOMAIN txs' : i # Len(txs') => i \in DOMAIN txs /\ txs'[i] = txs[i]
    BY <2>1, <2>2 DEF IInv, TypeOK
  <2>4. LastMayBeOpen'
    BY <1>1, <2>3 DEF LastMayBeOpen, AllFinal
  <2>5. /\ market' = market /\ files' = files /\ tracker' = tracker /\ failed' = failed
        /\ Len(txs) \in Nat /\ tracker.hash = 0 /\ disk.hash = 0
    <3>1. market' = market /\ files' = files /\ tracker' = tracker /\ failed' = failed
      BY <1>2
    <3>2. Len(txs) \in Nat
      BY DEF IInv, TypeOK
    <3> QED BY <1>1, <3>1, <3>2 DEF unknown_broadcast
  <2>6. tracker'.hash <= Len(txs') /\ disk'.hash <= Len(txs')
    BY <1>2, <2>3, <2>5 DEF IInv, TypeOK
  <2>7. TypeOK'
    BY <1>2, <2>3, <2>5, <2>6 DEF IInv, TypeOK
  <2> QED
    BY <1>1, <1>2, <1>4, <2>4, <2>5, <2>7
       DEF IInv, UnresolvedIsSaved, Memory, Submission, unknown_broadcast
<1> QED BY <1>3, <1>4 DEF Send, Goto

LEMMA AcceptedStep == ASSUME IInv, Accepted PROVE IInv'
<1> DEFINE t == [tracker EXCEPT !.hash = Len(txs), !.broadcasting = FALSE]
<1>1. t \in Tracker /\ t.hash = Len(txs) /\ t.plan = tracker.plan
  <2>1. Len(txs) \in Nat /\ tracker \in Tracker
    BY DEF IInv, TypeOK
  <2> QED BY <2>1 DEF Tracker
<1>2. Save(t, "poll") /\ UNCHANGED chain_vars /\ UNCHANGED failed
  BY DEF Accepted
<1> HIDE DEF t
<1>3. /\ tracker' = t /\ faults' \in 0..MaxFaults
      /\ files' \in Seq(Tracker) /\ Len(files') \in 1..(MAX_BACKUPS + 1)
      /\ (disk' = t /\ pc' \in {"poll", "round"}) \/ (disk' = disk /\ pc' = "round")
  BY <1>1, <1>2, SaveLemma DEF IInv
<1>4. TypeOK'
  BY <1>1, <1>2, <1>3 DEF IInv, TypeOK, chain_vars
<1>5. unknown_broadcast(disk) /\ Len(txs) > 0 /\ tracker.plan \in Plans
  BY DEF IInv, Submission, Accepted
<1>6. Len(txs) \in DOMAIN txs
  BY <1>5 DEF IInv, TypeOK
<1> QED
  BY <1>1, <1>2, <1>3, <1>4, <1>5, <1>6
     DEF IInv, UnresolvedIsSaved, Memory, LastMayBeOpen, Submission, unknown_broadcast, chain_vars

LEMMA RefusedStep == ASSUME IInv, Refused PROVE IInv'
<1>1. AllFinal /\ tracker.plan \in Plans
  BY DEF IInv, Submission, Refused
<1>2. rejected(tracker) \in Tracker /\ rejected(tracker).hash = 0
  BY RejectedLemma DEF IInv, TypeOK
<1>3. Save(rejected(tracker), "round") /\ UNCHANGED chain_vars /\ failed' \subseteq Plans
  BY <1>1 DEF Refused, remember, IInv, TypeOK
<1> QED BY <1>1, <1>2, <1>3, EndOfRound

LEMMA LostStep == ASSUME IInv, Lost PROVE IInv'
BY DEF IInv, TypeOK, UnresolvedIsSaved, Memory, LastMayBeOpen, Submission, Lost, Goto,
       chain_vars, disk

LEMMA ConfirmStep == ASSUME IInv, Confirm PROVE IInv'
<1>1. AllFinal /\ UNCHANGED chain_vars
  BY ConfirmedLemma DEF Confirm
<1>2. CASE Save(rejected(tracker), "round") /\ remember(tracker.plan)
  <2>1. rejected(tracker) \in Tracker /\ rejected(tracker).hash = 0
    BY RejectedLemma DEF IInv, TypeOK
  <2>2. tracker.plan \in Plans
    BY DEF IInv, Submission, TypeOK, Tracker, Confirm
  <2>3. failed' \subseteq Plans
    BY <1>2, <2>2 DEF remember, IInv, TypeOK
  <2> QED BY <1>1, <1>2, <2>1, <2>3, EndOfRound
<1>3. CASE Save(Clean, "round") /\ UNCHANGED failed
  BY <1>1, <1>3, CleanLemma, EndOfRound DEF IInv, TypeOK
<1> QED BY <1>2, <1>3 DEF Confirm

LEMMA TimeOutStep == ASSUME IInv, TimeOut PROVE IInv'
<1>1. faults' \in 0..MaxFaults
  BY TrackedKeeperAssumption DEF Fault, IInv, TypeOK, TimeOut
<1> QED
  BY <1>1 DEF IInv, TypeOK, UnresolvedIsSaved, Memory, LastMayBeOpen, Submission, TimeOut, Goto,
       still_unresolved, chain_vars, disk

LEMMA CrashStep == ASSUME IInv, Crash PROVE IInv'
<1>1. faults' \in 0..MaxFaults
  BY TrackedKeeperAssumption DEF Fault, IInv, TypeOK, Crash
<1> QED
  BY <1>1, CleanLemma
     DEF IInv, TypeOK, UnresolvedIsSaved, Memory, LastMayBeOpen, Submission, Crash, Goto,
         chain_vars, disk

-----------------------------------------------------------------------------
(* The chain's steps only ever make a transaction final. *)

Finalizes ==
    /\ UNCHANGED keeper_vars /\ market' \in Maybe /\ failed' \subseteq Plans
    /\ faults' \in 0..MaxFaults /\ txs' \in Seq(Tx) /\ Len(txs') = Len(txs)
    /\ \A i \in DOMAIN txs : txs[i].final => txs'[i].final

LEMMA ChainLemma == ASSUME IInv, Finalizes PROVE IInv'
<1> USE DEF Finalizes
<1>1. files' = files /\ tracker' = tracker /\ pc' = pc /\ disk' = disk
  BY DEF keeper_vars, disk
<1>2. DOMAIN txs' = DOMAIN txs
  BY DEF IInv, TypeOK
<1>3. TypeOK'
  BY <1>1 DEF IInv, TypeOK
<1>4. UnresolvedIsSaved' /\ Memory' /\ LastMayBeOpen'
  BY <1>1, <1>2 DEF IInv, UnresolvedIsSaved, Memory, LastMayBeOpen
<1>5. Submission'
  BY <1>1, <1>2 DEF IInv, Submission, AllFinal
<1> QED BY <1>3, <1>4, <1>5 DEF IInv

LEMMA PlanChangesStep == ASSUME TypeOK, PlanChanges PROVE Finalizes
BY DEF PlanChanges, TypeOK, Finalizes

LEMMA IncludeStep == ASSUME TypeOK, NEW i \in DOMAIN txs, Include(i) PROVE Finalizes
<1>1. PICK s \in {"ok", "failed"} : txs' = [txs EXCEPT ![i].status = s]
  BY DEF Include
<1>2. txs \in Seq(Tx) /\ txs[i] \in Tx
  BY DEF TypeOK
<1>3. /\ txs' \in Seq(Tx) /\ Len(txs') = Len(txs)
      /\ \A j \in DOMAIN txs : txs[j].final => txs'[j].final
  BY <1>1, <1>2 DEF Tx
<1>4. /\ UNCHANGED keeper_vars /\ faults' \in 0..MaxFaults
      /\ market' \in Maybe /\ failed' \subseteq Plans
  BY DEF Include, TypeOK
<1> QED BY <1>3, <1>4 DEF Finalizes

LEMMA FinalizeStep == ASSUME TypeOK, NEW i \in DOMAIN txs, Finalize(i) PROVE Finalizes
<1>1. txs' = [txs EXCEPT ![i].final = TRUE]
  BY DEF Finalize
<1>2. txs \in Seq(Tx) /\ txs[i] \in Tx
  BY DEF TypeOK
<1>3. /\ txs' \in Seq(Tx) /\ Len(txs') = Len(txs)
      /\ \A j \in DOMAIN txs : txs[j].final => txs'[j].final
  <2> DEFINE tx == [txs[i] EXCEPT !.final = TRUE]
  <2>1. tx \in Tx /\ tx.final
    BY <1>2, Zenon DEF Tx
  <2>2. txs' = [txs EXCEPT ![i] = tx]
    BY <1>1
  <2> HIDE DEF tx
  <2>3. txs' \in Seq(Tx) /\ Len(txs') = Len(txs) /\ txs'[i] = tx
    BY <1>2, <2>1, <2>2
  <2> QED BY <1>2, <2>1, <2>2, <2>3
<1>4. /\ UNCHANGED keeper_vars /\ faults' \in 0..MaxFaults
      /\ market' \in Maybe /\ failed' \subseteq Plans
  BY DEF Finalize, TypeOK, keeper_vars
<1> QED BY <1>3, <1>4 DEF Finalizes

LEMMA ReorganiseStep == ASSUME TypeOK, NEW i \in DOMAIN txs, Reorganise(i) PROVE Finalizes
<1>1. txs' = [txs EXCEPT ![i].status = "pending"]
  BY DEF Reorganise
<1>2. txs \in Seq(Tx) /\ txs[i] \in Tx
  BY DEF TypeOK
<1>3. /\ txs' \in Seq(Tx) /\ Len(txs') = Len(txs)
      /\ \A j \in DOMAIN txs : txs[j].final => txs'[j].final
  BY <1>1, <1>2 DEF Tx
<1>4. /\ UNCHANGED keeper_vars /\ faults' \in 0..MaxFaults
      /\ market' \in Maybe /\ failed' \subseteq Plans
  BY TrackedKeeperAssumption DEF Reorganise, Fault, TypeOK
<1> QED BY <1>3, <1>4 DEF Finalizes

LEMMA ChainStepFinalizes == ASSUME TypeOK, ChainStep PROVE Finalizes
BY PlanChangesStep, IncludeStep, FinalizeStep, ReorganiseStep DEF ChainStep

-----------------------------------------------------------------------------

LEMMA StutterStep == ASSUME IInv, UNCHANGED vars PROVE IInv'
BY DEF IInv, TypeOK, UnresolvedIsSaved, Memory, LastMayBeOpen, Submission, AllFinal, vars, disk

LEMMA OneInFlightLemma == IInv => OneInFlight
<1> SUFFICES ASSUME IInv, NEW i \in DOMAIN txs, NEW j \in DOMAIN txs, i < j
             PROVE  txs[i].final
  BY DEF OneInFlight
<1>1. txs \in Seq(Tx) /\ j <= Len(txs) /\ i \in Int /\ j \in Int
  BY DEF IInv, TypeOK
<1>2. i # Len(txs)
  BY <1>1
<1> QED BY <1>2 DEF IInv, LastMayBeOpen

LEMMA SharedStep == ASSUME IInv, KeeperStep \/ Crash \/ ChainStep PROVE IInv'
<1>1. CASE KeeperStep
  BY <1>1, StartStep, PendingStep, NothingToDoStep, SubmitStep, SendStep, AcceptedStep,
     RefusedStep, LostStep, ConfirmStep, TimeOutStep DEF KeeperStep
<1>2. CASE Crash
  BY <1>2, CrashStep
<1>3. CASE ChainStep
  BY <1>3, ChainStepFinalizes, ChainLemma DEF IInv
<1> QED BY <1>1, <1>2, <1>3

-----------------------------------------------------------------------------
(* The swap keeper *)

LEMMA SpecIInv == Spec => []IInv
<1>1. IInv /\ [Next]_vars => IInv'
  BY SharedStep, StutterStep DEF Next
<1> QED BY InitIInv, <1>1, PTL DEF Spec

\* Every state of the swap keeper has its type: one file and its backups, and no
\* hash the chain did not give.
THEOREM SwapKeeperTypeOK == Spec => []TypeOK
<1>1. IInv => TypeOK
  BY DEF IInv
<1> QED BY <1>1, SpecIInv, PTL

\* Whatever crashes, fails to be written or is never answered, a transaction is
\* sent only when all those before it are final.
THEOREM SwapKeeperOneInFlight == Spec => []OneInFlight
<1> QED BY OneInFlightLemma, SpecIInv, PTL

\* A restart always finds in the file the transaction the chain has not settled,
\* or the marker that one may exist.
THEOREM SwapKeeperUnresolvedIsSaved == Spec => []UnresolvedIsSaved
<1>1. IInv => UnresolvedIsSaved
  BY DEF IInv
<1> QED BY <1>1, SpecIInv, PTL

-----------------------------------------------------------------------------
(* The rebalancer's keeper *)

LEMMA PreflightRejectsStep == ASSUME IInv, PreflightRejects PROVE IInv'
<1> DEFINE t == [tracker EXCEPT !.plan = market]
<1>1. AllFinal
  BY FreeLemma DEF PreflightRejects
<1>2. market \in Plans
  BY DEF PreflightRejects, IInv, TypeOK, Maybe
<1>3. t \in Tracker
  BY <1>2 DEF IInv, TypeOK, Tracker, Maybe
<1>4. Save(rejected(t), "round") /\ UNCHANGED chain_vars /\ failed' \subseteq Plans
  BY <1>2 DEF PreflightRejects, remember, IInv, TypeOK
<1>5. rejected(t) \in Tracker /\ rejected(t).hash = 0
  BY <1>3, RejectedLemma
<1> QED BY <1>1, <1>4, <1>5, EndOfRound

LEMMA ResolveStep == ASSUME IInv, Resolve PROVE IInv'
<1> DEFINE t == resolved(disk)
<1>1. disk \in Tracker /\ pc = "down" /\ Resolvable(disk)
  BY DEF IInv, TypeOK, disk, Resolve
<1>2. AllFinal
  BY <1>1 DEF IInv, TypeOK, UnresolvedIsSaved, Resolvable, Final, AllFinal
<1>3. t \in Tracker /\ t.hash = 0 /\ ~t.broadcasting
  BY <1>1 DEF resolved, Clean, Tracker, Maybe, IInv, Submission, Resolvable
<1> HIDE DEF t
<1>4. files \in Seq(Tracker) /\ Len(files) \in 1..(MAX_BACKUPS + 1) /\ files' = saved(t)
  BY DEF IInv, TypeOK, Resolve, t
<1>5. files' \in Seq(Tracker) /\ Len(files') \in 1..(MAX_BACKUPS + 1) /\ disk' = t
  BY <1>3, <1>4, SavedLemma DEF disk
<1>6. /\ market' = market /\ txs' = txs /\ tracker' = tracker /\ pc' = pc /\ faults' = faults
      /\ failed' = {}
  BY DEF Resolve, chain_vars
<1>7. TypeOK'
  BY <1>3, <1>5, <1>6 DEF IInv, TypeOK
<1> QED
  BY <1>1, <1>2, <1>3, <1>5, <1>6, <1>7
     DEF IInv, UnresolvedIsSaved, Memory, LastMayBeOpen, Submission, AllFinal

LEMMA NoneMisread ==
    ASSUME MaxMisread = 0, MaxRestores = 0
    PROVE  RkSpec => [](IInv /\ commands = [misread |-> 0, restored |-> 0])
<1> DEFINE RkInv == IInv /\ commands = [misread |-> 0, restored |-> 0]
<1>1. RkInit => RkInv
  BY InitIInv DEF RkInit
<1>2. RkInv /\ [RkNext]_rk_vars => RkInv'
  <2> SUFFICES ASSUME RkInv, [RkNext]_rk_vars PROVE RkInv'
    OBVIOUS
  <2>1. ~Misread /\ ~RestoreBackup
    BY DEF Misread, RestoreBackup
  <2>2. CASE (KeeperStep \/ Crash \/ ChainStep) /\ UNCHANGED commands
    BY <2>2, SharedStep
  <2>3. CASE PreflightRejects
    BY <2>3, PreflightRejectsStep DEF PreflightRejects
  <2>4. CASE Resolve
    BY <2>4, ResolveStep DEF Resolve
  <2>5. CASE UNCHANGED rk_vars
    BY <2>5, StutterStep DEF rk_vars
  <2> QED BY <2>1, <2>2, <2>3, <2>4, <2>5 DEF RkNext
<1> QED BY <1>1, <1>2, PTL DEF RkSpec

\* The example keeper has one transaction in flight, however its calls fail and
\* whatever is resolved, when it takes no lost answer for a rejection and no
\* backup is put in the place of its file.
THEOREM RebalancerKeeperOneInFlight ==
    ASSUME MaxMisread = 0, MaxRestores = 0
    PROVE  RkSpec => []OneInFlight
<1> QED BY NoneMisread, OneInFlightLemma, PTL

\* Under the same conditions a restart finds the transaction it left.
THEOREM RebalancerKeeperUnresolvedIsSaved ==
    ASSUME MaxMisread = 0, MaxRestores = 0
    PROVE  RkSpec => []UnresolvedIsSaved
<1>1. IInv => UnresolvedIsSaved
  BY DEF IInv
<1> QED BY <1>1, NoneMisread, PTL

-----------------------------------------------------------------------------
(* What failures taken for rejections and restored backups cost *)

Open == {i \in DOMAIN txs : ~txs[i].final}

\* What a process, or a restart, that has t for its tracker will not wait for.
Forgotten(t) == {i \in Open : t.hash # i /\ ~unknown_broadcast(t)}

Forgivable == commands.misread + commands.restored

\* The hashes of the file and of its backups are the chain's too.
FilesKnown ==
    /\ \A n \in DOMAIN files :
         files[n].hash <= Len(txs) /\ (files[n].hash # 0 => files[n].plan \in Plans)
    /\ tracker.hash # 0 => tracker.plan \in Plans

RkSubmission ==
    /\ pc \in {"send", "accepted", "refused", "lost"} =>
         unknown_broadcast(disk) /\ unknown_broadcast(tracker) /\ tracker.plan \in Plans
    /\ pc \in {"send", "refused"} => Cardinality(Open) <= Forgivable
    /\ pc = "accepted" => Len(txs) > 0 /\ Cardinality(Open \ {Len(txs)}) <= Forgivable
    /\ pc = "poll" => tracker.hash # 0
    /\ pc = "down" => tracker = Clean

\* The inductive invariant of the example keeper, whatever goes wrong.
RkIInv ==
    /\ TypeOK /\ commands \in [misread : Nat, restored : Nat]
    /\ FilesKnown /\ RkSubmission
    /\ Cardinality(Open) <= 1 + Forgivable
    /\ Cardinality(Forgotten(disk)) <= Forgivable
    /\ pc # "down" => Cardinality(Forgotten(tracker)) <= Forgivable

LEMMA OpenFinite ==
    ASSUME TypeOK
    PROVE  IsFiniteSet(Open) /\ Cardinality(Open) \in Nat
<1>1. DOMAIN txs = 1..Len(txs) /\ Len(txs) \in Nat
  BY DEF TypeOK
<1>2. IsFiniteSet(DOMAIN txs)
  BY <1>1, FS_Interval
<1>3. IsFiniteSet(Open)
  BY <1>2, FS_Subset DEF Open
<1> QED BY <1>3, FS_CardinalityType

LEMMA Fewer ==
    ASSUME TypeOK, NEW S, NEW T, T \subseteq S, S \subseteq Open
    PROVE  Cardinality(S) \in Nat /\ Cardinality(T) \in Nat /\ Cardinality(T) <= Cardinality(S)
<1>1. IsFiniteSet(S)
  BY OpenFinite, FS_Subset
<1>2. IsFiniteSet(T) /\ Cardinality(T) <= Cardinality(S)
  BY <1>1, FS_Subset
<1> QED BY <1>1, <1>2, FS_CardinalityType

LEMMA ForgottenOpen == \A t : Forgotten(t) \subseteq Open
BY DEF Forgotten

\* One more transaction is at most one more that is open.
LEMMA OneMore ==
    ASSUME TypeOK, NEW i
    PROVE  /\ Cardinality(Open \ {i}) \in Nat
           /\ Cardinality(Open) <= Cardinality(Open \ {i}) + 1
<1>1. IsFiniteSet(Open \ {i})
      /\ Cardinality(Open \ {i}) = IF i \in Open THEN Cardinality(Open) - 1 ELSE Cardinality(Open)
  BY OpenFinite, FS_RemoveElement
<1>2. Cardinality(Open \ {i}) \in Nat
  BY <1>1, FS_CardinalityType
<1> QED BY <1>1, <1>2, OpenFinite

LEMMA ForgivableNat ==
    ASSUME commands \in [misread : Nat, restored : Nat] PROVE Forgivable \in Nat
BY DEF Forgivable

\* A process that is not waiting for anything has forgotten all that is open.
LEMMA NothingAwaited ==
    ASSUME RkIInv, NEW t, ~unknown_broadcast(t), t.hash \notin Open
    PROVE  Forgotten(t) = Open
BY DEF Forgotten

\* A saved tracker the chain knows leaves files the chain knows.
LEMMA SavedKnown ==
    ASSUME TypeOK, FilesKnown,
           NEW t \in Tracker, t.hash <= Len(txs), t.hash # 0 => t.plan \in Plans,
           NEW n \in DOMAIN saved(t)
    PROVE  saved(t)[n].hash <= Len(txs) /\ (saved(t)[n].hash # 0 => saved(t)[n].plan \in Plans)
<1> DEFINE copies == IF Len(files) <= MAX_BACKUPS THEN Len(files) ELSE MAX_BACKUPS
           tail   == SubSeq(files, 1, copies)
<1>1. files \in Seq(Tracker) /\ copies \in 0..Len(files)
  BY TrackedKeeperAssumption DEF TypeOK
<1>2. /\ tail \in Seq(Tracker) /\ Len(tail) = copies
      /\ \A m \in DOMAIN tail : m \in DOMAIN files /\ tail[m] = files[m]
  BY <1>1
<1>3. saved(t) = <<t>> \o tail
  BY DEF saved
<1> HIDE DEF tail, copies
<1>4. <<t>> \in Seq(Tracker) /\ Len(<<t>>) = 1 /\ <<t>>[1] = t
  OBVIOUS
<1>5. n # 1 => n - 1 \in DOMAIN tail /\ saved(t)[n] = tail[n - 1]
  BY <1>1, <1>2, <1>3, <1>4
<1>6. n = 1 => saved(t)[n] = t
  BY <1>2, <1>3, <1>4
<1> QED BY <1>2, <1>5, <1>6 DEF FilesKnown

LEMMA FilesSaved ==
    ASSUME TypeOK, FilesKnown,
           NEW t \in Tracker, t.hash <= Len(txs), t.hash # 0 => t.plan \in Plans,
           NEW next, Save(t, next), UNCHANGED chain_vars
    PROVE  FilesKnown'
<1>1. tracker' = t /\ txs' = txs /\ files' \in {saved(t), saved(disk), files}
  BY DEF Save, chain_vars
<1>2. disk \in Tracker /\ disk.hash <= Len(txs) /\ (disk.hash # 0 => disk.plan \in Plans)
  BY DEF TypeOK, FilesKnown, disk
<1> QED BY <1>1, <1>2, SavedKnown DEF FilesKnown

\* What a save leaves to be waited for, if the chain stands still.
LEMMA SavedForgets ==
    ASSUME RkIInv, NEW t \in Tracker, NEW next, Save(t, next), UNCHANGED chain_vars,
           Forgivable' \in Nat, Forgivable <= Forgivable', Cardinality(Forgotten(t)) <= Forgivable'
    PROVE  /\ Open' = Open /\ Cardinality(Open') <= 1 + Forgivable'
           /\ Cardinality(Forgotten(disk)') <= Forgivable'
           /\ Cardinality(Forgotten(tracker)') <= Forgivable'
<1>1. tracker' = t /\ (disk' = t \/ disk' = disk) /\ txs' = txs
  BY SaveLemma DEF RkIInv, chain_vars
<1>2. Open' = Open
  BY <1>1 DEF Open
<1>3. /\ Forgotten(tracker)' = Forgotten(t)
      /\ Forgotten(disk)' = Forgotten(t) \/ Forgotten(disk)' = Forgotten(disk)
  BY <1>1, <1>2 DEF Forgotten, unknown_broadcast
<1>4. /\ Cardinality(Open) \in Nat /\ Cardinality(Forgotten(disk)) \in Nat /\ Forgivable \in Nat
      /\ Cardinality(Open) <= 1 + Forgivable /\ Cardinality(Forgotten(disk)) <= Forgivable
  BY OpenFinite, ForgottenOpen, Fewer, ForgivableNat DEF RkIInv
<1>5. Cardinality(Open) <= 1 + Forgivable' /\ Cardinality(Forgotten(disk)) <= Forgivable'
  BY <1>4
<1> QED BY <1>2, <1>3, <1>5

\* A round ends well where what is open is paid for.
LEMMA RkEndOfRound ==
    ASSUME RkIInv, NEW t \in Tracker, t.hash = 0, Save(t, "round"), UNCHANGED chain_vars,
           failed' \subseteq Plans, commands' \in [misread : Nat, restored : Nat],
           Forgivable <= Forgivable', Cardinality(Open) <= Forgivable'
    PROVE  RkIInv'
<1>1. /\ tracker' = t /\ pc' = "round" /\ faults' \in 0..MaxFaults
      /\ files' \in Seq(Tracker) /\ Len(files') \in 1..(MAX_BACKUPS + 1)
      /\ disk' = t \/ disk' = disk
  BY SaveLemma DEF RkIInv
<1>2. TypeOK'
  BY <1>1 DEF RkIInv, TypeOK, chain_vars
<1>3. Forgivable' \in Nat /\ Forgivable \in Nat
  BY ForgivableNat DEF RkIInv, Forgivable
<1>4. FilesKnown'
  <2>1. t.hash <= Len(txs)
    BY DEF RkIInv, TypeOK
  <2> QED BY <2>1, FilesSaved DEF RkIInv
<1>5. Cardinality(Forgotten(t)) <= Forgivable'
  <2>1. /\ Cardinality(Forgotten(t)) <= Cardinality(Open)
        /\ Cardinality(Forgotten(t)) \in Nat /\ Cardinality(Open) \in Nat
    BY ForgottenOpen, Fewer DEF RkIInv
  <2> QED BY <1>3, <2>1
<1>6. /\ Cardinality(Open') <= 1 + Forgivable'
      /\ Cardinality(Forgotten(disk)') <= Forgivable'
      /\ Cardinality(Forgotten(tracker)') <= Forgivable'
  BY <1>3, <1>5, SavedForgets
<1>7. RkSubmission'
  BY <1>1 DEF RkSubmission
<1> QED BY <1>2, <1>4, <1>6, <1>7 DEF RkIInv

\* A process that has nothing to wait for: what is open is paid for.
LEMMA FreeIsPaid ==
    ASSUME RkIInv, NEW t, ~unknown_broadcast(t), t.hash \notin Open,
           Cardinality(Forgotten(t)) <= Forgivable
    PROVE  Cardinality(Open) <= Forgivable
BY NothingAwaited

LEMMA ZeroNotOpen == ASSUME TypeOK PROVE 0 \notin Open
<1>1. DOMAIN txs = 1..Len(txs)
  BY DEF TypeOK
<1> QED BY <1>1 DEF Open

LEMMA RkFree ==
    ASSUME RkIInv, pc # "down", free(tracker)
    PROVE  Cardinality(Open) <= Forgivable
<1>1. ~unknown_broadcast(tracker) /\ tracker.hash \notin Open
  BY ZeroNotOpen DEF RkIInv, free, unknown_broadcast
<1> QED BY <1>1, FreeIsPaid DEF RkIInv

LEMMA RkConfirmed ==
    ASSUME RkIInv, pc = "poll", confirmed(tracker.hash)
    PROVE  Cardinality(Open) <= Forgivable
<1>1. ~unknown_broadcast(tracker) /\ tracker.hash \notin Open
  BY DEF RkIInv, RkSubmission, Open, confirmed, unknown_broadcast
<1> QED BY <1>1, FreeIsPaid DEF RkIInv

LEMMA SameForgivable ==
    ASSUME RkIInv, UNCHANGED commands
    PROVE  Forgivable' = Forgivable /\ Forgivable <= Forgivable'
<1>1. Forgivable' = Forgivable
  BY DEF Forgivable
<1>2. Forgivable \in Nat
  BY ForgivableNat DEF RkIInv
<1> QED BY <1>1, <1>2

LEMMA RkInitIInv == ASSUME RkInit PROVE RkIInv
<1>1. TypeOK
  BY InitIInv DEF RkInit, IInv
<1>2. /\ commands = [misread |-> 0, restored |-> 0] /\ Forgivable = 0
      /\ files = <<Clean>> /\ tracker = Clean /\ pc = "down" /\ txs = <<>>
  BY DEF RkInit, Init, Forgivable
<1>3. FilesKnown
  BY <1>2, CleanLemma DEF FilesKnown
<1>4. Open = {} /\ Forgotten(disk) = {} /\ Forgotten(tracker) = {}
  BY <1>2 DEF Open, Forgotten
<1>5. Cardinality({}) = 0
  BY FS_EmptySet
<1>6. RkSubmission
  BY <1>2 DEF RkSubmission
<1> QED BY <1>1, <1>2, <1>3, <1>4, <1>5, <1>6 DEF RkIInv

LEMMA RkStart == ASSUME RkIInv, Start, UNCHANGED commands PROVE RkIInv'
<1>1. /\ disk \in Tracker /\ disk = files[1] /\ 1 \in DOMAIN files
      /\ txs' = txs /\ files' = files /\ tracker' = disk /\ disk' = disk /\ pc' = "round"
  BY DEF RkIInv, TypeOK, disk, Start, Goto, chain_vars
<1>2. TypeOK'
  BY <1>1 DEF RkIInv, TypeOK, Start, chain_vars
<1>3. FilesKnown'
  BY <1>1 DEF RkIInv, FilesKnown
<1>4. Open' = Open /\ Forgotten(disk)' = Forgotten(disk) /\ Forgotten(tracker)' = Forgotten(disk)
  BY <1>1 DEF Open, Forgotten, unknown_broadcast
<1>5. RkSubmission'
  BY <1>1 DEF RkSubmission
<1> QED BY <1>1, <1>2, <1>3, <1>4, <1>5, SameForgivable DEF RkIInv

\* A step of the process that touches neither chain, file nor tracker.
LEMMA RkMove ==
    ASSUME RkIInv, UNCHANGED <<chain_vars, files, tracker, failed, commands>>,
           faults' \in 0..MaxFaults, pc # "down", pc' \in {"round", "poll"}, pc' = "poll" => tracker.hash # 0
    PROVE  RkIInv'
<1>1. txs' = txs /\ files' = files /\ tracker' = tracker /\ disk' = disk
  BY DEF disk, chain_vars
<1>2. TypeOK'
  BY <1>1 DEF RkIInv, TypeOK, chain_vars
<1>3. FilesKnown'
  BY <1>1 DEF RkIInv, FilesKnown
<1>4. Open' = Open /\ Forgotten(disk)' = Forgotten(disk) /\ Forgotten(tracker)' = Forgotten(tracker)
  BY <1>1 DEF Open, Forgotten, unknown_broadcast
<1>5. RkSubmission'
  BY <1>1 DEF RkSubmission
<1> QED BY <1>1, <1>2, <1>3, <1>4, <1>5, SameForgivable DEF RkIInv

LEMMA RkNothingToDo == ASSUME RkIInv, NothingToDo, UNCHANGED commands PROVE RkIInv'
<1> DEFINE t == [tracker EXCEPT !.suppressed = None]
<1>1. t \in Tracker /\ t.hash = 0
  BY DEF RkIInv, TypeOK, Tracker, Maybe, NothingToDo, free
<1>2. Save(t, "round") /\ UNCHANGED chain_vars /\ failed' \subseteq Plans
  BY DEF NothingToDo, RkIInv, TypeOK
<1>3. Cardinality(Open) <= Forgivable
  BY RkFree DEF NothingToDo
<1> QED BY <1>1, <1>2, <1>3, SameForgivable, RkEndOfRound DEF RkIInv

LEMMA RkSubmit == ASSUME RkIInv, Submit, UNCHANGED commands PROVE RkIInv'
<1> DEFINE t == marked(market)
<1>1. t \in Tracker /\ unknown_broadcast(t) /\ t.plan \in Plans /\ t.hash = 0
  BY DEF RkIInv, TypeOK, Tracker, Maybe, Submit, free, marked, unknown_broadcast
<1>2. Save(t, "send") /\ UNCHANGED chain_vars /\ UNCHANGED failed
  BY DEF Submit
<1>3. Cardinality(Open) <= Forgivable /\ Forgivable \in Nat
  BY RkFree, ForgivableNat DEF Submit, RkIInv
<1> HIDE DEF t
<1>4. /\ tracker' = t /\ faults' \in 0..MaxFaults
      /\ files' \in Seq(Tracker) /\ Len(files') \in 1..(MAX_BACKUPS + 1)
      /\ (disk' = t /\ pc' \in {"send", "round"}) \/ (disk' = disk /\ pc' = "round")
  BY <1>1, <1>2, SaveLemma DEF RkIInv
<1>5. TypeOK'
  <2>1. Len(txs) \in Nat /\ market' = market /\ txs' = txs /\ failed' = failed
    BY <1>2 DEF RkIInv, TypeOK, chain_vars
  <2> QED BY <1>1, <1>4, <2>1 DEF RkIInv, TypeOK
<1>6. FilesKnown'
  <2>1. t.hash <= Len(txs)
    BY <1>1 DEF RkIInv, TypeOK
  <2> QED BY <1>1, <1>2, <2>1, FilesSaved DEF RkIInv
<1>7. Forgotten(t) = {} /\ Cardinality({}) = 0
  BY <1>1, FS_EmptySet DEF Forgotten
<1>8. /\ Open' = Open /\ Cardinality(Open') <= 1 + Forgivable'
      /\ Cardinality(Forgotten(disk)') <= Forgivable'
      /\ Cardinality(Forgotten(tracker)') <= Forgivable'
  BY <1>1, <1>2, <1>3, <1>7, SameForgivable, SavedForgets
<1>9. RkSubmission'
  BY <1>1, <1>3, <1>4, <1>8, SameForgivable DEF RkSubmission, unknown_broadcast
<1> QED BY <1>5, <1>6, <1>8, <1>9 DEF RkIInv

LEMMA RkSend == ASSUME RkIInv, Send, UNCHANGED commands PROVE RkIInv'
<1>1. /\ unknown_broadcast(disk) /\ unknown_broadcast(tracker) /\ tracker.plan \in Plans
      /\ Cardinality(Open) <= Forgivable /\ Forgivable \in Nat /\ txs \in Seq(Tx)
  BY ForgivableNat DEF RkIInv, RkSubmission, Send, TypeOK
<1>2. /\ UNCHANGED <<market, files, tracker, failed>> /\ faults' \in 0..MaxFaults /\ disk' = disk
      /\ pc' \in {"accepted", "refused", "lost"}
  <2>1. Fault => faults' \in 0..MaxFaults
    BY TrackedKeeperAssumption DEF Fault, RkIInv, TypeOK
  <2> QED BY <2>1 DEF Send, Goto, RkIInv, TypeOK, disk
<1>3. Forgotten(disk)' = {} /\ Forgotten(tracker)' = {} /\ Cardinality({}) = 0
  BY <1>1, <1>2, FS_EmptySet DEF Forgotten, unknown_broadcast
<1>4. CASE txs' = txs /\ pc' # "accepted"
  <2>1. Open' = Open
    BY <1>4 DEF Open
  <2>2. TypeOK'
    BY <1>2, <1>4 DEF RkIInv, TypeOK
  <2>3. FilesKnown'
    BY <1>2, <1>4 DEF RkIInv, FilesKnown
  <2>4. RkSubmission'
    BY <1>1, <1>2, <1>4, <2>1, SameForgivable DEF RkSubmission, unknown_broadcast
  <2> QED BY <1>1, <1>3, <2>1, <2>2, <2>3, <2>4, SameForgivable DEF RkIInv
<1>5. CASE txs' = Append(txs, [plan |-> tracker.plan, status |-> "pending", final |-> FALSE])
           /\ pc' # "refused"
  <2> DEFINE tx == [plan |-> tracker.plan, status |-> "pending", final |-> FALSE]
  <2>1. tx \in Tx
    BY <1>1 DEF Tx
  <2> HIDE DEF tx
  <2>2. txs' = Append(txs, tx)
    BY <1>5 DEF tx
  <2>3. /\ txs' \in Seq(Tx) /\ Len(txs') = Len(txs) + 1 /\ Len(txs) \in Nat
        /\ \A i \in DOMAIN txs' : i # Len(txs') => i \in DOMAIN txs /\ txs'[i] = txs[i]
    BY <1>1, <2>1, <2>2
  <2>4. /\ market' = market /\ files' = files /\ tracker' = tracker /\ failed' = failed
        /\ tracker.hash = 0 /\ disk.hash = 0
    BY <1>1, <1>2 DEF unknown_broadcast
  <2>5. TypeOK'
    <3>1. tracker'.hash <= Len(txs') /\ disk'.hash <= Len(txs')
      BY <1>2, <2>3, <2>4
    <3> QED BY <1>2, <2>3, <2>4, <3>1 DEF RkIInv, TypeOK
  <2>6. FilesKnown'
    <3>1. \A n \in DOMAIN files : files[n].hash \in Nat
      <4>1. \A n \in DOMAIN files : files[n] \in Tracker
        BY DEF RkIInv, TypeOK
      <4> QED BY <4>1 DEF Tracker
    <3>2. \A n \in DOMAIN files : files[n].hash <= Len(txs')
      BY <2>3, <3>1 DEF RkIInv, FilesKnown
    <3> QED BY <2>4, <3>2 DEF RkIInv, FilesKnown
  <2>7. Open' \ {Len(txs')} \subseteq Open
    BY <2>3 DEF Open
  <2>8. Cardinality(Open' \ {Len(txs')}) <= Forgivable
    <3>1. /\ Cardinality(Open' \ {Len(txs')}) \in Nat /\ Cardinality(Open) \in Nat
          /\ Cardinality(Open' \ {Len(txs')}) <= Cardinality(Open)
      BY <2>7, Fewer DEF RkIInv
    <3> QED BY <1>1, <3>1
  <2>9. Cardinality(Open') <= 1 + Forgivable
    <3>1. IsFiniteSet(Open')
      <4>1. Open' \subseteq Open \cup {Len(txs')}
        BY <2>7
      <4>2. IsFiniteSet(Open \cup {Len(txs')})
        BY OpenFinite, FS_AddElement DEF RkIInv
      <4> QED BY <4>1, <4>2, FS_Subset
    <3>2. Cardinality(Open') \in Nat /\ Cardinality(Open' \ {Len(txs')}) \in Nat
          /\ Cardinality(Open') <= Cardinality(Open' \ {Len(txs')}) + 1
      <4>1. IsFiniteSet(Open' \ {Len(txs')})
            /\ Cardinality(Open' \ {Len(txs')})
                 = IF Len(txs') \in Open' THEN Cardinality(Open') - 1 ELSE Cardinality(Open')
        BY <3>1, FS_RemoveElement
      <4>2. Cardinality(Open') \in Nat /\ Cardinality(Open' \ {Len(txs')}) \in Nat
        BY <3>1, <4>1, FS_CardinalityType
      <4> QED BY <4>1, <4>2
    <3> QED BY <1>1, <2>8, <3>2
  <2>10. RkSubmission'
    <3>1. Len(txs') > 0
      BY <2>3
    <3> QED BY <1>1, <1>2, <1>5, <2>4, <2>8, <3>1, SameForgivable DEF RkSubmission, unknown_broadcast
  <2> QED BY <1>1, <1>3, <2>5, <2>6, <2>9, <2>10, SameForgivable DEF RkIInv
<1> QED BY <1>4, <1>5 DEF Send, Goto

LEMMA RkAccepted == ASSUME RkIInv, Accepted, UNCHANGED commands PROVE RkIInv'
<1> DEFINE t == [tracker EXCEPT !.hash = Len(txs), !.broadcasting = FALSE]
<1>1. t \in Tracker /\ t.hash = Len(txs) /\ t.plan = tracker.plan /\ ~t.broadcasting
  <2>1. Len(txs) \in Nat /\ tracker \in Tracker
    BY DEF RkIInv, TypeOK
  <2> QED BY <2>1 DEF Tracker
<1>2. Save(t, "poll") /\ UNCHANGED chain_vars /\ UNCHANGED failed
  BY DEF Accepted
<1>3. /\ unknown_broadcast(disk) /\ tracker.plan \in Plans /\ Len(txs) > 0 /\ Len(txs) \in Nat
      /\ Cardinality(Open \ {Len(txs)}) <= Forgivable /\ Forgivable \in Nat
  BY ForgivableNat DEF RkIInv, RkSubmission, Accepted, TypeOK
<1> HIDE DEF t
<1>4. /\ tracker' = t /\ faults' \in 0..MaxFaults
      /\ files' \in Seq(Tracker) /\ Len(files') \in 1..(MAX_BACKUPS + 1)
      /\ (disk' = t /\ pc' \in {"poll", "round"}) \/ (disk' = disk /\ pc' = "round")
  BY <1>1, <1>2, SaveLemma DEF RkIInv
<1>5. TypeOK'
  BY <1>1, <1>2, <1>4 DEF RkIInv, TypeOK, chain_vars
<1>6. FilesKnown'
  BY <1>1, <1>2, <1>3, FilesSaved DEF RkIInv
<1>7. Forgotten(t) = Open \ {Len(txs)}
  BY <1>1 DEF Forgotten, unknown_broadcast
<1>8. /\ Open' = Open /\ Cardinality(Open') <= 1 + Forgivable'
      /\ Cardinality(Forgotten(disk)') <= Forgivable'
      /\ Cardinality(Forgotten(tracker)') <= Forgivable'
  BY <1>1, <1>2, <1>3, <1>7, SameForgivable, SavedForgets
<1>9. RkSubmission'
  BY <1>1, <1>3, <1>4 DEF RkSubmission
<1> QED BY <1>5, <1>6, <1>8, <1>9 DEF RkIInv

\* A rejection ends the round where what is open is paid for.
LEMMA RkReject ==
    ASSUME RkIInv, NEW t \in Tracker, t.plan \in Plans, Save(rejected(t), "round"),
           remember(t.plan), UNCHANGED chain_vars,
           commands' \in [misread : Nat, restored : Nat],
           Forgivable <= Forgivable', Cardinality(Open) <= Forgivable'
    PROVE  RkIInv'
<1>1. rejected(t) \in Tracker /\ rejected(t).hash = 0
  BY RejectedLemma
<1>2. failed' \subseteq Plans
  BY DEF remember, RkIInv, TypeOK
<1> QED BY <1>1, <1>2, RkEndOfRound

LEMMA RkRefused == ASSUME RkIInv, Refused, UNCHANGED commands PROVE RkIInv'
<1>1. /\ tracker \in Tracker /\ tracker.plan \in Plans /\ Cardinality(Open) <= Forgivable
      /\ commands' \in [misread : Nat, restored : Nat]
  BY DEF RkIInv, RkSubmission, TypeOK, Refused
<1> QED BY <1>1, SameForgivable, RkReject DEF Refused

LEMMA RkConfirm == ASSUME RkIInv, Confirm, UNCHANGED commands PROVE RkIInv'
<1>1. /\ tracker \in Tracker /\ tracker.plan \in Plans
      /\ commands' \in [misread : Nat, restored : Nat] /\ failed \subseteq Plans
  BY DEF RkIInv, RkSubmission, FilesKnown, TypeOK, Confirm
<1>2. Cardinality(Open) <= Forgivable' /\ Forgivable <= Forgivable' /\ UNCHANGED chain_vars
  BY RkConfirmed, SameForgivable DEF Confirm
<1>3. CASE Save(rejected(tracker), "round") /\ remember(tracker.plan)
  BY <1>1, <1>2, <1>3, RkReject
<1>4. CASE Save(Clean, "round") /\ UNCHANGED failed
  BY <1>1, <1>2, <1>4, CleanLemma, RkEndOfRound
<1> QED BY <1>3, <1>4 DEF Confirm

LEMMA RkTimeOut == ASSUME RkIInv, TimeOut, UNCHANGED commands PROVE RkIInv'
<1>1. faults' \in 0..MaxFaults
  BY TrackedKeeperAssumption DEF Fault, RkIInv, TypeOK, TimeOut
<1> QED BY <1>1, RkMove DEF TimeOut, still_unresolved, Goto

LEMMA RkCrash == ASSUME RkIInv, Crash, UNCHANGED commands PROVE RkIInv'
<1>1. /\ txs' = txs /\ files' = files /\ tracker' = Clean /\ disk' = disk /\ pc' = "down"
      /\ market' = market /\ failed' = failed
  BY DEF Crash, Goto, disk, chain_vars
<1>2. TypeOK'
  <2>1. faults' \in 0..MaxFaults
    BY TrackedKeeperAssumption DEF Fault, RkIInv, TypeOK, Crash
  <2> QED BY <1>1, <2>1, CleanLemma DEF RkIInv, TypeOK
<1>3. FilesKnown'
  BY <1>1, CleanLemma DEF RkIInv, FilesKnown
<1>4. Open' = Open /\ Forgotten(disk)' = Forgotten(disk)
  BY <1>1 DEF Open, Forgotten, unknown_broadcast
<1>5. RkSubmission'
  BY <1>1 DEF RkSubmission
<1> QED BY <1>1, <1>2, <1>3, <1>4, <1>5, SameForgivable DEF RkIInv

\* The chain opens nothing again.
LEMMA RkChain == ASSUME RkIInv, Finalizes, UNCHANGED commands PROVE RkIInv'
<1> USE DEF Finalizes
<1>1. /\ files' = files /\ tracker' = tracker /\ pc' = pc /\ disk' = disk
      /\ commands' = commands /\ Forgivable' = Forgivable /\ Forgivable \in Nat
  BY ForgivableNat DEF keeper_vars, disk, RkIInv, Forgivable
<1>2. DOMAIN txs' = DOMAIN txs
  BY DEF RkIInv, TypeOK
<1>3. TypeOK'
  BY <1>1 DEF RkIInv, TypeOK
<1>4. FilesKnown'
  BY <1>1 DEF RkIInv, FilesKnown
<1>5. Open' \subseteq Open
  BY <1>2 DEF Open
<1>6. /\ Forgotten(disk)' \subseteq Forgotten(disk)
      /\ Forgotten(tracker)' \subseteq Forgotten(tracker)
  BY <1>1, <1>5 DEF Forgotten, unknown_broadcast
<1>7. \A n \in Nat : \A S, T : T \subseteq S /\ S \subseteq Open /\ Cardinality(S) <= n
                             => Cardinality(T) <= n
  <2> TAKE n \in Nat
  <2> TAKE S, T
  <2> HAVE T \subseteq S /\ S \subseteq Open /\ Cardinality(S) <= n
  <2>1. Cardinality(S) \in Nat /\ Cardinality(T) \in Nat /\ Cardinality(T) <= Cardinality(S)
    BY Fewer DEF RkIInv
  <2> QED BY <2>1
<1>8. /\ Cardinality(Open') <= 1 + Forgivable
      /\ Cardinality(Forgotten(disk)') <= Forgivable
      /\ pc # "down" => Cardinality(Forgotten(tracker)') <= Forgivable
  <2>1. 1 + Forgivable \in Nat
    BY <1>1
  <2> QED BY <1>1, <1>5, <1>6, <1>7, <2>1, ForgottenOpen DEF RkIInv
<1>9. RkSubmission'
  <2>1. pc \in {"send", "refused"} => Cardinality(Open') <= Forgivable
    BY <1>1, <1>5, <1>7 DEF RkIInv, RkSubmission
  <2>2. pc = "accepted" => Len(txs') > 0 /\ Cardinality(Open' \ {Len(txs')}) <= Forgivable
    <3>1. Open' \ {Len(txs')} \subseteq Open \ {Len(txs)} /\ Open \ {Len(txs)} \subseteq Open
      BY <1>5
    <3> QED BY <1>1, <1>7, <3>1 DEF RkIInv, RkSubmission
  <2> QED BY <1>1, <2>1, <2>2 DEF RkIInv, RkSubmission, unknown_broadcast
<1> QED BY <1>1, <1>3, <1>4, <1>8, <1>9 DEF RkIInv

LEMMA RkPreflightRejects == ASSUME RkIInv, PreflightRejects PROVE RkIInv'
<1> DEFINE t == [tracker EXCEPT !.plan = market]
<1>1. market \in Plans /\ UNCHANGED <<chain_vars, commands>>
  BY DEF PreflightRejects, RkIInv, TypeOK, Maybe
<1>2. t \in Tracker /\ t.plan = market
  BY <1>1 DEF RkIInv, TypeOK, Tracker, Maybe
<1>3. Save(rejected(t), "round") /\ remember(t.plan)
  BY <1>2 DEF PreflightRejects
<1>4. Cardinality(Open) <= Forgivable
  BY RkFree DEF PreflightRejects
<1> QED BY <1>1, <1>2, <1>3, <1>4, SameForgivable, RkReject DEF RkIInv

LEMMA RkMisread == ASSUME RkIInv, Misread PROVE RkIInv'
<1>1. /\ tracker \in Tracker /\ tracker.plan \in Plans /\ Forgivable \in Nat
      /\ Cardinality(Open) <= 1 + Forgivable
  BY ForgivableNat DEF RkIInv, RkSubmission, TypeOK, Misread
<1>2. commands' \in [misread : Nat, restored : Nat] /\ Forgivable' = Forgivable + 1
  BY DEF Misread, RkIInv, Forgivable
<1>3. Cardinality(Open) <= Forgivable' /\ Forgivable <= Forgivable'
  BY <1>1, <1>2
<1> QED BY <1>1, <1>2, <1>3, RkReject DEF Misread

LEMMA RkResolve == ASSUME RkIInv, Resolve PROVE RkIInv'
<1> DEFINE t == resolved(disk)
<1>1. /\ disk \in Tracker /\ disk = files[1] /\ 1 \in DOMAIN files
      /\ pc = "down" /\ Resolvable(disk)
  BY DEF RkIInv, TypeOK, disk, Resolve
<1>2. ~unknown_broadcast(disk) /\ disk.hash \notin Open
  BY <1>1, ZeroNotOpen DEF RkIInv, Resolvable, Final, Open
<1>3. Cardinality(Open) <= Forgivable
  BY <1>2, FreeIsPaid DEF RkIInv
<1>4. t \in Tracker /\ t.hash = 0
  BY <1>1 DEF resolved, Clean, Tracker, Maybe
<1> HIDE DEF t
<1>5. /\ market' = market /\ txs' = txs /\ tracker' = tracker /\ pc' = pc /\ faults' = faults
      /\ failed' = {} /\ files' = saved(t) /\ commands' = commands
  BY DEF Resolve, chain_vars, t
<1>6. files' \in Seq(Tracker) /\ Len(files') \in 1..(MAX_BACKUPS + 1) /\ disk' = t
  <2>1. files \in Seq(Tracker) /\ Len(files) \in 1..(MAX_BACKUPS + 1)
    BY DEF RkIInv, TypeOK
  <2> QED BY <1>4, <1>5, <2>1, SavedLemma DEF disk
<1>7. TypeOK'
  BY <1>4, <1>5, <1>6 DEF RkIInv, TypeOK
<1>8. FilesKnown'
  <2>1. t.hash <= Len(txs)
    BY <1>4 DEF RkIInv, TypeOK
  <2> QED BY <1>4, <1>5, <2>1, SavedKnown DEF RkIInv, FilesKnown
<1>9. Open' = Open /\ Forgotten(disk)' \subseteq Open
  BY <1>5 DEF Open, Forgotten
<1>10. Cardinality(Forgotten(disk)') <= Forgivable
  <2>1. Cardinality(Forgotten(disk)') <= Cardinality(Open)
        /\ Cardinality(Forgotten(disk)') \in Nat /\ Cardinality(Open) \in Nat
    BY <1>9, Fewer DEF RkIInv
  <2> QED BY <1>3, <2>1, ForgivableNat DEF RkIInv
<1>11. RkSubmission'
  BY <1>1, <1>5 DEF RkIInv, RkSubmission
<1> QED BY <1>1, <1>5, <1>7, <1>8, <1>9, <1>10, <1>11, SameForgivable DEF RkIInv

LEMMA RkRestoreBackup == ASSUME RkIInv, RestoreBackup PROVE RkIInv'
<1>1. PICK n \in 2..Len(files) : files' = [files EXCEPT ![1] = files[n]]
  BY DEF RestoreBackup
<1>2. /\ pc = "down" /\ market' = market /\ txs' = txs /\ tracker' = tracker /\ pc' = pc
      /\ faults' = faults /\ failed' = {}
      /\ commands' \in [misread : Nat, restored : Nat] /\ Forgivable' = Forgivable + 1
  BY DEF RestoreBackup, RkIInv, Forgivable, chain_vars
<1>3. /\ files' \in Seq(Tracker) /\ Len(files') = Len(files)
      /\ disk' = files[n] /\ n \in DOMAIN files /\ files[n] \in Tracker
      /\ \A m \in DOMAIN files' : \E k \in DOMAIN files : files'[m] = files[k]
  <2>1. files \in Seq(Tracker) /\ Len(files) \in Nat /\ n \in DOMAIN files
    BY DEF RkIInv, TypeOK
  <2>2. files[n] \in Tracker
    BY <2>1
  <2> QED BY <1>1, <2>1, <2>2 DEF disk
<1>4. FilesKnown'
  BY <1>2, <1>3 DEF RkIInv, FilesKnown
<1>5. TypeOK'
  BY <1>2, <1>3 DEF RkIInv, TypeOK, FilesKnown
<1>6. Open' = Open /\ Forgotten(disk)' \subseteq Open
  BY <1>2 DEF Open, Forgotten
<1>7. Cardinality(Open) <= 1 + Forgivable' /\ Cardinality(Forgotten(disk)') <= Forgivable'
  <2>1. Cardinality(Forgotten(disk)') <= Cardinality(Open)
        /\ Cardinality(Forgotten(disk)') \in Nat /\ Cardinality(Open) \in Nat
    BY <1>6, Fewer DEF RkIInv
  <2>2. Cardinality(Open) <= 1 + Forgivable /\ Forgivable \in Nat
    BY ForgivableNat DEF RkIInv
  <2> QED BY <1>2, <2>1, <2>2
<1>8. RkSubmission'
  BY <1>2 DEF RkIInv, RkSubmission
<1> QED BY <1>2, <1>4, <1>5, <1>6, <1>7, <1>8 DEF RkIInv

LEMMA RkStutter == ASSUME RkIInv, UNCHANGED rk_vars PROVE RkIInv'
<1>1. /\ market' = market /\ txs' = txs /\ files' = files /\ tracker' = tracker /\ pc' = pc
      /\ failed' = failed /\ faults' = faults /\ commands' = commands /\ disk' = disk
  BY DEF rk_vars, vars, disk
<1>2. Open' = Open /\ Forgivable' = Forgivable
  BY <1>1 DEF Open, Forgivable
<1>3. Forgotten(disk)' = Forgotten(disk) /\ Forgotten(tracker)' = Forgotten(tracker)
  BY <1>1, <1>2 DEF Forgotten, unknown_broadcast
<1>4. TypeOK' /\ FilesKnown'
  BY <1>1 DEF RkIInv, TypeOK, FilesKnown
<1>5. RkSubmission'
  BY <1>1, <1>2 DEF RkIInv, RkSubmission, unknown_broadcast
<1> QED BY <1>1, <1>2, <1>3, <1>4, <1>5 DEF RkIInv

LEMMA RkStep == ASSUME RkIInv, [RkNext]_rk_vars PROVE RkIInv'
<1>1. ASSUME KeeperStep, UNCHANGED commands PROVE RkIInv'
  <2>1. Pending \/ Lost => RkIInv'
    BY <1>1, RkMove DEF Pending, Lost, Goto, RkIInv, TypeOK
  <2> QED BY <1>1, <2>1, RkStart, RkNothingToDo, RkSubmit, RkSend, RkAccepted, RkRefused,
             RkConfirm, RkTimeOut DEF KeeperStep
<1>2. ASSUME ChainStep, UNCHANGED commands PROVE RkIInv'
  BY <1>2, ChainStepFinalizes, RkChain DEF RkIInv
<1> QED BY <1>1, <1>2, RkCrash, RkPreflightRejects, RkMisread, RkResolve, RkRestoreBackup,
           RkStutter DEF RkNext

LEMMA RkSpecIInv == RkSpec => []RkIInv
BY RkInitIInv, RkStep, PTL DEF RkSpec

\* Every state of the example keeper has its type, whatever its commands and its
\* operator do.
THEOREM RebalancerKeeperTypeOK == RkSpec => []TypeOK
<1>1. RkIInv => TypeOK
  BY DEF RkIInv
<1> QED BY <1>1, RkSpecIInv, PTL

\* However many failures are taken for rejections and backups restored, each of
\* them puts at most one more transaction in flight.
THEOREM RebalancerKeeperInFlightPaidFor == RkSpec => []InFlightPaidFor
<1>1. ASSUME RkIInv PROVE InFlightPaidFor
  <2>1. commands.misread \in Nat /\ commands.restored \in Nat /\ Cardinality(Open) \in Nat
    BY <1>1, OpenFinite DEF RkIInv
  <2> QED BY <1>1, <2>1 DEF RkIInv, InFlightPaidFor, Open, Forgivable
<1> QED BY <1>1, RkSpecIInv, PTL

\* Each of them costs a restart the knowledge of at most one transaction.
THEOREM RebalancerKeeperUnsavedPaidFor == RkSpec => []UnsavedPaidFor
<1>1. ASSUME RkIInv PROVE UnsavedPaidFor
  <2>1. {i \in DOMAIN txs : ~txs[i].final /\ disk.hash # i /\ ~unknown_broadcast(disk)}
          = Forgotten(disk)
    BY DEF Forgotten, Open
  <2> QED BY <1>1, <2>1 DEF RkIInv, UnsavedPaidFor, Forgivable
<1> QED BY <1>1, RkSpecIInv, PTL

=============================================================================
