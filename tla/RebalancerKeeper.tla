--------------------------- MODULE RebalancerKeeper ---------------------------
(***************************************************************************)
(* The rebalancer's example keeper (examples/keeper/keeper.py): its calls  *)
(* are commands whose exit status is read, its state file has backups, and *)
(* its operator has the commands `resolve' and `restore-backup'.           *)
(***************************************************************************)
EXTENDS TrackedKeeper, FiniteSets

CONSTANTS
    MaxMisread,     \* bound: failures of the broadcast command taken for rejections
    MaxRestores     \* bound: backups restored

ASSUME RebalancerKeeperAssumption == MaxMisread \in Nat /\ MaxRestores \in Nat

VARIABLE commands   \* misread failures and restored backups so far

rk_vars == <<vars, commands>>

RkInit == Init /\ commands = [misread |-> 0, restored |-> 0]

-----------------------------------------------------------------------------

\* The simulation is a command too: one that fails without naming a transient
\* reason rejects the plan.
PreflightRejects ==
    /\ pc = "round" /\ free(tracker)
    /\ market # None /\ market # tracker.suppressed
    /\ Save(rejected([tracker EXCEPT !.plan = market]), "round") /\ remember(market)
    /\ UNCHANGED <<chain_vars, commands>>

\* So does a broadcast command that fails, be its answer lost or not.
Misread ==
    /\ pc = "lost" /\ commands.misread < MaxMisread
    /\ commands' = [commands EXCEPT !.misread = @ + 1]
    /\ Save(rejected(tracker), "round") /\ remember(tracker.plan)
    /\ UNCHANGED chain_vars

-----------------------------------------------------------------------------
(* Commands of the operator, for which the process is stopped *)

Final(t) == t.hash # 0 => txs[t.hash].final

\* Faulty variant (see README, "Mutants"): a transaction not found counts as resolved.
Found(t) == ~unknown_broadcast(t)

Resolvable(t) == ~unknown_broadcast(t) /\ Final(t) /\ (t.hash # 0 \/ t.suppressed # None)

resolved(t) ==
    [Clean EXCEPT !.suppressed =
        IF t.hash # 0 /\ txs[t.hash].status = "failed" THEN t.plan ELSE None]

\* What is resolved may be tried again, whatever was rejected.
Resolve ==
    /\ pc = "down" /\ Resolvable(disk)
    /\ files' = saved(resolved(disk)) /\ failed' = {}
    /\ UNCHANGED <<chain_vars, tracker, pc, faults, commands>>

RestoreBackup ==
    /\ pc = "down" /\ commands.restored < MaxRestores
    /\ \E n \in 2..Len(files) :
         /\ ~unknown_broadcast(files[n]) /\ Final(files[n])
         /\ files' = [files EXCEPT ![1] = files[n]]
    /\ failed' = {} /\ commands' = [commands EXCEPT !.restored = @ + 1]
    /\ UNCHANGED <<chain_vars, tracker, pc, faults>>

-----------------------------------------------------------------------------

RkNext ==
    \/ (KeeperStep \/ Crash \/ ChainStep) /\ UNCHANGED commands
    \/ PreflightRejects \/ Misread \/ Resolve \/ RestoreBackup

RkSpec == RkInit /\ [][RkNext]_rk_vars

-----------------------------------------------------------------------------
(* Properties *)

\* One transaction in flight, and at most one more for every failure taken for a
\* rejection and for every backup the operator restores.
InFlightPaidFor ==
    Cardinality({i \in DOMAIN txs : ~txs[i].final}) <= 1 + commands.misread + commands.restored

\* The file says of every transaction that may be open that it may be, but for one
\* for every such failure and every restored backup.
UnsavedPaidFor ==
    Cardinality({i \in DOMAIN txs : ~txs[i].final /\ disk.hash # i /\ ~unknown_broadcast(disk)})
        <= commands.misread + commands.restored

=============================================================================
