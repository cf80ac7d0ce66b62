----------------------------- MODULE SwapKeeper -----------------------------
(***************************************************************************)
(* swap_keeper.py.  Every failure of a call is an RpcError here, whatever  *)
(* the reason, and ends the round; only a CheckTx code read from the       *)
(* node's answer rejects a plan.  The discovery keeper runs this for one   *)
(* vault after the other and reads the file anew each time.                *)
(***************************************************************************)
EXTENDS TrackedKeeper

Next == KeeperStep \/ Crash \/ ChainStep

Spec == Init /\ [][Next]_vars

\* The service manager restarts the process, and its calls end.
FairSpec == Spec /\ WF_vars(KeeperStep)

-----------------------------------------------------------------------------
(* Properties *)

\* Operator's README: a plan rejected by CheckTx or DeliverTx is not submitted
\* again until the vault's plan changes, over restarts too.
RejectedPlansWait ==
    [][ ~tracker.broadcasting /\ tracker'.broadcasting /\ pc = "round"
            => tracker'.plan \notin failed ]_vars

\* A transaction whose hash is saved and that is final is let go of at
\* last, by the file or by a process that could not write it.
FinalIsResolved ==
    \A i \in 1..MaxTxs :
        (i \in DOMAIN txs /\ disk.hash = i /\ txs[i].final)
            ~> (disk.hash # i \/ (pc # "down" /\ tracker.hash # i))

=============================================================================
