------------------------------ MODULE GridChain ------------------------------
(***************************************************************************)
(* The chain as the grid operator sees it: one limit-grid vault, the pair  *)
(* that fills its orders, and the transactions the operator sent.  The     *)
(* vault's part is the guard and the effect of grid-vault's Reconcile; the *)
(* full vault is not modelled here.  Every event is a block of its own.    *)
(***************************************************************************)
EXTENDS Integers, Sequences, FiniteSets

CONSTANTS
    Orders,         \* order ids of the pair
    Size,           \* fills an order takes
    Depth,          \* GRID_FINALITY_DEPTH
    None,           \* an absent value
    MaxHeight,      \* bound: height of the last block with an event
    MaxFaults       \* bound: crashes, lost answers, refused or failing calls

ASSUME GridChainAssumption ==
    /\ Size \in Nat \ {0} /\ Depth \in Nat
    /\ MaxHeight \in Nat /\ MaxFaults \in Nat /\ None \notin Nat

VARIABLES
    chain,      \* tip, the vault's orders, what the pair has left of them, fills, txs
    faults      \* faults so far

Fill == [order : Orders, height : Nat]
Tx   == [batch : Nat, orders : SUBSET Orders, height : Nat,
         status : {"pending", "ok", "reverted", "failed"}]

ChainType ==
    [tip : Nat,
     placed : [Orders -> Nat],              \* height of the placement, 0 before it
     tracked : SUBSET Orders,               \* the vault's ORDERS
     seen : [Orders -> 0..Size],            \* remaining as the vault recorded it
     left : [Orders -> 0..Size],            \* remaining at the pair
     parked : SUBSET Orders,                \* expired: the refund waits at the pair
     credit : BOOLEAN,                      \* fills paid since the balances were synced
     covered : [Orders -> Nat],             \* history: height of the last accounting
     fills : SUBSET Fill,
     txs : Seq(Tx)]

ChainInit ==
    /\ chain = [tip |-> 0, placed |-> [o \in Orders |-> 0], tracked |-> {},
                seen |-> [o \in Orders |-> Size], left |-> [o \in Orders |-> Size],
                parked |-> {}, credit |-> FALSE,
                covered |-> [o \in Orders |-> 0], fills |-> {}, txs |-> <<>>]
    /\ faults = 0

Fault == faults < MaxFaults /\ faults' = faults + 1

\* A fault or not, as the outcome of a call requires.
FaultIf(bad) == IF bad THEN Fault ELSE UNCHANGED faults

\* No reorganisation reaches deeper than the finality depth.
finalized == IF chain.tip > Depth THEN chain.tip - Depth ELSE 0

-----------------------------------------------------------------------------
(* The vault. *)

\* A reconcile reports orders the vault tracks, and something must have
\* changed: one of them, or the balances.
reconcile_accepted(orders) ==
    /\ orders # {} /\ orders \subseteq chain.tracked
    /\ chain.credit \/ \E o \in orders : chain.left[o] # chain.seen[o] \/ o \in chain.parked

\* Refunds of expired orders are claimed; `kept' stay, their claim page reverted.
reconciled(orders, kept, height) ==
    LET done == orders \ kept
    IN  [chain EXCEPT
            !.seen = [o \in Orders |-> IF o \in done THEN chain.left[o] ELSE @[o]],
            !.tracked = {o \in @ : o \in done => chain.left[o] > 0 /\ o \notin chain.parked},
            !.parked = @ \ done,
            !.credit = FALSE,
            !.covered = [o \in Orders |-> IF o \in orders THEN height ELSE @[o]]]

-----------------------------------------------------------------------------
(* Blocks. *)

next_height == chain.tip + 1

Place(o) ==
    /\ next_height <= MaxHeight /\ chain.placed[o] = 0
    /\ chain' = [chain EXCEPT !.tip = next_height, !.placed[o] = next_height,
                              !.tracked = @ \cup {o}]
    /\ UNCHANGED faults

FillOrder(o) ==
    /\ next_height <= MaxHeight /\ chain.placed[o] > 0 /\ o \in chain.tracked
    /\ chain.left[o] > 0 /\ o \notin chain.parked
    /\ chain' = [chain EXCEPT !.tip = next_height, !.left[o] = @ - 1, !.credit = TRUE,
                              !.fills = @ \cup {[order |-> o, height |-> next_height]}]
    /\ UNCHANGED faults

\* What an expired order has left waits for its owner.
Expire(o) ==
    /\ next_height <= MaxHeight /\ o \in chain.tracked \ chain.parked /\ chain.left[o] > 0
    /\ chain' = [chain EXCEPT !.tip = next_height, !.parked = @ \cup {o}]
    /\ UNCHANGED faults

\* The owner cancels all orders; one that changed at the pair must be reconciled
\* first.
CancelAll ==
    /\ next_height <= MaxHeight /\ chain.tracked # {}
    /\ \A o \in chain.tracked : chain.left[o] = chain.seen[o] /\ o \notin chain.parked
    /\ chain' = [chain EXCEPT !.tip = next_height, !.tracked = {},
                              !.left = [o \in Orders |-> IF o \in chain.tracked THEN 0 ELSE @[o]]]
    /\ UNCHANGED faults

\* Anybody may reconcile.
OthersReconcile(orders) ==
    /\ next_height <= MaxHeight /\ reconcile_accepted(orders)
    /\ chain' = [reconciled(orders, {}, next_height) EXCEPT !.tip = next_height]
    /\ UNCHANGED faults

\* The node executes a transaction it accepted: as the vault says, or, as a
\* fault, with a refund page reverted or out of gas.
Include(i) ==
    LET tx == chain.txs[i]
        done(status) == [chain.txs EXCEPT ![i] = [tx EXCEPT !.status = status,
                                                            !.height = next_height]]
        closed(c, status) == [c EXCEPT !.tip = next_height, !.txs = done(status)]
    IN  /\ tx.status = "pending" /\ next_height <= MaxHeight
        /\ \/ /\ reconcile_accepted(tx.orders)
              /\ chain' = closed(reconciled(tx.orders, {}, next_height), "ok")
              /\ UNCHANGED faults
           \/ /\ reconcile_accepted(tx.orders)
              /\ \E kept \in SUBSET (tx.orders \cap chain.parked) \ {{}} :
                   chain' = closed(reconciled(tx.orders, kept, next_height), "reverted")
              /\ Fault
           \/ /\ chain' = closed(chain, "failed")
              /\ FaultIf(reconcile_accepted(tx.orders))

\* Empty blocks go on until all events are final.
EmptyBlock ==
    /\ next_height <= MaxHeight + Depth
    /\ chain' = [chain EXCEPT !.tip = next_height]
    /\ UNCHANGED faults

ChainNext ==
    \/ \E o \in Orders : Place(o) \/ FillOrder(o) \/ Expire(o)
    \/ \E orders \in SUBSET Orders : OthersReconcile(orders)
    \/ \E i \in 1..Len(chain.txs) : Include(i)
    \/ CancelAll
    \/ EmptyBlock

=============================================================================
