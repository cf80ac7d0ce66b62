------------------------------ MODULE LimitPair ------------------------------
(***************************************************************************)
(* The outside world of a limit-order grid: the two asset CW20s and the    *)
(* CL8Y pair that holds the grid's resting orders in escrow, fills them,   *)
(* parks the refund of an expired one, and cancels or pays out on request. *)
(*                                                                         *)
(* Token 0 is what an ask sells and token 1 what a bid pays, so an order's *)
(* side is the token it has in escrow.  Prices are atomics of token 1 per  *)
(* token 0.                                                                *)
(***************************************************************************)
EXTENDS Cl8yMath, FiniteSets, Functions

CONSTANTS
    Users,         \* accounts that own vaults
    GRID,          \* the followed vault's account
    OTHERS,        \* everybody else: takers, donors, treasuries
    PairCodes,     \* wasm code ids of the pair
    InitialCode,   \* the one of them in the beginning
    BatchLimits,   \* answers of LimitOrderConfig.max_batch_rungs
    InitialLimit,  \* the one of them in the beginning
    MaxEvents      \* bound: governance calls and the pair's incidents

ASSUME AccountAssumption == GRID # OTHERS /\ {GRID, OTHERS} \cap Users = {}
ASSUME PairAssumption ==
    /\ InitialCode \in PairCodes
    /\ BatchLimits \subseteq Nat \ {0} /\ InitialLimit \in BatchLimits

Token   == {0, 1}
Ask     == 0
Bid     == 1
Account == Users \cup {GRID, OTHERS}

VARIABLES
    bank,          \* token -> account -> balance
    pair,          \* the pair contract: code id and batch limit
    book,          \* the orders it holds in escrow: id -> order
    next_order_id,
    events         \* counted incidents, up to MaxEvents

moved(from, to, t, amount) ==
    [bank EXCEPT ![t][from] = @ - amount, ![t][to] = @ + amount]

\* The orders LimitOrder and ExpiredLimitRefund know.
active(o) == o \in DOMAIN book /\ ~book[o].parked
parked(o) == o \in DOMAIN book /\ book[o].parked

\* What a taker pays for `amount' of an order's escrow.
proceeds(order, amount) ==
    IF order.token = Ask THEN checked_ratio(amount, order.price, ONE)
                         ELSE checked_ratio(amount, ONE, order.price)

market == <<bank, pair, book, next_order_id>>

PairInit ==
    /\ pair = [code_id |-> InitialCode, batch_limit |-> InitialLimit]
    /\ book = << >> /\ next_order_id = 1
    /\ events = 0

-----------------------------------------------------------------------------

\* A taker fills an order in part or in full; the escrow is the taker's and
\* the proceeds arrive at the vault without a call of it.
FillOrder(o, amount) ==
    /\ o \in DOMAIN book
    /\ ~book[o].parked
    /\ amount \in 1..book[o].left
    /\ LET order == book[o]
           paid  == proceeds(order, amount)
       IN  /\ paid <= bank[1 - order.token][OTHERS]
           /\ bank' = [bank EXCEPT ![order.token][OTHERS] = @ + amount,
                                   ![1 - order.token][GRID] = @ + paid,
                                   ![1 - order.token][OTHERS] = @ - paid]
           /\ book' = IF amount = order.left
                        THEN [p \in DOMAIN book \ {o} |-> book[p]]
                        ELSE [book EXCEPT ![o].left = @ - amount]
    /\ UNCHANGED <<pair, next_order_id, events>>

\* Incidents are counted; fills, expiry and what ends an incident are not.
Event == events < MaxEvents /\ events' = events + 1

\* An order expires: what is left of it waits as a parked refund.
Expire(o) ==
    /\ o \in DOMAIN book
    /\ ~book[o].parked
    /\ book' = [book EXCEPT ![o].parked = TRUE]
    /\ UNCHANGED <<bank, pair, next_order_id, events>>

\* Somebody sends the vault a token it did not ask for.
Donate(t) ==
    /\ Event
    /\ bank[t][OTHERS] > 0
    /\ bank' = moved(OTHERS, GRID, t, 1)
    /\ UNCHANGED <<pair, book, next_order_id>>

\* The pair is migrated to other code.
Migrate(code) ==
    /\ Event
    /\ code # pair.code_id
    /\ pair' = [pair EXCEPT !.code_id = code]
    /\ UNCHANGED <<bank, book, next_order_id>>

\* The pair's batch limit is changed.
SetBatchLimit(limit) ==
    /\ Event
    /\ limit # pair.batch_limit
    /\ pair' = [pair EXCEPT !.batch_limit = limit]
    /\ UNCHANGED <<bank, book, next_order_id>>

PairNext ==
    \/ \E o \in DOMAIN book : \E amount \in 1..book[o].left : FillOrder(o, amount)
    \/ \E o \in DOMAIN book : Expire(o)
    \/ \E t \in Token : Donate(t)
    \/ \E code \in PairCodes : Migrate(code)
    \/ \E limit \in BatchLimits : SetBatchLimit(limit)
=============================================================================
