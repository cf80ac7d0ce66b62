-------------------------- MODULE LimitGrid_proofs --------------------------
(***************************************************************************)
(* What is proved of the limit grid, for every set of users, tokens'       *)
(* balances, grid, fee, limit and amount: its types, its accounting and    *)
(* the ways out of it.                                                     *)
(*                                                                         *)
(* The four accounting invariants need one another.  Free balances stay    *)
(* in custody because a refund credits what the pair still has of an       *)
(* order; that it may be claimed is known from the order's record          *)
(* (OrdersMatch); a record matches because orders rest on rungs of their   *)
(* side (GridOK, EscrowRecoverable) under ids never used before (TypeOK).  *)
(***************************************************************************)
EXTENDS LimitGrid, Cl8yMath_proofs, FiniteSetTheorems, TLAPS

-----------------------------------------------------------------------------
(* Arithmetic. *)

LEMMA DivRises ==
  ASSUME NEW n \in Nat \ {0}, NEW a \in Nat, NEW b \in Nat, a <= b
  PROVE  a \div n \in Nat /\ b \div n \in Nat /\ a \div n <= b \div n
OBVIOUS

LEMMA IntervalSize ==
  ASSUME NEW a \in Int, NEW b \in Int, a <= b + 1
  PROVE  IsFiniteSet(a..b) /\ Cardinality(a..b) = b - a + 1
<1>1. IsFiniteSet(a..b) /\ Cardinality(a..b) = IF a > b THEN 0 ELSE b - a + 1
  BY FS_Interval
<1>2. QED
  BY <1>1

-----------------------------------------------------------------------------
(* The price grid. *)

\* A grid as create_bot accepts it.
GridOf(g) ==
    /\ g.lower_price \in Nat \ {0} /\ g.upper_price \in Nat /\ g.lower_price < g.upper_price
    /\ g.grid_count \in Nat \ {0, 1}

LEMMA GridPriceRises ==
  ASSUME NEW g, GridOf(g), NEW i \in Nat, NEW j \in Nat, i <= j
  PROVE  /\ grid_price(g, i) \in Nat \ {0} /\ grid_price(g, j) \in Nat \ {0}
         /\ grid_price(g, i) <= grid_price(g, j)
<1> DEFINE d == g.upper_price - g.lower_price
           n == g.grid_count - 1
<1>1. d \in Nat /\ n \in Nat \ {0}
  BY DEF GridOf
<1>2. d * i \in Nat /\ d * j \in Nat /\ d * i <= d * j
  <2>1. j - i \in Nat
    OBVIOUS
  <2>2. d * j = d * i + d * (j - i) /\ d * (j - i) \in Nat /\ d * i \in Nat
    BY <1>1, <2>1
  <2>3. QED
    BY <1>1, <2>2
<1>4. (d * i) \div n \in Nat /\ (d * j) \div n \in Nat /\ (d * i) \div n <= (d * j) \div n
  BY <1>1, <1>2, DivRises
<1>5. /\ grid_price(g, i) = g.lower_price + (d * i) \div n
      /\ grid_price(g, j) = g.lower_price + (d * j) \div n
  BY DEF grid_price
<1> HIDE DEF d, n
<1>6. g.lower_price \in Nat \ {0}
  BY DEF GridOf
<1>7. QED
  BY <1>4, <1>5, <1>6

LEMMA OnSideFinite ==
  ASSUME NEW g, GridOf(g), NEW ref, NEW t
  PROVE  /\ IsFiniteSet(on_side(g, ref, t))
         /\ Cardinality(on_side(g, ref, t)) \in 0..g.grid_count
         /\ on_side(g, ref, t) # {} => Cardinality(on_side(g, ref, t)) > 0
<1> DEFINE S == on_side(g, ref, t)
           I == 0..(g.grid_count - 1)
<1>1. S \subseteq I
  BY DEF on_side
<1>2. g.grid_count \in Nat /\ 0 <= (g.grid_count - 1) + 1
  BY DEF GridOf
<1>3. IsFiniteSet(I) /\ Cardinality(I) = g.grid_count
  <2> DEFINE a == 0
             b == g.grid_count - 1
  <2>1. a \in Int /\ b \in Int /\ a <= b + 1 /\ b - a + 1 = g.grid_count
    BY <1>2
  <2> HIDE DEF a, b
  <2>2. IsFiniteSet(a..b) /\ Cardinality(a..b) = b - a + 1
    BY <2>1, IntervalSize
  <2>3. QED
    BY <2>1, <2>2 DEF a, b
<1> HIDE DEF S, I
<1>4. IsFiniteSet(S) /\ Cardinality(S) <= g.grid_count
  BY <1>1, <1>3, FS_Subset
<1>5. Cardinality(S) \in Nat
  BY <1>4, FS_CardinalityType
<1>6. S # {} => Cardinality(S) # 0
  BY <1>4, FS_EmptySet
<1>7. QED
  BY <1>2, <1>4, <1>5, <1>6 DEF S

\* side_rung names rungs of its side: prices rise, so the bids are the first.
LEMMA FirstRungsAreBids ==
  ASSUME NEW g, GridOf(g), NEW ref \in Nat, NEW k \in Nat, k < Cardinality(on_side(g, ref, Bid))
  PROVE  k \in on_side(g, ref, Bid)
<1> DEFINE S == on_side(g, ref, Bid)
<1>1. SUFFICES ASSUME k \notin S
               PROVE  FALSE
  OBVIOUS
<1>2. g.grid_count \in Nat /\ Cardinality(S) \in 0..g.grid_count
  BY OnSideFinite DEF GridOf
<1>3. grid_price(g, k) \in Nat /\ ~(grid_price(g, k) < ref)
  <2>1. k \in 0..(g.grid_count - 1)
    BY <1>2
  <2>2. grid_price(g, k) \in Nat
    BY GridPriceRises
  <2>3. QED
    BY <1>1, <2>1, <2>2 DEF on_side, Ask, Bid
<1>4. ASSUME NEW r \in S
      PROVE  r \in 0..(k - 1)
  <2>1. r \in Nat /\ grid_price(g, r) < ref
    BY <1>2, <1>4 DEF on_side, Ask, Bid
  <2>2. k <= r => grid_price(g, k) <= grid_price(g, r) /\ grid_price(g, r) \in Nat
    BY <2>1, GridPriceRises
  <2>3. ~(k <= r)
    BY <1>3, <2>1, <2>2
  <2>4. QED
    BY <2>1, <2>3
<1> HIDE DEF S
<1>5. IsFiniteSet(0..(k - 1)) /\ Cardinality(0..(k - 1)) = k
  <2>1. Cardinality(0..(k - 1)) = (k - 1) - 0 + 1 /\ IsFiniteSet(0..(k - 1))
    BY IntervalSize
  <2>2. QED
    BY <2>1
<1>6. Cardinality(S) <= k
  BY <1>4, <1>5, FS_Subset
<1>7. QED
  BY <1>2, <1>6 DEF S

LEMMA LastRungsAreAsks ==
  ASSUME NEW g, GridOf(g), NEW ref \in Nat, NEW k \in Nat, k < Cardinality(on_side(g, ref, Ask))
  PROVE  g.grid_count - Cardinality(on_side(g, ref, Ask)) + k \in on_side(g, ref, Ask)
<1> DEFINE S == on_side(g, ref, Ask)
           j == g.grid_count - Cardinality(S) + k
<1>1. SUFFICES ASSUME j \notin S
               PROVE  FALSE
  OBVIOUS
<1>2. g.grid_count \in Nat /\ Cardinality(S) \in 0..g.grid_count
  BY OnSideFinite DEF GridOf
<1>a. j \in 0..(g.grid_count - 1) /\ j \in Nat /\ g.grid_count - 1 - j = Cardinality(S) - k - 1
  BY <1>2
<1> HIDE DEF j
<1>3. grid_price(g, j) \in Nat /\ ~(grid_price(g, j) > ref)
  <2>2. grid_price(g, j) \in Nat
    BY <1>a, GridPriceRises
  <2>3. QED
    BY <1>1, <1>a, <2>2 DEF on_side, Ask, Bid
<1>4. ASSUME NEW r \in S
      PROVE  r \in (j + 1)..(g.grid_count - 1)
  <2>1. r \in 0..(g.grid_count - 1) /\ r \in Nat /\ grid_price(g, r) > ref
    BY <1>2, <1>4 DEF on_side, Ask, Bid
  <2>2. r <= j => grid_price(g, r) <= grid_price(g, j) /\ grid_price(g, r) \in Nat
    BY <1>a, <2>1, GridPriceRises
  <2>3. ~(r <= j)
    BY <1>3, <2>1, <2>2
  <2>4. QED
    BY <1>a, <1>2, <2>1, <2>3
<1> HIDE DEF S
<1>5. /\ IsFiniteSet((j + 1)..(g.grid_count - 1))
      /\ Cardinality((j + 1)..(g.grid_count - 1)) = g.grid_count - 1 - j
  <2>1. j + 1 \in Int /\ g.grid_count - 1 \in Int /\ j + 1 <= (g.grid_count - 1) + 1
    BY <1>a, <1>2
  <2>2. /\ IsFiniteSet((j + 1)..(g.grid_count - 1))
        /\ Cardinality((j + 1)..(g.grid_count - 1)) = (g.grid_count - 1) - (j + 1) + 1
    BY <2>1, IntervalSize
  <2>3. QED
    BY <1>a, <1>2, <2>2
<1>6. Cardinality(S) <= g.grid_count - 1 - j
  BY <1>4, <1>5, FS_Subset
<1>7. QED
  BY <1>2, <1>a, <1>6

-----------------------------------------------------------------------------
(* The inductive invariant. *)

\* Before create_bot nothing is owned, tracked or at rest.
NoBot ==
    bot = None => /\ DOMAIN orders = {} /\ DOMAIN book = {}
                  /\ \A a \in Users \cup {Collector} : shares[a] = 0

\* The bot's grid is one create_bot accepted.
GridOK == bot # None => GridOf(bot) /\ \A t \in Token : side_rungs(t) # {}

\* What the pair holds was never recorded as cancelled and is on a rung.
EscrowRecoverable ==
    \A o \in Resting :
       /\ bot # None
       /\ o \notin cancelled
       /\ \E r \in side_rungs(book[o].token) : rung_price(r) = book[o].price

\* A tracked order agrees with what the pair has of it.
Matches(o, order) ==
    /\ book[o].token = order.token
    /\ book[o].left <= order.remaining
    /\ ~book[o].parked => book[o].price = order.price

OrdersMatch == \A o \in Tracked \cap Resting : Matches(o, orders[o])

IInv == /\ TypeOK /\ NoBot /\ GridOK
        /\ EscrowRecoverable /\ OrdersMatch
        /\ SharesAccounted /\ FreeInCustody /\ OrdersCounted /\ ReserveBehindShares

\* Two bots on the same grid.
SameGrid(b, c) ==
    /\ c.lower_price = b.lower_price /\ c.upper_price = b.upper_price
    /\ c.grid_count = b.grid_count /\ c.reference_price = b.reference_price

LEMMA SameRungs ==
  ASSUME NEW b, NEW c, SameGrid(b, c)
  PROVE  /\ GridOf(b) => GridOf(c)
         /\ \A i : grid_price(c, i) = grid_price(b, i)
         /\ \A t : on_side(c, c.reference_price, t) = on_side(b, b.reference_price, t)
BY DEF SameGrid, GridOf, grid_price, on_side

-----------------------------------------------------------------------------
(* Pages. *)

LEMMA PagesWithin ==
  ASSUME NEW E, NEW limit, NEW done \in may_confirm(E, limit)
  PROVE  done \subseteq E
<1>1. PICK d \in SUBSET {p \in pages(E, limit) : Cardinality(p) <= pair.batch_limit} :
        done = UNION d
  BY DEF may_confirm
<1>2. \A p \in pages(E, limit) : p \subseteq E
  BY DEF pages
<1>3. QED
  BY <1>1, <1>2

LEMMA TrackedFinite ==
  ASSUME next_order_id \in Nat \ {0}, NEW S, S \subseteq OrderIds
  PROVE  IsFiniteSet(S) /\ Cardinality(S) \in Nat
<1>1. IsFiniteSet(OrderIds)
  <2>1. 1 \in Int /\ next_order_id - 1 \in Int /\ 1 <= (next_order_id - 1) + 1
    OBVIOUS
  <2>2. QED
    BY <2>1, IntervalSize DEF OrderIds
<1>2. QED
  BY <1>1, FS_Subset, FS_CardinalityType

\* A bot and the orders it tracks, some of which pages cancel and claim.
PagesReady(b, tracked, cancels, claims, done) ==
    /\ b \in BotType
    /\ tracked \in [DOMAIN tracked -> OrderType] /\ DOMAIN tracked \subseteq OrderIds
    /\ b.active_orders = Cardinality(DOMAIN tracked)
    /\ cancels \cup claims \subseteq DOMAIN tracked
    /\ done \subseteq cancels \cup claims

\* What the pages leave of them.
AfterPages(b, tracked, done) ==
    /\ bot' \in BotType
    /\ SameGrid(b, bot')
    /\ bot'.total_shares = b.total_shares /\ bot'.gas_credit = b.gas_credit
    /\ bot'.active_orders = Cardinality(DOMAIN orders')
    /\ \A t \in Token : /\ refund(done, t) \in Nat
                        /\ bot'.free_balances[t] = b.free_balances[t] + refund(done, t)
                        /\ bank'[t][GRID] = bank[t][GRID] + refund(done, t)
    /\ DOMAIN orders' = DOMAIN tracked \ done
    /\ \A o \in DOMAIN orders' : orders'[o] = tracked[o]
    /\ DOMAIN book' = DOMAIN book \ done
    /\ \A o \in DOMAIN book' : book'[o] = book[o]
    /\ cancelled' \subseteq cancelled \cup done
    /\ orders' \in [DOMAIN orders' -> OrderType]
    /\ book' \in [DOMAIN book' -> RestingType]
    /\ bank' \in [Token -> [Account -> Nat]]
    /\ pair' = pair /\ next_order_id' = next_order_id

LEMMA Settled ==
  ASSUME TypeOK, NEW b, NEW tracked, NEW cancels, NEW claims, NEW done,
         PagesReady(b, tracked, cancels, claims, done),
         settle_pages(b, tracked, cancels, claims, done)
  PROVE  AfterPages(b, tracked, done)
<1> USE DEF PagesReady
<1> DEFINE F == [t \in Token |-> b.free_balances[t] + refund(done, t)]
           n == b.active_orders - Cardinality(done)
<1>1. \A t \in Token : refund(done, t) \in Nat
  BY DEF settle_pages, fits
<1>2. F \in [Token -> Nat]
  BY <1>1 DEF BotType
<1>3. done \subseteq DOMAIN tracked
  OBVIOUS
<1>4. /\ IsFiniteSet(DOMAIN tracked) /\ Cardinality(DOMAIN tracked) \in Nat
      /\ IsFiniteSet(done) /\ Cardinality(done) \in Nat
  BY <1>3, TrackedFinite DEF TypeOK
<1>5. /\ n = Cardinality(DOMAIN tracked \ done)
      /\ n \in Nat
  <2>1. (DOMAIN tracked) \cap done = done
    BY <1>3
  <2>2. /\ IsFiniteSet(DOMAIN tracked \ done)
        /\ Cardinality(DOMAIN tracked \ done) = Cardinality(DOMAIN tracked) - Cardinality((DOMAIN tracked) \cap done)
    BY <1>4, FS_Difference
  <2>3. QED
    BY <2>1, <2>2, FS_CardinalityType
<1>6. bot' = [b EXCEPT !.free_balances = F, !.active_orders = n]
  BY DEF settle_pages, credited_refund, orders_settled
<1>7. \A t \in Token : bot'.free_balances[t] = b.free_balances[t] + refund(done, t)
  BY <1>6 DEF BotType
<1> HIDE DEF F, n
<1>8. /\ bot' \in BotType /\ SameGrid(b, bot') /\ bot'.active_orders = n
      /\ bot'.total_shares = b.total_shares /\ bot'.gas_credit = b.gas_credit
  BY <1>2, <1>5, <1>6 DEF BotType, SameGrid
<1>9. /\ orders' = [o \in DOMAIN tracked \ done |-> tracked[o]]
      /\ book' = [o \in DOMAIN book \ done |-> book[o]]
      /\ cancelled' \subseteq cancelled \cup done
  BY DEF settle_pages, Restrict, untracked, cancels_recorded
<1>10. bank' = [t \in Token |-> [bank[t] EXCEPT ![GRID] = @ + refund(done, t)]]
  BY DEF settle_pages
<1>11. /\ bank' \in [Token -> [Account -> Nat]]
       /\ \A t \in Token : bank'[t][GRID] = bank[t][GRID] + refund(done, t)
  BY <1>1, <1>10 DEF TypeOK, Account
<1>12. book \in [DOMAIN book -> RestingType]
  BY DEF TypeOK
<1>13. pair' = pair /\ next_order_id' = next_order_id
  BY DEF settle_pages
<1>14. DOMAIN orders' = DOMAIN tracked \ done /\ DOMAIN book' = DOMAIN book \ done
  BY <1>9
<1>15. QED
  BY <1>1, <1>5, <1>7, <1>8, <1>9, <1>11, <1>12, <1>13, <1>14 DEF AfterPages

\* With the grid kept and nothing claimed that the pair does not hold, the
\* parts of the invariant about grid and orders survive the pages.
LEMMA SettledKeeps ==
  ASSUME TypeOK, GridOK, EscrowRecoverable, bot # None,
         NEW b, NEW tracked, NEW cancels, NEW claims, NEW done,
         SameGrid(bot, b),
         \A t \in Token : b.free_balances[t] <= bank[t][GRID],
         \A o \in DOMAIN tracked \cap Resting : Matches(o, tracked[o]),
         PagesReady(b, tracked, cancels, claims, done),
         settle_pages(b, tracked, cancels, claims, done)
  PROVE  /\ NoBot' /\ GridOK' /\ EscrowRecoverable' /\ OrdersMatch'
         /\ FreeInCustody' /\ OrdersCounted'
<1>1. AfterPages(b, tracked, done)
  BY Settled
<1> USE <1>1 DEF AfterPages
<1>2. bot' # None
  BY <1>1, NoneAssumption
<1>3. SameGrid(bot, bot')
  BY DEF SameGrid
<1>4. /\ GridOf(bot) => GridOf(bot')
      /\ \A i : grid_price(bot', i) = grid_price(bot, i)
      /\ \A t : on_side(bot', bot'.reference_price, t) = on_side(bot, bot.reference_price, t)
  BY <1>3, SameRungs
<1>5. GridOK'
  BY <1>4 DEF GridOK, side_rungs
<1>6. EscrowRecoverable'
  <2>1. SUFFICES ASSUME NEW o \in DOMAIN book'
                 PROVE  /\ o \notin cancelled'
                        /\ \E r \in on_side(bot', bot'.reference_price, book'[o].token) :
                              grid_price(bot', r) = book'[o].price
    BY <1>2 DEF EscrowRecoverable, Resting, side_rungs, rung_price
  <2>2. o \in DOMAIN book /\ o \notin done /\ book'[o] = book[o]
    BY <1>1
  <2>3. /\ o \notin cancelled
        /\ \E r \in on_side(bot, bot.reference_price, book[o].token) :
              grid_price(bot, r) = book[o].price
    BY <2>2 DEF EscrowRecoverable, Resting, side_rungs, rung_price
  <2>4. QED
    BY <1>1, <1>4, <2>2, <2>3
<1>7. OrdersMatch'
  BY <1>1 DEF OrdersMatch, Matches, Tracked, Resting
<1>8. FreeInCustody'
  <2>1. SUFFICES ASSUME NEW t \in Token
                 PROVE  bot'.free_balances[t] <= bank'[t][GRID]
    BY DEF FreeInCustody
  <2>2. b.free_balances[t] \in Nat /\ bank[t][GRID] \in Nat
    BY DEF PagesReady, BotType, TypeOK, Account
  <2>3. QED
    BY <1>1, <2>2
<1>9. OrdersCounted'
  BY <1>1 DEF OrdersCounted, Tracked
<1>10. NoBot'
  BY <1>2 DEF NoBot
<1>11. QED
  BY <1>5, <1>6, <1>7, <1>8, <1>9, <1>10

-----------------------------------------------------------------------------
(* Placement. *)

LEMMA SideRungIsOfSide ==
  ASSUME bot \in BotType, GridOf(bot), NEW t \in Token, NEW k \in Nat,
         k < Cardinality(side_rungs(t))
  PROVE  side_rung(t, k) \in side_rungs(t) /\ side_rung(t, k) \in Nat
         /\ rung_price(side_rung(t, k)) \in Nat \ {0}
<1>1. bot.reference_price \in Nat
  BY DEF BotType
<1>2. side_rung(t, k) \in side_rungs(t)
  <2>1. CASE t = Bid
    BY <1>1, <2>1, FirstRungsAreBids DEF side_rung, side_rungs
  <2>2. CASE t = Ask
    BY <1>1, <2>2, LastRungsAreAsks DEF side_rung, side_rungs, Ask, Bid
  <2>3. QED
    BY <2>1, <2>2 DEF Token, Ask, Bid
<1>3. side_rung(t, k) \in 0..(bot.grid_count - 1) /\ bot.grid_count \in Nat
  BY <1>2 DEF side_rungs, on_side, GridOf
<1>4. side_rung(t, k) \in Nat
  BY <1>3
<1>5. rung_price(side_rung(t, k)) \in Nat \ {0}
  BY <1>4, GridPriceRises DEF rung_price
<1>6. QED
  BY <1>2, <1>4, <1>5

\* The rungs of a side get equal parts, which together are no more than is free.
LEMMA PartsWithinFree ==
  ASSUME bot \in BotType, GridOf(bot), \A t \in Token : side_rungs(t) # {},
         NEW free \in [Token -> Nat], NEW t \in Token,
         NEW n \in {0, Cardinality(side_rungs(t))}
  PROVE  /\ amount_each(free, t) \in Nat /\ n \in Nat
         /\ n * amount_each(free, t) \in Nat
         /\ n * amount_each(free, t) <= free[t]
<1> DEFINE c == Cardinality(side_rungs(t))
           a == free[t] \div c
<1>1. c \in Nat \ {0}
  <2>1. bot.grid_count \in Nat
    BY DEF GridOf
  <2>2. Cardinality(side_rungs(t)) \in 0..bot.grid_count /\ Cardinality(side_rungs(t)) > 0
    BY OnSideFinite DEF side_rungs
  <2>3. QED
    BY <2>1, <2>2
<1>2. free[t] \in Nat
  OBVIOUS
<1>3. amount_each(free, t) = a
  BY DEF amount_each
<1> HIDE DEF c
<1>4. a \in Nat /\ c * a \in Nat /\ c * a <= free[t]
  BY <1>1, <1>2
<1>5. n = 0 \/ n = c
  BY DEF c
<1> HIDE DEF a
<1>6. QED
  BY <1>1, <1>2, <1>3, <1>4, <1>5

\* A bot on its way to be placed: deposited into, perhaps, but not counted on.
PlacementReady(b, new_bank, rest, cut) ==
    /\ b \in BotType /\ SameGrid(bot, b)
    /\ b.active_orders = bot.active_orders
    /\ new_bank \in [Token -> [Account -> Nat]]
    /\ \A t \in Token : b.free_balances[t] <= new_bank[t][GRID]
    /\ \A t \in Token : rest[t] \in {0, Cardinality(side_rungs(t))}
    /\ cut \in MakerFees

\* What the placement leaves of the bot.
AfterPlacement(b) ==
    /\ bot' \in BotType
    /\ SameGrid(bot, bot')
    /\ bot'.total_shares = b.total_shares /\ bot'.gas_credit = b.gas_credit
    /\ orders' \in [DOMAIN orders' -> OrderType] /\ DOMAIN orders' \subseteq OrderIds'
    /\ book' \in [DOMAIN book' -> RestingType] /\ DOMAIN book' \subseteq OrderIds'
    /\ OrderIds \subseteq OrderIds'
    /\ next_order_id' \in Nat \ {0}
    /\ bank' \in [Token -> [Account -> Nat]]
    /\ pair' = pair
    /\ DOMAIN orders \subseteq DOMAIN orders'

LEMMA PlacedTyped ==
  ASSUME NEW r \in Nat, NEW t \in Token, NEW q \in Nat \ {0}, NEW l \in Nat \ {0}
  PROVE  LET order   == [rung_index |-> r, token |-> t, price |-> q, remaining |-> l]
             resting == [token |-> t, price |-> q, left |-> l, parked |-> FALSE]
         IN  /\ order \in OrderType /\ resting \in RestingType
             /\ order.token = t /\ order.price = q /\ order.remaining = l
             /\ resting.token = t /\ resting.price = q /\ resting.left = l /\ ~resting.parked
BY DEF OrderType, RestingType

LEMMA Placed ==
  ASSUME TypeOK, GridOK, EscrowRecoverable, OrdersMatch, OrdersCounted,
         bot # None, NEW b, NEW new_bank, NEW rest, NEW cut,
         PlacementReady(b, new_bank, rest, cut),
         place(b, new_bank, rest, cut),
         cancelled' = cancelled
  PROVE  /\ AfterPlacement(b)
         /\ NoBot' /\ GridOK' /\ EscrowRecoverable' /\ OrdersMatch'
         /\ FreeInCustody' /\ OrdersCounted'
<1> DEFINE first(t) == IF t = Bid THEN next_order_id ELSE next_order_id + rest[Bid]
           total    == rest[Bid] + rest[Ask]
           new_ids  == next_order_id..(next_order_id + total - 1)
           each(t)  == amount_each(b.free_balances, t)
           side(o)  == IF o < first(Ask) THEN Bid ELSE Ask
           rung(o)  == side_rung(side(o), o - first(side(o)))
           left(o)  == each(side(o)) - cut
           F        == [t \in Token |-> b.free_balances[t] - rest[t] * each(t)]
           n        == b.active_orders + total
<1>1. /\ bot \in BotType /\ GridOf(bot) /\ \A t \in Token : side_rungs(t) # {}
      /\ next_order_id \in Nat \ {0} /\ b \in BotType /\ cut \in Nat
      /\ b.free_balances \in [Token -> Nat] /\ b.active_orders \in Nat
  BY AmountAssumption DEF TypeOK, GridOK, PlacementReady, BotType
<1>2. \A t \in Token : /\ each(t) \in Nat /\ rest[t] \in Nat
                       /\ rest[t] * each(t) \in Nat
                       /\ rest[t] * each(t) <= b.free_balances[t]
  BY <1>1, PartsWithinFree DEF PlacementReady
<1>3. rest[Bid] \in Nat /\ rest[Ask] \in Nat /\ total \in Nat /\ Bid \in Token /\ Ask \in Token
  BY <1>2 DEF Bid, Ask, Token
<1>4. ASSUME NEW o \in new_ids
      PROVE  /\ o \in Nat /\ o \notin OrderIds
             /\ side(o) \in Token /\ o - first(side(o)) \in 0..(rest[side(o)] - 1)
  <2>1. o \in Nat /\ next_order_id <= o /\ o < next_order_id + total
    BY <1>1, <1>3
  <2>2. CASE o < first(Ask)
    BY <1>1, <1>3, <2>1, <2>2 DEF OrderIds, Bid, Ask
  <2>3. CASE ~(o < first(Ask))
    BY <1>1, <1>3, <2>1, <2>3 DEF OrderIds, Bid, Ask
  <2>4. QED
    BY <2>2, <2>3
<1>5. ASSUME NEW o \in new_ids
      PROVE  /\ rung(o) \in side_rungs(side(o)) /\ rung(o) \in Nat
             /\ rung_price(rung(o)) \in Nat \ {0}
  <2>1. /\ side(o) \in Token /\ o - first(side(o)) \in 0..(rest[side(o)] - 1)
        /\ rest[side(o)] \in Nat
    BY <1>2, <1>4
  <2>2. rest[side(o)] = Cardinality(side_rungs(side(o)))
    BY <2>1 DEF PlacementReady
  <2> HIDE DEF side, first
  <2>3. o - first(side(o)) \in Nat /\ o - first(side(o)) < Cardinality(side_rungs(side(o)))
    BY <2>1, <2>2
  <2>4. QED
    BY <1>1, <2>1, <2>3, SideRungIsOfSide
<1>6. ASSUME NEW o \in new_ids
      PROVE  left(o) \in Nat \ {0}
  <2>1. cut < each(side(o))
    BY DEF place
  <2>2. each(side(o)) \in Nat
    BY <1>2, <1>4
  <2>3. QED
    BY <1>1, <2>1, <2>2
<1>7. /\ bot' = [b EXCEPT !.free_balances = F, !.active_orders = n]
      /\ bank' = [t \in Token |-> [new_bank[t] EXCEPT ![GRID] = @ - rest[t] * each(t),
                                                      ![OTHERS] = @ + rest[t] * cut]]
      /\ orders' = [o \in DOMAIN orders \cup new_ids |->
                      IF o \in DOMAIN orders THEN orders[o]
                      ELSE [rung_index |-> rung(o), token |-> side(o),
                            price |-> rung_price(rung(o)), remaining |-> left(o)]]
      /\ book' = [o \in DOMAIN book \cup new_ids |->
                    IF o \in DOMAIN book THEN book[o]
                    ELSE [token |-> side(o), price |-> rung_price(rung(o)),
                          left |-> left(o), parked |-> FALSE]]
      /\ next_order_id' = next_order_id + total
      /\ pair' = pair
  BY DEF place
<1>8. F \in [Token -> Nat] /\ n \in Nat
  BY <1>1, <1>2, <1>3
<1>9. \A t \in Token : bot'.free_balances[t] = b.free_balances[t] - rest[t] * each(t)
  BY <1>1, <1>7 DEF BotType
<1> HIDE DEF F, n, first, side, rung, left, each, total, new_ids
<1>10. /\ bot' \in BotType /\ SameGrid(b, bot') /\ bot'.active_orders = n
       /\ bot'.total_shares = b.total_shares /\ bot'.gas_credit = b.gas_credit
  BY <1>1, <1>7, <1>8 DEF BotType, SameGrid
<1>11. bot' # None /\ SameGrid(bot, bot')
  BY <1>10, NoneAssumption DEF SameGrid, PlacementReady
<1>12. /\ bank' \in [Token -> [Account -> Nat]]
       /\ \A t \in Token : bank'[t][GRID] = new_bank[t][GRID] - rest[t] * each(t)
  <2>1. /\ new_bank \in [Token -> [Account -> Nat]]
        /\ \A t \in Token : b.free_balances[t] <= new_bank[t][GRID]
    BY DEF PlacementReady
  <2>2. GRID \in Account /\ OTHERS \in Account /\ GRID # OTHERS
    BY AccountAssumption DEF Account
  <2>3. \A t \in Token : rest[t] * cut \in Nat
    BY <1>1, <1>2
  <2>4. \A t \in Token : new_bank[t][GRID] - rest[t] * each(t) \in Nat
    <3>1. TAKE t \in Token
    <3>2. new_bank[t][GRID] \in Nat /\ b.free_balances[t] \in Nat
      BY <1>1, <2>1, <2>2
    <3>3. QED
      BY <1>2, <2>1, <3>2
  <2> DEFINE x(t) == rest[t] * each(t)
             y(t) == rest[t] * cut
  <2>5. bank' = [t \in Token |-> [new_bank[t] EXCEPT ![GRID] = @ - x(t), ![OTHERS] = @ + y(t)]]
    BY <1>7
  <2>6. \A t \in Token : new_bank[t][GRID] - x(t) \in Nat /\ y(t) \in Nat
    BY <2>3, <2>4
  <2>7. SUFFICES /\ bank' \in [Token -> [Account -> Nat]]
                 /\ \A t \in Token : bank'[t][GRID] = new_bank[t][GRID] - x(t)
    OBVIOUS
  <2> HIDE DEF x, y
  <2>8. QED
    BY <2>1, <2>2, <2>5, <2>6
<1>13. /\ next_order_id' \in Nat \ {0} /\ OrderIds \subseteq OrderIds'
       /\ new_ids \subseteq OrderIds'
  BY <1>1, <1>3, <1>7 DEF OrderIds, new_ids
<1>14. /\ DOMAIN orders' = DOMAIN orders \cup new_ids /\ DOMAIN book' = DOMAIN book \cup new_ids
       /\ \A o \in DOMAIN orders : orders'[o] = orders[o]
       /\ \A o \in DOMAIN book : book'[o] = book[o]
  BY <1>7
<1>15. DOMAIN orders \subseteq OrderIds /\ DOMAIN book \subseteq OrderIds
  BY DEF TypeOK
<1>16. \A o \in new_ids :
         /\ o \notin DOMAIN orders /\ o \notin DOMAIN book
         /\ orders'[o] \in OrderType /\ book'[o] \in RestingType
         /\ orders'[o].token = side(o) /\ book'[o].token = side(o)
         /\ orders'[o].price = rung_price(rung(o)) /\ book'[o].price = rung_price(rung(o))
         /\ orders'[o].remaining = left(o) /\ book'[o].left = left(o)
  <2>1. TAKE o \in new_ids
  <2>2. o \notin DOMAIN orders /\ o \notin DOMAIN book
    BY <1>4, <1>15
  <2>3. /\ orders'[o] = [rung_index |-> rung(o), token |-> side(o),
                         price |-> rung_price(rung(o)), remaining |-> left(o)]
        /\ book'[o] = [token |-> side(o), price |-> rung_price(rung(o)),
                       left |-> left(o), parked |-> FALSE]
    BY <1>7, <2>2
  <2>4. /\ rung(o) \in Nat /\ side(o) \in Token /\ rung_price(rung(o)) \in Nat \ {0}
        /\ left(o) \in Nat \ {0}
    BY <1>4, <1>5, <1>6
  <2>5. QED
    BY <2>2, <2>3, <2>4, PlacedTyped
<1>17. orders' \in [DOMAIN orders' -> OrderType]
  <2>1. \A o \in DOMAIN orders' : orders'[o] \in OrderType
    BY <1>14, <1>16 DEF TypeOK
  <2>2. QED
    BY <1>7, <2>1
<1>18. book' \in [DOMAIN book' -> RestingType]
  <2>1. \A o \in DOMAIN book' : book'[o] \in RestingType
    BY <1>14, <1>16 DEF TypeOK
  <2>2. QED
    BY <1>7, <2>1
<1>19. AfterPlacement(b)
  BY <1>7, <1>10, <1>11, <1>12, <1>13, <1>14, <1>15, <1>17, <1>18 DEF AfterPlacement
<1>20. FreeInCustody'
  <2>1. SUFFICES ASSUME NEW t \in Token
                 PROVE  bot'.free_balances[t] <= bank'[t][GRID]
    BY DEF FreeInCustody
  <2>2. new_bank[t][GRID] \in Nat /\ b.free_balances[t] \in Nat
    BY <1>1 DEF PlacementReady, Account
  <2>3. b.free_balances[t] <= new_bank[t][GRID]
    BY DEF PlacementReady
  <2>4. QED
    BY <1>2, <1>9, <1>12, <2>2, <2>3
<1>21. OrdersCounted'
  <2>1. IsFiniteSet(new_ids) /\ Cardinality(new_ids) = total
    <3>1. /\ next_order_id \in Int /\ next_order_id + total - 1 \in Int
          /\ next_order_id <= (next_order_id + total - 1) + 1
      BY <1>1, <1>3
    <3>2. /\ IsFiniteSet(new_ids)
          /\ Cardinality(new_ids) = (next_order_id + total - 1) - next_order_id + 1
      BY <3>1, IntervalSize DEF new_ids
    <3>3. QED
      BY <1>1, <1>3, <3>2
  <2>2. IsFiniteSet(DOMAIN orders) /\ Cardinality(DOMAIN orders) \in Nat
    BY <1>1, <1>15, TrackedFinite
  <2>3. (DOMAIN orders) \cap new_ids = {} /\ Cardinality({}) = 0
    BY <1>16, FS_EmptySet
  <2>4. Cardinality(DOMAIN orders \cup new_ids)
          = Cardinality(DOMAIN orders) + Cardinality(new_ids) - Cardinality((DOMAIN orders) \cap new_ids)
    BY <2>1, <2>2, FS_Union
  <2>5. Cardinality(DOMAIN orders \cup new_ids) = Cardinality(DOMAIN orders) + total
    BY <1>3, <2>1, <2>2, <2>3, <2>4
  <2>6. n = Cardinality(DOMAIN orders) + total
    BY DEF OrdersCounted, Tracked, PlacementReady, n
  <2>7. QED
    BY <1>10, <1>14, <2>5, <2>6 DEF OrdersCounted, Tracked
<1>22. /\ GridOf(bot) => GridOf(bot')
       /\ \A i : grid_price(bot', i) = grid_price(bot, i)
       /\ \A t : on_side(bot', bot'.reference_price, t) = on_side(bot, bot.reference_price, t)
  BY <1>11, SameRungs
<1>23. GridOK' /\ NoBot'
  BY <1>1, <1>11, <1>22 DEF GridOK, NoBot, side_rungs
<1>24. EscrowRecoverable'
  <2>1. SUFFICES ASSUME NEW o \in DOMAIN book'
                 PROVE  /\ o \notin cancelled'
                        /\ \E r \in on_side(bot', bot'.reference_price, book'[o].token) :
                              grid_price(bot', r) = book'[o].price
    BY <1>11 DEF EscrowRecoverable, Resting, side_rungs, rung_price
  <2>2. CASE o \in DOMAIN book
    <3>1. /\ o \notin cancelled
          /\ \E r \in on_side(bot, bot.reference_price, book[o].token) :
                grid_price(bot, r) = book[o].price
      BY <2>2 DEF EscrowRecoverable, Resting, side_rungs, rung_price
    <3>2. QED
      BY <1>14, <1>22, <2>2, <3>1
  <2>3. CASE o \in new_ids
    <3>1. o \notin cancelled
      BY <1>4, <2>3 DEF TypeOK
    <3>2. book'[o].token = side(o) /\ book'[o].price = rung_price(rung(o))
      BY <1>16, <2>3
    <3>3. rung(o) \in on_side(bot, bot.reference_price, side(o))
      BY <1>5, <2>3 DEF side_rungs
    <3>4. QED
      BY <1>22, <3>1, <3>2, <3>3 DEF rung_price
  <2>4. QED
    BY <1>14, <2>2, <2>3
<1>25. OrdersMatch'
  <2>1. SUFFICES ASSUME NEW o \in DOMAIN orders', o \in DOMAIN book'
                 PROVE  Matches(o, orders[o])'
    BY DEF OrdersMatch, Tracked, Resting
  <2>2. CASE o \in new_ids
    <3>1. left(o) \in Nat
      BY <1>6, <2>2
    <3>2. /\ orders'[o].token = book'[o].token /\ orders'[o].price = book'[o].price
          /\ orders'[o].remaining = left(o) /\ book'[o].left = left(o)
      BY <1>16, <2>2
    <3>3. QED
      BY <3>1, <3>2 DEF Matches
  <2>3. CASE o \notin new_ids
    BY <1>14, <2>1, <2>3 DEF OrdersMatch, Tracked, Resting, Matches
  <2>4. QED
    BY <2>2, <2>3
<1>26. QED
  BY <1>19, <1>20, <1>21, <1>23, <1>24, <1>25

-----------------------------------------------------------------------------
(* The vault's steps keep the invariant: deposits and allocations. *)

LEMMA AllOrNoneRest ==
  ASSUME NEW free, NEW t, NEW ahead, NEW n \in may_rest(sent(free, t, ahead))
  PROVE  n \in {0, Cardinality(side_rungs(t))}
<1>1. sent(free, t, ahead) \in {0, Cardinality(side_rungs(t))}
  BY DEF sent
<1>2. n \in {0, sent(free, t, ahead)}
  BY DEF may_rest
<1>3. QED
  BY <1>1, <1>2

LEMMA MovedBank ==
  ASSUME bank \in [Token -> [Account -> Nat]], NEW from \in Account, NEW to \in Account, from # to,
         NEW t \in Token, NEW amount \in Nat, amount <= bank[t][from]
  PROVE  /\ moved(from, to, t, amount) \in [Token -> [Account -> Nat]]
         /\ moved(from, to, t, amount)[t][to] = bank[t][to] + amount
         /\ \A s \in Token : s # t => moved(from, to, t, amount)[s] = bank[s]
<1> DEFINE b1 == [bank EXCEPT ![t][from] = @ - amount]
           b2 == [b1 EXCEPT ![t][to] = @ + amount]
<1>1. bank[t] \in [Account -> Nat] /\ bank[t][from] - amount \in Nat
  OBVIOUS
<1>2. /\ b1 \in [Token -> [Account -> Nat]] /\ b1[t][to] = bank[t][to]
      /\ \A s \in Token : s # t => b1[s] = bank[s]
  BY <1>1
<1>3. moved(from, to, t, amount) = b2
  BY DEF moved
<1> HIDE DEF b1
<1>4. b1[t] \in [Account -> Nat] /\ b1[t][to] + amount \in Nat
  BY <1>2
<1>5. /\ b2 \in [Token -> [Account -> Nat]] /\ b2[t][to] = b1[t][to] + amount
      /\ \A s \in Token : s # t => b2[s] = b1[s]
  BY <1>2, <1>4
<1>6. QED
  BY <1>2, <1>3, <1>5

LEMMA ReceiveStep ==
  ASSUME IInv, NEW t \in Token, NEW amount \in DepositAmounts,
         NEW cut \in MakerFees, Receive(t, amount, cut)
  PROVE  IInv'
<1> DEFINE minted    == deposit_shares(amount, t, bot.reference_price)
           deposited == [bot EXCEPT !.free_balances[t] = @ + amount, !.total_shares = @ + minted]
           new_bank  == moved(config.owner, GRID, t, amount)
<1> USE DEF IInv
<1>1. /\ bot # None /\ bot \in BotType /\ config # None /\ config \in ConfigType
      /\ amount \in Nat /\ amount <= bank[t][config.owner]
      /\ bot.gas_credit >= required_gas
      /\ shares' = [shares EXCEPT ![config.owner] = @ + minted]
      /\ UNCHANGED <<config, mode, policy, cancelled, fee_cache>>
      /\ UNCHANGED <<events, manager, registry>>
  BY AmountAssumption DEF Receive, execute_receive, TypeOK, VaultFrame
<1>2. PICK n \in may_rest(sent(deposited.free_balances, t, bot.active_orders)) :
        place(deposited, new_bank, [s \in Token |-> IF s = t THEN n ELSE 0], cut)
  BY DEF Receive, execute_receive
<1>3. minted \in Nat
  <2>1. bot.reference_price \in Nat \ {0}
    BY <1>1 DEF BotType
  <2>2. QED
    BY <1>1, <2>1, InToken0 DEF deposit_shares
<1>4. bot.free_balances \in [Token -> Nat] /\ bot.total_shares \in Nat /\ bot.gas_credit \in Nat
  BY <1>1 DEF BotType
<1>5. /\ config.owner \in Users /\ config.owner \in Account /\ GRID \in Account
      /\ config.owner # GRID /\ config.owner # Collector
      /\ bank \in [Token -> [Account -> Nat]]
  BY <1>1, AccountAssumption, ShareholderAssumption DEF ConfigType, Account, TypeOK
<1> HIDE DEF minted
<1>6. /\ deposited \in BotType /\ SameGrid(bot, deposited)
      /\ deposited.active_orders = bot.active_orders
      /\ deposited.free_balances = [bot.free_balances EXCEPT ![t] = @ + amount]
      /\ deposited.total_shares = bot.total_shares + minted
      /\ deposited.gas_credit = bot.gas_credit
  <2> DEFINE F == [bot.free_balances EXCEPT ![t] = @ + amount]
             m == bot.total_shares + minted
  <2>1. F \in [Token -> Nat] /\ m \in Nat
    BY <1>1, <1>3, <1>4
  <2>2. deposited = [bot EXCEPT !.free_balances = F, !.total_shares = m]
    BY <1>1 DEF BotType
  <2> HIDE DEF F, m, deposited
  <2>3. QED
    BY <1>1, <2>1, <2>2 DEF BotType, SameGrid, F, m
<1>7. /\ new_bank \in [Token -> [Account -> Nat]]
      /\ new_bank[t][GRID] = bank[t][GRID] + amount
      /\ \A s \in Token : s # t => new_bank[s] = bank[s]
  BY <1>1, <1>5, MovedBank
<1> HIDE DEF deposited, new_bank
<1> DEFINE rest == [s \in Token |-> IF s = t THEN n ELSE 0]
<1>8. PlacementReady(deposited, new_bank, rest, cut)
  <2>1. \A s \in Token : rest[s] \in {0, Cardinality(side_rungs(s))}
    BY <1>2, AllOrNoneRest
  <2>2. \A s \in Token : deposited.free_balances[s] <= new_bank[s][GRID]
    <3>1. TAKE s \in Token
    <3>2. /\ bot.free_balances[s] <= bank[s][GRID] /\ bot.free_balances[s] \in Nat
          /\ bank[s][GRID] \in Nat
      BY <1>1, <1>4, <1>5 DEF FreeInCustody
    <3>3. QED
      BY <1>1, <1>4, <1>6, <1>7, <3>2
  <2>3. QED
    BY <1>6, <1>7, <2>1, <2>2 DEF PlacementReady
<1>9. /\ AfterPlacement(deposited)
      /\ NoBot' /\ GridOK' /\ EscrowRecoverable' /\ OrdersMatch'
      /\ FreeInCustody' /\ OrdersCounted'
  BY <1>1, <1>2, <1>8, Placed
<1>10. shares' \in [Users \cup {Collector} -> Nat]
  BY <1>1, <1>3, <1>5 DEF TypeOK
<1>11. TypeOK'
  BY <1>1, <1>9, <1>10 DEF TypeOK, AfterPlacement
<1>12. SharesAccounted'
  <2>1. bot.total_shares = shares[config.owner] + shares[Collector]
    BY <1>1 DEF SharesAccounted
  <2>2. /\ shares'[config.owner] = shares[config.owner] + minted
        /\ shares'[Collector] = shares[Collector]
        /\ shares[config.owner] \in Nat /\ shares[Collector] \in Nat
    BY <1>1, <1>5 DEF TypeOK
  <2>3. QED
    BY <1>1, <1>3, <1>6, <1>9, <2>1, <2>2 DEF SharesAccounted, AfterPlacement
<1>13. ReserveBehindShares'
  <2>1. bot.gas_credit >= MINIMUM_GAS_RESERVE
    BY <1>1, <1>4, AmountAssumption DEF required_gas
  <2>2. QED
    BY <1>6, <1>9, <2>1 DEF ReserveBehindShares, AfterPlacement
<1>14. QED
  BY <1>9, <1>11, <1>12, <1>13

LEMMA AllocateStep ==
  ASSUME IInv, NEW cut \in MakerFees, Allocate(cut)
  PROVE  IInv'
<1> USE DEF IInv
<1>1. /\ bot # None /\ bot \in BotType /\ config # None
      /\ UNCHANGED <<config, mode, policy, cancelled, shares, fee_cache>>
      /\ UNCHANGED <<events, manager, registry>>
  BY DEF Allocate, execute_allocate, TypeOK, VaultFrame
<1> DEFINE bids == sent(bot.free_balances, Bid, bot.active_orders)
           asks == sent(bot.free_balances, Ask, bot.active_orders + bids)
<1>2. PICK m \in may_rest(bids), a \in may_rest(asks) :
        place(bot, bank, [t \in Token |-> IF t = Bid THEN m ELSE a], cut)
  BY DEF Allocate, execute_allocate
<1> DEFINE rest == [t \in Token |-> IF t = Bid THEN m ELSE a]
<1>3. m \in {0, Cardinality(side_rungs(Bid))} /\ a \in {0, Cardinality(side_rungs(Ask))}
  BY <1>2, AllOrNoneRest
<1>4. \A t \in Token : rest[t] \in {0, Cardinality(side_rungs(t))}
  BY <1>3 DEF Token, Ask, Bid
<1> HIDE DEF rest
<1>5. PlacementReady(bot, bank, rest, cut)
  BY <1>1, <1>4 DEF PlacementReady, SameGrid, TypeOK, FreeInCustody
<1>6. /\ AfterPlacement(bot)
      /\ NoBot' /\ GridOK' /\ EscrowRecoverable' /\ OrdersMatch'
      /\ FreeInCustody' /\ OrdersCounted'
  BY <1>1, <1>2, <1>5, Placed DEF rest
<1>7. TypeOK'
  BY <1>1, <1>6 DEF TypeOK, AfterPlacement
<1>8. SharesAccounted' /\ ReserveBehindShares'
  BY <1>1, <1>6 DEF SharesAccounted, ReserveBehindShares, AfterPlacement
<1>9. QED
  BY <1>6, <1>7, <1>8

-----------------------------------------------------------------------------
(* Cancellations, reports and recoveries. *)

LEMMA SettlingStep ==
  ASSUME IInv, bot # None,
         NEW b, NEW tracked, NEW cancels, NEW claims, NEW done,
         SameGrid(bot, b),
         \A t \in Token : b.free_balances[t] <= bank[t][GRID],
         \A o \in DOMAIN tracked \cap Resting : Matches(o, tracked[o]),
         PagesReady(b, tracked, cancels, claims, done),
         settle_pages(b, tracked, cancels, claims, done),
         UNCHANGED <<config, mode, policy, manager, registry>>,
         events' \in Nat,
         shares' \in [Users \cup {Collector} -> Nat],
         b.total_shares = shares'[config.owner] + shares'[Collector],
         b.total_shares > 0 => b.gas_credit >= MINIMUM_GAS_RESERVE
  PROVE  IInv'
<1> USE DEF IInv
<1>1. AfterPages(b, tracked, done)
  BY Settled
<1>2. /\ NoBot' /\ GridOK' /\ EscrowRecoverable' /\ OrdersMatch'
      /\ FreeInCustody' /\ OrdersCounted'
  BY SettledKeeps
<1>3. TypeOK'
  <2>1. /\ done \subseteq OrderIds /\ DOMAIN tracked \subseteq OrderIds
        /\ DOMAIN book \subseteq OrderIds /\ cancelled \subseteq OrderIds
    BY DEF PagesReady, TypeOK
  <2>2. OrderIds' = OrderIds
    BY <1>1 DEF OrderIds, AfterPages
  <2>3. /\ DOMAIN orders' \subseteq OrderIds' /\ DOMAIN book' \subseteq OrderIds'
        /\ cancelled' \subseteq OrderIds'
    BY <1>1, <2>1, <2>2 DEF AfterPages
  <2>4. config # None
    BY DEF TypeOK
  <2>5. QED
    BY <1>1, <2>3, <2>4 DEF TypeOK, AfterPages
<1>4. SharesAccounted' /\ ReserveBehindShares'
  BY <1>1 DEF SharesAccounted, ReserveBehindShares, AfterPages
<1>5. QED
  BY <1>2, <1>3, <1>4

\* Pages over the orders as they are tracked, for the bot as it is.
LEMMA CancellingStep ==
  ASSUME IInv, bot # None,
         NEW cancels, NEW claims, NEW done,
         cancels \cup claims \subseteq DOMAIN orders, done \subseteq cancels \cup claims,
         settle_pages(bot, orders, cancels, claims, done),
         UNCHANGED <<config, mode, policy, shares, fee_cache>>, VaultFrame
  PROVE  IInv'
<1> USE DEF IInv
<1>1. SameGrid(bot, bot)
  BY DEF SameGrid
<1>2. \A t \in Token : bot.free_balances[t] <= bank[t][GRID]
  BY DEF FreeInCustody
<1>3. \A o \in DOMAIN orders \cap Resting : Matches(o, orders[o])
  BY DEF OrdersMatch, Tracked
<1>4. PagesReady(bot, orders, cancels, claims, done)
  BY DEF PagesReady, TypeOK, OrdersCounted, Tracked
<1>5. /\ UNCHANGED <<config, mode, policy, manager, registry>>
      /\ events' \in Nat /\ shares' \in [Users \cup {Collector} -> Nat]
  BY DEF VaultFrame, TypeOK
<1>6. /\ bot.total_shares = shares'[config.owner] + shares'[Collector]
      /\ bot.total_shares > 0 => bot.gas_credit >= MINIMUM_GAS_RESERVE
  BY DEF SharesAccounted, ReserveBehindShares
<1>7. QED
  BY <1>1, <1>2, <1>3, <1>4, <1>5, <1>6, SettlingStep

LEMMA CancelAllStep ==
  ASSUME IInv, CancelAll
  PROVE  IInv'
<1>1. PICK done \in may_confirm(first_tracked, pair.batch_limit) :
        settle_pages(bot, orders, first_tracked, {}, done)
  BY DEF CancelAll, execute_cancel_all
<1>2. first_tracked \cup {} \subseteq DOMAIN orders /\ done \subseteq first_tracked \cup {}
  BY PagesWithin DEF first_tracked
<1>3. bot # None /\ UNCHANGED <<config, mode, policy, shares, fee_cache>> /\ VaultFrame
  BY DEF CancelAll, execute_cancel_all
<1>4. QED
  BY <1>1, <1>2, <1>3, CancellingStep

LEMMA EmergencyCancelStep ==
  ASSUME IInv, EmergencyCancel
  PROVE  IInv'
<1> DEFINE cancels == {o \in first_tracked : active(o)}
           claims  == {o \in first_tracked : parked(o)}
<1>1. PICK c \in may_confirm(cancels, bot.pair_batch_limit),
           d \in may_confirm(claims, bot.pair_batch_limit) :
        settle_pages(bot, orders, cancels, claims, c \cup d)
  BY DEF EmergencyCancel, execute_emergency_cancel
<1>2. c \subseteq cancels /\ d \subseteq claims
  BY PagesWithin
<1>3. cancels \cup claims \subseteq DOMAIN orders /\ c \cup d \subseteq cancels \cup claims
  BY <1>2 DEF first_tracked
<1>4. bot # None /\ UNCHANGED <<config, mode, policy, shares, fee_cache>> /\ VaultFrame
  BY DEF EmergencyCancel, execute_emergency_cancel, emergency_cancel_accepted
<1> HIDE DEF cancels, claims
<1>5. QED
  BY <1>1, <1>3, <1>4, CancellingStep

LEMMA RecoverOrderStep ==
  ASSUME IInv, NEW o \in DOMAIN book, NEW index \in 0..(MAX_GRID_COUNT - 1),
         RecoverOrder(o, index)
  PROVE  IInv'
<1> DEFINE t     == IF index \in side_rungs(Ask) THEN Ask ELSE Bid
           order == [rung_index |-> index, token |-> t, price |-> rung_price(index),
                     remaining |-> book[o].left]
           known == [p \in DOMAIN orders \cup {o} |-> IF p = o THEN order ELSE orders[p]]
           b     == [bot EXCEPT !.active_orders = @ + 1]
           claims == {p \in {o} : parked(p)}
<1>1. /\ bot # None /\ bot \in BotType /\ GridOf(bot) /\ o \notin DOMAIN orders
      /\ index \in side_rungs(Ask) \cup side_rungs(Bid)
      /\ active(o) \/ parked(o)
      /\ active(o) => validate_order(o, order)
      /\ parked(o) => validate_refund(o, order)
      /\ UNCHANGED <<config, mode, policy, shares, fee_cache>> /\ VaultFrame
      /\ book[o] \in RestingType /\ DOMAIN book \subseteq OrderIds
      /\ next_order_id \in Nat \ {0} /\ DOMAIN orders \subseteq OrderIds
      /\ orders \in [DOMAIN orders -> OrderType] /\ bot.active_orders = Cardinality(DOMAIN orders)
  BY DEF RecoverOrder, execute_recover_order, IInv, TypeOK, GridOK, OrdersCounted, Tracked
<1>2. PICK done \in may_confirm(claims, bot.pair_batch_limit) :
        settle_pages(b, known, {}, claims, done)
  BY DEF RecoverOrder, execute_recover_order
<1>3. done \subseteq claims
  BY <1>2, PagesWithin
<1>4. index \in Nat /\ t \in Token /\ rung_price(index) \in Nat \ {0}
  <2>1. index \in Nat
    BY <1>1 DEF side_rungs, on_side
  <2>2. QED
    BY <1>1, <2>1, GridPriceRises DEF rung_price, Token, Ask, Bid
<1> HIDE DEF t
<1>5. order \in OrderType
  <2>1. book[o].left \in Nat
    BY <1>1 DEF RestingType
  <2> DEFINE l == book[o].left
             q == rung_price(index)
  <2>2. l \in Nat /\ q \in Nat \ {0}
    BY <1>4, <2>1
  <2>3. order = [rung_index |-> index, token |-> t, price |-> q, remaining |-> l]
    OBVIOUS
  <2> HIDE DEF l, q, order
  <2>4. QED
    BY <1>4, <2>2, <2>3 DEF OrderType
<1>6. Matches(o, order)
  BY <1>1 DEF Matches, validate_order, validate_refund, active, parked
<1> HIDE DEF order
<1>7. /\ known \in [DOMAIN known -> OrderType] /\ DOMAIN known = DOMAIN orders \cup {o}
      /\ known[o] = order
      /\ \A p \in DOMAIN orders : known[p] = orders[p]
  BY <1>1, <1>5
<1> HIDE DEF known
<1>8. b.active_orders = Cardinality(DOMAIN known) /\ b.active_orders \in Nat
  <2>1. IsFiniteSet(DOMAIN orders) /\ Cardinality(DOMAIN orders) \in Nat
    BY <1>1, TrackedFinite
  <2>2. Cardinality(DOMAIN orders \cup {o}) = Cardinality(DOMAIN orders) + 1
    BY <1>1, <2>1, FS_AddElement
  <2>3. b.active_orders = bot.active_orders + 1
    BY <1>1 DEF BotType
  <2>4. QED
    BY <1>1, <1>7, <2>1, <2>2, <2>3
<1>9. /\ b \in BotType /\ SameGrid(bot, b) /\ b.free_balances = bot.free_balances
      /\ b.total_shares = bot.total_shares /\ b.gas_credit = bot.gas_credit
  <2>1. bot.active_orders + 1 \in Nat
    BY <1>1 DEF BotType
  <2>2. QED
    BY <1>1, <2>1 DEF BotType, SameGrid
<1> HIDE DEF b
<1>10. PagesReady(b, known, {}, claims, done)
  BY <1>1, <1>3, <1>7, <1>8, <1>9 DEF PagesReady
<1>11. \A p \in DOMAIN known \cap Resting : Matches(p, known[p])
  BY <1>6, <1>7 DEF IInv, OrdersMatch, Tracked
<1>12. \A s \in Token : b.free_balances[s] <= bank[s][GRID]
  BY <1>1, <1>9 DEF IInv, FreeInCustody
<1>13. /\ UNCHANGED <<config, mode, policy, manager, registry>>
       /\ events' \in Nat /\ shares' \in [Users \cup {Collector} -> Nat]
  BY <1>1 DEF VaultFrame, IInv, TypeOK
<1>14. /\ b.total_shares = shares'[config.owner] + shares'[Collector]
       /\ b.total_shares > 0 => b.gas_credit >= MINIMUM_GAS_RESERVE
  BY <1>1, <1>9 DEF IInv, SharesAccounted, ReserveBehindShares
<1> HIDE DEF claims
<1>15. QED
  BY <1>1, <1>2, <1>9, <1>10, <1>11, <1>12, <1>13, <1>14, SettlingStep

\* A report credits what arrived, forgets what is gone and charges the fee.
LEMMA ReconcileStep ==
  ASSUME IInv, NEW ids, NEW sender, NEW answer, NEW blind,
         execute_reconcile(ids, sender, answer, blind),
         UNCHANGED <<manager, registry>>, events' \in Nat
  PROVE  IInv'
<1> DEFINE credited == [t \in Token |-> bank[t][GRID] - bot.free_balances[t]]
           seen     == {o \in ids : active(o) /\ ~blind}
           claims   == {o \in ids : parked(o)}
           gone     == ids \ (seen \cup claims)
           tracked  == [o \in DOMAIN orders \ gone |->
                          IF o \in seen
                            THEN [orders[o] EXCEPT !.remaining = book[o].left]
                            ELSE orders[o]]
           synced   == [bot EXCEPT !.free_balances = [t \in Token |-> bank[t][GRID]],
                                   !.active_orders = @ - Cardinality(gone)]
           fee      == resolved_fee(answer)
           minted   == IF config.fees THEN fee_shares(synced, tracked, credited, fee.bps) ELSE 0
           b        == [synced EXCEPT
                          !.total_shares = @ + minted,
                          !.gas_credit = IF sender = config.keeper
                                           THEN @ - KEEPER_REWARD ELSE @]
<1>1. /\ bot # None /\ ids \subseteq DOMAIN orders
      /\ bot.gas_credit >= required_gas
      /\ \A o \in seen : validate_order(o, orders[o])
      /\ fits(minted, bot.total_shares)
      /\ shares' = [shares EXCEPT ![Collector] = @ + minted]
      /\ UNCHANGED <<config, mode, policy>>
  BY DEF execute_reconcile
<1>2. PICK done \in may_confirm(claims, pair.batch_limit) :
        settle_pages(b, tracked, {}, claims, done)
  BY DEF execute_reconcile
<1>3. /\ bot \in BotType /\ config \in ConfigType /\ bank \in [Token -> [Account -> Nat]]
      /\ orders \in [DOMAIN orders -> OrderType] /\ DOMAIN orders \subseteq OrderIds
      /\ book \in [DOMAIN book -> RestingType] /\ next_order_id \in Nat \ {0}
      /\ shares \in [Users \cup {Collector} -> Nat]
      /\ bot.active_orders = Cardinality(DOMAIN orders)
      /\ bot.total_shares = shares[config.owner] + shares[Collector]
  BY <1>1 DEF IInv, TypeOK, OrdersCounted, Tracked, SharesAccounted
<1>4. /\ bot.total_shares \in Nat /\ bot.gas_credit \in Nat
      /\ MINIMUM_GAS_RESERVE \in Nat /\ KEEPER_REWARD \in Nat /\ MAX_UINT128 \in Nat
  BY <1>3, AmountAssumption DEF BotType
<1>5. minted \in Nat
  BY <1>1, <1>4 DEF fits
<1>6. seen \subseteq DOMAIN book /\ gone \subseteq DOMAIN orders /\ claims \subseteq DOMAIN orders \ gone
  BY <1>1 DEF active
<1>7. done \subseteq claims
  BY <1>2, PagesWithin
<1> DEFINE F == [t \in Token |-> bank[t][GRID]]
           n == bot.active_orders - Cardinality(gone)
           s == bot.total_shares + minted
           g == IF sender = config.keeper THEN bot.gas_credit - KEEPER_REWARD ELSE bot.gas_credit
<1>8. DOMAIN tracked = DOMAIN orders \ gone
  OBVIOUS
<1>9. \A o \in DOMAIN tracked : tracked[o] \in OrderType
  <2>1. SUFFICES ASSUME NEW o \in DOMAIN orders \ gone
                 PROVE  tracked[o] \in OrderType
    OBVIOUS
  <2>2. orders[o] \in OrderType
    BY <1>3
  <2>3. CASE o \in seen
    <3>1. book[o].left \in Nat
      BY <1>3, <1>6, <2>3 DEF RestingType
    <3>2. [orders[o] EXCEPT !.remaining = book[o].left] \in OrderType
      BY <2>2, <3>1 DEF OrderType
    <3>3. QED
      BY <2>3, <3>2
  <2>4. QED
    BY <2>2, <2>3
<1>10. \A o \in DOMAIN tracked \cap Resting : Matches(o, tracked[o])
  <2>1. SUFFICES ASSUME NEW o \in DOMAIN orders \ gone, o \in DOMAIN book
                 PROVE  Matches(o, tracked[o])
    BY DEF Resting
  <2>2. CASE o \in seen
    <3>1. book[o].left \in Nat /\ orders[o] \in OrderType
      BY <1>3, <2>1 DEF RestingType
    <3>2. /\ tracked[o].token = orders[o].token /\ tracked[o].price = orders[o].price
          /\ tracked[o].remaining = book[o].left
      BY <2>2, <3>1 DEF OrderType
    <3>3. validate_order(o, orders[o])
      BY <1>1, <2>2
    <3> HIDE DEF tracked
    <3>4. QED
      BY <3>1, <3>2, <3>3 DEF Matches, validate_order
  <2>3. CASE o \notin seen
    BY <2>1, <2>3 DEF IInv, OrdersMatch, Tracked, Resting
  <2>4. QED
    BY <2>2, <2>3
<1>11. tracked \in [DOMAIN tracked -> OrderType] /\ DOMAIN tracked \subseteq OrderIds
  BY <1>3, <1>8, <1>9
<1>12. n = Cardinality(DOMAIN tracked) /\ n \in Nat
  <2>1. IsFiniteSet(DOMAIN orders) /\ Cardinality(DOMAIN orders) \in Nat
    BY <1>3, TrackedFinite
  <2>2. (DOMAIN orders) \cap gone = gone
    BY <1>6
  <2>3. /\ IsFiniteSet(DOMAIN orders \ gone)
        /\ Cardinality(DOMAIN orders \ gone) = Cardinality(DOMAIN orders) - Cardinality((DOMAIN orders) \cap gone)
    BY <2>1, FS_Difference
  <2>4. Cardinality(DOMAIN orders \ gone) \in Nat
    BY <2>3, FS_CardinalityType
  <2>5. QED
    BY <1>3, <1>8, <2>2, <2>3, <2>4
<1>13. F \in [Token -> Nat] /\ s \in Nat /\ g \in Nat /\ g >= MINIMUM_GAS_RESERVE
  <2>1. GRID \in Account
    BY DEF Account
  <2>2. QED
    BY <1>1, <1>3, <1>4, <1>5, <2>1 DEF required_gas
<1> HIDE DEF tracked, minted, gone
<1>14. b = [bot EXCEPT !.free_balances = F, !.active_orders = n, !.total_shares = s, !.gas_credit = g]
  BY <1>3 DEF BotType
<1>15. \A t \in Token : F[t] = bank[t][GRID]
  OBVIOUS
<1> HIDE DEF b, F, n, s, g
<1>16. /\ b \in BotType /\ SameGrid(bot, b) /\ b.free_balances = F /\ b.active_orders = n
       /\ b.total_shares = s /\ b.gas_credit = g
  BY <1>3, <1>12, <1>13, <1>14 DEF BotType, SameGrid
<1>17. PagesReady(b, tracked, {}, claims, done)
  BY <1>6, <1>7, <1>8, <1>11, <1>12, <1>16 DEF PagesReady
<1>18. \A t \in Token : b.free_balances[t] <= bank[t][GRID]
  BY <1>13, <1>15, <1>16
<1>19. /\ shares' \in [Users \cup {Collector} -> Nat]
       /\ s = shares'[config.owner] + shares'[Collector]
  <2>1. config.owner \in Users /\ config.owner # Collector
    BY <1>3, ShareholderAssumption DEF ConfigType
  <2>2. /\ shares' \in [Users \cup {Collector} -> Nat]
        /\ shares'[config.owner] = shares[config.owner] /\ shares'[Collector] = shares[Collector] + minted
    BY <1>1, <1>3, <1>5, <2>1
  <2>3. shares[config.owner] \in Nat /\ shares[Collector] \in Nat
    BY <1>3, <2>1
  <2>4. QED
    BY <1>3, <1>5, <2>2, <2>3 DEF s
<1>20. QED
  BY <1>1, <1>2, <1>10, <1>13, <1>16, <1>17, <1>18, <1>19, SettlingStep

-----------------------------------------------------------------------------
(* Steps that leave the orders alone. *)

\* The bot's balances, shares and gas change; what it is made for does not.
LEMMA BalancesStep ==
  ASSUME IInv, bot # None,
         bot' \in BotType, SameGrid(bot, bot'), bot'.active_orders = bot.active_orders,
         UNCHANGED <<config, mode, policy, orders, cancelled, pair, book, next_order_id>>,
         UNCHANGED <<manager, registry>>, events' \in Nat,
         bank' \in [Token -> [Account -> Nat]],
         shares' \in [Users \cup {Collector} -> Nat],
         \A t \in Token : bot'.free_balances[t] <= bank'[t][GRID],
         bot'.total_shares = shares'[config.owner] + shares'[Collector],
         bot'.total_shares > 0 => bot'.gas_credit >= MINIMUM_GAS_RESERVE
  PROVE  IInv'
<1> USE DEF IInv
<1>1. bot' # None
  BY NoneAssumption
<1>2. /\ GridOf(bot) => GridOf(bot')
      /\ \A i : grid_price(bot', i) = grid_price(bot, i)
      /\ \A t : on_side(bot', bot'.reference_price, t) = on_side(bot, bot.reference_price, t)
  BY SameRungs
<1>3. TypeOK'
  BY DEF TypeOK, OrderIds
<1>4. NoBot' /\ GridOK'
  BY <1>1, <1>2 DEF NoBot, GridOK, side_rungs
<1>5. EscrowRecoverable'
  <2>1. SUFFICES ASSUME NEW o \in DOMAIN book
                 PROVE  /\ o \notin cancelled
                        /\ \E r \in on_side(bot', bot'.reference_price, book[o].token) :
                              grid_price(bot', r) = book[o].price
    BY <1>1 DEF EscrowRecoverable, Resting, side_rungs, rung_price
  <2>2. /\ o \notin cancelled
        /\ \E r \in on_side(bot, bot.reference_price, book[o].token) :
              grid_price(bot, r) = book[o].price
    BY DEF EscrowRecoverable, Resting, side_rungs, rung_price
  <2>3. QED
    BY <1>2, <2>2
<1>6. OrdersMatch' /\ OrdersCounted' /\ FreeInCustody'
  BY DEF OrdersMatch, Matches, Tracked, Resting, OrdersCounted, FreeInCustody
<1>7. SharesAccounted' /\ ReserveBehindShares'
  BY DEF SharesAccounted, ReserveBehindShares
<1>8. QED
  BY <1>3, <1>4, <1>5, <1>6, <1>7

LEMMA SyncBalancesStep ==
  ASSUME IInv, SyncBalances
  PROVE  IInv'
<1> DEFINE F == [t \in Token |-> bank[t][GRID]]
<1>1. /\ bot # None /\ bot' = [bot EXCEPT !.free_balances = F]
      /\ UNCHANGED <<config, mode, policy, orders, cancelled, shares, fee_cache, market>>
      /\ UNCHANGED <<events, manager, registry>>
  BY DEF SyncBalances, execute_sync_balances, VaultFrame
<1>2. /\ bot \in BotType /\ bank \in [Token -> [Account -> Nat]] /\ GRID \in Account
      /\ shares \in [Users \cup {Collector} -> Nat] /\ events \in Nat
      /\ bot.total_shares = shares[config.owner] + shares[Collector]
      /\ bot.total_shares > 0 => bot.gas_credit >= MINIMUM_GAS_RESERVE
  BY <1>1 DEF IInv, TypeOK, Account, SharesAccounted, ReserveBehindShares
<1>3. F \in [Token -> Nat] /\ \A t \in Token : F[t] <= bank[t][GRID]
  BY <1>2
<1> HIDE DEF F
<1>4. /\ bot' \in BotType /\ SameGrid(bot, bot') /\ bot'.free_balances = F
      /\ bot'.active_orders = bot.active_orders
      /\ bot'.total_shares = bot.total_shares /\ bot'.gas_credit = bot.gas_credit
  BY <1>1, <1>2, <1>3 DEF BotType, SameGrid
<1>5. QED
  BY <1>1, <1>2, <1>3, <1>4, BalancesStep DEF market

\* `holder' leaves with `paid'; what stays free is still in custody.
LEMMA PayOutStep ==
  ASSUME IInv, bot # None,
         NEW holder \in {config.owner, Collector}, NEW recipient \in Account \ {GRID},
         NEW burned \in Nat, burned <= shares[holder],
         NEW paid, NEW free \in [Token -> Nat],
         \A t \in Token : paid[t] \in Nat /\ free[t] + paid[t] <= bank[t][GRID],
         pay_out(holder, burned, paid, free, recipient),
         UNCHANGED <<config, mode, policy, orders, cancelled, pair, book, next_order_id>>,
         UNCHANGED <<events, manager, registry>>
  PROVE  IInv'
<1>1. /\ bot \in BotType /\ config \in ConfigType /\ bank \in [Token -> [Account -> Nat]]
      /\ shares \in [Users \cup {Collector} -> Nat] /\ events \in Nat
      /\ bot.total_shares = shares[config.owner] + shares[Collector]
      /\ bot.total_shares > 0 => bot.gas_credit >= MINIMUM_GAS_RESERVE
  BY DEF IInv, TypeOK, SharesAccounted, ReserveBehindShares
<1>2. /\ config.owner \in Users /\ config.owner # Collector
      /\ shares[config.owner] \in Nat /\ shares[Collector] \in Nat
      /\ bot.total_shares \in Nat /\ GRID \in Account
  BY <1>1, ShareholderAssumption DEF ConfigType, BotType, Account
<1> DEFINE n == bot.total_shares - burned
<1>3. n \in Nat
  BY <1>1, <1>2
<1>4. /\ bot' = [bot EXCEPT !.free_balances = free, !.total_shares = n]
      /\ shares' = [shares EXCEPT ![holder] = @ - burned]
      /\ bank' = [t \in Token |-> [bank[t] EXCEPT ![GRID] = @ - paid[t],
                                                  ![recipient] = @ + paid[t]]]
  BY <1>1 DEF pay_out, BotType
<1>5. /\ shares' \in [Users \cup {Collector} -> Nat]
      /\ n = shares'[config.owner] + shares'[Collector]
  <2>1. shares[holder] - burned \in Nat
    BY <1>2
  <2>2. shares' \in [Users \cup {Collector} -> Nat]
    BY <1>1, <1>4, <2>1
  <2>3. CASE holder = Collector
    <3>1. /\ shares'[Collector] = shares[Collector] - burned
          /\ shares'[config.owner] = shares[config.owner]
      BY <1>1, <1>2, <1>4, <2>3
    <3>2. QED
      BY <1>1, <1>2, <2>2, <3>1
  <2>4. CASE holder = config.owner
    <3>1. /\ shares'[config.owner] = shares[config.owner] - burned
          /\ shares'[Collector] = shares[Collector]
      BY <1>1, <1>2, <1>4, <2>4
    <3>2. QED
      BY <1>1, <1>2, <2>2, <3>1
  <2>5. QED
    BY <2>2, <2>3, <2>4
<1>6. /\ bank' \in [Token -> [Account -> Nat]]
      /\ \A t \in Token : bank'[t][GRID] = bank[t][GRID] - paid[t]
  <2>1. \A t \in Token : /\ bank[t] \in [Account -> Nat] /\ paid[t] \in Nat
                         /\ bank[t][GRID] - paid[t] \in Nat
    <3>1. TAKE t \in Token
    <3>2. bank[t] \in [Account -> Nat] /\ bank[t][GRID] \in Nat /\ free[t] \in Nat
      BY <1>1, <1>2
    <3>3. QED
      BY <3>2
  <2>2. QED
    BY <1>2, <1>4, <2>1
<1>7. \A t \in Token : free[t] <= bank'[t][GRID]
  <2>1. TAKE t \in Token
  <2>2. bank[t][GRID] \in Nat /\ free[t] \in Nat
    BY <1>1, <1>2
  <2>3. QED
    BY <1>6, <2>2
<1>8. n > 0 => bot.total_shares > 0
  BY <1>2
<1> HIDE DEF n
<1>9. /\ bot' \in BotType /\ SameGrid(bot, bot') /\ bot'.active_orders = bot.active_orders
      /\ bot'.free_balances = free /\ bot'.total_shares = n /\ bot'.gas_credit = bot.gas_credit
  BY <1>1, <1>3, <1>4 DEF BotType, SameGrid
<1>10. QED
  BY <1>1, <1>5, <1>6, <1>7, <1>8, <1>9, BalancesStep

\* What a share of some balances is worth is no more than there is.
LEMMA ClaimsWithin ==
  ASSUME NEW b \in [Token -> Nat], NEW s \in Nat \ {0}, NEW t \in 0..s
  PROVE  /\ \A i \in Token : withdrawal_claims(b, t, s)[i] \in Nat
         /\ \A i \in Token : /\ withdrawal_claims(b, t, s)[i] <= b[i]
                             /\ b[i] * (s - t) <= (b[i] - withdrawal_claims(b, t, s)[i]) * s
<1>1. b \in [{0, 1} -> Nat]
  BY DEF Token
<1>2. \A i \in {0, 1} : /\ withdrawal_claims(b, t, s)[i] \in 0..b[i]
                        /\ b[i] * (s - t) <= (b[i] - withdrawal_claims(b, t, s)[i]) * s
  BY <1>1, ClaimsFair
<1>3. QED
  BY <1>1, <1>2 DEF Token

\* What is fair to take from a part is fair to take from more.
LEMMA PartOfMore ==
  ASSUME NEW f \in Nat, NEW B \in Nat, NEW x \in Nat, NEW k \in Nat, NEW s \in Nat,
         k <= s, f <= B, f * k <= (f - x) * s
  PROVE  B * k <= (B - x) * s
<1>1. PICK d \in Nat : B = f + d
  <2>1. B - f \in Nat /\ B = f + (B - f)
    OBVIOUS
  <2>2. QED
    BY <2>1
<1>2. PICK e \in Nat : s = k + e
  <2>1. s - k \in Nat /\ s = k + (s - k)
    OBVIOUS
  <2>2. QED
    BY <2>1
<1>3. d * s = d * k + d * e /\ d * e \in Nat /\ d * k \in Nat /\ d * s \in Nat
  BY <1>2
<1>4. B * k = f * k + d * k /\ (B - x) * s = (f - x) * s + d * s
  BY <1>1
<1>5. f * k \in Nat /\ (f - x) * s \in Int
  OBVIOUS
<1>6. QED
  BY <1>3, <1>4, <1>5

LEMMA RedeemStep ==
  ASSUME IInv, bot # None,
         NEW holder \in {config.owner, Collector}, NEW recipient \in Account \ {GRID},
         NEW burned, redeem(holder, burned, recipient), VaultFrame
  PROVE  /\ IInv'
         /\ \A t \in Token :
              bank'[t][GRID] * bot.total_shares >= bank[t][GRID] * bot'.total_shares
<1> DEFINE s    == bot.total_shares
           c    == withdrawal_claims(bot.free_balances, burned, s)
           free == [t \in Token |-> bot.free_balances[t] - c[t]]
<1>1. /\ pay_out(holder, burned, c, free, recipient)
      /\ burned \in 1..Least(shares[holder], s)
      /\ UNCHANGED <<config, mode, policy, orders, cancelled, pair, book, next_order_id>>
      /\ UNCHANGED <<events, manager, registry>>
  BY DEF redeem, VaultFrame
<1>2. /\ bot \in BotType /\ bot.free_balances \in [Token -> Nat] /\ s \in Nat
      /\ shares[holder] \in Nat /\ bank \in [Token -> [Account -> Nat]]
      /\ \A t \in Token : bot.free_balances[t] <= bank[t][GRID]
      /\ GRID \in Account
  BY DEF IInv, TypeOK, BotType, ConfigType, FreeInCustody, Account
<1>3. burned \in Nat /\ burned <= shares[holder] /\ burned \in 0..s /\ s \in Nat \ {0}
  BY <1>1, <1>2 DEF Least
<1>4. \A t \in Token : /\ c[t] \in Nat /\ c[t] <= bot.free_balances[t]
                       /\ bot.free_balances[t] * (s - burned) <= (bot.free_balances[t] - c[t]) * s
  BY <1>2, <1>3, ClaimsWithin
<1> HIDE DEF c
<1>5. free \in [Token -> Nat]
  BY <1>2, <1>4
<1>6. \A t \in Token : c[t] \in Nat /\ free[t] + c[t] <= bank[t][GRID]
  <2>1. TAKE t \in Token
  <2>2. bot.free_balances[t] \in Nat
    BY <1>2
  <2>3. QED
    BY <1>2, <1>4, <2>2
<1>7. IInv'
  BY <1>1, <1>3, <1>5, <1>6, PayOutStep
<1>8. /\ bot'.total_shares = s - burned
      /\ \A t \in Token : bank'[t][GRID] = bank[t][GRID] - c[t]
  BY <1>1, <1>2 DEF pay_out, BotType
<1>9. ASSUME NEW t \in Token
      PROVE  bank'[t][GRID] * s >= bank[t][GRID] * bot'.total_shares
  <2>1. /\ bot.free_balances[t] \in Nat /\ bank[t][GRID] \in Nat /\ c[t] \in Nat
        /\ s - burned \in Nat /\ s - burned <= s
        /\ bot.free_balances[t] <= bank[t][GRID]
        /\ bot.free_balances[t] * (s - burned) <= (bot.free_balances[t] - c[t]) * s
    BY <1>2, <1>3, <1>4
  <2>2. bank[t][GRID] * (s - burned) <= (bank[t][GRID] - c[t]) * s
    BY <1>2, <2>1, PartOfMore
  <2>3. /\ bank[t][GRID] * (s - burned) \in Int /\ (bank[t][GRID] - c[t]) * s \in Int
    BY <1>2, <2>1
  <2>4. bank'[t][GRID] = bank[t][GRID] - c[t] /\ bot'.total_shares = s - burned
    BY <1>8
  <2> HIDE DEF s
  <2>5. QED
    BY <2>2, <2>3, <2>4
<1>10. QED
  BY <1>7, <1>9

LEMMA WithdrawStep ==
  ASSUME IInv, NEW burned \in ShareAmounts, Withdraw(burned)
  PROVE  /\ IInv' /\ bot # None
         /\ \A t \in Token :
              bank'[t][GRID] * bot.total_shares >= bank[t][GRID] * bot'.total_shares
<1>1. bot # None /\ redeem(config.owner, burned, config.owner) /\ VaultFrame
  BY DEF Withdraw, execute_withdraw
<1>2. config.owner \in Account \ {GRID}
  BY <1>1, AccountAssumption DEF IInv, TypeOK, ConfigType, Account
<1>3. QED
  BY <1>1, <1>2, RedeemStep

LEMMA RedeemSharesStep ==
  ASSUME IInv, RedeemShares
  PROVE  /\ IInv' /\ bot # None
         /\ \A t \in Token :
              bank'[t][GRID] * bot.total_shares >= bank[t][GRID] * bot'.total_shares
<1>1. bot # None /\ redeem(Collector, shares[Collector], OTHERS) /\ VaultFrame
  BY DEF RedeemShares, execute_redeem_shares
<1>2. OTHERS \in Account \ {GRID}
  BY AccountAssumption DEF Account
<1>3. QED
  BY <1>1, <1>2, RedeemStep

LEMMA EmergencyWithdrawStep ==
  ASSUME IInv, EmergencyWithdraw
  PROVE  /\ IInv' /\ bot # None
         /\ \A t \in Token :
              bank'[t][GRID] * bot.total_shares >= bank[t][GRID] * bot'.total_shares
<1> DEFINE balances == [t \in Token |-> bank[t][GRID]]
           burned   == shares[config.owner]
           s        == bot.total_shares
           c        == withdrawal_claims(balances, burned, s)
           free     == [t \in Token |-> balances[t] - c[t]]
           owner    == config.owner
<1>1. /\ bot # None /\ DOMAIN orders = {} /\ burned \in 1..s
      /\ shares' = [shares EXCEPT ![owner] = 0]
      /\ bot' = [bot EXCEPT !.free_balances = free, !.total_shares = @ - burned, !.active_orders = 0]
      /\ bank' = [t \in Token |-> [bank[t] EXCEPT ![GRID] = @ - c[t], ![owner] = @ + c[t]]]
      /\ UNCHANGED <<config, mode, policy, orders, cancelled, pair, book, next_order_id>>
      /\ UNCHANGED <<events, manager, registry>>
  BY DEF EmergencyWithdraw, execute_emergency_withdraw, emergency_withdraw_accepted,
         emergency_claims, supply_left, VaultFrame
<1>2. /\ bot \in BotType /\ s \in Nat /\ bank \in [Token -> [Account -> Nat]]
      /\ shares \in [Users \cup {Collector} -> Nat]
      /\ GRID \in Account /\ owner \in Users /\ owner \in Account \ {GRID} /\ burned \in Nat
      /\ bot.active_orders = Cardinality(DOMAIN orders)
  BY <1>1, AccountAssumption
  DEF IInv, TypeOK, BotType, ConfigType, Account, OrdersCounted, Tracked
<1>3. bot.active_orders = 0
  BY <1>1, <1>2, FS_EmptySet
<1>4. balances \in [Token -> Nat] /\ s \in Nat \ {0} /\ burned \in 0..s
  BY <1>1, <1>2
<1>5. \A t \in Token : /\ c[t] \in Nat /\ c[t] <= balances[t]
                       /\ balances[t] * (s - burned) <= (balances[t] - c[t]) * s
  BY <1>4, ClaimsWithin
<1> HIDE DEF c
<1>6. \A t \in Token : balances[t] = bank[t][GRID] /\ balances[t] \in Nat
  BY <1>4
<1> HIDE DEF balances
<1>7. free \in [Token -> Nat] /\ \A t \in Token : free[t] + c[t] <= bank[t][GRID]
  BY <1>5, <1>6
<1>8. pay_out(owner, burned, c, free, owner)
  <2> HIDE DEF free
  <2>1. bot' = [bot EXCEPT !.free_balances = free, !.total_shares = @ - burned]
    BY <1>1, <1>2, <1>3 DEF BotType
  <2>2. shares[owner] - burned = 0
    BY <1>2
  <2> HIDE DEF burned, owner
  <2>3. shares' = [shares EXCEPT ![owner] = @ - burned]
    BY <1>1, <2>2
  <2>4. QED
    BY <1>1, <2>1, <2>3 DEF pay_out
<1>9. bot'.total_shares = s - burned /\ \A t \in Token : bank'[t][GRID] = bank[t][GRID] - c[t]
  BY <1>1, <1>2 DEF BotType
<1>10. IInv'
  <2>1. burned <= shares[owner] /\ owner \in {config.owner, Collector}
    BY <1>2
  <2>2. \A t \in Token : c[t] \in Nat /\ free[t] + c[t] <= bank[t][GRID]
    BY <1>5, <1>7
  <2> HIDE DEF burned, owner, free
  <2>3. QED
    BY <1>1, <1>2, <1>7, <1>8, <2>1, <2>2, PayOutStep
<1>11. ASSUME NEW t \in Token
       PROVE  bank'[t][GRID] * s >= bank[t][GRID] * bot'.total_shares
  <2>1. bank[t][GRID] * (s - burned) <= (bank[t][GRID] - c[t]) * s
    BY <1>5, <1>6
  <2>2. bank[t][GRID] * (s - burned) \in Int /\ (bank[t][GRID] - c[t]) * s \in Int
    BY <1>2, <1>5, <1>6
  <2>3. QED
    BY <1>9, <2>1, <2>2
<1>12. QED
  BY <1>1, <1>10, <1>11

\* Gas and the pinned pair code are the bot's business alone.
LEMMA BotOnlyStep ==
  ASSUME IInv, bot # None,
         bot' \in BotType, SameGrid(bot, bot'), bot'.active_orders = bot.active_orders,
         bot'.free_balances = bot.free_balances, bot'.total_shares = bot.total_shares,
         bot'.total_shares > 0 => bot'.gas_credit >= MINIMUM_GAS_RESERVE,
         UNCHANGED <<config, mode, policy, orders, cancelled, shares, market>>,
         UNCHANGED <<manager, registry>>, events' \in Nat
  PROVE  IInv'
<1>1. /\ bank \in [Token -> [Account -> Nat]] /\ shares \in [Users \cup {Collector} -> Nat]
      /\ \A t \in Token : bot.free_balances[t] <= bank[t][GRID]
      /\ bot.total_shares = shares[config.owner] + shares[Collector]
  BY DEF IInv, TypeOK, FreeInCustody, SharesAccounted
<1>2. QED
  BY <1>1, BalancesStep DEF market

LEMMA FundGasStep ==
  ASSUME IInv, NEW amount \in GasAmounts, FundGas(amount)
  PROVE  IInv'
<1> DEFINE g == bot.gas_credit + amount
<1>1. /\ bot # None /\ bot' = [bot EXCEPT !.gas_credit = g]
      /\ UNCHANGED <<config, mode, policy, orders, cancelled, shares, market>>
      /\ UNCHANGED <<events, manager, registry>>
  BY DEF FundGas, execute_fund_gas, VaultFrame
<1>2. /\ bot \in BotType /\ events \in Nat
      /\ bot.total_shares > 0 => bot.gas_credit >= MINIMUM_GAS_RESERVE
  BY <1>1 DEF IInv, TypeOK, ReserveBehindShares
<1>3. g \in Nat /\ (bot.gas_credit >= MINIMUM_GAS_RESERVE => g >= MINIMUM_GAS_RESERVE)
  BY <1>2, AmountAssumption DEF BotType
<1> HIDE DEF g
<1>4. /\ bot' \in BotType /\ SameGrid(bot, bot') /\ bot'.active_orders = bot.active_orders
      /\ bot'.free_balances = bot.free_balances /\ bot'.total_shares = bot.total_shares
      /\ bot'.gas_credit = g
  BY <1>1, <1>2, <1>3 DEF BotType, SameGrid
<1>5. QED
  BY <1>1, <1>2, <1>3, <1>4, BotOnlyStep

LEMMA WithdrawGasStep ==
  ASSUME IInv, NEW amount \in GasAmounts, WithdrawGas(amount)
  PROVE  IInv'
<1> DEFINE g == bot.gas_credit - amount
<1>1. /\ bot # None /\ bot' = [bot EXCEPT !.gas_credit = g]
      /\ amount \in 1..bot.gas_credit /\ g >= gas_to_keep
      /\ UNCHANGED <<config, mode, policy, orders, cancelled, shares, market>>
      /\ UNCHANGED <<manager, registry>> /\ Event
  BY DEF WithdrawGas, execute_withdraw_gas, CountedFrame
<1>2. bot \in BotType /\ events' \in Nat
  BY <1>1 DEF IInv, TypeOK, Event
<1>3. g \in Nat /\ bot.total_shares \in Nat
  BY <1>1, <1>2, AmountAssumption DEF BotType
<1>4. bot.total_shares > 0 => g >= MINIMUM_GAS_RESERVE
  <2>1. bot.total_shares > 0 => gas_to_keep = required_gas
    BY <1>3 DEF gas_to_keep
  <2> HIDE DEF g
  <2>2. QED
    BY <1>1, <1>3, <2>1, AmountAssumption DEF required_gas
<1> HIDE DEF g
<1>5. /\ bot' \in BotType /\ SameGrid(bot, bot') /\ bot'.active_orders = bot.active_orders
      /\ bot'.free_balances = bot.free_balances /\ bot'.total_shares = bot.total_shares
      /\ bot'.gas_credit = g
  BY <1>1, <1>2, <1>3 DEF BotType, SameGrid
<1>6. QED
  BY <1>1, <1>2, <1>4, <1>5, BotOnlyStep

LEMMA UpdatePairCodeStep ==
  ASSUME IInv, NEW code \in PairCodes, UpdatePairCode(code)
  PROVE  IInv'
<1>1. /\ bot # None /\ bot' = [bot EXCEPT !.pair_code_id = code]
      /\ UNCHANGED <<config, mode, policy, orders, cancelled, shares, market>>
      /\ UNCHANGED <<manager, registry>> /\ Event
  BY DEF UpdatePairCode, execute_update_pair_code, CountedFrame
<1>2. /\ bot \in BotType /\ events' \in Nat
      /\ bot.total_shares > 0 => bot.gas_credit >= MINIMUM_GAS_RESERVE
  BY <1>1 DEF IInv, TypeOK, ReserveBehindShares, Event
<1>3. /\ bot' \in BotType /\ SameGrid(bot, bot') /\ bot'.active_orders = bot.active_orders
      /\ bot'.free_balances = bot.free_balances /\ bot'.total_shares = bot.total_shares
      /\ bot'.gas_credit = bot.gas_credit
  BY <1>1, <1>2 DEF BotType, SameGrid
<1>4. QED
  BY <1>1, <1>2, <1>3, BotOnlyStep

\* create_bot accepts grids of the kind the invariant speaks of.
LEMMA CreateBotStep ==
  ASSUME IInv, NEW grid \in Grids, NEW reserves \in Pools,
         NEW gas \in GasAmounts, CreateBot(grid, reserves, gas)
  PROVE  IInv'
<1> DEFINE ref  == pool_price(reserves)
           zero == [t \in Token |-> 0]
<1>1. /\ config # None /\ bot = None
      /\ grid.grid_count \in 2..MAX_GRID_COUNT
      /\ grid.lower_price < grid.upper_price
      /\ reserves[0] # 0 /\ reserves[1] # 0
      /\ grid.lower_price < ref
      /\ \A i \in 0..(grid.grid_count - 1) : grid_price(grid, i) \in MIN_PRICE..MAX_PRICE
      /\ \A t \in Token : on_side(grid, ref, t) # {}
      /\ gas >= required_gas
      /\ policy' = seeded
      /\ bot' = [pair_code_id |-> pair.code_id,
                 lower_price |-> grid.lower_price, upper_price |-> grid.upper_price,
                 grid_count |-> grid.grid_count, reference_price |-> ref,
                 free_balances |-> zero, total_shares |-> 0,
                 gas_credit |-> gas, active_orders |-> 0,
                 pair_batch_limit |-> pair.batch_limit]
      /\ UNCHANGED <<config, mode, orders, cancelled, shares, fee_cache, market>>
      /\ UNCHANGED <<events, manager, registry>>
  BY DEF CreateBot, execute_create_bot, VaultFrame
<1>2. /\ grid \in [lower_price : Nat, upper_price : Nat, grid_count : Nat]
      /\ grid.grid_count \in Nat \ {0, 1}
  BY <1>1, GridAssumption
<1>3. reserves[0] \in Nat \ {0} /\ reserves[1] \in Nat
  BY <1>1, GridAssumption DEF Token
<1>4. ref \in Nat
  <2>1. reserves[1] \in Nat /\ ONE \in Nat /\ reserves[0] \in Nat /\ reserves[0] > 0
    BY <1>3, OneAssumption
  <2>2. checked_ratio(reserves[1], ONE, reserves[0]) \in Nat
    BY <2>1, FloorRatio
  <2>3. QED
    BY <2>2 DEF pool_price
<1>5. grid.lower_price \in Nat \ {0}
  <2>1. grid_price(grid, 0) \in MIN_PRICE..MAX_PRICE
    BY <1>1, <1>2
  <2>2. grid_price(grid, 0) = grid.lower_price + ((grid.upper_price - grid.lower_price) * 0) \div (grid.grid_count - 1)
    BY DEF grid_price
  <2>3. ((grid.upper_price - grid.lower_price) * 0) \div (grid.grid_count - 1) = 0
    <3>1. (grid.upper_price - grid.lower_price) * 0 = 0 /\ grid.grid_count - 1 \in Nat \ {0}
      BY <1>2
    <3>2. \A n \in Nat \ {0} : 0 \div n = 0
      OBVIOUS
    <3>3. QED
      BY <3>1, <3>2
  <2>4. QED
    BY <1>2, <2>1, <2>2, <2>3, GridAssumption
<1> HIDE DEF ref
<1>6. zero \in [Token -> Nat] /\ \A t \in Token : zero[t] = 0
  OBVIOUS
<1> HIDE DEF zero
<1>7. pair.code_id \in PairCodes /\ pair.batch_limit \in Nat /\ gas \in Nat
  BY PairAssumption, AmountAssumption DEF IInv, TypeOK
<1>8. ref \in Nat \ {0}
  BY <1>1, <1>4, <1>5
<1>9. /\ bot' \in BotType
      /\ bot'.lower_price = grid.lower_price /\ bot'.upper_price = grid.upper_price
      /\ bot'.grid_count = grid.grid_count /\ bot'.reference_price = ref
      /\ bot'.free_balances = zero /\ bot'.total_shares = 0 /\ bot'.active_orders = 0
      /\ bot'.gas_credit = gas
  BY <1>1, <1>2, <1>6, <1>7, <1>8 DEF BotType
<1>10. bot' # None
  BY <1>9, NoneAssumption
<1>11. GridOf(bot')
  BY <1>1, <1>2, <1>5, <1>9 DEF GridOf
<1>12. GridOK'
  <2>1. \A t \in Token : on_side(bot', bot'.reference_price, t) = on_side(grid, ref, t)
    BY <1>9 DEF on_side, grid_price
  <2>2. QED
    BY <1>1, <1>11, <2>1 DEF GridOK, side_rungs
<1>13. DOMAIN orders = {} /\ DOMAIN book = {} /\ \A a \in Users \cup {Collector} : shares[a] = 0
  BY <1>1 DEF IInv, NoBot
<1>14. TypeOK'
  <2>1. policy' \in [enabled : BOOLEAN, allowed : SUBSET Token, quarantined : SUBSET Token]
    BY <1>1 DEF IInv, TypeOK, seeded
  <2>2. QED
    BY <1>1, <1>9, <2>1 DEF IInv, TypeOK, OrderIds, market
<1>15. NoBot' /\ EscrowRecoverable' /\ OrdersMatch'
  BY <1>1, <1>10, <1>13 DEF NoBot, EscrowRecoverable, OrdersMatch, Resting, market
<1>16. FreeInCustody' /\ OrdersCounted'
  <2>1. \A t \in Token : bank[t][GRID] \in Nat
    BY DEF IInv, TypeOK, Account
  <2>2. QED
    BY <1>1, <1>6, <1>9, <1>13, <2>1, FS_EmptySet
    DEF FreeInCustody, OrdersCounted, Tracked, market
<1>17. SharesAccounted' /\ ReserveBehindShares'
  <2>1. config.owner \in Users
    BY <1>1 DEF IInv, TypeOK, ConfigType
  <2>2. QED
    BY <1>1, <1>9, <1>13, <2>1 DEF SharesAccounted, ReserveBehindShares
<1>18. QED
  BY <1>12, <1>14, <1>15, <1>16, <1>17 DEF IInv

\* What manager and governance do between them leaves bot and books alone.
LEMMA QuietStep ==
  ASSUME IInv,
         UNCHANGED <<bot, orders, cancelled, shares, market>>,
         bot # None => config' = config,
         config' # None => config' \in ConfigType,
         mode' \in {"Active", "Paused", "Exit"},
         policy' \in [enabled : BOOLEAN, allowed : SUBSET Token, quarantined : SUBSET Token],
         manager' \in [admin : Admins, pending_admin : Admins \cup {None}, template : Template],
         events' \in Nat
  PROVE  IInv'
<1> USE DEF IInv, market
<1>1. TypeOK'
  BY DEF TypeOK, OrderIds
<1>2. NoBot' /\ GridOK' /\ EscrowRecoverable' /\ OrdersMatch'
  BY DEF NoBot, GridOK, EscrowRecoverable, OrdersMatch, Matches, Tracked, Resting,
         side_rungs, rung_price
<1>3. FreeInCustody' /\ OrdersCounted' /\ SharesAccounted' /\ ReserveBehindShares'
  BY DEF FreeInCustody, OrdersCounted, Tracked, SharesAccounted, ReserveBehindShares
<1>4. QED
  BY <1>1, <1>2, <1>3

LEMMA ManagerStep ==
  ASSUME IInv, ManagerNext
  PROVE  IInv'
<1>1. /\ bot = None /\ ManagerFrame
      /\ manager \in [admin : Admins, pending_admin : Admins \cup {None}, template : Template]
      /\ config # None => config \in ConfigType
      /\ mode \in {"Active", "Paused", "Exit"}
      /\ policy \in [enabled : BOOLEAN, allowed : SUBSET Token, quarantined : SUBSET Token]
      /\ events \in Nat
  BY DEF ManagerNext, CreateVault, UpdateConfig, ManagerTransferAdmin, ManagerAcceptAdmin,
         Deploying, IInv, TypeOK
<1>2. ASSUME NEW u \in Users, CreateVault(u)
      PROVE  IInv'
  <2>1. instantiated(u, manager.admin, manager.template) \in ConfigType
    BY <1>1 DEF instantiated, ConfigType, Template
  <2>2. /\ config' \in {config, instantiated(u, manager.admin, manager.template)}
        /\ UNCHANGED <<manager, events>>
    BY <1>2 DEF CreateVault, execute_create_vault
  <2>3. QED
    BY <1>1, <2>1, <2>2, QuietStep DEF ManagerFrame
<1>3. ASSUME NEW k \in Keepers, NEW code \in VaultCodes, NEW fees \in BOOLEAN,
             UpdateConfig(k, code, fees)
      PROVE  IInv'
  <2>1. /\ manager' = [manager EXCEPT !.template =
                        [keeper |-> k, vault_code_id |-> code, fees |-> @.fees \/ fees]]
        /\ config' = config /\ events' \in Nat
    BY <1>1, <1>3 DEF UpdateConfig, execute_update_config, Event
  <2>2. manager' \in [admin : Admins, pending_admin : Admins \cup {None}, template : Template]
    BY <1>1, <2>1 DEF Template
  <2>3. QED
    BY <1>1, <2>1, <2>2, QuietStep DEF ManagerFrame
<1>4. ASSUME NEW a \in Admins, ManagerTransferAdmin(a)
      PROVE  IInv'
  <2>1. /\ manager' \in [admin : Admins, pending_admin : Admins \cup {None}, template : Template]
        /\ config' = config /\ events' \in Nat
    BY <1>1, <1>4 DEF ManagerTransferAdmin, manager_transfer_admin, Event
  <2>2. QED
    BY <1>1, <2>1, QuietStep DEF ManagerFrame
<1>5. ASSUME ManagerAcceptAdmin
      PROVE  IInv'
  <2>1. /\ manager' \in [admin : Admins, pending_admin : Admins \cup {None}, template : Template]
        /\ config' = config /\ UNCHANGED events
    BY <1>1, <1>5 DEF ManagerAcceptAdmin, manager_accept_admin
  <2>2. QED
    BY <1>1, <2>1, QuietStep DEF ManagerFrame
<1>6. QED
  BY <1>2, <1>3, <1>4, <1>5 DEF ManagerNext

LEMMA AdminStep ==
  ASSUME IInv, AdminNext
  PROVE  IInv'
<1>1. /\ config # None => config \in ConfigType
      /\ mode \in {"Active", "Paused", "Exit"}
      /\ policy \in [enabled : BOOLEAN, allowed : SUBSET Token, quarantined : SUBSET Token]
      /\ manager \in [admin : Admins, pending_admin : Admins \cup {None}, template : Template]
      /\ events \in Nat
  BY DEF IInv, TypeOK
<1>2. ASSUME NEW k \in Keepers, UpdateKeeper(k)
      PROVE  IInv'
  <2>1. /\ bot = None /\ config \in ConfigType /\ config' = [config EXCEPT !.keeper = k]
        /\ UNCHANGED <<mode, policy, bot, orders, cancelled, shares, market, manager>>
        /\ events' \in Nat
    BY <1>1, <1>2 DEF UpdateKeeper, execute_update_keeper, Deploying, CountedFrame, Event
  <2>2. config' \in ConfigType
    BY <2>1 DEF ConfigType
  <2>3. QED
    BY <1>1, <2>1, <2>2, QuietStep
<1>3. ASSUME NEW a \in Admins, TransferAdmin(a)
      PROVE  IInv'
  <2>1. /\ bot = None /\ config \in ConfigType /\ config' = [config EXCEPT !.pending_admin = a]
        /\ UNCHANGED <<mode, policy, bot, orders, cancelled, shares, market, manager>>
        /\ events' \in Nat
    BY <1>1, <1>3 DEF TransferAdmin, execute_transfer_admin, Deploying, CountedFrame, Event
  <2>2. config' \in ConfigType
    BY <2>1 DEF ConfigType
  <2>3. QED
    BY <1>1, <2>1, <2>2, QuietStep
<1>4. ASSUME AcceptAdmin
      PROVE  IInv'
  <2>1. /\ bot = None /\ config \in ConfigType /\ config.pending_admin # None
        /\ config' = [config EXCEPT !.admin = config.pending_admin, !.pending_admin = None]
        /\ UNCHANGED <<mode, policy, bot, orders, cancelled, shares, market, manager, events>>
    BY <1>1, <1>4 DEF AcceptAdmin, execute_accept_admin, Deploying, VaultFrame
  <2>2. config' \in ConfigType
    BY <2>1 DEF ConfigType
  <2>3. QED
    BY <1>1, <2>1, <2>2, QuietStep
<1>5. ASSUME NEW p \in [enabled : BOOLEAN, allowed : SUBSET Token, quarantined : SUBSET Token],
             set_policy(p), events' \in Nat, UNCHANGED <<manager, registry>>
      PROVE  IInv'
  BY <1>1, <1>5, QuietStep DEF set_policy
<1>6. ASSUME NEW t \in Token, AddAllowed(t)
      PROVE  IInv'
  <2>1. [policy EXCEPT !.enabled = TRUE, !.allowed = @ \cup {t}]
          \in [enabled : BOOLEAN, allowed : SUBSET Token, quarantined : SUBSET Token]
    BY <1>1
  <2>2. /\ set_policy([policy EXCEPT !.enabled = TRUE, !.allowed = @ \cup {t}])
        /\ events' \in Nat /\ UNCHANGED <<manager, registry>>
    BY <1>1, <1>6 DEF AddAllowed, execute_add_allowed_token, CountedFrame, Event
  <2>3. QED
    BY <1>5, <2>1, <2>2
<1>7. ASSUME NEW t \in Token, RemoveAllowed(t)
      PROVE  IInv'
  BY <1>1, <1>5, <1>7 DEF RemoveAllowed, execute_remove_allowed_token, CountedFrame, Event
<1>8. ASSUME NEW t \in Token, Quarantine(t)
      PROVE  IInv'
  BY <1>1, <1>5, <1>8 DEF Quarantine, execute_quarantine_token, CountedFrame, Event
<1>9. ASSUME NEW t \in Token, Unquarantine(t)
      PROVE  IInv'
  BY <1>1, <1>5, <1>9 DEF Unquarantine, execute_unquarantine_token, VaultFrame
<1>10. ASSUME NEW from, NEW to \in {"Active", "Paused", "Exit"}, set_mode(from, to),
              events' \in Nat, UNCHANGED <<manager, registry>>
       PROVE  IInv'
  BY <1>1, <1>10, QuietStep DEF set_mode
<1>11. CASE Pause
  BY <1>1, <1>10, <1>11 DEF Pause, execute_pause, CountedFrame, Event
<1>12. CASE Resume
  BY <1>1, <1>10, <1>12 DEF Resume, execute_resume, VaultFrame
<1>13. QED
  BY <1>2, <1>3, <1>4, <1>6, <1>7, <1>8, <1>9, <1>11, <1>12, UpdatePairCodeStep DEF AdminNext

LEMMA EnterExitStep ==
  ASSUME IInv, EnterExit
  PROVE  IInv'
<1>1. /\ config # None => config \in ConfigType
      /\ policy \in [enabled : BOOLEAN, allowed : SUBSET Token, quarantined : SUBSET Token]
      /\ manager \in [admin : Admins, pending_admin : Admins \cup {None}, template : Template]
      /\ events \in Nat
  BY DEF IInv, TypeOK
<1>2. /\ mode' = "Exit"
      /\ UNCHANGED <<config, policy, bot, orders, cancelled, shares, market, manager, events>>
  BY DEF EnterExit, execute_enter_exit, set_mode, VaultFrame
<1>3. QED
  BY <1>1, <1>2, QuietStep

-----------------------------------------------------------------------------
(* The pair and everybody else. *)

\* Orders only shrink, expire or end, and nothing is taken from the vault.
LEMMA OutsideStep ==
  ASSUME IInv,
         UNCHANGED <<vault, manager, next_order_id>>,
         pair' \in [code_id : PairCodes, batch_limit : BatchLimits],
         bank' \in [Token -> [Account -> Nat]],
         \A t \in Token : bank'[t][GRID] >= bank[t][GRID],
         book' \in [DOMAIN book' -> RestingType], DOMAIN book' \subseteq DOMAIN book,
         \A o \in DOMAIN book' : /\ book'[o].token = book[o].token
                                 /\ book'[o].price = book[o].price
                                 /\ book'[o].left <= book[o].left
                                 /\ book[o].parked => book'[o].parked,
         events' \in Nat
  PROVE  IInv'
<1> USE DEF IInv, vault
<1>1. TypeOK'
  BY DEF TypeOK, OrderIds
<1>2. NoBot' /\ GridOK' /\ OrdersCounted' /\ SharesAccounted' /\ ReserveBehindShares'
  BY DEF NoBot, GridOK, side_rungs, OrdersCounted, Tracked, SharesAccounted, ReserveBehindShares
<1>3. EscrowRecoverable'
  BY DEF EscrowRecoverable, Resting, side_rungs, rung_price
<1>4. OrdersMatch'
  <2>1. SUFFICES ASSUME NEW o \in DOMAIN orders, o \in DOMAIN book'
                 PROVE  Matches(o, orders[o])'
    BY DEF OrdersMatch, Tracked, Resting
  <2>2. Matches(o, orders[o])
    BY <2>1 DEF OrdersMatch, Tracked, Resting
  <2>3. /\ book[o] \in RestingType /\ book'[o] \in RestingType /\ orders[o] \in OrderType
    BY <2>1 DEF TypeOK
  <2>4. /\ book[o].left \in Nat /\ book'[o].left \in Nat /\ orders[o].remaining \in Nat
        /\ book[o].parked \in BOOLEAN /\ book'[o].parked \in BOOLEAN
    BY <2>3 DEF RestingType, OrderType
  <2>5. orders' = orders
    OBVIOUS
  <2>6. QED
    BY <2>1, <2>2, <2>4, <2>5 DEF Matches
<1>5. FreeInCustody'
  <2>1. SUFFICES ASSUME bot # None, NEW t \in Token
                 PROVE  bot.free_balances[t] <= bank'[t][GRID]
    BY DEF FreeInCustody
  <2>2. bot.free_balances[t] \in Nat /\ bank[t][GRID] \in Nat /\ bank'[t][GRID] \in Nat
    BY <2>1 DEF TypeOK, BotType, Account
  <2>3. bot.free_balances[t] <= bank[t][GRID]
    BY <2>1 DEF FreeInCustody
  <2>4. QED
    BY <2>2, <2>3
<1>6. QED
  BY <1>1, <1>2, <1>3, <1>4, <1>5

LEMMA MarketTypes ==
  ASSUME IInv
  PROVE  /\ pair \in [code_id : PairCodes, batch_limit : BatchLimits]
         /\ bank \in [Token -> [Account -> Nat]]
         /\ \A t \in Token : bank[t][GRID] \in Nat /\ bank[t][OTHERS] \in Nat
         /\ book \in [DOMAIN book -> RestingType]
         /\ \A o \in DOMAIN book : /\ book[o].token \in Token /\ book[o].left \in Nat \ {0}
                                   /\ book[o].price \in Nat \ {0}
         /\ GRID \in Account /\ OTHERS \in Account /\ GRID # OTHERS
         /\ events \in Nat
<1>1. GRID \in Account /\ OTHERS \in Account /\ GRID # OTHERS
  BY AccountAssumption DEF Account
<1>2. /\ pair \in [code_id : PairCodes, batch_limit : BatchLimits]
      /\ bank \in [Token -> [Account -> Nat]]
      /\ book \in [DOMAIN book -> RestingType] /\ events \in Nat
  BY DEF IInv, TypeOK
<1>3. \A o \in DOMAIN book : book[o] \in RestingType
  BY <1>2
<1>4. \A o \in DOMAIN book : /\ book[o].token \in Token /\ book[o].left \in Nat \ {0}
                             /\ book[o].price \in Nat \ {0}
  BY <1>3 DEF RestingType
<1>5. QED
  BY <1>1, <1>2, <1>4

LEMMA FillOrderStep ==
  ASSUME IInv, NEW o \in DOMAIN book, NEW amount \in 1..book[o].left,
         FillOrder(o, amount), UNCHANGED <<vault, manager, registry>>
  PROVE  IInv'
<1> DEFINE order == book[o]
           paid  == proceeds(order, amount)
           t     == order.token
<1>a. /\ pair \in [code_id : PairCodes, batch_limit : BatchLimits]
      /\ bank \in [Token -> [Account -> Nat]]
      /\ book \in [DOMAIN book -> RestingType] /\ order \in RestingType
      /\ order.token \in Token /\ order.left \in Nat \ {0} /\ order.price \in Nat \ {0}
      /\ GRID \in Account /\ OTHERS \in Account /\ GRID # OTHERS
      /\ events \in Nat
  BY MarketTypes
<1>b. amount \in Nat \ {0} /\ amount <= order.left
  BY <1>a
<1>1. /\ paid <= bank[1 - t][OTHERS]
      /\ bank' = [bank EXCEPT ![t][OTHERS] = @ + amount,
                              ![1 - t][GRID] = @ + paid, ![1 - t][OTHERS] = @ - paid]
      /\ book' = IF amount = order.left THEN [p \in DOMAIN book \ {o} |-> book[p]]
                                        ELSE [book EXCEPT ![o].left = @ - amount]
      /\ UNCHANGED <<pair, next_order_id, events>>
  <2>1. paid <= bank[1 - t][OTHERS]
    BY DEF FillOrder
  <2>2. bank' = [bank EXCEPT ![t][OTHERS] = @ + amount,
                             ![1 - t][GRID] = @ + paid, ![1 - t][OTHERS] = @ - paid]
    BY DEF FillOrder
  <2>3. book' = IF amount = order.left THEN [p \in DOMAIN book \ {o} |-> book[p]]
                                       ELSE [book EXCEPT ![o].left = @ - amount]
    <3>1. amount = order.left => book' = [p \in DOMAIN book \ {o} |-> book[p]]
      BY DEF FillOrder
    <3>2. amount # order.left => book' = [book EXCEPT ![o].left = @ - amount]
      BY DEF FillOrder
    <3>3. QED
      BY <3>1, <3>2
  <2>4. UNCHANGED <<pair, next_order_id, events>>
    BY DEF FillOrder
  <2>5. QED
    BY <2>1, <2>2, <2>3, <2>4
<1>2. paid \in Nat
  <2>1. order.price \in Nat /\ order.price > 0 /\ ONE \in Nat /\ ONE > 0 /\ amount \in Nat
    BY <1>a, <1>b, OneAssumption
  <2>2. checked_ratio(amount, order.price, ONE) \in Nat
    BY <2>1, FloorRatio
  <2>3. checked_ratio(amount, ONE, order.price) \in Nat
    BY <2>1, FloorRatio
  <2>4. QED
    BY <2>2, <2>3 DEF proceeds
<1>3. t \in Token /\ 1 - t \in Token /\ 1 - t # t
  BY <1>a DEF Token
<1> HIDE DEF paid, t
<1>4. /\ bank' \in [Token -> [Account -> Nat]]
      /\ \A s \in Token : bank'[s][GRID] >= bank[s][GRID]
  <2> DEFINE n1 == bank[t][OTHERS] + amount
             n2 == bank[1 - t][GRID] + paid
             n3 == bank[1 - t][OTHERS] - paid
             x  == [bank EXCEPT ![t][OTHERS] = n1]
             y  == [x EXCEPT ![1 - t][GRID] = n2]
             z  == [y EXCEPT ![1 - t][OTHERS] = n3]
  <2>1. bank[1 - t][GRID] \in Nat /\ n1 \in Nat /\ n2 \in Nat /\ n3 \in Nat
    BY <1>a, <1>b, <1>1, <1>2, <1>3
  <2>2. n2 >= bank[1 - t][GRID]
    BY <1>2, <2>1
  <2>3. bank' = z
    BY <1>1
  <2> HIDE DEF n1, n2, n3
  <2>4. x \in [Token -> [Account -> Nat]] /\ x[t][GRID] = bank[t][GRID]
    BY <1>a, <1>3, <2>1
  <2> HIDE DEF x
  <2>5. /\ y \in [Token -> [Account -> Nat]] /\ y[t] = x[t]
        /\ y[1 - t][GRID] = n2
    BY <1>a, <1>3, <2>1, <2>4
  <2> HIDE DEF y
  <2>8. /\ z \in [Token -> [Account -> Nat]] /\ z[t] = y[t]
        /\ z[1 - t][GRID] = y[1 - t][GRID]
    BY <1>a, <1>3, <2>1, <2>5
  <2>6. \A s \in Token : s = t \/ s = 1 - t
    BY <1>3 DEF Token
  <2> HIDE DEF z
  <2>9. bank'[t][GRID] = bank[t][GRID] /\ bank[t][GRID] \in Nat
    BY <1>a, <1>3, <2>3, <2>4, <2>5, <2>8
  <2>10. bank'[1 - t][GRID] >= bank[1 - t][GRID]
    BY <2>2, <2>3, <2>5, <2>8
  <2>11. \A s \in Token : bank'[s][GRID] >= bank[s][GRID]
    BY <2>6, <2>9, <2>10
  <2>12. QED
    BY <2>3, <2>8, <2>11
<1>5. /\ book' \in [DOMAIN book' -> RestingType] /\ DOMAIN book' \subseteq DOMAIN book
      /\ \A p \in DOMAIN book' : /\ book'[p].token = book[p].token
                                 /\ book'[p].price = book[p].price
                                 /\ book'[p].left <= book[p].left
                                 /\ book[p].parked => book'[p].parked
  <2>1. CASE amount = order.left
    <3>1. book' = [p \in DOMAIN book \ {o} |-> book[p]]
      BY <1>1, <2>1
    <3>2. \A p \in DOMAIN book \ {o} : book[p] \in RestingType /\ book[p].left \in Nat
      BY <1>a DEF RestingType
    <3>3. QED
      BY <3>1, <3>2
  <2>2. CASE amount # order.left
    <3> DEFINE l == order.left - amount
    <3>1. l \in Nat \ {0} /\ l <= order.left
      BY <1>a, <1>b, <2>2
    <3>2. book' = [book EXCEPT ![o] = [book[o] EXCEPT !.left = l]]
      BY <1>1, <2>2
    <3> HIDE DEF l
    <3>3. [book[o] EXCEPT !.left = l] \in RestingType
      BY <1>a, <3>1 DEF RestingType
    <3>4. /\ [book[o] EXCEPT !.left = l].left = l
          /\ [book[o] EXCEPT !.left = l].token = book[o].token
          /\ [book[o] EXCEPT !.left = l].price = book[o].price
          /\ [book[o] EXCEPT !.left = l].parked = book[o].parked
      BY <1>a DEF RestingType
    <3>5. \A p \in DOMAIN book : book[p] \in RestingType /\ book[p].left \in Nat
      BY <1>a DEF RestingType
    <3>6. QED
      BY <1>a, <3>1, <3>2, <3>3, <3>4, <3>5
  <2>3. QED
    BY <2>1, <2>2
<1>6. QED
  BY <1>a, <1>1, <1>4, <1>5, OutsideStep

LEMMA ExpireStep ==
  ASSUME IInv, NEW o \in DOMAIN book, Expire(o),
         UNCHANGED <<vault, manager, registry>>
  PROVE  IInv'
<1> USE MarketTypes
<1>1. /\ book' = [book EXCEPT ![o].parked = TRUE]
      /\ UNCHANGED <<bank, pair, next_order_id, events>>
  BY DEF Expire
<1>2. /\ [book[o] EXCEPT !.parked = TRUE] \in RestingType
      /\ [book[o] EXCEPT !.parked = TRUE].left = book[o].left
      /\ [book[o] EXCEPT !.parked = TRUE].token = book[o].token
      /\ [book[o] EXCEPT !.parked = TRUE].price = book[o].price
      /\ [book[o] EXCEPT !.parked = TRUE].parked
  BY DEF RestingType
<1>3. /\ book' \in [DOMAIN book' -> RestingType] /\ DOMAIN book' \subseteq DOMAIN book
      /\ \A p \in DOMAIN book' : /\ book'[p].token = book[p].token
                                 /\ book'[p].price = book[p].price
                                 /\ book'[p].left <= book[p].left
                                 /\ book[p].parked => book'[p].parked
  BY <1>1, <1>2
<1>4. QED
  BY <1>1, <1>3, OutsideStep

LEMMA DonateStep ==
  ASSUME IInv, NEW t \in Token, Donate(t),
         UNCHANGED <<vault, manager, registry>>
  PROVE  IInv'
<1>a. /\ pair \in [code_id : PairCodes, batch_limit : BatchLimits]
      /\ bank \in [Token -> [Account -> Nat]]
      /\ bank[t][GRID] \in Nat /\ bank[t][OTHERS] \in Nat
      /\ book \in [DOMAIN book -> RestingType]
      /\ \A o \in DOMAIN book : book[o].left \in Nat
      /\ GRID \in Account /\ OTHERS \in Account /\ OTHERS # GRID
      /\ \A s \in Token : bank[s][GRID] \in Nat
      /\ events \in Nat
  BY MarketTypes
<1>1. /\ bank[t][OTHERS] > 0 /\ bank' = moved(OTHERS, GRID, t, 1)
      /\ UNCHANGED <<pair, book, next_order_id>> /\ events' \in Nat
  BY <1>a DEF Donate, Event
<1>2. 1 <= bank[t][OTHERS] /\ 1 \in Nat
  BY <1>a, <1>1
<1>3. /\ bank' \in [Token -> [Account -> Nat]]
      /\ bank'[t][GRID] = bank[t][GRID] + 1
      /\ \A s \in Token : s # t => bank'[s] = bank[s]
  <2> DEFINE n == 1
  <2>1. n \in Nat /\ n <= bank[t][OTHERS] /\ bank' = moved(OTHERS, GRID, t, n)
    BY <1>1, <1>2
  <2>2. SUFFICES /\ bank' \in [Token -> [Account -> Nat]]
                 /\ bank'[t][GRID] = bank[t][GRID] + n
                 /\ \A s \in Token : s # t => bank'[s] = bank[s]
    OBVIOUS
  <2> HIDE DEF n
  <2>3. QED
    BY <1>a, <2>1, MovedBank
<1>4. \A s \in Token : bank'[s][GRID] >= bank[s][GRID]
  BY <1>a, <1>3
<1>5. \A o \in DOMAIN book' : book'[o].left <= book[o].left
  BY <1>a, <1>1
<1>6. QED
  BY <1>a, <1>1, <1>3, <1>4, <1>5, OutsideStep

LEMMA MarketStep ==
  ASSUME IInv, MarketNext
  PROVE  IInv'
<1> USE MarketTypes
<1>1. UNCHANGED <<vault, manager, registry>>
  BY DEF MarketNext
<1>2. ASSUME pair' \in [code_id : PairCodes, batch_limit : BatchLimits],
             UNCHANGED <<bank, book, next_order_id>>, events' \in Nat
      PROVE  IInv'
  <2>1. /\ \A t \in Token : bank'[t][GRID] >= bank[t][GRID]
        /\ \A o \in DOMAIN book' : book'[o].left <= book[o].left
    BY <1>2
  <2>2. QED
    BY <1>1, <1>2, <2>1, OutsideStep
<1>3. ASSUME NEW code \in PairCodes, Migrate(code)
      PROVE  IInv'
  BY <1>2, <1>3 DEF Migrate, Event
<1>4. ASSUME NEW limit \in BatchLimits, SetBatchLimit(limit)
      PROVE  IInv'
  BY <1>2, <1>4 DEF SetBatchLimit, Event
<1>5. QED
  BY <1>1, <1>3, <1>4, FillOrderStep, ExpireStep, DonateStep DEF MarketNext, PairNext

-----------------------------------------------------------------------------
(* The invariant is inductive. *)

LEMMA Initially ==
  ASSUME Init
  PROVE  IInv
<1> USE DEF Init, ManagerInit, VaultInit, PairInit
<1>1. DOMAIN orders = {} /\ DOMAIN book = {}
  OBVIOUS
<1>2. TypeOK
  <2>1. manager \in [admin : Admins, pending_admin : Admins \cup {None}, template : Template]
    BY ManagerAssumption
  <2>2. /\ orders \in [DOMAIN orders -> OrderType] /\ book \in [DOMAIN book -> RestingType]
    OBVIOUS
  <2>3. pair \in [code_id : PairCodes, batch_limit : BatchLimits]
    BY PairAssumption
  <2>4. QED
    BY <1>1, <2>1, <2>2, <2>3, BankAssumption DEF TypeOK
<1>3. NoBot /\ GridOK /\ EscrowRecoverable /\ OrdersMatch
  BY <1>1 DEF NoBot, GridOK, EscrowRecoverable, OrdersMatch, Resting
<1>4. FreeInCustody /\ OrdersCounted /\ SharesAccounted /\ ReserveBehindShares
  BY DEF FreeInCustody, OrdersCounted, SharesAccounted, ReserveBehindShares
<1>5. QED
  BY <1>2, <1>3, <1>4 DEF IInv

LEMMA ReportStep ==
  ASSUME IInv, NEW ids, NEW sender, NEW answer,
         Reconcile(ids, sender, answer) \/ ReconcileBlind(ids, sender, answer)
  PROVE  IInv'
<1>1. events \in Nat
  BY DEF IInv, TypeOK
<1>2. CASE Reconcile(ids, sender, answer)
  BY <1>1, <1>2, ReconcileStep DEF Reconcile, VaultFrame
<1>3. CASE ReconcileBlind(ids, sender, answer)
  <2>1. execute_reconcile(ids, sender, answer, TRUE)
    BY <1>3 DEF ReconcileBlind
  <2>2. UNCHANGED <<manager, registry>> /\ Event
    BY <1>3 DEF ReconcileBlind, CountedFrame
  <2>3. events' \in Nat
    BY <1>1, <2>2 DEF Event
  <2>4. QED
    BY <2>1, <2>2, <2>3, ReconcileStep
<1>4. QED
  BY <1>2, <1>3

LEMMA Inductive ==
  ASSUME IInv, [Next]_vars
  PROVE  IInv'
<1>1. CASE OwnerNext
  BY <1>1, CreateBotStep, ReceiveStep, AllocateStep, RecoverOrderStep, CancelAllStep,
     SyncBalancesStep, WithdrawStep, WithdrawGasStep, EnterExitStep, EmergencyCancelStep,
     EmergencyWithdrawStep DEF OwnerNext
<1>2. CASE OthersNext
  BY <1>2, ReportStep, RedeemSharesStep, FundGasStep DEF OthersNext
<1>3. CASE UNCHANGED vars
  BY <1>3 DEF vars, vault, market, registry, IInv, TypeOK, NoBot, GridOK, EscrowRecoverable,
     OrdersMatch, Matches, Tracked, Resting, SharesAccounted, FreeInCustody, OrdersCounted,
     ReserveBehindShares, side_rungs, rung_price, OrderIds
<1>4. QED
  BY <1>1, <1>2, <1>3, ManagerStep, AdminStep, MarketStep DEF Next

-----------------------------------------------------------------------------
(* What holds in every state. *)

LEMMA Always == Spec => []IInv
<1>1. Init => IInv
  BY Initially
<1>2. IInv /\ [Next]_vars => IInv'
  BY Inductive
<1>3. QED
  BY <1>1, <1>2, PTL DEF Spec

\* Every state the limit grid reaches is typed (the storage of the manager and
\* the vault, the pair's book, the balances), whatever was called and filled.
THEOREM TypeCorrect == Spec => []TypeOK
<1>1. IInv => TypeOK
  BY DEF IInv
<1>2. QED
  BY <1>1, Always, PTL

\* total_shares is the sum of what the owner and the collector hold, through
\* deposits, fee mints, partial withdrawals, redemptions and the emergency exit.
THEOREM SharesAlwaysAccounted == Spec => []SharesAccounted
<1>1. IInv => SharesAccounted
  BY DEF IInv
<1>2. QED
  BY <1>1, Always, PTL

\* Free balances are backed by the vault's custody, however many pages of a
\* cancellation were refused and whatever a placement was refused for.
THEOREM AlwaysInCustody == Spec => []FreeInCustody
<1>1. IInv => FreeInCustody
  BY DEF IInv
<1>2. QED
  BY <1>1, Always, PTL

\* active_orders, which withdrawals and new orders rely on, counts the entries
\* of ORDERS.
THEOREM OrdersAlwaysCounted == Spec => []OrdersCounted
<1>1. IInv => OrdersCounted
  BY DEF IInv
<1>2. QED
  BY <1>1, Always, PTL

\* While anybody holds shares the keeper's minimum reserve is funded: gas is
\* withdrawn, and rewards are paid, only above it.
THEOREM ReserveAlwaysBehindShares == Spec => []ReserveBehindShares
<1>1. IInv => ReserveBehindShares
  BY DEF IInv
<1>2. QED
  BY <1>1, Always, PTL

\* Whatever the pair holds for the vault can be had back: it is tracked, or
\* recover_order accepts it under the rung of its side and price.
THEOREM EscrowAlwaysReachable == Spec => []EscrowReachable
<1>1. IInv => EscrowReachable
  BY DEF IInv, EscrowRecoverable, EscrowReachable
<1>2. QED
  BY <1>1, Always, PTL

LEMMA ExitOpen ==
  ASSUME IInv
  PROVE  ExitOpenUnlessExecuted
<1>1. SUFFICES ASSUME bot # None, mode = "Exit", assert_pair_code,
                      Tracked \subseteq Resting, shares[config.owner] > 0
               PROVE  \/ emergency_withdraw_accepted
                      \/ Tracked # {} /\ emergency_cancel_accepted
  BY DEF ExitOpenUnlessExecuted
<1>2. CASE Tracked = {}
  <2>1. /\ bot.total_shares = shares[config.owner] + shares[Collector]
        /\ shares[config.owner] \in Nat /\ shares[Collector] \in Nat
    BY <1>1 DEF IInv, SharesAccounted, TypeOK, ConfigType
  <2>2. shares[config.owner] \in 1..bot.total_shares
    BY <1>1, <2>1
  <2>3. QED
    BY <1>1, <1>2, <2>2 DEF emergency_withdraw_accepted, Tracked
<1>3. CASE Tracked # {}
  <2>1. ASSUME NEW o \in first_tracked
        PROVE  classified(o)
    <3>1. o \in Tracked /\ o \in Resting /\ Matches(o, orders[o])
      BY <1>1, <2>1 DEF first_tracked, IInv, OrdersMatch, Tracked
    <3>2. QED
      BY <3>1 DEF Matches, classified, active, parked, validate_order, validate_refund, Resting
  <2>2. QED
    BY <1>1, <1>3, <2>1 DEF emergency_cancel_accepted
<1>4. QED
  BY <1>2, <1>3

\* In Exit mode an owner with shares is never stuck, as long as the pair code
\* is the pinned one and no tracked order is executed: emergency_withdraw or
\* emergency_cancel accepts the call.
THEOREM ExitAlwaysOpen == Spec => []ExitOpenUnlessExecuted
<1>1. IInv => ExitOpenUnlessExecuted
  BY ExitOpen
<1>2. QED
  BY <1>1, Always, PTL

-----------------------------------------------------------------------------
(* What no step does: forget an order. *)

LEMMA PagesForgetNothing ==
  ASSUME NEW b, NEW tracked, NEW cancels, NEW claims, NEW done,
         settle_pages(b, tracked, cancels, claims, done)
  PROVE  (DOMAIN tracked \ DOMAIN orders') \cap DOMAIN book' = {}
<1>1. /\ orders' = [o \in DOMAIN tracked \ done |-> tracked[o]]
      /\ book' = [o \in DOMAIN book \ done |-> book[o]]
  BY DEF settle_pages, Restrict, untracked
<1>2. QED
  BY <1>1

LEMMA PlacementForgetsNothing ==
  ASSUME NEW b, NEW new_bank, NEW rest, NEW cut, place(b, new_bank, rest, cut)
  PROVE  DOMAIN orders \subseteq DOMAIN orders'
BY DEF place

\* Tracked orders that are forgotten while the pair goes on holding them.
Forgotten == (Tracked \ DOMAIN orders') \cap DOMAIN book'

LEMMA ReportForgets ==
  ASSUME NEW ids, NEW sender, NEW answer, NEW blind \in BOOLEAN,
         execute_reconcile(ids, sender, answer, blind), NEW o \in Forgotten
  PROVE  blind /\ ~book[o].parked
<1> DEFINE seen    == {p \in ids : active(p) /\ ~blind}
           claims  == {p \in ids : parked(p)}
           gone    == ids \ (seen \cup claims)
           tracked == [p \in DOMAIN orders \ gone |->
                         IF p \in seen
                           THEN [orders[p] EXCEPT !.remaining = book[p].left]
                           ELSE orders[p]]
<1>1. PICK b, done : settle_pages(b, tracked, {}, claims, done)
  BY DEF execute_reconcile
<1>2. o \notin DOMAIN tracked
  <2> HIDE DEF tracked, claims
  <2>1. QED
    BY <1>1, PagesForgetNothing DEF Forgotten
<1>3. o \in gone
  BY <1>2 DEF Forgotten, Tracked
<1>4. o \in DOMAIN book
  <2>1. book' = [p \in DOMAIN book \ done |-> book[p]]
    BY <1>1 DEF settle_pages, Restrict
  <2>2. QED
    BY <2>1 DEF Forgotten
<1>5. QED
  BY <1>3, <1>4 DEF active, parked

LEMMA NothingForgotten ==
  ASSUME IInv, [Next]_vars, NEW o \in Forgotten
  PROVE  events' # events /\ ~book[o].parked
<1>1. o \in DOMAIN orders /\ o \notin DOMAIN orders' /\ o \in DOMAIN book'
  BY DEF Forgotten, Tracked
<1>2. orders' # orders
  BY <1>1
<1>3. ~UNCHANGED vars /\ ~ManagerNext /\ ~MarketNext
  BY <1>2 DEF vars, vault, ManagerNext, CreateVault, UpdateConfig, ManagerTransferAdmin,
     ManagerAcceptAdmin, ManagerFrame, MarketNext
<1>4. ~AdminNext
  BY <1>2 DEF AdminNext, UpdateKeeper, TransferAdmin, AcceptAdmin, AddAllowed, RemoveAllowed,
     Quarantine, Unquarantine, UpdatePairCode, Pause, Resume, execute_update_keeper,
     execute_transfer_admin, execute_accept_admin, execute_add_allowed_token,
     execute_remove_allowed_token, execute_quarantine_token, execute_unquarantine_token,
     execute_update_pair_code, execute_pause, execute_resume, set_mode, set_policy
<1>5. ~OwnerNext
  <2>1. ASSUME NEW b, NEW new_bank, NEW rest, NEW cut
        PROVE  ~place(b, new_bank, rest, cut)
    BY <1>1, PlacementForgetsNothing
  <2>2. ASSUME NEW b, NEW tracked, NEW cancels, NEW claims, NEW done, o \in DOMAIN tracked
        PROVE  ~settle_pages(b, tracked, cancels, claims, done)
    BY <1>1, <2>2, PagesForgetNothing
  <2>3. \A t \in Token, amount \in DepositAmounts, cut \in MakerFees : ~Receive(t, amount, cut)
    BY <2>1 DEF Receive, execute_receive
  <2>4. \A cut \in MakerFees : ~Allocate(cut)
    BY <2>1 DEF Allocate, execute_allocate
  <2>5. ~CancelAll /\ ~EmergencyCancel
    BY <1>1, <2>2 DEF CancelAll, execute_cancel_all, EmergencyCancel, execute_emergency_cancel
  <2>6. \A p \in DOMAIN book : \A index \in 0..(MAX_GRID_COUNT - 1) : ~RecoverOrder(p, index)
    <3>1. SUFFICES ASSUME NEW p \in DOMAIN book, NEW index \in 0..(MAX_GRID_COUNT - 1),
                          RecoverOrder(p, index)
                   PROVE  FALSE
      OBVIOUS
    <3> DEFINE t     == IF index \in side_rungs(Ask) THEN Ask ELSE Bid
               order == [rung_index |-> index, token |-> t, price |-> rung_price(index),
                         remaining |-> book[p].left]
               known == [q \in DOMAIN orders \cup {p} |-> IF q = p THEN order ELSE orders[q]]
    <3>2. PICK b, claims, done : settle_pages(b, known, {}, claims, done)
      BY <3>1 DEF RecoverOrder, execute_recover_order
    <3>3. o \in DOMAIN known
      BY <1>1
    <3> HIDE DEF known
    <3>4. QED
      BY <2>2, <3>2, <3>3
  <2>7. /\ ~SyncBalances /\ ~EnterExit /\ ~EmergencyWithdraw
        /\ \A burned \in ShareAmounts : ~Withdraw(burned)
        /\ \A amount \in GasAmounts : ~WithdrawGas(amount)
        /\ \A grid \in Grids, reserves \in Pools, gas \in GasAmounts : ~CreateBot(grid, reserves, gas)
    BY <1>2 DEF SyncBalances, execute_sync_balances, EnterExit, execute_enter_exit, set_mode,
       EmergencyWithdraw, execute_emergency_withdraw, Withdraw, execute_withdraw, redeem,
       WithdrawGas, execute_withdraw_gas, CreateBot, execute_create_bot
  <2>8. QED
    BY <2>3, <2>4, <2>5, <2>6, <2>7 DEF OwnerNext
<1>6. ~RedeemShares /\ \A amount \in GasAmounts : ~FundGas(amount)
  BY <1>2 DEF RedeemShares, execute_redeem_shares, redeem, FundGas, execute_fund_gas
<1>7. PICK ids, sender, answer : Reconcile(ids, sender, answer) \/ ReconcileBlind(ids, sender, answer)
  BY <1>3, <1>4, <1>5, <1>6 DEF Next, OthersNext
<1>8. ~Reconcile(ids, sender, answer)
  BY ReportForgets DEF Reconcile
<1>9. execute_reconcile(ids, sender, answer, TRUE) /\ Event
  BY <1>7, <1>8 DEF ReconcileBlind, CountedFrame
<1>10. events' # events
  BY <1>9 DEF Event, IInv, TypeOK
<1>11. QED
  BY <1>9, <1>10, ReportForgets

\* Cancellations, claims, reports, placements and exits drop no order the pair
\* still holds; only a report in which the pair's order query fails does, and
\* it spares the parked refunds.
THEOREM NeverForgotten == Spec => TrackedUntilGone
<1>1. IInv /\ [Next]_vars => [\A o \in (Tracked \ DOMAIN orders') \cap DOMAIN book' :
                                events' # events /\ ~book[o].parked]_vars
  BY NothingForgotten DEF Forgotten
<1>2. QED
  BY <1>1, Always, PTL DEF Spec, TrackedUntilGone

-----------------------------------------------------------------------------
(* What no step does: pay an exit too much. *)

LEMMA PagesKeepShares ==
  ASSUME NEW b, NEW tracked, NEW cancels, NEW claims, NEW done,
         settle_pages(b, tracked, cancels, claims, done), "total_shares" \in DOMAIN b
  PROVE  bot'.total_shares = b.total_shares
BY DEF settle_pages

LEMMA PlacementKeepsShares ==
  ASSUME NEW b, NEW new_bank, NEW rest, NEW cut,
         place(b, new_bank, rest, cut), "total_shares" \in DOMAIN b
  PROVE  bot'.total_shares = b.total_shares
BY DEF place

LEMMA ReceiveMints ==
  ASSUME IInv, bot # None, NEW t \in Token, NEW amount \in DepositAmounts, NEW cut \in MakerFees,
         Receive(t, amount, cut)
  PROVE  bot'.total_shares >= bot.total_shares
<1> DEFINE minted    == deposit_shares(amount, t, bot.reference_price)
           deposited == [bot EXCEPT !.free_balances[t] = @ + amount, !.total_shares = @ + minted]
<1>1. bot \in BotType /\ bot.total_shares \in Nat /\ bot.reference_price \in Nat \ {0}
  BY DEF IInv, TypeOK, BotType
<1>2. minted \in Nat
  BY <1>1, AmountAssumption, InToken0 DEF deposit_shares
<1> HIDE DEF minted
<1>3. "total_shares" \in DOMAIN deposited /\ deposited.total_shares = bot.total_shares + minted
  BY <1>1 DEF BotType
<1>4. PICK new_bank, rest : place(deposited, new_bank, rest, cut)
  BY DEF Receive, execute_receive, minted
<1> HIDE DEF deposited
<1>5. QED
  BY <1>1, <1>2, <1>3, <1>4, PlacementKeepsShares

LEMMA ReportMints ==
  ASSUME IInv, bot # None, NEW ids, NEW sender, NEW answer, NEW blind,
         execute_reconcile(ids, sender, answer, blind)
  PROVE  bot'.total_shares >= bot.total_shares
<1>1. PICK free, count, minted, gas, tracked, claims, done :
        /\ fits(minted, bot.total_shares)
        /\ settle_pages([[bot EXCEPT !.free_balances = free, !.active_orders = count]
                           EXCEPT !.total_shares = @ + minted, !.gas_credit = gas],
                        tracked, {}, claims, done)
  BY DEF execute_reconcile
<1> DEFINE synced == [bot EXCEPT !.free_balances = free, !.active_orders = count]
           b      == [synced EXCEPT !.total_shares = @ + minted, !.gas_credit = gas]
<1>2. bot \in BotType /\ bot.total_shares \in Nat
  BY DEF IInv, TypeOK, BotType
<1>3. minted \in Nat
  BY <1>1, <1>2, AmountAssumption DEF fits
<1>4. synced.total_shares = bot.total_shares /\ DOMAIN synced = DOMAIN bot
      /\ "total_shares" \in DOMAIN bot
  BY <1>2 DEF BotType
<1> HIDE DEF synced
<1>5. b.total_shares = bot.total_shares + minted /\ "total_shares" \in DOMAIN b
  BY <1>4
<1>6. settle_pages(b, tracked, {}, claims, done)
  BY <1>1 DEF synced
<1> HIDE DEF b
<1>7. QED
  BY <1>2, <1>3, <1>5, <1>6, PagesKeepShares

LEMMA OwnerBurns ==
  ASSUME IInv, bot # None, bot'.total_shares \in Nat, bot'.total_shares < bot.total_shares,
         OwnerNext
  PROVE  EmergencyWithdraw \/ \E burned \in ShareAmounts : Withdraw(burned)
<1>1. bot \in BotType /\ bot.total_shares \in Nat /\ "total_shares" \in DOMAIN bot
  BY DEF IInv, TypeOK, BotType
<1>2. bot'.total_shares # bot.total_shares /\ ~(bot'.total_shares >= bot.total_shares)
  BY <1>1
<1>3. \A t \in Token, amount \in DepositAmounts, cut \in MakerFees : ~Receive(t, amount, cut)
  BY <1>2, ReceiveMints
<1>4. \A cut \in MakerFees : ~Allocate(cut)
  BY <1>1, <1>2, PlacementKeepsShares DEF Allocate, execute_allocate
<1>5. ~CancelAll /\ ~EmergencyCancel
  BY <1>1, <1>2, PagesKeepShares
  DEF CancelAll, execute_cancel_all, EmergencyCancel, execute_emergency_cancel
<1>6. \A p \in DOMAIN book : \A index \in 0..(MAX_GRID_COUNT - 1) : ~RecoverOrder(p, index)
  <2>1. SUFFICES ASSUME NEW p \in DOMAIN book, NEW index \in 0..(MAX_GRID_COUNT - 1),
                        RecoverOrder(p, index)
                 PROVE  FALSE
    OBVIOUS
  <2> DEFINE b == [bot EXCEPT !.active_orders = @ + 1]
  <2>2. PICK known, claims, done : settle_pages(b, known, {}, claims, done)
    BY <2>1 DEF RecoverOrder, execute_recover_order
  <2>3. b.total_shares = bot.total_shares /\ "total_shares" \in DOMAIN b
    BY <1>1
  <2> HIDE DEF b
  <2>4. QED
    BY <1>2, <2>2, <2>3, PagesKeepShares
<1>7. /\ ~SyncBalances /\ ~EnterExit
      /\ \A amount \in GasAmounts : ~WithdrawGas(amount)
  BY <1>1, <1>2 DEF SyncBalances, execute_sync_balances, EnterExit, execute_enter_exit, set_mode,
     WithdrawGas, execute_withdraw_gas
<1>8. \A grid \in Grids, reserves \in Pools, gas \in GasAmounts : ~CreateBot(grid, reserves, gas)
  BY DEF CreateBot, execute_create_bot
<1>9. QED
  BY <1>3, <1>4, <1>5, <1>6, <1>7, <1>8 DEF OwnerNext

LEMMA OnlyExitsBurn ==
  ASSUME IInv, [Next]_vars, bot # None, bot' # None, bot'.total_shares < bot.total_shares
  PROVE  RedeemShares \/ EmergencyWithdraw \/ \E burned \in ShareAmounts : Withdraw(burned)
<1>1. bot \in BotType /\ bot.total_shares \in Nat /\ "total_shares" \in DOMAIN bot
  BY DEF IInv, TypeOK, BotType
<1>2. /\ bot'.total_shares \in Nat /\ bot' # bot
      /\ bot'.total_shares # bot.total_shares /\ ~(bot'.total_shares >= bot.total_shares)
  <2>1. bot'.total_shares \in Nat
    BY Inductive DEF IInv, TypeOK, BotType
  <2>2. QED
    BY <1>1, <2>1
<1>3. ~UNCHANGED vars /\ ~ManagerNext /\ ~MarketNext
  BY <1>2 DEF vars, vault, ManagerNext, CreateVault, UpdateConfig, ManagerTransferAdmin,
     ManagerAcceptAdmin, ManagerFrame, MarketNext
<1>4. ~AdminNext
  <2>1. \A code \in PairCodes : ~UpdatePairCode(code)
    BY <1>1, <1>2 DEF UpdatePairCode, execute_update_pair_code
  <2>2. QED
    BY <1>2, <2>1 DEF AdminNext, UpdateKeeper, TransferAdmin, AcceptAdmin, AddAllowed,
       RemoveAllowed, Quarantine, Unquarantine, Pause, Resume, execute_update_keeper,
       execute_transfer_admin, execute_accept_admin, execute_add_allowed_token,
       execute_remove_allowed_token, execute_quarantine_token, execute_unquarantine_token,
       execute_pause, execute_resume, set_mode, set_policy
<1>5. \A ids, sender, answer :
        ~Reconcile(ids, sender, answer) /\ ~ReconcileBlind(ids, sender, answer)
  BY <1>2, ReportMints DEF Reconcile, ReconcileBlind
<1>6. \A amount \in GasAmounts : ~FundGas(amount)
  BY <1>1, <1>2 DEF FundGas, execute_fund_gas
<1>7. QED
  BY <1>2, <1>3, <1>4, <1>5, <1>6, OwnerBurns DEF Next, OthersNext

\* However shares are burned, by the owner, by the collector or in an emergency,
\* the custody left per remaining share does not fall.
THEOREM NobodyEverOverpaid == Spec => NobodyOverpaid
<1>1. IInv /\ [Next]_vars =>
        [bot # None /\ bot' # None /\ bot'.total_shares < bot.total_shares
           => \A t \in Token :
                bank'[t][GRID] * bot.total_shares >= bank[t][GRID] * bot'.total_shares]_vars
  BY OnlyExitsBurn, WithdrawStep, RedeemSharesStep, EmergencyWithdrawStep
<1>2. QED
  BY <1>1, Always, PTL DEF Spec, NobodyOverpaid

-----------------------------------------------------------------------------
(* The manager's registry. *)

RegistryInv ==
    /\ RegistryConsistent
    /\ next_vault_id \in Nat \ {0}
    /\ instances \in Seq(ConfigType)

LEMMA RegistryStep ==
  ASSUME IInv, RegistryInv, [Next]_vars
  PROVE  RegistryInv'
<1>1. CASE UNCHANGED registry
  BY <1>1 DEF registry, RegistryInv, RegistryConsistent
<1>2. ASSUME NEW u \in Users, CreateVault(u)
      PROVE  RegistryInv'
  <2> DEFINE address  == Len(instances) + 1
             instance == instantiated(u, manager.admin, manager.template)
             entry    == [owner |-> u, address |-> address]
             n        == next_vault_id
  <2>1. /\ instances' = Append(instances, instance) /\ next_vault_id' = n + 1
        /\ vaults' = [k \in DOMAIN vaults \cup {n} |-> IF k = n THEN entry ELSE vaults[k]]
        /\ owner_vaults' = [k \in DOMAIN owner_vaults \cup {<<u, n>>} |->
                              IF k = <<u, n>> THEN address ELSE owner_vaults[k]]
    BY <1>2 DEF CreateVault, execute_create_vault, following_id, saved
  <2>2. instance \in ConfigType /\ instance.owner = u
    BY DEF instantiated, ConfigType, Template, IInv, TypeOK
  <2>3. instances \in Seq(ConfigType) /\ n \in Nat \ {0}
    BY DEF RegistryInv
  <2> HIDE DEF instance
  <2>4. /\ instances' \in Seq(ConfigType) /\ Len(instances) \in Nat
        /\ DOMAIN instances = 1..Len(instances) /\ DOMAIN instances' = 1..address
        /\ instances'[address] = instance
        /\ \A a \in DOMAIN instances : instances'[a] = instances[a]
    BY <2>1, <2>2, <2>3
  <2> HIDE DEF address
  <2>5. /\ DOMAIN vaults = 1..(n - 1)
        /\ DOMAIN owner_vaults = {<<vaults[id].owner, id>> : id \in DOMAIN vaults}
        /\ \A id \in DOMAIN vaults :
              /\ vaults[id].address \in DOMAIN instances
              /\ instances[vaults[id].address].owner = vaults[id].owner
              /\ owner_vaults[<<vaults[id].owner, id>>] = vaults[id].address
        /\ \A a \in DOMAIN instances : \E id \in DOMAIN vaults : vaults[id].address = a
    BY DEF RegistryInv, RegistryConsistent
  <2>6. n \notin DOMAIN vaults /\ DOMAIN vaults \cup {n} = 1..(n + 1 - 1)
    BY <2>3, <2>5
  <2>7. entry.owner = u /\ entry.address = address
    OBVIOUS
  <2> HIDE DEF entry, n
  <2>8. /\ DOMAIN vaults' = DOMAIN vaults \cup {n} /\ vaults'[n] = entry
        /\ \A id \in DOMAIN vaults : vaults'[id] = vaults[id] /\ id # n
        /\ DOMAIN owner_vaults' = DOMAIN owner_vaults \cup {<<u, n>>}
        /\ owner_vaults'[<<u, n>>] = address
        /\ \A k \in DOMAIN owner_vaults : k # <<u, n>> => owner_vaults'[k] = owner_vaults[k]
    BY <2>1, <2>6
  <2>9. DOMAIN vaults' = 1..(next_vault_id' - 1) /\ next_vault_id' \in Nat \ {0}
    BY <2>1, <2>3, <2>6, <2>8
  <2>10. DOMAIN owner_vaults' = {<<vaults'[id].owner, id>> : id \in DOMAIN vaults'}
    <3>1. ASSUME NEW id \in DOMAIN vaults'
          PROVE  <<vaults'[id].owner, id>> \in DOMAIN owner_vaults'
      BY <2>5, <2>7, <2>8
    <3>2. ASSUME NEW k \in DOMAIN owner_vaults'
          PROVE  \E id \in DOMAIN vaults' : k = <<vaults'[id].owner, id>>
      <4>1. CASE k = <<u, n>>
        BY <2>7, <2>8, <4>1
      <4>2. CASE k \in DOMAIN owner_vaults
        <5>1. PICK id \in DOMAIN vaults : k = <<vaults[id].owner, id>>
          BY <2>5, <4>2
        <5>2. id \in DOMAIN vaults' /\ vaults'[id] = vaults[id]
          BY <2>8
        <5>3. QED
          BY <5>1, <5>2
      <4>3. QED
        BY <2>8, <4>1, <4>2
    <3>3. QED
      BY <3>1, <3>2
  <2>11. ASSUME NEW id \in DOMAIN vaults'
         PROVE  /\ vaults'[id].address \in DOMAIN instances'
                /\ instances'[vaults'[id].address].owner = vaults'[id].owner
                /\ owner_vaults'[<<vaults'[id].owner, id>>] = vaults'[id].address
    <3>1. CASE id = n
      <4>1. address \in 1..address
        BY <2>4 DEF address
      <4>2. QED
        BY <2>2, <2>4, <2>7, <2>8, <3>1, <4>1
    <3>2. CASE id \in DOMAIN vaults
      <4>1. DOMAIN instances \subseteq DOMAIN instances'
        BY <2>4 DEF address
      <4>2. vaults'[id] = vaults[id] /\ id # n
        BY <2>8, <3>2
      <4>3. <<vaults[id].owner, id>> \in DOMAIN owner_vaults /\ <<vaults[id].owner, id>> # <<u, n>>
        BY <2>5, <3>2, <4>2
      <4>4. QED
        BY <2>4, <2>5, <2>8, <3>2, <4>1, <4>2, <4>3
    <3>3. QED
      BY <2>8, <3>1, <3>2
  <2>12. ASSUME NEW a \in DOMAIN instances'
         PROVE  \E id \in DOMAIN vaults' : vaults'[id].address = a
    <3>1. a = address \/ a \in DOMAIN instances
      BY <2>4 DEF address
    <3>2. QED
      BY <2>5, <2>7, <2>8, <3>1
  <2>13. RegistryConsistent'
    BY <2>9, <2>10, <2>11, <2>12 DEF RegistryConsistent
  <2>14. QED
    BY <2>4, <2>9, <2>13 DEF RegistryInv
<1>3. CASE ManagerNext
  BY <1>1, <1>2, <1>3 DEF ManagerNext, UpdateConfig, ManagerTransferAdmin, ManagerAcceptAdmin,
     execute_update_config, manager_transfer_admin, manager_accept_admin
<1>4. CASE AdminNext
  BY <1>1, <1>4 DEF AdminNext, UpdateKeeper, TransferAdmin, AcceptAdmin, AddAllowed,
     RemoveAllowed, Quarantine, Unquarantine, UpdatePairCode, Pause, Resume, VaultFrame,
     CountedFrame
<1>5. CASE OwnerNext
  BY <1>1, <1>5 DEF OwnerNext, CreateBot, Receive, Allocate, RecoverOrder, CancelAll,
     SyncBalances, Withdraw, WithdrawGas, EnterExit, EmergencyCancel, EmergencyWithdraw,
     VaultFrame, CountedFrame
<1>6. CASE OthersNext
  BY <1>1, <1>6 DEF OthersNext, Reconcile, ReconcileBlind, RedeemShares, FundGas, VaultFrame,
     CountedFrame
<1>7. CASE MarketNext \/ UNCHANGED vars
  BY <1>1, <1>7 DEF MarketNext, vars
<1>8. QED
  BY <1>3, <1>4, <1>5, <1>6, <1>7 DEF Next

\* Every vault the manager instantiated is registered once, under its own id
\* and with the account that asked for it, however creations interleave with
\* changes of the template and of the administrator.
THEOREM RegistryAlwaysConsistent == Spec => []RegistryConsistent
<1>1. Init => RegistryInv
  BY DEF Init, ManagerInit, RegistryInv, RegistryConsistent
<1>2. IInv /\ RegistryInv /\ [Next]_vars => RegistryInv'
  BY RegistryStep
<1>3. RegistryInv => RegistryConsistent
  BY DEF RegistryInv
<1>4. QED
  BY <1>1, <1>2, <1>3, Always, PTL DEF Spec
=============================================================================
