--------------------------- MODULE Cl8yMath_proofs ---------------------------
(***************************************************************************)
(* What the contracts' integer arithmetic guarantees for every amount,     *)
(* price and supply: its types and the direction of its roundings.  Last,   *)
(* the sums of balances the contracts' ledgers are checked against.         *)
(***************************************************************************)
EXTENDS Cl8yMath, FiniteSetsExt, FiniteSetTheorems, TLAPS

LEMMA BpsPositive == BPS \in Nat /\ BPS > 0
BY DEF BPS

\* A floor ratio is the largest integer whose product with the denominator
\* does not exceed value * numerator (checked_ratio).
LEMMA FloorRatio ==
  ASSUME NEW v \in Nat, NEW n \in Nat, NEW d \in Nat, d > 0
  PROVE  /\ checked_ratio(v, n, d) \in Nat
         /\ checked_ratio(v, n, d) * d <= v * n
         /\ v * n < (checked_ratio(v, n, d) + 1) * d
<1>1. v * n \in Nat
  OBVIOUS
<1>2. \A a \in Nat : /\ a \div d \in Nat
                     /\ (a \div d) * d <= a
                     /\ a < ((a \div d) + 1) * d
  OBVIOUS
<1>3. QED
  BY <1>1, <1>2 DEF checked_ratio

\* A deviation is a number of basis points (ratio_deviation).
LEMMA DeviationInBps ==
  ASSUME NEW a \in Nat, NEW e \in Nat
  PROVE  ratio_deviation(a, e) \in 0..BPS
<1> DEFINE d == IF a >= e THEN a - e ELSE e - a
<1>1. d \in Nat
  OBVIOUS
<1>2. ratio_deviation(a, e) = IF d >= e THEN BPS ELSE Least((d * BPS) \div e, BPS)
  BY DEF ratio_deviation
<1> HIDE DEF d
<1>3. CASE d >= e
  BY <1>2, <1>3 DEF BPS
<1>4. CASE ~(d >= e)
  <2>1. e > 0 /\ d * BPS \in Nat
    BY <1>1, <1>4 DEF BPS
  <2>2. (d * BPS) \div e \in Nat
    BY <2>1
  <2>3. \A q \in Nat : Least(q, BPS) \in 0..BPS
    BY DEF Least, BPS
  <2>4. QED
    BY <1>2, <1>4, <2>2, <2>3
<1>5. QED
  BY <1>3, <1>4

LEMMA AllocationInBps ==
  ASSUME NEW h \in [{0, 1} -> Nat], NEW p \in Nat
  PROVE  allocation_deviation(h, p) \in 0..BPS
<1>1. h[1] * ONE \in Nat /\ p * h[0] \in Nat
  BY OneAssumption
<1>2. ratio_deviation(h[1] * ONE, p * h[0]) \in 0..BPS
  BY <1>1, DeviationInBps
<1>3. 0 \in 0..BPS /\ BPS \in 0..BPS
  BY DEF BPS
<1>4. \/ allocation_deviation(h, p) \in {0, BPS}
      \/ allocation_deviation(h, p) = ratio_deviation(h[1] * ONE, p * h[0])
  BY DEF allocation_deviation
<1>5. QED
  BY <1>2, <1>3, <1>4

\* The trade cap: MAX_TRADE_BPS of a holding is at most half of it.
LEMMA CapAtMostHalf ==
  ASSUME NEW n \in Nat, NEW cap \in Nat, cap <= 5000
  PROVE  checked_ratio(n, cap, BPS) \in Nat /\ 2 * checked_ratio(n, cap, BPS) <= n
<1> DEFINE c == checked_ratio(n, cap, BPS)
<1>1. BPS \in Nat /\ BPS > 0 /\ cap \in Nat
  BY DEF BPS
<1>2. c \in Nat /\ c * BPS <= n * cap
  BY <1>1, FloorRatio
<1> HIDE DEF c
<1>3. n * cap <= n * 5000 /\ n * cap \in Nat
  OBVIOUS
<1>4. c \in Nat /\ 2 * c <= n
  BY <1>2, <1>3 DEF BPS
<1>5. QED
  BY <1>4 DEF c

\* The planned trade offers at most max_trade_bps of the richer holding, so at
\* most half of it (planned_offer, MAX_TRADE_BPS = 5000).
LEMMA OfferBounded ==
  ASSUME NEW h \in [{0, 1} -> Nat], NEW p \in Nat \ {0}, NEW cap \in Nat, cap <= 5000
  PROVE  LET o == planned_offer(h, p, cap)
         IN  o.index \in {0, 1} /\ o.amount \in Nat /\ 2 * o.amount <= h[o.index]
<1> DEFINE v0 == h[0] * p
           v1 == h[1] * ONE
           i  == IF v1 > v0 THEN 1 ELSE 0
           u  == IF i = 1 THEN ((v1 - v0) \div ONE) \div 2
                          ELSE ((v0 - v1) \div p) \div 2
           c  == checked_ratio(h[i], cap, BPS)
<1>1. v0 \in Nat /\ v1 \in Nat /\ i \in {0, 1} /\ h[i] \in Nat
  BY OneAssumption
<1>2. u \in Nat
  <2>1. \A a \in Nat, b \in Nat \ {0} : a \div b \in Nat
    OBVIOUS
  <2>2. CASE v1 > v0
    BY <2>1, <2>2, <1>1, OneAssumption
  <2>3. CASE ~(v1 > v0)
    BY <2>1, <2>3, <1>1
  <2>4. QED
    BY <2>2, <2>3
<1>4. planned_offer(h, p, cap) = [index |-> i, amount |-> Least(u, c)]
  BY DEF planned_offer
<1> HIDE DEF v0, v1, i, u
<1>3. c \in Nat /\ 2 * c <= h[i]
  <2>1. PICK n \in Nat : n = h[i]
    BY <1>1
  <2>2. checked_ratio(n, cap, BPS) \in Nat /\ 2 * checked_ratio(n, cap, BPS) <= n
    BY CapAtMostHalf DEF BPS, checked_ratio
  <2>3. QED
    BY <2>1, <2>2
<1> HIDE DEF c
<1>5. Least(u, c) \in Nat /\ 2 * Least(u, c) <= h[i]
  BY <1>2, <1>3, <1>1 DEF Least
<1>6. QED
  BY <1>1, <1>4, <1>5

LEMMA NavInNat ==
  ASSUME NEW h \in [{0, 1} -> Nat], NEW p \in Nat \ {0}
  PROVE  nav(h, p) \in Nat
<1>1. h[1] * ONE \in Nat
  BY OneAssumption
<1>2. (h[1] * ONE) \div p \in Nat
  BY <1>1
<1>3. QED
  BY <1>2 DEF nav

LEMMA InToken0 ==
  ASSUME NEW a \in Nat, NEW p \in Nat \ {0}
  PROVE  checked_ratio(a, ONE, p) \in Nat
BY FloorRatio, OneAssumption

LEMMA ExpectedReturnInNat ==
  ASSUME NEW a \in Nat, NEW p \in Nat \ {0}, NEW i \in {0, 1}
  PROVE  expected_return(a, i, p) \in Nat
<1>1. checked_ratio(a, p, ONE) \in Nat /\ checked_ratio(a, ONE, p) \in Nat
  BY FloorRatio, OneAssumption
<1>2. QED
  BY <1>1 DEF expected_return

LEMMA FloorAfterInNat ==
  ASSUME NEW a \in Nat, NEW loss \in Nat, loss <= 1000
  PROVE  floor_after(a, loss) \in Nat
<1>1. BPS - loss \in Nat /\ BPS \in Nat /\ BPS > 0
  BY DEF BPS
<1>2. checked_ratio(a, BPS - loss, BPS) \in Nat
  BY <1>1, FloorRatio
<1>3. QED
  BY <1>2 DEF floor_after

\* nav never falls when both holdings rise, so a deposit's value is never
\* negative.
LEMMA NavMonotone ==
  ASSUME NEW g \in [{0, 1} -> Nat], NEW h \in [{0, 1} -> Nat], NEW p \in Nat \ {0},
         g[0] <= h[0], g[1] <= h[1]
  PROVE  nav(g, p) <= nav(h, p)
<1>1. g[1] * ONE \in Nat /\ h[1] * ONE \in Nat /\ g[1] * ONE <= h[1] * ONE
  BY OneAssumption
<1>2. \A a, b \in Nat : a <= b => a \div p <= b \div p
  OBVIOUS
<1>3. (g[1] * ONE) \div p <= (h[1] * ONE) \div p
  BY <1>1, <1>2
<1>4. (g[1] * ONE) \div p \in Nat /\ (h[1] * ONE) \div p \in Nat
  BY <1>1
<1>5. QED
  BY <1>3, <1>4 DEF nav

\* Deposits: the shares minted for a deposit are at most its part of each
\* asset, so they dilute nobody (proportional_deposit_shares).
THEOREM DepositSharesFair ==
  ASSUME NEW pre \in [{0, 1} -> Nat \ {0}], NEW post \in [{0, 1} -> Nat], NEW s \in Nat,
         \A i \in {0, 1} : post[i] >= pre[i]
  PROVE  LET minted == proportional_deposit_shares(pre, post, s)
         IN  minted \in Nat /\ \A i \in {0, 1} : minted * pre[i] <= (post[i] - pre[i]) * s
<1> DEFINE part(i) == checked_ratio(post[i] - pre[i], s, pre[i])
           minted  == Least(part(0), part(1))
<1>1. \A i \in {0, 1} : part(i) \in Nat /\ part(i) * pre[i] <= (post[i] - pre[i]) * s
  <2>1. SUFFICES ASSUME NEW i \in {0, 1}
                 PROVE  part(i) \in Nat /\ part(i) * pre[i] <= (post[i] - pre[i]) * s
    OBVIOUS
  <2>2. post[i] - pre[i] \in Nat /\ pre[i] \in Nat /\ pre[i] > 0
    OBVIOUS
  <2>3. QED
    BY <2>2, FloorRatio
<1> HIDE DEF part
<1>2. minted \in Nat /\ minted <= part(0) /\ minted <= part(1)
  BY <1>1 DEF Least
<1>3. \A i \in {0, 1} : minted * pre[i] <= part(i) * pre[i]
  BY <1>1, <1>2
<1>4. \A i \in {0, 1} : /\ minted * pre[i] \in Int /\ part(i) * pre[i] \in Int
                        /\ (post[i] - pre[i]) * s \in Int
  BY <1>1, <1>2
<1>5. \A i \in {0, 1} : minted * pre[i] <= (post[i] - pre[i]) * s
  BY <1>1, <1>3, <1>4
<1>6. QED
  BY <1>2, <1>5 DEF proportional_deposit_shares, part

\* Withdrawals: what is paid for burned shares leaves every remaining share at
\* least as much of each asset as before (execute_withdraw).
THEOREM ClaimsFair ==
  ASSUME NEW b \in [{0, 1} -> Nat], NEW s \in Nat \ {0}, NEW t \in 0..s
  PROVE  LET c == withdrawal_claims(b, t, s)
         IN  \A i \in {0, 1} : c[i] \in 0..b[i] /\ b[i] * (s - t) <= (b[i] - c[i]) * s
<1> SUFFICES ASSUME NEW i \in {0, 1}
             PROVE  LET c == withdrawal_claims(b, t, s)
                    IN  c[i] \in 0..b[i] /\ b[i] * (s - t) <= (b[i] - c[i]) * s
  OBVIOUS
<1> DEFINE x == checked_ratio(b[i], t, s)
<1>1. x \in Nat /\ x * s <= b[i] * t
  <2>1. b[i] \in Nat /\ s > 0 /\ t \in Nat
    OBVIOUS
  <2>2. QED
    BY <2>1, FloorRatio
<1> HIDE DEF x
<1>2. b[i] * t <= b[i] * s
  OBVIOUS
<1>3. x * s <= b[i] * s
  BY <1>1, <1>2
<1>4. x <= b[i]
  BY <1>1, <1>3
<1>5. b[i] * (s - t) = b[i] * s - b[i] * t /\ (b[i] - x) * s = b[i] * s - x * s
  BY <1>1
<1>6. b[i] * (s - t) <= (b[i] - x) * s
  BY <1>1, <1>5
<1>7. withdrawal_claims(b, t, s)[i] = x
  BY DEF withdrawal_claims, x
<1>8. QED
  BY <1>1, <1>4, <1>6, <1>7

\* Fees: redeemed right after the mint, the fee shares are worth no more than
\* the fee they stand for (fee_shares_for_value).
THEOREM FeeSharesFair ==
  ASSUME NEW fee \in Nat, NEW value \in Nat, NEW s \in Nat
  PROVE  LET minted == fee_shares_for_value(fee, value, s)
         IN  minted \in Nat /\ minted * value <= fee * (s + minted)
<1>1. CASE fee = 0 \/ s = 0 \/ fee >= value
  BY <1>1 DEF fee_shares_for_value
<1>2. CASE ~(fee = 0 \/ s = 0 \/ fee >= value)
  <2> DEFINE minted == (fee * s) \div (value - fee)
  <2>1. value - fee \in Nat \ {0} /\ fee * s \in Nat
    BY <1>2
  <2>2. minted \in Nat /\ minted * (value - fee) <= fee * s
    BY <2>1
  <2> HIDE DEF minted
  <2>3. minted * (value - fee) = minted * value - minted * fee /\ fee * (s + minted) = fee * s + fee * minted
    BY <2>2
  <2>4. minted * value <= fee * (s + minted)
    BY <2>2, <2>3
  <2>5. QED
    BY <1>2, <2>2, <2>4 DEF fee_shares_for_value, minted
<1>3. QED
  BY <1>1, <1>2

-----------------------------------------------------------------------------
(* Sums over a finite set, as the fold of the community modules computes them: *)
(* the invariants that relate a ledger to its total rest on these.  There is *)
(* no induction rule to cite for a recursive definition, so each lemma looks *)
(* at a smallest subset that would break it.                                 *)

SumOver(f, S) == MapThenSumSet(LAMBDA a : f[a], S)

\* The element the fold takes first.
Pick(s) == CHOOSE x \in s : TRUE

\* What makes `it' the fold's table of partial sums.
SumsUp(it, f, S) ==
    it = [s \in SUBSET S |-> IF s = {} THEN 0 ELSE f[Pick(s)] + it[s \ {Pick(s)}]]

PartialSums(f, S) == CHOOSE it : SumsUp(it, f, S)

\* The fold is the table's last entry.
LEMMA SumIsPartial ==
    ASSUME NEW f, NEW S
    PROVE  SumOver(f, S) = PartialSums(f, S)[S]
BY DEF SumOver, PartialSums, SumsUp, Pick, MapThenSumSet, MapThenFoldSet

\* A nonempty collection of subsets of a finite set has a smallest member.
LEMMA MinimalSubset ==
    ASSUME NEW S, IsFiniteSet(S), NEW Bad, Bad \subseteq SUBSET S, Bad # {}
    PROVE  \E m \in Bad : \A y \in Bad : y \subseteq m => y = m
<1>1. IsWellFoundedOn(StrictSubsetOrdering(S), FiniteSubsetsOf(S))
  BY FS_StrictSubsetOrderingWellFounded
<1>2. Bad \subseteq FiniteSubsetsOf(S)
  BY FS_FiniteSubsetsOfFinite
<1>3. PICK m \in Bad : \A y \in Bad : ~ (<<y, m>> \in StrictSubsetOrdering(S))
  BY <1>1, <1>2, WFMin
<1>4. ASSUME NEW y \in Bad, y \subseteq m PROVE y = m
  BY <1>3, <1>4 DEF StrictSubsetOrdering
<1> QED BY <1>3, <1>4

Restricted(it, T) == [s \in SUBSET T |-> it[s]]

\* The element taken is one of the set.
LEMMA PickInside == \A s : s # {} => Pick(s) \in s
BY DEF Pick

\* The table of a set holds the tables of its subsets.
LEMMA PartialRestricts ==
    ASSUME NEW f, NEW S, NEW T \in SUBSET S, NEW it, SumsUp(it, f, S)
    PROVE  SumsUp(Restricted(it, T), f, T)
<1>1. ASSUME NEW s \in SUBSET T
      PROVE  it[s] = IF s = {} THEN 0 ELSE f[Pick(s)] + Restricted(it, T)[s \ {Pick(s)}]
  <2>1. s \in SUBSET S /\ s \ {Pick(s)} \in SUBSET T
    OBVIOUS
  <2>2. it[s] = IF s = {} THEN 0 ELSE f[Pick(s)] + it[s \ {Pick(s)}]
    BY <2>1 DEF SumsUp
  <2>3. Restricted(it, T)[s \ {Pick(s)}] = it[s \ {Pick(s)}]
    BY <2>1 DEF Restricted
  <2> QED BY <2>2, <2>3
<1> QED BY <1>1 DEF SumsUp, Restricted

\* A finite set has one table of partial sums ...
LEMMA PartialUnique ==
    ASSUME NEW f, NEW S, IsFiniteSet(S), NEW it, NEW jt, SumsUp(it, f, S), SumsUp(jt, f, S)
    PROVE  it = jt
<1> DEFINE Bad == {s \in SUBSET S : it[s] # jt[s]}
<1>1. ASSUME Bad # {} PROVE FALSE
  <2>1. PICK m \in Bad : \A y \in Bad : y \subseteq m => y = m
    <3>1. Bad \subseteq SUBSET S
      OBVIOUS
    <3> HIDE DEF Bad
    <3> QED BY <1>1, <3>1, MinimalSubset
  <2>2. it[m] = IF m = {} THEN 0 ELSE f[Pick(m)] + it[m \ {Pick(m)}]
    BY DEF SumsUp
  <2>3. jt[m] = IF m = {} THEN 0 ELSE f[Pick(m)] + jt[m \ {Pick(m)}]
    BY DEF SumsUp
  <2>4. CASE m = {}
    BY <2>2, <2>3, <2>4
  <2>5. CASE m # {}
    <3>1. m \ {Pick(m)} \in SUBSET S /\ m \ {Pick(m)} # m
      BY <2>5, PickInside
    <3>2. it[m \ {Pick(m)}] = jt[m \ {Pick(m)}]
      BY <2>1, <3>1
    <3> QED BY <2>2, <2>3, <3>2
  <2> QED BY <2>4, <2>5
<1>2. \A s \in SUBSET S : it[s] = jt[s]
  BY <1>1
<1>3. it = [s \in SUBSET S |-> it[s]] /\ jt = [s \in SUBSET S |-> jt[s]]
  BY DEF SumsUp
<1> QED BY <1>2, <1>3

\* ... and it does have one.
LEMMA PartialExists ==
    ASSUME NEW f, NEW S, IsFiniteSet(S)
    PROVE  SumsUp(PartialSums(f, S), f, S)
<1> DEFINE Bad == {T \in SUBSET S : ~ SumsUp(PartialSums(f, T), f, T)}
<1>1. ASSUME Bad # {} PROVE FALSE
  <2>1. PICK m \in Bad : \A y \in Bad : y \subseteq m => y = m
    <3>1. Bad \subseteq SUBSET S
      OBVIOUS
    <3> HIDE DEF Bad
    <3> QED BY <1>1, <3>1, MinimalSubset
  <2>2. \A T \in SUBSET m : T # m => SumsUp(PartialSums(f, T), f, T)
    BY <2>1
  <2> DEFINE it == [s \in SUBSET m |-> IF s = {} THEN 0
                      ELSE f[Pick(s)] + PartialSums(f, s \ {Pick(s)})[s \ {Pick(s)}]]
  <2>3. ASSUME NEW s \in SUBSET m, s # m
        PROVE  it[s] = PartialSums(f, s)[s]
    <3>1. SumsUp(PartialSums(f, s), f, s)
      BY <2>2, <2>3
    <3>2. PartialSums(f, s)[s] = IF s = {} THEN 0
                      ELSE f[Pick(s)] + PartialSums(f, s)[s \ {Pick(s)}]
      BY <3>1 DEF SumsUp
    <3>3. CASE s = {}
      BY <3>2, <3>3
    <3>4. CASE s # {}
      <4> DEFINE u == s \ {Pick(s)}
      <4>1. u \in SUBSET s /\ u \in SUBSET m /\ u # m
        BY <2>3, <3>4, PickInside
      <4>2. SumsUp(PartialSums(f, u), f, u)
        BY <4>1, <2>2
      <4>3. SumsUp(Restricted(PartialSums(f, s), u), f, u)
        BY <4>1, <3>1, PartialRestricts
      <4>4. IsFiniteSet(u)
        BY <4>1, FS_Subset
      <4>5. PartialSums(f, u) = Restricted(PartialSums(f, s), u)
        <5> HIDE DEF u
        <5> QED BY <4>2, <4>3, <4>4, PartialUnique
      <4>6. PartialSums(f, u)[u] = PartialSums(f, s)[u]
        BY <4>5 DEF Restricted
      <4> QED BY <3>2, <3>4, <4>6
    <3> QED BY <3>3, <3>4
  <2>4. \A s \in SUBSET m : it[s] = IF s = {} THEN 0 ELSE f[Pick(s)] + it[s \ {Pick(s)}]
    <3> SUFFICES ASSUME NEW s \in SUBSET m, s # {}
                 PROVE  it[s] = f[Pick(s)] + it[s \ {Pick(s)}]
      OBVIOUS
    <3>1. s \ {Pick(s)} \in SUBSET m /\ s \ {Pick(s)} # m
      BY PickInside
    <3>2. it[s \ {Pick(s)}] = PartialSums(f, s \ {Pick(s)})[s \ {Pick(s)}]
      <4> HIDE DEF it
      <4> QED BY <3>1, <2>3
    <3>3. it[s] = f[Pick(s)] + PartialSums(f, s \ {Pick(s)})[s \ {Pick(s)}]
      OBVIOUS
    <3> HIDE DEF it
    <3> QED BY <3>2, <3>3
  <2>5. SumsUp(it, f, m)
    <3>1. it = [s \in SUBSET m |-> it[s]]
      OBVIOUS
    <3> HIDE DEF it
    <3> QED BY <2>4, <3>1 DEF SumsUp
  <2>6. SumsUp(PartialSums(f, m), f, m)
    <3> HIDE DEF it
    <3> QED BY <2>5 DEF PartialSums
  <2> QED BY <2>1, <2>6
<1> QED BY <1>1

\* The empty sum is zero.
LEMMA SumEmpty == \A f : SumOver(f, {}) = 0
<1> SUFFICES ASSUME NEW f PROVE SumOver(f, {}) = 0
  OBVIOUS
<1>1. SumsUp(PartialSums(f, {}), f, {})
  BY PartialExists, FS_EmptySet
<1> QED BY <1>1, SumIsPartial DEF SumsUp

\* A sum is its first element and the sum of the others.
LEMMA SumStep ==
    ASSUME NEW f, NEW S, IsFiniteSet(S), S # {}
    PROVE  SumOver(f, S) = f[Pick(S)] + SumOver(f, S \ {Pick(S)})
<1> DEFINE u == S \ {Pick(S)}
<1>1. SumsUp(PartialSums(f, S), f, S)
  BY PartialExists
<1>2. PartialSums(f, S)[S] = f[Pick(S)] + PartialSums(f, S)[u]
  BY <1>1 DEF SumsUp
<1>3. IsFiniteSet(u) /\ u \in SUBSET S
  BY FS_Subset
<1>4. SumsUp(PartialSums(f, u), f, u) /\ SumsUp(Restricted(PartialSums(f, S), u), f, u)
  <2> HIDE DEF u
  <2> QED BY <1>1, <1>3, PartialExists, PartialRestricts
<1>5. PartialSums(f, u) = Restricted(PartialSums(f, S), u)
  <2> HIDE DEF u
  <2> QED BY <1>3, <1>4, PartialUnique
<1>6. PartialSums(f, u)[u] = PartialSums(f, S)[u]
  BY <1>5 DEF Restricted
<1> QED BY <1>2, <1>6, SumIsPartial

\* Naturals sum to a natural.
LEMMA SumInNat ==
    ASSUME NEW f, NEW S, IsFiniteSet(S), \A a \in S : f[a] \in Nat
    PROVE  SumOver(f, S) \in Nat
<1> DEFINE Bad == {T \in SUBSET S : SumOver(f, T) \notin Nat}
<1>1. ASSUME Bad # {} PROVE FALSE
  <2>1. PICK m \in Bad : \A y \in Bad : y \subseteq m => y = m
    <3>1. Bad \subseteq SUBSET S
      OBVIOUS
    <3> HIDE DEF Bad
    <3> QED BY <1>1, <3>1, MinimalSubset
  <2>2. CASE m = {}
    BY <2>1, <2>2, SumEmpty
  <2>3. CASE m # {}
    <3>1. Pick(m) \in m /\ m \ {Pick(m)} \in SUBSET S /\ m \ {Pick(m)} # m
      BY <2>3, PickInside
    <3>2. SumOver(f, m \ {Pick(m)}) \in Nat
      BY <2>1, <3>1
    <3>3. IsFiniteSet(m)
      BY FS_Subset
    <3>4. SumOver(f, m) = f[Pick(m)] + SumOver(f, m \ {Pick(m)})
      BY <2>3, <3>3, SumStep
    <3>5. f[Pick(m)] \in Nat
      BY <3>1
    <3> QED BY <2>1, <3>2, <3>4, <3>5
  <2> QED BY <2>2, <2>3
<1> QED BY <1>1

\* Functions that agree on a set have the same sum over it.
LEMMA SumSame ==
    ASSUME NEW f, NEW g, NEW S, IsFiniteSet(S), \A a \in S : f[a] = g[a]
    PROVE  SumOver(f, S) = SumOver(g, S)
<1> DEFINE Bad == {T \in SUBSET S : SumOver(f, T) # SumOver(g, T)}
<1>1. ASSUME Bad # {} PROVE FALSE
  <2>1. PICK m \in Bad : \A y \in Bad : y \subseteq m => y = m
    <3>1. Bad \subseteq SUBSET S
      OBVIOUS
    <3> HIDE DEF Bad
    <3> QED BY <1>1, <3>1, MinimalSubset
  <2>2. CASE m = {}
    BY <2>1, <2>2, SumEmpty
  <2>3. CASE m # {}
    <3>1. Pick(m) \in m /\ m \ {Pick(m)} \in SUBSET S /\ m \ {Pick(m)} # m
      BY <2>3, PickInside
    <3>2. SumOver(f, m \ {Pick(m)}) = SumOver(g, m \ {Pick(m)})
      BY <2>1, <3>1
    <3>3. IsFiniteSet(m)
      BY FS_Subset
    <3>4. /\ SumOver(f, m) = f[Pick(m)] + SumOver(f, m \ {Pick(m)})
          /\ SumOver(g, m) = g[Pick(m)] + SumOver(g, m \ {Pick(m)})
      BY <2>3, <3>3, SumStep
    <3> QED BY <2>1, <3>1, <3>2, <3>4
  <2> QED BY <2>2, <2>3
<1> QED BY <1>1

\* Any element may be taken out first.
LEMMA SumRemove ==
    ASSUME NEW f, NEW S, IsFiniteSet(S), \A a \in S : f[a] \in Nat, NEW e \in S
    PROVE  SumOver(f, S) = f[e] + SumOver(f, S \ {e})
<1> DEFINE Bad == {T \in SUBSET S : \E x \in T : SumOver(f, T) # f[x] + SumOver(f, T \ {x})}
<1>1. ASSUME Bad # {} PROVE FALSE
  <2>1. PICK m \in Bad : \A y \in Bad : y \subseteq m => y = m
    <3>1. Bad \subseteq SUBSET S
      OBVIOUS
    <3> HIDE DEF Bad
    <3> QED BY <1>1, <3>1, MinimalSubset
  <2>2. PICK x \in m : SumOver(f, m) # f[x] + SumOver(f, m \ {x})
    BY <2>1
  <2>3. \A T \in SUBSET m : T # m =>
          \A y \in T : SumOver(f, T) = f[y] + SumOver(f, T \ {y})
    BY <2>1
  <2>4. IsFiniteSet(m) /\ m \subseteq S /\ m # {}
    BY <2>2, FS_Subset
  <2> HIDE DEF Bad
  <2> DEFINE c == Pick(m)
  <2>5. SumOver(f, m) = f[c] + SumOver(f, m \ {c}) /\ c \in m
    BY <2>4, SumStep, PickInside
  <2>6. c # x
    BY <2>2, <2>5
  <2> HIDE DEF c
  <2> DEFINE w == m \ {c, x}
  <2>7. SumOver(f, m \ {c}) = f[x] + SumOver(f, w)
    <3>1. x \in m \ {c} /\ m \ {c} \in SUBSET m /\ m \ {c} # m /\ (m \ {c}) \ {x} = w
      BY <2>2, <2>5, <2>6
    <3> HIDE DEF w
    <3> QED BY <2>3, <3>1
  <2>8. SumOver(f, m \ {x}) = f[c] + SumOver(f, w)
    <3>1. c \in m \ {x} /\ m \ {x} \in SUBSET m /\ m \ {x} # m /\ (m \ {x}) \ {c} = w
      BY <2>2, <2>5, <2>6
    <3> HIDE DEF w
    <3> QED BY <2>3, <3>1
  <2>9. f[c] \in Nat /\ f[x] \in Nat
    BY <2>2, <2>4, <2>5
  <2>10. SumOver(f, w) \in Nat
    <3>1. IsFiniteSet(w) /\ \A a \in w : f[a] \in Nat
      BY <2>4, FS_Subset
    <3> HIDE DEF w
    <3> QED BY <3>1, SumInNat
  <2> HIDE DEF w
  <2> QED BY <2>2, <2>5, <2>7, <2>8, <2>9, <2>10
<1>2. S \in SUBSET S
  OBVIOUS
<1> QED BY <1>1, <1>2

\* Changing one entry changes the sum by as much.
LEMMA SumUpdate ==
    ASSUME NEW f, NEW g, NEW S, IsFiniteSet(S), NEW e \in S,
           \A a \in S : f[a] \in Nat, \A a \in S : g[a] \in Nat,
           \A a \in S \ {e} : g[a] = f[a]
    PROVE  /\ SumOver(f, S) \in Nat /\ SumOver(g, S) \in Nat
           /\ SumOver(g, S) = SumOver(f, S) - f[e] + g[e]
           /\ f[e] <= SumOver(f, S)
<1> DEFINE u == S \ {e}
<1>1. IsFiniteSet(u) /\ (\A a \in u : f[a] \in Nat) /\ \A a \in u : f[a] = g[a]
  BY FS_Subset
<1>2. SumOver(f, u) = SumOver(g, u) /\ SumOver(f, u) \in Nat
  <2> HIDE DEF u
  <2> QED BY <1>1, SumSame, SumInNat
<1>3. SumOver(f, S) = f[e] + SumOver(f, u) /\ SumOver(g, S) = g[e] + SumOver(g, u)
  BY SumRemove
<1>4. f[e] \in Nat /\ g[e] \in Nat
  OBVIOUS
<1> HIDE DEF u
<1> QED BY <1>2, <1>3, <1>4

\* Moving an amount between two entries leaves the sum alone.
LEMMA SumMoved ==
    ASSUME NEW f, NEW g, NEW S, IsFiniteSet(S), NEW a \in S, NEW b \in S, a # b,
           \A x \in S : f[x] \in Nat, \A x \in S : g[x] \in Nat,
           \A x \in S \ {a, b} : g[x] = f[x],
           g[a] + g[b] = f[a] + f[b]
    PROVE  SumOver(g, S) = SumOver(f, S)
<1> DEFINE u == S \ {a}
           v == u \ {b}
<1>1. /\ IsFiniteSet(u) /\ IsFiniteSet(v) /\ b \in u
      /\ \A x \in u : f[x] \in Nat /\ g[x] \in Nat
      /\ \A x \in v : f[x] \in Nat /\ f[x] = g[x]
  BY FS_Subset
<1>2. SumOver(f, v) = SumOver(g, v) /\ SumOver(f, v) \in Nat
  <2> HIDE DEF u, v
  <2> QED BY <1>1, SumSame, SumInNat
<1>3. SumOver(f, u) = f[b] + SumOver(f, v) /\ SumOver(g, u) = g[b] + SumOver(g, v)
  <2> HIDE DEF u
  <2> QED BY <1>1, SumRemove
<1>4. SumOver(f, S) = f[a] + SumOver(f, u) /\ SumOver(g, S) = g[a] + SumOver(g, u)
  BY SumRemove
<1>5. f[a] \in Nat /\ g[a] \in Nat /\ f[b] \in Nat /\ g[b] \in Nat
  OBVIOUS
<1> HIDE DEF u, v
<1> QED BY <1>2, <1>3, <1>4, <1>5

\* A sum of zeros is zero.
LEMMA SumZero ==
    ASSUME NEW f, NEW S, IsFiniteSet(S), \A a \in S : f[a] = 0
    PROVE  SumOver(f, S) = 0
<1> DEFINE Bad == {T \in SUBSET S : SumOver(f, T) # 0}
<1>1. ASSUME Bad # {} PROVE FALSE
  <2>1. PICK m \in Bad : \A y \in Bad : y \subseteq m => y = m
    <3>1. Bad \subseteq SUBSET S
      OBVIOUS
    <3> HIDE DEF Bad
    <3> QED BY <1>1, <3>1, MinimalSubset
  <2>2. CASE m = {}
    BY <2>1, <2>2, SumEmpty
  <2>3. CASE m # {}
    <3>1. Pick(m) \in m /\ m \ {Pick(m)} \in SUBSET S /\ m \ {Pick(m)} # m
      BY <2>3, PickInside
    <3>2. SumOver(f, m \ {Pick(m)}) = 0
      BY <2>1, <3>1
    <3>3. IsFiniteSet(m)
      BY FS_Subset
    <3>4. SumOver(f, m) = f[Pick(m)] + SumOver(f, m \ {Pick(m)})
      BY <2>3, <3>3, SumStep
    <3> QED BY <2>1, <3>1, <3>2, <3>4
  <2> QED BY <2>2, <2>3
<1>2. S \in SUBSET S
  OBVIOUS
<1> QED BY <1>1, <1>2

=============================================================================
