-------------------------- MODULE MarketGrid_proofs --------------------------
(***************************************************************************)
(* The market grid for every set of users, every market and every call     *)
(* sequence: types, the share ledger, the fee shares' accounts, and what   *)
(* a deposit, a withdrawal and a settled trade may cost the share holders. *)
(* First the fee registry by itself.                                       *)
(***************************************************************************)
EXTENDS MarketGridSystem, Cl8yMath_proofs

-----------------------------------------------------------------------------
(* The fee registry. *)

\* The tiers of market makers and the blacklist are governance's to assign.
ReservedMarked(r) ==
    \A id \in DOMAIN r.tiers : id \in {0, 255} => r.tiers[id].governance_only

RegistryOK(r, c) == r \in RegistryType /\ c \in Cl8yType /\ ReservedMarked(r)

\* Every nonempty set of naturals has a least element.
LEMMA NatLeast ==
  ASSUME NEW S, S \subseteq Nat, S # {}
  PROVE  \E x \in S : \A y \in S : x <= y
<1>1. PICK x \in S : \A y \in S : ~ (<<y, x>> \in OpToRel(<, Nat))
  BY NatLessThanWellFounded, WFMin
<1>2. \A y \in S : ~ (y < x)
  BY <1>1 DEF OpToRel
<1>3. QED
  BY <1>2

LEMMA LadderShape ==
  ASSUME NEW t \in Ladder
  PROVE  /\ DOMAIN t \subseteq TierId /\ t \in [DOMAIN t -> Tier]
         /\ \A id \in DOMAIN t : t[id] \in Tier
BY DEF Ladder

LEMMA TierFields ==
  ASSUME NEW t \in Tier
  PROVE  /\ t.min_cl8y_balance \in Nat /\ t.discount_bps \in 0..BPS
         /\ t.governance_only \in BOOLEAN
BY DEF Tier

LEMMA BpsChecked == \A bps \in Nat : assert_bps(bps) => bps \in 0..BPS
BY BpsPositive DEF assert_bps

LEMMA RegistryTyped == RegistryOK(registry, cl8y) => RegistryTypeOK
BY LadderShape DEF RegistryOK, RegistryType, Cl8yType, RegistryTypeOK

\* The canonical ladder is one (seed_standard_tiers).
LEMMA StandardLadder ==
  /\ seed_standard_tiers \in Ladder
  /\ seed_standard_tiers[0].governance_only /\ seed_standard_tiers[255].governance_only
<1> DEFINE ids == {0, 1, 2, 3, 4, 5, 6, 7, 8, 9, 255}
<1>1. ids \in SUBSET TierId /\ DOMAIN seed_standard_tiers = ids
  BY DEF TierId, seed_standard_tiers
<1>2. ONE_CL8Y \in Nat
  BY RegistryAssumption
<1>3. /\ seed_standard_tiers[0] = tier_of(0, 10000, TRUE)
      /\ seed_standard_tiers[255] = tier_of(0, 0, TRUE)
  BY DEF seed_standard_tiers
<1>4. /\ seed_standard_tiers[1] = tier_of(1, 250, FALSE)
      /\ seed_standard_tiers[2] = tier_of(5, 1000, FALSE)
      /\ seed_standard_tiers[3] = tier_of(20, 2000, FALSE)
      /\ seed_standard_tiers[4] = tier_of(75, 3500, FALSE)
  BY DEF seed_standard_tiers
<1>5. /\ seed_standard_tiers[5] = tier_of(200, 5000, FALSE)
      /\ seed_standard_tiers[6] = tier_of(500, 6000, FALSE)
      /\ seed_standard_tiers[7] = tier_of(1500, 7500, FALSE)
      /\ seed_standard_tiers[8] = tier_of(3500, 8500, FALSE)
      /\ seed_standard_tiers[9] = tier_of(7500, 9500, FALSE)
  BY DEF seed_standard_tiers
<1>6. \A id \in ids : seed_standard_tiers[id] \in Tier
  <2>1. seed_standard_tiers[0] \in Tier
    BY <1>2, <1>3 DEF tier_of, Tier, BPS
  <2>2. seed_standard_tiers[1] \in Tier
    BY <1>2, <1>4 DEF tier_of, Tier, BPS
  <2>3. seed_standard_tiers[2] \in Tier
    BY <1>2, <1>4 DEF tier_of, Tier, BPS
  <2>4. seed_standard_tiers[3] \in Tier
    BY <1>2, <1>4 DEF tier_of, Tier, BPS
  <2>5. seed_standard_tiers[4] \in Tier
    BY <1>2, <1>4 DEF tier_of, Tier, BPS
  <2>6. seed_standard_tiers[5] \in Tier
    BY <1>2, <1>5 DEF tier_of, Tier, BPS
  <2>7. seed_standard_tiers[6] \in Tier
    BY <1>2, <1>5 DEF tier_of, Tier, BPS
  <2>8. seed_standard_tiers[7] \in Tier
    BY <1>2, <1>5 DEF tier_of, Tier, BPS
  <2>9. seed_standard_tiers[8] \in Tier
    BY <1>2, <1>5 DEF tier_of, Tier, BPS
  <2>10. seed_standard_tiers[9] \in Tier
    BY <1>2, <1>5 DEF tier_of, Tier, BPS
  <2>11. seed_standard_tiers[255] \in Tier
    BY <1>2, <1>3 DEF tier_of, Tier, BPS
  <2> QED BY <2>1, <2>2, <2>3, <2>4, <2>5, <2>6, <2>7, <2>8, <2>9, <2>10, <2>11
<1>7. seed_standard_tiers = [id \in ids |-> seed_standard_tiers[id]]
  BY DEF seed_standard_tiers
<1>8. seed_standard_tiers \in [ids -> Tier]
  BY <1>6, <1>7
<1>10. seed_standard_tiers \in Ladder
  <2> HIDE DEF ids
  <2> QED BY <1>1, <1>8 DEF Ladder
<1>11. seed_standard_tiers[0].governance_only /\ seed_standard_tiers[255].governance_only
  BY <1>3 DEF tier_of
<1> QED BY <1>10, <1>11

LEMMA RegistryInitOK == RegistryInit => RegistryOK(registry, cl8y)
<1> SUFFICES ASSUME RegistryInit PROVE RegistryOK(registry, cl8y)
  OBVIOUS
<1>1. PICK governance \in Governor :
        registry = [governance |-> governance, base_fee_bps |-> BASE_FEE_BPS,
                    ladder_version |-> 1, tiers |-> seed_standard_tiers,
                    holdings |-> [trader \in Trader |-> None]]
  BY DEF RegistryInit, registry_instantiate
<1> DEFINE standard == seed_standard_tiers
<1>2. standard \in Ladder /\ registry.tiers = standard
  BY <1>1, StandardLadder
<1>3. registry \in RegistryType
  BY <1>1, <1>2, RegistryAssumption DEF RegistryType
<1>4. cl8y \in Cl8yType
  <2>1. cl8y = [balance |-> [trader \in Trader |-> 0], answers |-> TRUE]
    BY DEF RegistryInit
  <2> QED BY <2>1 DEF Cl8yType
<1>5. ReservedMarked(registry)
  BY <1>2, StandardLadder DEF ReservedMarked
<1> QED BY <1>3, <1>4, <1>5 DEF RegistryOK

\* A new ladder, and the version that counts it.
LEMMA LadderChanged ==
  ASSUME RegistryOK(registry, cl8y), NEW t \in Ladder, UNCHANGED cl8y,
         registry' = bump_ladder_version([registry EXCEPT !.tiers = t]),
         \A id \in DOMAIN t : id \in {0, 255} => t[id].governance_only
  PROVE  RegistryOK(registry, cl8y)'
<1>1. registry \in RegistryType
  BY DEF RegistryOK
<1>2. registry' = [registry EXCEPT !.tiers = t, !.ladder_version = registry.ladder_version + 1]
  BY <1>1 DEF bump_ladder_version, RegistryType
<1>3. registry' \in RegistryType /\ registry'.tiers = t
  <2>1. PICK v \in Nat \ {0} : v = registry.ladder_version + 1
    BY <1>1 DEF RegistryType
  <2>2. registry' = [registry EXCEPT !.tiers = t, !.ladder_version = v]
    BY <1>2, <2>1
  <2> QED BY <1>1, <2>2 DEF RegistryType
<1> QED BY <1>3 DEF RegistryOK, ReservedMarked

LEMMA RegistryStepOK ==
  ASSUME RegistryOK(registry, cl8y), RegistryNext
  PROVE  RegistryOK(registry, cl8y)'
<1> DEFINE tiers == registry.tiers
<1>1. /\ registry \in RegistryType /\ cl8y \in Cl8yType /\ ReservedMarked(registry)
      /\ tiers \in Ladder
  BY DEF RegistryOK, RegistryType
<1>2. /\ DOMAIN tiers \subseteq TierId
      /\ \A id \in DOMAIN tiers : tiers[id] \in Tier
      /\ \A id \in DOMAIN tiers : id \in {0, 255} => tiers[id].governance_only
  BY <1>1, LadderShape DEF ReservedMarked
<1>3. ASSUME NEW trader \in Trader, execute_refresh_holding(trader)
      PROVE  RegistryOK(registry, cl8y)'
  <2>1. cl8y.balance[trader] \in Nat
    BY <1>1 DEF Cl8yType
  <2>2. registry' \in RegistryType /\ registry'.tiers = registry.tiers
    BY <1>1, <1>3, <2>1 DEF RegistryType, execute_refresh_holding
  <2> QED BY <1>1, <1>3, <2>2 DEF RegistryOK, ReservedMarked, execute_refresh_holding
<1>4. ASSUME NEW sender, NEW t \in TierCalls, execute_add_tier(sender, t)
      PROVE  RegistryOK(registry, cl8y)'
  <2> DEFINE new == [id \in DOMAIN tiers \cup {t.id} |->
                       IF id = t.id THEN named_tier(t) ELSE tiers[id]]
  <2>1. t.id \in TierId /\ named_tier(t) \in Tier /\ named_tier(t).governance_only = t.governance_only
    <3>1. t.id \in TierId /\ t.min_cl8y_balance \in Nat /\ t.governance_only \in BOOLEAN
      BY RegistryAssumption
    <3>2. assert_bps(t.discount_bps)
      BY <1>4 DEF execute_add_tier
    <3>3. t.discount_bps \in 0..BPS
      <4>1. t.discount_bps \in Nat
        BY RegistryAssumption
      <4> QED BY <4>1, <3>2, BpsChecked
    <3> QED BY <3>1, <3>3 DEF named_tier, Tier
  <2>2. new \in [DOMAIN tiers \cup {t.id} -> Tier] /\ DOMAIN tiers \cup {t.id} \in SUBSET TierId
    BY <1>2, <2>1
  <2>3. new \in Ladder
    BY <2>2 DEF Ladder
  <2>4. \A id \in DOMAIN new : id \in {0, 255} => new[id].governance_only
    BY <1>2, <1>4, <2>1 DEF execute_add_tier, assert_not_reserved
  <2>5. registry' = bump_ladder_version([registry EXCEPT !.tiers = new]) /\ UNCHANGED cl8y
    BY <1>4 DEF execute_add_tier
  <2> HIDE DEF new
  <2> QED BY <2>3, <2>4, <2>5, LadderChanged
<1>5. ASSUME NEW sender, NEW t \in TierCalls,
             NEW given \in SUBSET {"min_cl8y_balance", "discount_bps", "governance_only"},
             execute_update_tier(sender, t, given)
      PROVE  RegistryOK(registry, cl8y)'
  <2> DEFINE old == tiers[t.id]
             changed == [field \in DOMAIN old |-> IF field \in given THEN t[field] ELSE old[field]]
             new == [tiers EXCEPT ![t.id] = changed]
  <2>1. /\ t.id \in DOMAIN tiers /\ old \in Tier
        /\ "governance_only" \in given => (t.id \in {0, 255} => t.governance_only)
    BY <1>2, <1>5 DEF execute_update_tier, assert_not_reserved
  <2>2. t.min_cl8y_balance \in Nat /\ t.governance_only \in BOOLEAN
    BY RegistryAssumption
  <2>12. "discount_bps" \in given => t.discount_bps \in 0..BPS
    <3>1. t.discount_bps \in Nat
      BY RegistryAssumption
    <3>2. "discount_bps" \in given => assert_bps(t.discount_bps)
      BY <1>5 DEF execute_update_tier
    <3> QED BY <3>1, <3>2, BpsChecked
  <2>3. DOMAIN old = {"min_cl8y_balance", "discount_bps", "governance_only"}
    BY <2>1 DEF Tier
  <2>4. /\ changed.min_cl8y_balance \in Nat /\ changed.discount_bps \in 0..BPS
        /\ changed.governance_only \in BOOLEAN
    <3>1. old.min_cl8y_balance \in Nat /\ old.discount_bps \in 0..BPS /\ old.governance_only \in BOOLEAN
      BY <2>1, TierFields
    <3>2. /\ changed.min_cl8y_balance \in {t.min_cl8y_balance, old.min_cl8y_balance}
          /\ changed.discount_bps = IF "discount_bps" \in given THEN t.discount_bps ELSE old.discount_bps
          /\ changed.governance_only \in {t.governance_only, old.governance_only}
      BY <2>3
    <3> HIDE DEF changed, old
    <3>3. changed.min_cl8y_balance \in Nat /\ changed.governance_only \in BOOLEAN
      BY <2>2, <3>1, <3>2
    <3>4. changed.discount_bps \in 0..BPS
      BY <2>12, <3>1, <3>2
    <3> QED BY <3>3, <3>4
  <2>5. changed \in Tier
    <3>1. changed = [field \in {"min_cl8y_balance", "discount_bps", "governance_only"} |-> changed[field]]
      BY <2>3
    <3> HIDE DEF changed, old
    <3> QED BY <2>4, <3>1 DEF Tier
  <2>6. t.id \in {0, 255} => changed.governance_only
    BY <1>2, <2>1, <2>3
  <2>7. tiers \in [DOMAIN tiers -> Tier]
    BY <1>1, LadderShape
  <2>8. /\ new \in [DOMAIN tiers -> Tier] /\ new[t.id] = changed
        /\ \A id \in DOMAIN tiers \ {t.id} : new[id] = tiers[id]
    <3> HIDE DEF changed, tiers
    <3> QED BY <2>1, <2>5, <2>7
  <2>9. new \in Ladder /\ DOMAIN new = DOMAIN tiers
    <3> HIDE DEF new, tiers
    <3> QED BY <1>2, <2>8 DEF Ladder
  <2>10. \A id \in DOMAIN new : id \in {0, 255} => new[id].governance_only
    <3> HIDE DEF new, changed
    <3> QED BY <1>2, <2>6, <2>8, <2>9
  <2>11. registry' = bump_ladder_version([registry EXCEPT !.tiers = new]) /\ UNCHANGED cl8y
    BY <1>5 DEF execute_update_tier
  <2> HIDE DEF new
  <2> QED BY <2>9, <2>10, <2>11, LadderChanged
<1>6. ASSUME NEW sender, NEW id \in TierId, execute_remove_tier(sender, id)
      PROVE  RegistryOK(registry, cl8y)'
  <2> DEFINE new == [other \in DOMAIN tiers \ {id} |-> tiers[other]]
  <2>1. new \in [DOMAIN tiers \ {id} -> Tier] /\ DOMAIN tiers \ {id} \in SUBSET TierId
    BY <1>2
  <2>2. new \in Ladder
    BY <2>1 DEF Ladder
  <2>3. \A other \in DOMAIN new : other \in {0, 255} => new[other].governance_only
    BY <1>2
  <2>4. registry' = bump_ladder_version([registry EXCEPT !.tiers = new]) /\ UNCHANGED cl8y
    BY <1>6 DEF execute_remove_tier
  <2> HIDE DEF new
  <2> QED BY <2>2, <2>3, <2>4, LadderChanged
<1>7. ASSUME NEW sender, NEW governance \in Governor, NEW bps \in BaseFeeCalls,
             update_registry_config(sender, governance, bps)
      PROVE  RegistryOK(registry, cl8y)'
  <2>1. bps \in 0..BPS
    <3>1. bps \in Nat
      BY RegistryAssumption
    <3>2. assert_bps(bps)
      BY <1>7 DEF update_registry_config
    <3> QED BY <3>1, <3>2, BpsChecked
  <2>2. registry' \in RegistryType /\ registry'.tiers = registry.tiers
    BY <1>1, <1>7, <2>1 DEF RegistryType, update_registry_config
  <2> QED BY <1>1, <1>7, <2>2 DEF RegistryOK, ReservedMarked, update_registry_config
<1>8. ASSUME Cl8yMoves PROVE RegistryOK(registry, cl8y)'
  <2>1. cl8y' \in Cl8yType /\ UNCHANGED registry
    <3>1. CASE \E trader \in Trader, amount \in Cl8yBalances :
                 cl8y' = [cl8y EXCEPT !.balance[trader] = amount]
      <4>1. PICK trader \in Trader, amount \in Nat : cl8y' = [cl8y EXCEPT !.balance[trader] = amount]
        BY <3>1, RegistryAssumption
      <4> QED BY <1>1, <1>8, <4>1 DEF Cl8yMoves, Cl8yType
    <3>2. CASE cl8y' = [cl8y EXCEPT !.answers = ~@]
      BY <1>1, <1>8, <3>2 DEF Cl8yMoves, Cl8yType
    <3> QED BY <1>8, <3>1, <3>2 DEF Cl8yMoves
  <2> QED BY <1>1, <2>1 DEF RegistryOK, ReservedMarked
<1>9. \A t \in TierCalls : t.id \in TierId
  BY RegistryAssumption
<1> QED BY <1>3, <1>4, <1>5, <1>6, <1>7, <1>8, <1>9 DEF RegistryNext, RegistryCall, LadderCall

\* The tier a balance gets is an eligible one of the highest discount there is
\* (resolve_discount).
LEMMA BestTier ==
  ASSUME NEW t \in Ladder, NEW amount \in Nat, eligible(t, amount) # {}
  PROVE  LET d == resolve_discount(t, amount)
         IN  /\ d.tier_id \in eligible(t, amount)
             /\ d.discount_bps = t[d.tier_id].discount_bps
             /\ \A other \in eligible(t, amount) : t[other].discount_bps <= d.discount_bps
<1> DEFINE E == eligible(t, amount)
           gap(id) == BPS - t[id].discount_bps
           Gaps == {gap(id) : id \in E}
<1>1. E \subseteq DOMAIN t /\ E \subseteq Nat
  BY LadderShape DEF eligible, TierId
<1>2. \A id \in E : t[id].discount_bps \in 0..BPS /\ gap(id) \in Nat
  <2>1. \A id \in E : t[id].discount_bps \in 0..BPS
    BY <1>1, LadderShape, TierFields
  <2>2. \A d \in 0..BPS : BPS - d \in Nat
    BY BpsPositive
  <2> QED BY <2>1, <2>2
<1> HIDE DEF E
<1>3. PICK g \in Gaps : \A other \in Gaps : g <= other
  <2>1. Gaps \subseteq Nat /\ Gaps # {}
    BY <1>2 DEF E
  <2> HIDE DEF Gaps
  <2> QED BY <2>1, NatLeast
<1> DEFINE Top == {id \in E : gap(id) = g}
<1>4. PICK best \in Top : \A other \in Top : best <= other
  <2>1. Top \subseteq Nat /\ Top # {}
    BY <1>1, <1>3
  <2> HIDE DEF Top
  <2> QED BY <2>1, NatLeast
<1>5. \A other \in E : gap(best) <= gap(other) /\ (gap(other) = gap(best) => best <= other)
  BY <1>3, <1>4
<1> DEFINE Wins(id) == \A other \in E :
             \/ t[other].discount_bps < t[id].discount_bps
             \/ t[other].discount_bps = t[id].discount_bps /\ id <= other
           winner == CHOOSE id \in E : Wins(id)
<1>6. best \in E /\ Wins(best)
  <2>1. best \in E
    BY <1>4
  <2>2. ASSUME NEW other \in E
        PROVE  \/ t[other].discount_bps < t[best].discount_bps
               \/ t[other].discount_bps = t[best].discount_bps /\ best <= other
    <3>1. /\ gap(best) <= gap(other) /\ (gap(other) = gap(best) => best <= other)
          /\ t[best].discount_bps \in 0..BPS /\ t[other].discount_bps \in 0..BPS
      BY <1>2, <1>5, <2>1
    <3>2. \A a, b \in 0..BPS : BPS - a <= BPS - b /\ ~(b < a) => b = a
      BY BpsPositive
    <3> QED BY <3>1, <3>2
  <2> QED BY <2>1, <2>2
<1>7. winner \in E /\ Wins(winner)
  <2> HIDE DEF Wins
  <2> QED BY <1>6
<1>8. resolve_discount(t, amount) = [discount_bps |-> t[winner].discount_bps, tier_id |-> winner]
  BY DEF resolve_discount, E
<1> HIDE DEF winner
<1>9. \A other \in E : t[other].discount_bps <= t[winner].discount_bps
  BY <1>2, <1>7
<1> QED BY <1>7, <1>8, <1>9 DEF E

LEMMA DiscountInBps ==
  ASSUME NEW t \in Ladder, NEW amount \in Nat
  PROVE  resolve_discount(t, amount).discount_bps \in 0..BPS
<1>1. CASE eligible(t, amount) = {}
  BY <1>1, BpsPositive DEF resolve_discount
<1>2. CASE eligible(t, amount) # {}
  <2> DEFINE d == resolve_discount(t, amount)
  <2>1. d.tier_id \in eligible(t, amount) /\ d.discount_bps = t[d.tier_id].discount_bps
    BY <1>2, BestTier
  <2>2. d.tier_id \in DOMAIN t
    BY <2>1 DEF eligible
  <2> QED BY <2>1, <2>2, LadderShape, TierFields
<1> QED BY <1>1, <1>2

\* A higher balance never gets a lower discount.
LEMMA MoreDiscounted ==
  ASSUME NEW t \in Ladder, NEW more \in Nat, NEW less \in Nat, more >= less
  PROVE  resolve_discount(t, less).discount_bps <= resolve_discount(t, more).discount_bps
<1> DEFINE d == resolve_discount(t, less)
           e == resolve_discount(t, more)
<1>1. d.discount_bps \in 0..BPS /\ e.discount_bps \in 0..BPS
  BY DiscountInBps
<1>2. CASE eligible(t, less) = {}
  <2>1. d.discount_bps = 0
    BY <1>2 DEF resolve_discount
  <2>2. \A x \in 0..BPS : 0 <= x
    BY BpsPositive
  <2> QED BY <1>1, <2>1, <2>2
<1>3. CASE eligible(t, less) # {}
  <2>1. d.tier_id \in eligible(t, less) /\ d.discount_bps = t[d.tier_id].discount_bps
    BY <1>3, BestTier
  <2>2. \A id \in eligible(t, less) : t[id].min_cl8y_balance \in Nat
    BY LadderShape, TierFields DEF eligible
  <2>3. eligible(t, less) \subseteq eligible(t, more)
    BY <2>2 DEF eligible
  <2>4. \A other \in eligible(t, more) : t[other].discount_bps <= e.discount_bps
    BY <1>3, <2>3, BestTier
  <2> QED BY <2>1, <2>3, <2>4
<1> QED BY <1>2, <1>3

\* effective_fee falls with the discount and never exceeds the base fee.
LEMMA EffectiveFeeFalls ==
  ASSUME NEW base \in 0..BPS, NEW d \in 0..BPS, NEW e \in 0..BPS, d <= e
  PROVE  /\ effective_fee(base, e) \in Nat
         /\ effective_fee(base, e) <= effective_fee(base, d)
         /\ effective_fee(base, d) <= base
<1> DEFINE b == BPS
<1>1. b \in Nat \ {0} /\ base \in Nat /\ d \in 0..b /\ e \in 0..b
  BY BpsPositive
<1> HIDE DEF b
<1>2. b - d \in Nat /\ b - e \in Nat /\ b - e <= b - d /\ b - d <= b
  BY <1>1
<1>3. \A x, y \in Nat : x <= y => base * x \in Nat /\ base * x <= base * y
  BY <1>1
<1> DEFINE x == base * (b - e)
           y == base * (b - d)
           z == base * b
<1>4. x \in Nat /\ y \in Nat /\ z \in Nat /\ x <= y /\ y <= z
  BY <1>1, <1>2, <1>3
<1>5. \A m, n \in Nat : m <= n => m \div b \in Nat /\ m \div b <= n \div b
  BY <1>1
<1>6. z \div b = base
  BY <1>1
<1> HIDE DEF x, y, z
<1>7. x \div b \in Nat /\ x \div b <= y \div b /\ y \div b <= base
  <2>1. x \div b \in Nat /\ x \div b <= y \div b
    BY <1>4, <1>5
  <2>2. y \div b <= z \div b
    BY <1>4, <1>5
  <2> QED BY <1>6, <2>1, <2>2
<1>8. effective_fee(base, e) = x \div b /\ effective_fee(base, d) = y \div b
  BY DEF effective_fee, x, y, b
<1> QED BY <1>7, <1>8

\* What a trader pays is a number of basis points (query_effective_fee).
LEMMA EffectiveFeeInNat ==
  ASSUME RegistryOK(registry, cl8y), NEW trader \in Trader
  PROVE  query_effective_fee(trader) \in Nat
<1>1. /\ registry.base_fee_bps \in 0..BPS /\ registry.tiers \in Ladder
      /\ cl8y.balance[trader] \in Nat
  BY DEF RegistryOK, RegistryType, Cl8yType
<1>2. /\ resolve_discount(registry.tiers, cl8y.balance[trader]).discount_bps \in 0..BPS
      /\ 0 \in 0..BPS
  <2>1. 0 \in 0..BPS
    BY BpsPositive
  <2> QED BY <1>1, <2>1, DiscountInBps
<1>3. PICK d \in 0..BPS : query_effective_fee(trader) = effective_fee(registry.base_fee_bps, d)
  BY <1>2 DEF query_effective_fee
<1>4. d <= d
  BY BpsPositive
<1> QED BY <1>1, <1>3, <1>4, EffectiveFeeFalls

LEMMA ReservedApart == RegistryOK(registry, cl8y) => ReservedTiersNeverApply
<1> SUFFICES ASSUME RegistryOK(registry, cl8y), NEW amount \in Cl8yBalances
             PROVE  resolve_discount(registry.tiers, amount).tier_id \notin {0, 255}
  BY DEF ReservedTiersNeverApply
<1> DEFINE tiers == registry.tiers
           d == resolve_discount(tiers, amount)
<1>1. tiers \in Ladder /\ amount \in Nat
  BY RegistryAssumption DEF RegistryOK, RegistryType
<1>2. CASE eligible(tiers, amount) = {}
  <2>1. d.tier_id = None
    BY <1>2 DEF resolve_discount
  <2> QED BY <2>1, RegistryAssumption DEF TierId
<1>3. CASE eligible(tiers, amount) # {}
  <2>1. d.tier_id \in eligible(tiers, amount)
    BY <1>1, <1>3, BestTier
  <2>2. d.tier_id \in DOMAIN tiers /\ ~tiers[d.tier_id].governance_only
    BY <2>1 DEF eligible
  <2> QED BY <2>2 DEF RegistryOK, ReservedMarked
<1> QED BY <1>2, <1>3

LEMMA MoreIsCheaper == RegistryOK(registry, cl8y) => MoreCl8yNeverCostsMore
<1> SUFFICES ASSUME RegistryOK(registry, cl8y), NEW more \in Cl8yBalances, NEW less \in Cl8yBalances,
                    more >= less
             PROVE  LET fee(amount) == effective_fee(registry.base_fee_bps,
                              resolve_discount(registry.tiers, amount).discount_bps)
                    IN  fee(more) <= fee(less) /\ fee(less) <= registry.base_fee_bps
  BY DEF MoreCl8yNeverCostsMore
<1> DEFINE d == resolve_discount(registry.tiers, less).discount_bps
           e == resolve_discount(registry.tiers, more).discount_bps
<1>1. registry.tiers \in Ladder /\ registry.base_fee_bps \in 0..BPS /\ more \in Nat /\ less \in Nat
  BY RegistryAssumption DEF RegistryOK, RegistryType
<1>2. d \in 0..BPS /\ e \in 0..BPS /\ d <= e
  BY <1>1, DiscountInBps, MoreDiscounted
<1> HIDE DEF d, e
<1>3. /\ effective_fee(registry.base_fee_bps, e) <= effective_fee(registry.base_fee_bps, d)
      /\ effective_fee(registry.base_fee_bps, d) <= registry.base_fee_bps
  BY <1>1, <1>2, EffectiveFeeFalls
<1> QED BY <1>3 DEF d, e

LEMMA RegistryAlwaysOK == RegistrySpec => []RegistryOK(registry, cl8y)
<1>1. RegistryOK(registry, cl8y) /\ [RegistryNext]_rvars => RegistryOK(registry, cl8y)'
  <2>1. RegistryOK(registry, cl8y) /\ UNCHANGED rvars => RegistryOK(registry, cl8y)'
    BY DEF rvars, RegistryOK, ReservedMarked
  <2> QED BY <2>1, RegistryStepOK
<1> QED BY <1>1, RegistryInitOK, PTL DEF RegistrySpec

\* The registry's fields are always of their types, whatever governance calls.
THEOREM RegistryAlwaysTyped == RegistrySpec => []RegistryTypeOK
BY RegistryAlwaysOK, RegistryTyped, PTL

\* No balance of CL8Y ever earns the market makers' tier or the blacklist's:
\* the ids 0 and 255 stay governance_only through every add, update and remove.
THEOREM RegistryReservesTiers == RegistrySpec => []ReservedTiersNeverApply
BY RegistryAlwaysOK, ReservedApart, PTL

\* Whatever ladder governance leaves, the fee never rises with the balance and
\* never exceeds the base fee.
THEOREM RegistryDiscountsMonotone == RegistrySpec => []MoreCl8yNeverCostsMore
BY RegistryAlwaysOK, MoreIsCheaper, PTL

-----------------------------------------------------------------------------
(* The arithmetic of the grid. *)

ValidConfig == {c \in GridConfig : validate_config(c)}

Holdings == [{0, 1} -> Nat]

LEMMA ConfigFields ==
  ASSUME NEW c \in ValidConfig
  PROVE  /\ c.count \in 1..MAX_GRID_COUNT /\ c.max_trade_bps \in 1..MAX_TRADE_BPS
         /\ c.lower \in Nat /\ c.upper \in Nat /\ c.upper > c.lower
         /\ c.max_execution_deviation_bps \in 0..MAX_EXECUTION_DEVIATION_BPS
         /\ c.quote_slippage_bps \in 0..MAX_QUOTE_SLIPPAGE_BPS
BY DEF ValidConfig, GridConfig, validate_config

LEMMA ConfigLimits ==
  ASSUME NEW c \in ValidConfig
  PROVE  /\ c.count \in Nat \ {0} /\ c.max_trade_bps \in Nat /\ c.max_trade_bps <= 5000
         /\ c.max_execution_deviation_bps \in Nat /\ c.max_execution_deviation_bps <= 1000
         /\ c.quote_slippage_bps \in Nat /\ c.quote_slippage_bps <= 1000
<1>1. /\ c.count \in 1..MAX_GRID_COUNT /\ c.max_trade_bps \in 1..MAX_TRADE_BPS
      /\ c.max_execution_deviation_bps \in 0..MAX_EXECUTION_DEVIATION_BPS
      /\ c.quote_slippage_bps \in 0..MAX_QUOTE_SLIPPAGE_BPS
  BY ConfigFields
<1>2. /\ MAX_GRID_COUNT \in Nat /\ MAX_TRADE_BPS \in Nat /\ MAX_TRADE_BPS <= 5000
      /\ MAX_EXECUTION_DEVIATION_BPS \in Nat /\ MAX_EXECUTION_DEVIATION_BPS <= 1000
      /\ MAX_QUOTE_SLIPPAGE_BPS \in Nat /\ MAX_QUOTE_SLIPPAGE_BPS <= 1000
  BY DEF MAX_GRID_COUNT, MAX_TRADE_BPS, MAX_EXECUTION_DEVIATION_BPS, MAX_QUOTE_SLIPPAGE_BPS
<1> QED BY <1>1, <1>2

\* Every price falls in one of the grid's cells (grid_cell).
LEMMA CellInGrid ==
  ASSUME NEW price \in Nat, NEW c \in ValidConfig
  PROVE  grid_cell(price, c) \in 0..c.count
<1> DEFINE step == (c.upper - c.lower) \div c.count
<1>1. c.count \in Nat \ {0} /\ c.lower \in Nat /\ c.upper \in Nat /\ c.upper > c.lower
  BY ConfigFields, ConfigLimits
<1>2. step \in Nat
  <2>1. c.upper - c.lower \in Nat
    BY <1>1
  <2> QED BY <1>1, <2>1
<1>3. \/ grid_cell(price, c) \in {0, c.count}
      \/ price > c.lower /\ step # 0 /\ grid_cell(price, c) = Least((price - c.lower) \div step, c.count)
  <2>1. CASE price <= c.lower
    BY <2>1 DEF grid_cell
  <2>2. CASE price > c.lower /\ price >= c.upper
    BY <1>1, <2>2 DEF grid_cell
  <2>3. CASE price > c.lower /\ price < c.upper
    BY <1>1, <2>3 DEF grid_cell
  <2> QED BY <1>1, <2>1, <2>2, <2>3
<1> HIDE DEF step
<1>4. ASSUME price > c.lower, step # 0
      PROVE  Least((price - c.lower) \div step, c.count) \in 0..c.count
  <2>1. price - c.lower \in Nat /\ step \in Nat \ {0}
    BY <1>1, <1>2, <1>4
  <2>2. PICK q \in Nat : q = (price - c.lower) \div step
    BY <2>1
  <2>3. \A n \in Nat : Least(q, n) \in 0..n
    BY DEF Least
  <2> QED BY <1>1, <2>2, <2>3
<1>5. 0 \in 0..c.count /\ c.count \in 0..c.count
  BY <1>1
<1> QED BY <1>3, <1>4, <1>5

LEMMA CellOfConfig ==
  ASSUME NEW price \in Nat, NEW c \in ValidConfig
  PROVE  grid_cell(price, c) \in Nat /\ grid_cell(price, c) \in 0..MAX_GRID_COUNT
<1> DEFINE cell == grid_cell(price, c)
<1>1. cell \in 0..c.count /\ c.count \in Nat
  BY CellInGrid, ConfigLimits
<1>2. c.count \in 1..MAX_GRID_COUNT /\ MAX_GRID_COUNT \in Nat
  BY ConfigFields DEF MAX_GRID_COUNT
<1> HIDE DEF cell
<1>3. cell \in Nat /\ cell \in 0..MAX_GRID_COUNT
  BY <1>1, <1>2
<1> QED BY <1>3 DEF cell

LEMMA TargetInNat ==
  ASSUME NEW h \in Holdings, NEW price \in Nat, NEW cell \in Nat, NEW count \in Nat \ {0}
  PROVE  target_token1(h, price, cell, count) \in Nat
<1>1. ONE \in Nat \ {0} /\ h[0] \in Nat /\ h[1] \in Nat
  BY OneAssumption DEF Holdings
<1>2. h[0] * price + h[1] * ONE \in Nat /\ cell * ONE \in Nat
  BY <1>1
<1>3. (cell * ONE) \div count \in Nat
  BY <1>2
<1>4. \A a, b \in Nat : (a * b) \div ONE \in Nat
  <2>1. \A a, b \in Nat : a * b \in Nat
    OBVIOUS
  <2>2. \A a \in Nat : a \div ONE \in Nat
    BY <1>1
  <2> QED BY <2>1, <2>2
<1> QED BY <1>2, <1>3, <1>4 DEF target_token1, total_value, weight

LEMMA GridDeviationInBps ==
  ASSUME NEW h \in Holdings, NEW price \in Nat, NEW c \in ValidConfig
  PROVE  grid_deviation(h, price, c) \in 0..BPS
<1> DEFINE cell == grid_cell(price, c)
           target == target_token1(h, price, cell, c.count)
           actual == h[1] * ONE
<1>1. cell \in Nat /\ c.count \in Nat \ {0}
  BY CellOfConfig, ConfigLimits
<1>2. target \in Nat
  <2> HIDE DEF cell
  <2> QED BY <1>1, TargetInNat
<1>3. actual \in Nat
  BY OneAssumption DEF Holdings
<1>4. 0 \in 0..BPS /\ BPS \in 0..BPS
  BY BpsPositive
<1>5. \/ grid_deviation(h, price, c) \in {0, BPS}
      \/ grid_deviation(h, price, c) = ratio_deviation(actual, target)
  BY DEF grid_deviation
<1> HIDE DEF target, actual
<1>6. ratio_deviation(actual, target) \in 0..BPS
  BY <1>2, <1>3, DeviationInBps
<1> QED BY <1>4, <1>5, <1>6

\* The planned trade never offers more than the vault holds (grid_offer).
LEMMA GridOfferBounded ==
  ASSUME NEW h \in Holdings, NEW price \in Nat \ {0}, NEW cell \in Nat,
         NEW count \in Nat \ {0}, NEW cap \in Nat, cap <= 5000
  PROVE  LET o == grid_offer(h, price, cell, count, cap)
         IN  o.index \in {0, 1} /\ o.amount \in Nat /\ o.amount <= h[o.index]
<1> DEFINE v == h[1] * ONE
           target == target_token1(h, price, cell, count)
           i == IF v > target THEN 1 ELSE 0
           u == IF i = 1 THEN (v - target) \div ONE ELSE (target - v) \div price
           c == checked_ratio(h[i], cap, BPS)
<1>1. v \in Nat /\ target \in Nat /\ i \in {0, 1} /\ ONE \in Nat \ {0}
  <2>1. v \in Nat /\ ONE \in Nat \ {0}
    BY OneAssumption DEF Holdings
  <2>2. target \in Nat
    BY TargetInNat
  <2> HIDE DEF v, target
  <2> QED BY <2>1, <2>2
<1>2. grid_offer(h, price, cell, count, cap) = [index |-> i, amount |-> Least(u, c)]
  BY DEF grid_offer
<1> HIDE DEF v, target
<1>3. u \in Nat
  <2>1. \A a \in Nat, b \in Nat \ {0} : a \div b \in Nat
    OBVIOUS
  <2>2. CASE v > target
    BY <2>1, <2>2, <1>1
  <2>3. CASE ~(v > target)
    BY <2>1, <2>3, <1>1
  <2> QED BY <2>2, <2>3
<1>4. PICK n \in Nat : n = h[i]
  BY <1>1 DEF Holdings
<1>5. c \in Nat /\ c <= h[i]
  <2>1. cap \in Nat /\ cap <= 5000
    OBVIOUS
  <2>2. checked_ratio(n, cap, BPS) \in Nat /\ 2 * checked_ratio(n, cap, BPS) <= n
    BY <2>1, CapAtMostHalf
  <2>3. checked_ratio(n, cap, BPS) <= n
    BY <2>2
  <2> QED BY <1>4, <2>2, <2>3
<1> HIDE DEF i, u, c
<1>6. Least(u, c) \in Nat /\ Least(u, c) <= h[i]
  BY <1>3, <1>4, <1>5 DEF Least
<1> QED BY <1>1, <1>2, <1>6

LEMMA DepositValueInNat ==
  ASSUME NEW amount \in Nat, NEW token \in {0, 1}, NEW price \in Nat \ {0}
  PROVE  deposit_value(amount, token, price) \in Nat
BY InToken0 DEF deposit_value

\* A deposit raises the value of the vault by at least what it is credited
\* with (deposit_value).
LEMMA DepositValueCounted ==
  ASSUME NEW h \in Holdings, NEW token \in {0, 1}, NEW amount \in Nat, NEW price \in Nat \ {0},
         NEW g \in Holdings, g = [h EXCEPT ![token] = @ + amount]
  PROVE  nav(h, price) + deposit_value(amount, token, price) <= nav(g, price)
<1>1. h[0] \in Nat /\ h[1] \in Nat /\ ONE \in Nat \ {0}
  BY OneAssumption DEF Holdings
<1>2. CASE token = 0
  <2>1. g[0] = h[0] + amount /\ g[1] = h[1]
    BY <1>2 DEF Holdings
  <2>2. (h[1] * ONE) \div price \in Nat
    <3>1. h[1] * ONE \in Nat
      BY <1>1
    <3> QED BY <3>1
  <2>3. nav(g, price) = nav(h, price) + amount
    BY <1>1, <2>1, <2>2 DEF nav
  <2>4. nav(h, price) \in Nat
    BY NavInNat DEF Holdings
  <2> QED BY <1>2, <2>3, <2>4 DEF deposit_value
<1>3. CASE token = 1
  <2>1. g[0] = h[0] /\ g[1] = h[1] + amount
    BY <1>3 DEF Holdings
  <2> DEFINE x == h[1] * ONE
             y == amount * ONE
  <2>2. x \in Nat /\ y \in Nat /\ (h[1] + amount) * ONE = x + y
    BY <1>1
  <2>3. \A a, b \in Nat : /\ a \div price \in Nat /\ b \div price \in Nat
                          /\ (a + b) \div price \in Nat
                          /\ a \div price + b \div price <= (a + b) \div price
    <3> SUFFICES ASSUME NEW a \in Nat, NEW b \in Nat
                 PROVE  /\ a \div price \in Nat /\ b \div price \in Nat
                        /\ (a + b) \div price \in Nat
                        /\ a \div price + b \div price <= (a + b) \div price
      OBVIOUS
    <3> DEFINE q == a \div price
               r == b \div price
               s == (a + b) \div price
    <3>1. /\ q \in Nat /\ r \in Nat /\ s \in Nat
          /\ q * price <= a /\ r * price <= b /\ a + b < (s + 1) * price
      OBVIOUS
    <3> HIDE DEF q, r, s
    <3>2. (q + r) * price <= a + b /\ (q + r) * price < (s + 1) * price
      BY <3>1
    <3>3. q + r < s + 1
      BY <3>1, <3>2
    <3> QED BY <3>1, <3>3 DEF q, r, s
  <2>4. /\ nav(g, price) = h[0] + (x + y) \div price
        /\ nav(h, price) = h[0] + x \div price
    BY <2>1, <2>2 DEF nav
  <2>5. deposit_value(amount, token, price) = y \div price
    BY <1>3 DEF deposit_value, checked_ratio
  <2> HIDE DEF x, y
  <2>6. /\ x \div price \in Nat /\ y \div price \in Nat /\ (x + y) \div price \in Nat
        /\ x \div price + y \div price <= (x + y) \div price
    BY <2>2, <2>3
  <2> QED BY <1>1, <2>4, <2>5, <2>6
<1> QED BY <1>2, <1>3

\* The shares minted for a deposit are worth no more than the deposit, so they
\* dilute nobody; without shares to dilute there are no more of them than it adds
\* in value (deposit_shares).
THEOREM GridDepositFair ==
  ASSUME NEW h \in Holdings, NEW token \in {0, 1}, NEW amount \in Nat, NEW price \in Nat \ {0},
         NEW g \in Holdings, g = [h EXCEPT ![token] = @ + amount], NEW s \in Nat
  PROVE  LET earned == deposit_shares(amount, token, price, g, s)
         IN  /\ earned \in Nat
             /\ s > 0 => s * nav(g, price) >= (s + earned) * nav(h, price)
             /\ s = 0 => nav(h, price) + earned <= nav(g, price)
<1> DEFINE value == deposit_value(amount, token, price)
           prior == nav(h, price)
           after == nav(g, price)
           earned == deposit_shares(amount, token, price, g, s)
<1>1. value \in Nat /\ prior \in Nat /\ after \in Nat /\ prior + value <= after
  BY DepositValueInNat, NavInNat, DepositValueCounted DEF Holdings
<1> DEFINE k == [g EXCEPT ![token] = @ - amount]
<1>2. k = h
  <2>1. k \in [{0, 1} -> Int] /\ h \in [{0, 1} -> Int]
    BY DEF Holdings
  <2>2. k[0] = h[0] /\ k[1] = h[1]
    BY DEF Holdings
  <2> HIDE DEF k
  <2> QED BY <2>1, <2>2
<1>3. earned = IF s = 0 \/ prior = 0 THEN value ELSE checked_ratio(value, s, prior)
  <2>1. earned = IF s = 0 \/ nav(k, price) = 0 THEN value
                 ELSE checked_ratio(value, s, nav(k, price))
    BY DEF deposit_shares
  <2> HIDE DEF value, earned, k
  <2> QED BY <1>2, <2>1
<1> HIDE DEF value, prior, after, earned
<1>4. CASE s = 0
  <2>1. earned = value
    BY <1>3, <1>4
  <2> QED BY <1>1, <1>4, <2>1 DEF earned, prior, after
<1>5. CASE s > 0 /\ prior = 0
  <2>1. earned = value
    BY <1>3, <1>5
  <2>2. s * after \in Nat /\ (s + earned) * prior = 0
    BY <1>1, <1>5, <2>1
  <2> QED BY <1>1, <1>5, <2>1, <2>2 DEF earned, prior, after
<1>6. CASE s > 0 /\ prior > 0
  <2>1. earned \in Nat /\ earned * prior <= value * s
    BY <1>1, <1>3, <1>6, FloorRatio
  <2>2. s * (prior + value) <= s * after
    BY <1>1
  <2>3. s * (prior + value) = s * prior + value * s /\ (s + earned) * prior = s * prior + earned * prior
    BY <1>1, <2>1
  <2>4. /\ s * prior \in Nat /\ value * s \in Nat /\ earned * prior \in Nat
        /\ s * after \in Nat /\ (s + earned) * prior \in Nat
    BY <1>1, <2>1
  <2>5. s * after >= (s + earned) * prior
    BY <2>1, <2>2, <2>3, <2>4
  <2> QED BY <1>6, <2>1, <2>5 DEF earned, prior, after
<1> QED BY <1>1, <1>4, <1>5, <1>6

-----------------------------------------------------------------------------
(* The inductive invariant.  It speaks of the state and of the state a failed *)
(* rebalance goes back to alike.                                             *)

WorldType ==
    [grid : GridType, collector : CollectorType, bank : BankType,
     dex : [twap : Nat \ {0}, code : Nat], registry : RegistryType, cl8y : Cl8yType,
     minted : Nat]

Typed == World \in WorldType /\ swap \in SwapType \cup {None} /\ txs \in Nat

\* The ledger adds up, nobody is about to inherit from himself, and the fee
\* collector's accounts show every fee share minted.
Sound(w) ==
    /\ ReservedMarked(w.registry)
    /\ w.grid.total_shares = SumOver(w.grid.shares, Account)
    /\ w.grid.pending_admin # w.grid.admin
    /\ w.collector.vault_shares + w.grid.shares[Collector] = w.minted

\* A rebalance is under way exactly while the vault waits for it; what it goes
\* back to is sound; the pair still holds what the vault offered; and the least
\* return it accepts is what the configured loss allows.
Underway ==
    IF swap = None THEN grid.pending = None
    ELSE LET p == swap.planned
         IN  /\ grid.pending = p
             /\ before \in WorldType /\ Sound(before) /\ before.grid.pending = None
             /\ bank[p.offer_index][PAIR] >= before.bank[p.offer_index][PAIR] + p.amount
             /\ p.min_return >= floor_after(
                    expected_return(p.amount, p.offer_index, p.captured_twap),
                    grid.config.max_execution_deviation_bps)

GridInv == Typed /\ Sound(World) /\ Underway

-----------------------------------------------------------------------------
(* Records, balances and the ledger. *)

LedgerOK(g) == g.total_shares = SumOver(g.shares, Account)

LEMMA AccountsFinite == IsFiniteSet(Account)
<1>1. IsFiniteSet(Users)
  BY ActorAssumption
<1>2. IsFiniteSet(Users \cup {Collector})
  BY <1>1, FS_AddElement
<1>3. IsFiniteSet((Users \cup {Collector}) \cup {Treasury})
  BY <1>2, FS_AddElement
<1>4. IsFiniteSet(((Users \cup {Collector}) \cup {Treasury}) \cup {GRID})
  BY <1>3, FS_AddElement
<1>5. IsFiniteSet((((Users \cup {Collector}) \cup {Treasury}) \cup {GRID}) \cup {PAIR})
  BY <1>4, FS_AddElement
<1>6. Account = (((Users \cup {Collector}) \cup {Treasury}) \cup {GRID}) \cup {PAIR}
  BY DEF Account
<1> QED BY <1>5, <1>6

LEMMA GridFields ==
  ASSUME NEW g \in GridType
  PROVE  /\ g.admin \in Users /\ g.pending_admin \in Users \cup {None} /\ g.paused \in BOOLEAN
         /\ g.config \in ValidConfig /\ g.reference_price \in Nat \ {0}
         /\ g.last_cell \in 0..MAX_GRID_COUNT /\ g.pending \in PendingSwap \cup {None}
         /\ g.shares \in [Account -> Nat] /\ g.total_shares \in Nat
         /\ g.fee_cache \in [Account -> (0..BPS) \cup {None}]
BY DEF GridType, ValidConfig

LEMMA WorldFields ==
  ASSUME World \in WorldType
  PROVE  /\ grid \in GridType /\ collector \in CollectorType /\ bank \in BankType
         /\ dex \in [twap : Nat \ {0}, code : Nat] /\ registry \in RegistryType
         /\ cl8y \in Cl8yType /\ minted \in Nat
BY DEF World, WorldType

\* CW20 transfers (Moved).
LEMMA MovedBank ==
  ASSUME NEW b \in BankType, NEW tok \in Token, NEW from \in Account, NEW to \in Account,
         from # to, NEW amt \in Nat, amt <= b[tok][from]
  PROVE  LET m == Moved(b, tok, from, to, amt)
         IN  /\ m \in BankType
             /\ m[tok][from] = b[tok][from] - amt /\ m[tok][to] = b[tok][to] + amt
             /\ \A a \in Account \ {from, to} : m[tok][a] = b[tok][a]
             /\ \A i \in Token \ {tok} : m[i] = b[i]
<1> DEFINE row == b[tok]
           paid == [b EXCEPT ![tok][from] = @ - amt]
           m == [paid EXCEPT ![tok][to] = @ + amt]
           new == [row EXCEPT ![from] = row[from] - amt, ![to] = row[to] + amt]
<1>1. row \in [Account -> Nat] /\ row[from] - amt \in Nat /\ row[to] + amt \in Nat
  BY DEF BankType
<1>2. paid = [b EXCEPT ![tok] = [row EXCEPT ![from] = row[from] - amt]]
  BY DEF BankType
<1>3. m = [b EXCEPT ![tok] = new]
  BY <1>2 DEF BankType
<1>4. /\ new \in [Account -> Nat] /\ new[from] = row[from] - amt /\ new[to] = row[to] + amt
      /\ \A a \in Account \ {from, to} : new[a] = row[a]
  BY <1>1
<1> HIDE DEF new, paid
<1>5. /\ m \in BankType /\ m[tok] = new /\ \A i \in Token \ {tok} : m[i] = b[i]
  <2> HIDE DEF m
  <2> QED BY <1>3, <1>4 DEF BankType
<1>6. Moved(b, tok, from, to, amt) = m
  BY DEF Moved, paid
<1> HIDE DEF m
<1> QED BY <1>4, <1>5, <1>6

LEMMA HoldingsIn ==
  ASSUME NEW b \in BankType
  PROVE  holdings_in(b) \in Holdings /\ \A i \in Token : holdings_in(b)[i] = b[i][GRID]
BY DEF holdings_in, BankType, Holdings, Token, Account

LEMMA MintLedger ==
  ASSUME NEW g \in GridType, NEW a \in Account, NEW n \in Nat, LedgerOK(g)
  PROVE  /\ mint(g, a, n) \in GridType /\ LedgerOK(mint(g, a, n))
         /\ mint(g, a, n).total_shares = g.total_shares + n
         /\ mint(g, a, n).shares[a] = g.shares[a] + n
         /\ \A x \in Account \ {a} : mint(g, a, n).shares[x] = g.shares[x]
         /\ mint(g, a, n).pending = g.pending /\ mint(g, a, n).config = g.config
         /\ mint(g, a, n).admin = g.admin /\ mint(g, a, n).pending_admin = g.pending_admin
         /\ mint(g, a, n).fee_cache = g.fee_cache
<1> DEFINE s == [g.shares EXCEPT ![a] = g.shares[a] + n]
           t == g.total_shares + n
           h == [g EXCEPT !.shares = s, !.total_shares = t]
<1>1. g.shares \in [Account -> Nat] /\ g.total_shares \in Nat
  BY GridFields
<1>2. /\ s \in [Account -> Nat] /\ s[a] = g.shares[a] + n /\ t \in Nat
      /\ \A x \in Account \ {a} : s[x] = g.shares[x]
  BY <1>1
<1>3. SumOver(s, Account) = SumOver(g.shares, Account) - g.shares[a] + s[a]
  <2> HIDE DEF s
  <2> QED BY <1>1, <1>2, AccountsFinite, SumUpdate
<1>4. SumOver(g.shares, Account) = g.total_shares
  BY DEF LedgerOK
<1>5. SumOver(s, Account) = t
  <2>1. g.shares[a] \in Nat
    BY <1>1
  <2> HIDE DEF s
  <2> QED BY <1>1, <1>2, <1>3, <1>4, <2>1
<1>6. mint(g, a, n) = h
  BY DEF mint, GridType
<1> HIDE DEF s, t
<1>7. /\ h \in GridType /\ h.shares = s /\ h.total_shares = t /\ h.pending = g.pending
      /\ h.config = g.config /\ h.admin = g.admin /\ h.pending_admin = g.pending_admin
      /\ h.fee_cache = g.fee_cache
  BY <1>2 DEF GridType
<1> HIDE DEF h
<1> QED BY <1>2, <1>5, <1>6, <1>7 DEF LedgerOK, t

LEMMA BurnLedger ==
  ASSUME NEW g \in GridType, NEW a \in Account, NEW n \in Nat, LedgerOK(g),
         n <= g.shares[a], n <= g.total_shares
  PROVE  /\ burn(g, a, n) \in GridType /\ LedgerOK(burn(g, a, n))
         /\ burn(g, a, n).total_shares = g.total_shares - n
         /\ burn(g, a, n).shares[a] = g.shares[a] - n
         /\ \A x \in Account \ {a} : burn(g, a, n).shares[x] = g.shares[x]
         /\ burn(g, a, n).pending = g.pending /\ burn(g, a, n).config = g.config
         /\ burn(g, a, n).admin = g.admin /\ burn(g, a, n).pending_admin = g.pending_admin
<1> DEFINE s == [g.shares EXCEPT ![a] = g.shares[a] - n]
           t == g.total_shares - n
           h == [g EXCEPT !.shares = s, !.total_shares = t]
<1>1. g.shares \in [Account -> Nat] /\ g.total_shares \in Nat
  BY GridFields
<1>2. /\ s \in [Account -> Nat] /\ s[a] = g.shares[a] - n /\ t \in Nat
      /\ \A x \in Account \ {a} : s[x] = g.shares[x]
  BY <1>1
<1>3. SumOver(s, Account) = SumOver(g.shares, Account) - g.shares[a] + s[a]
  <2> HIDE DEF s
  <2> QED BY <1>1, <1>2, AccountsFinite, SumUpdate
<1>4. SumOver(g.shares, Account) = g.total_shares
  BY DEF LedgerOK
<1>5. SumOver(s, Account) = t
  <2>1. g.shares[a] \in Nat
    BY <1>1
  <2> HIDE DEF s
  <2> QED BY <1>1, <1>2, <1>3, <1>4, <2>1
<1>6. burn(g, a, n) = h
  BY DEF burn, GridType
<1> HIDE DEF s, t
<1>7. /\ h \in GridType /\ h.shares = s /\ h.total_shares = t /\ h.pending = g.pending
      /\ h.config = g.config /\ h.admin = g.admin /\ h.pending_admin = g.pending_admin
  BY <1>2 DEF GridType
<1> HIDE DEF h
<1> QED BY <1>2, <1>5, <1>6, <1>7 DEF LedgerOK, t

LEMMA HandoverLedger ==
  ASSUME NEW g \in GridType, NEW to \in Users, to # g.admin, LedgerOK(g)
  PROVE  /\ handed_over(g, to) \in GridType /\ LedgerOK(handed_over(g, to))
         /\ handed_over(g, to).shares[Collector] = g.shares[Collector]
         /\ handed_over(g, to).total_shares = g.total_shares
         /\ handed_over(g, to).pending = g.pending /\ handed_over(g, to).config = g.config
<1> DEFINE s == [a \in Account |-> CASE a = g.admin -> 0
                    [] a = to /\ a # g.admin -> g.shares[to] + g.shares[g.admin]
                    [] a # to /\ a # g.admin -> g.shares[a]]
           h == [g EXCEPT !.shares = s]
<1>1. /\ g.shares \in [Account -> Nat] /\ g.admin \in Users /\ g.admin \in Account /\ to \in Account
      /\ g.total_shares \in Nat
  BY GridFields DEF Account
<1>2. /\ s[g.admin] = 0 /\ s[to] = g.shares[to] + g.shares[g.admin]
      /\ \A a \in Account \ {to, g.admin} : s[a] = g.shares[a]
  BY <1>1
<1>3. \A a \in Account : s[a] \in Nat /\ g.shares[a] \in Nat
  <2> HIDE DEF s
  <2> QED BY <1>1, <1>2
<1>4. s \in [Account -> Nat]
  <2>1. s = [a \in Account |-> s[a]]
    OBVIOUS
  <2> HIDE DEF s
  <2> QED BY <1>3, <2>1
<1>5. SumOver(s, Account) = SumOver(g.shares, Account)
  <2>1. s[g.admin] + s[to] = g.shares[g.admin] + g.shares[to]
    <3> HIDE DEF s
    <3> QED BY <1>1, <1>2
  <2> HIDE DEF s
  <2> QED BY <1>1, <1>2, <1>3, <2>1, AccountsFinite, SumMoved
<1>6. handed_over(g, to) = h
  <2>1. s = [a \in Account |-> CASE a = g.admin -> 0
                    [] a = to /\ a # g.admin -> g.shares[to] + g.shares[g.admin]
                    [] a # to /\ a # g.admin -> g.shares[a]]
    OBVIOUS
  <2> QED BY DEF handed_over, GridType
<1> HIDE DEF s
<1>7. /\ h \in GridType /\ h.shares = s /\ h.total_shares = g.total_shares
      /\ h.pending = g.pending /\ h.config = g.config
  BY <1>4 DEF GridType
<1>8. s[Collector] = g.shares[Collector]
  BY <1>1, <1>2, ActorAssumption DEF Account
<1> HIDE DEF h
<1> QED BY <1>5, <1>6, <1>7, <1>8 DEF LedgerOK

-----------------------------------------------------------------------------
(* Steps of the callers, the administrator and the registry.  They may come  *)
(* in the middle of a rebalance: none of them touches its slot, its limits   *)
(* or what the pair holds.                                                   *)

Kept ==
    /\ World' \in WorldType /\ Sound(World')
    /\ grid'.pending = grid.pending
    /\ grid.pending # None => grid'.config = grid.config
    /\ \A i \in Token : bank'[i][PAIR] >= bank[i][PAIR]

LEMMA SoundParts ==
  ASSUME Sound(World)
  PROVE  /\ ReservedMarked(registry) /\ LedgerOK(grid)
         /\ grid.pending_admin # grid.admin
         /\ collector.vault_shares + grid.shares[Collector] = minted
BY DEF Sound, World, LedgerOK

LEMMA WorldKept ==
  ASSUME grid' \in GridType, collector' \in CollectorType, bank' \in BankType,
         dex' \in [twap : Nat \ {0}, code : Nat], registry' \in RegistryType, cl8y' \in Cl8yType,
         minted' \in Nat,
         ReservedMarked(registry'), LedgerOK(grid'), grid'.pending_admin # grid'.admin,
         collector'.vault_shares + grid'.shares[Collector] = minted'
  PROVE  World' \in WorldType /\ Sound(World')
<1>1. World' \in WorldType
  BY DEF World, WorldType
<1>2. /\ World'.grid = grid' /\ World'.collector = collector' /\ World'.registry = registry'
      /\ World'.minted = minted'
  BY DEF World
<1> QED BY <1>1, <1>2 DEF Sound, LedgerOK

LEMMA BankAtPair ==
  ASSUME bank \in BankType
  PROVE  \A i \in Token : bank[i][PAIR] \in Nat /\ bank[i][PAIR] >= bank[i][PAIR]
BY DEF BankType, Account

\* What a withdrawal pays out of the vault (paid_out): its part of either asset,
\* rounded down.
LEMMA PaidOut ==
  ASSUME bank \in BankType, grid \in GridType, NEW to \in Users \cup {Treasury},
         NEW shares \in Nat, shares <= grid.total_shares, grid.total_shares > 0
  PROVE  LET m == paid_out(claims_of(shares), to)
         IN  /\ m \in BankType
             /\ \A i \in Token : m[i][PAIR] = bank[i][PAIR]
             /\ \A i \in Token : m[i][GRID] * grid.total_shares
                                   >= bank[i][GRID] * (grid.total_shares - shares)
<1> DEFINE h == holdings_in(bank)
           c == withdrawal_claims(h, shares, grid.total_shares)
           n == Moved(bank, 0, GRID, to, c[0])
           m == Moved(n, 1, GRID, to, c[1])
<1>1. /\ h \in [{0, 1} -> Nat] /\ h[0] = bank[0][GRID] /\ h[1] = bank[1][GRID]
      /\ grid.total_shares \in Nat \ {0} /\ shares \in 0..grid.total_shares
  BY HoldingsIn, GridFields DEF Holdings, Token
<1>2. to \in Account /\ GRID \in Account /\ PAIR \in Account /\ GRID # to /\ PAIR # to /\ PAIR # GRID
  BY ActorAssumption DEF Account, GRID, PAIR
<1> HIDE DEF h
<1>3. \A i \in {0, 1} : c[i] \in 0..h[i] /\ h[i] * (grid.total_shares - shares) <= (h[i] - c[i]) * grid.total_shares
  BY <1>1, ClaimsFair
<1>4. paid_out(claims_of(shares), to) = m
  BY DEF paid_out, claims_of, balances, h
<1> HIDE DEF c
<1>5. /\ n \in BankType /\ n[0][GRID] = bank[0][GRID] - c[0] /\ n[0][PAIR] = bank[0][PAIR]
      /\ n[1] = bank[1]
  <2>1. c[0] \in Nat /\ c[0] <= bank[0][GRID]
    BY <1>1, <1>3
  <2> QED BY <1>2, <2>1, MovedBank DEF Token
<1> HIDE DEF n
<1>6. /\ m \in BankType /\ m[1][GRID] = bank[1][GRID] - c[1] /\ m[1][PAIR] = bank[1][PAIR]
      /\ m[0] = n[0]
  <2>1. c[1] \in Nat /\ c[1] <= n[1][GRID]
    BY <1>1, <1>3, <1>5
  <2>2. /\ m \in BankType /\ m[1][GRID] = n[1][GRID] - c[1] /\ m[1][PAIR] = n[1][PAIR]
        /\ m[0] = n[0]
    BY <1>2, <1>5, <2>1, MovedBank DEF Token
  <2> QED BY <1>5, <2>2
<1> HIDE DEF m
<1>7. m[0][GRID] = h[0] - c[0] /\ m[1][GRID] = h[1] - c[1]
  BY <1>1, <1>5, <1>6
<1>8. \A i \in Token : m[i][PAIR] = bank[i][PAIR]
  BY <1>5, <1>6 DEF Token
<1>9. \A i \in Token : m[i][GRID] * grid.total_shares >= bank[i][GRID] * (grid.total_shares - shares)
  <2>1. m[0][GRID] * grid.total_shares >= bank[0][GRID] * (grid.total_shares - shares)
    <3>1. h[0] * (grid.total_shares - shares) <= (h[0] - c[0]) * grid.total_shares
      BY <1>3
    <3>2. h[0] * (grid.total_shares - shares) \in Int /\ (h[0] - c[0]) * grid.total_shares \in Int
      <4>1. c[0] \in Int /\ h[0] \in Int
        BY <1>1, <1>3
      <4> QED BY <1>1, <4>1
    <3> QED BY <1>1, <1>7, <3>1, <3>2
  <2>2. m[1][GRID] * grid.total_shares >= bank[1][GRID] * (grid.total_shares - shares)
    <3>1. h[1] * (grid.total_shares - shares) <= (h[1] - c[1]) * grid.total_shares
      BY <1>3
    <3>2. h[1] * (grid.total_shares - shares) \in Int /\ (h[1] - c[1]) * grid.total_shares \in Int
      <4>1. c[1] \in Int /\ h[1] \in Int
        BY <1>1, <1>3
      <4> QED BY <1>1, <4>1
    <3> QED BY <1>1, <1>7, <3>1, <3>2
  <2> QED BY <2>1, <2>2 DEF Token
<1> QED BY <1>4, <1>6, <1>8, <1>9

LEMMA DonateKept ==
  ASSUME Typed, Sound(World), NEW u \in Users, NEW tok \in Token, NEW amt \in DepositAmounts,
         Donate(u, tok, amt)
  PROVE  Kept
<1>1. /\ grid \in GridType /\ collector \in CollectorType /\ bank \in BankType
      /\ dex \in [twap : Nat \ {0}, code : Nat] /\ registry \in RegistryType
      /\ cl8y \in Cl8yType /\ minted \in Nat
  BY WorldFields DEF Typed
<1>2. /\ UNCHANGED <<grid, collector, dex, registry, cl8y, minted>>
      /\ bank' = Moved(bank, tok, u, GRID, amt) /\ amt \in Nat /\ amt <= bank[tok][u]
  BY MarketGridAssumption DEF Donate
<1>3. u \in Account /\ GRID \in Account /\ u # GRID /\ PAIR \in Account /\ PAIR # u /\ PAIR # GRID
  BY ActorAssumption DEF Account, GRID, PAIR
<1>4. bank' \in BankType /\ \A i \in Token : bank'[i][PAIR] = bank[i][PAIR]
  BY <1>1, <1>2, <1>3, MovedBank
<1>5. World' \in WorldType /\ Sound(World')
  BY <1>1, <1>2, <1>4, SoundParts, WorldKept
<1> QED BY <1>1, <1>2, <1>4, <1>5, BankAtPair DEF Kept

LEMMA DepositStep ==
  ASSUME Typed, NEW u \in Users, NEW tok \in Token, NEW amt \in DepositAmounts,
         execute_receive(u, tok, amt)
  PROVE  LET earned == deposit_shares(amt, tok, dex.twap, holdings_in(bank'), grid.total_shares)
         IN  /\ earned \in Nat /\ grid' = mint(grid, u, earned)
             /\ bank' \in BankType /\ \A i \in Token : bank'[i][PAIR] = bank[i][PAIR]
             /\ grid.total_shares > 0 =>
                  grid.total_shares * value_of(bank', dex.twap)
                    >= (grid.total_shares + earned) * value_of(bank, dex.twap)
             /\ grid.total_shares = 0 =>
                  value_of(bank, dex.twap) + earned <= value_of(bank', dex.twap)
<1>1. grid \in GridType /\ bank \in BankType /\ dex.twap \in Nat \ {0}
  BY WorldFields DEF Typed
<1>2. /\ bank' = Moved(bank, tok, u, GRID, amt) /\ amt \in Nat /\ amt <= bank[tok][u]
      /\ grid' = mint(grid, u, deposit_shares(amt, tok, dex.twap, holdings_in(bank'), grid.total_shares))
  <2>1. u \in Account
    BY DEF Account
  <2>2. bank[tok][u] \in Nat
    BY <1>1, <2>1 DEF BankType
  <2> QED BY <2>2, MarketGridAssumption DEF execute_receive
<1>3. u \in Account /\ GRID \in Account /\ u # GRID /\ PAIR \in Account /\ PAIR # u /\ PAIR # GRID
  BY ActorAssumption DEF Account, GRID, PAIR
<1>4. /\ bank' \in BankType /\ bank'[tok][GRID] = bank[tok][GRID] + amt
      /\ \A i \in Token \ {tok} : bank'[i] = bank[i]
      /\ \A i \in Token : bank'[i][PAIR] = bank[i][PAIR]
  BY <1>1, <1>2, <1>3, MovedBank
<1> DEFINE h == holdings_in(bank)
           g == holdings_in(bank')
           s == grid.total_shares
           earned == deposit_shares(amt, tok, dex.twap, g, s)
<1>5. /\ h \in Holdings /\ g \in Holdings
      /\ \A i \in Token : h[i] = bank[i][GRID] /\ g[i] = bank'[i][GRID]
  BY <1>1, <1>4, HoldingsIn
<1> HIDE DEF g, h
<1>6. g = [h EXCEPT ![tok] = h[tok] + amt]
  <2>1. \A i \in {0, 1} : g[i] = IF i = tok THEN h[tok] + amt ELSE h[i]
    BY <1>4, <1>5 DEF Token
  <2> QED BY <1>5, <2>1 DEF Holdings, Token
<1>7. s \in Nat
  BY <1>1, GridFields
<1>8. /\ earned \in Nat
      /\ s > 0 => s * nav(g, dex.twap) >= (s + earned) * nav(h, dex.twap)
      /\ s = 0 => nav(h, dex.twap) + earned <= nav(g, dex.twap)
  <2>1. tok \in {0, 1}
    BY DEF Token
  <2> QED BY <1>1, <1>2, <1>5, <1>6, <1>7, <2>1, GridDepositFair
<1> QED BY <1>2, <1>4, <1>8 DEF value_of, g, h

LEMMA DepositKept ==
  ASSUME Typed, Sound(World), NEW u \in Users, NEW tok \in Token, NEW amt \in DepositAmounts,
         execute_receive(u, tok, amt)
  PROVE  Kept
<1> DEFINE earned == deposit_shares(amt, tok, dex.twap, holdings_in(bank'), grid.total_shares)
<1>1. /\ grid \in GridType /\ collector \in CollectorType /\ bank \in BankType
      /\ dex \in [twap : Nat \ {0}, code : Nat] /\ registry \in RegistryType
      /\ cl8y \in Cl8yType /\ minted \in Nat
  BY WorldFields DEF Typed
<1>2. /\ earned \in Nat /\ grid' = mint(grid, u, earned)
      /\ bank' \in BankType /\ \A i \in Token : bank'[i][PAIR] = bank[i][PAIR]
  BY DepositStep
<1>3. UNCHANGED <<collector, dex, registry, cl8y, minted>>
  BY DEF execute_receive
<1> HIDE DEF earned
<1>4. u \in Account /\ Collector \in Account /\ Collector # u
  BY ActorAssumption DEF Account
<1>5. /\ grid' \in GridType /\ LedgerOK(grid') /\ grid'.shares[Collector] = grid.shares[Collector]
      /\ grid'.pending = grid.pending /\ grid'.config = grid.config
      /\ grid'.admin = grid.admin /\ grid'.pending_admin = grid.pending_admin
  <2>1. LedgerOK(grid)
    BY SoundParts
  <2> DEFINE m == mint(grid, u, earned)
  <2>2. u \in Account /\ earned \in Nat /\ grid \in GridType
    BY <1>1, <1>2, <1>4
  <2>3. /\ m \in GridType /\ LedgerOK(m)
        /\ \A x \in Account \ {u} : m.shares[x] = grid.shares[x]
        /\ m.pending = grid.pending /\ m.config = grid.config
        /\ m.admin = grid.admin /\ m.pending_admin = grid.pending_admin
    BY <2>1, <2>2, MintLedger
  <2> HIDE DEF m
  <2>4. m.shares[Collector] = grid.shares[Collector]
    BY <1>4, <2>3
  <2>5. grid' = m
    BY <1>2 DEF m
  <2> QED BY <2>3, <2>4, <2>5
<1>6. World' \in WorldType /\ Sound(World')
  BY <1>1, <1>2, <1>3, <1>5, SoundParts, WorldKept
<1> QED BY <1>1, <1>2, <1>5, <1>6, BankAtPair DEF Kept

\* A burn with its payout: what a withdrawal, a redemption and a collection do.
LEMMA BurnStep ==
  ASSUME Typed, Sound(World), NEW owner \in Account, NEW to \in Users \cup {Treasury},
         NEW n \in Nat, n \in 1..grid.shares[owner], n <= grid.total_shares,
         bank' = paid_out(claims_of(n), to), grid' = burn(grid, owner, n)
  PROVE  /\ bank' \in BankType /\ grid' \in GridType /\ LedgerOK(grid')
         /\ \A i \in Token : bank'[i][PAIR] = bank[i][PAIR]
         /\ grid'.shares[owner] = grid.shares[owner] - n
         /\ \A x \in Account \ {owner} : grid'.shares[x] = grid.shares[x]
         /\ grid'.pending = grid.pending /\ grid'.config = grid.config
         /\ grid'.admin = grid.admin /\ grid'.pending_admin = grid.pending_admin
         /\ grid'.total_shares = grid.total_shares - n
         /\ \A i \in Token : bank'[i][GRID] * grid.total_shares
                               >= bank[i][GRID] * grid'.total_shares
<1>1. grid \in GridType /\ bank \in BankType
  BY WorldFields DEF Typed
<1>2. grid.shares[owner] \in Nat /\ grid.total_shares \in Nat
  BY <1>1, GridFields
<1>3. n <= grid.shares[owner] /\ grid.total_shares > 0
  BY <1>2
<1> DEFINE m == paid_out(claims_of(n), to)
           b == burn(grid, owner, n)
<1>4. /\ m \in BankType /\ \A i \in Token : m[i][PAIR] = bank[i][PAIR]
      /\ \A i \in Token : m[i][GRID] * grid.total_shares >= bank[i][GRID] * (grid.total_shares - n)
  BY <1>1, <1>3, PaidOut
<1>5. LedgerOK(grid)
  BY SoundParts
<1>6. /\ b \in GridType /\ LedgerOK(b) /\ b.total_shares = grid.total_shares - n
      /\ b.shares[owner] = grid.shares[owner] - n
      /\ \A x \in Account \ {owner} : b.shares[x] = grid.shares[x]
      /\ b.pending = grid.pending /\ b.config = grid.config
      /\ b.admin = grid.admin /\ b.pending_admin = grid.pending_admin
  BY <1>1, <1>3, <1>5, BurnLedger
<1>7. bank' = m /\ grid' = b
  OBVIOUS
<1> HIDE DEF m, b
<1> QED BY <1>4, <1>6, <1>7

LEMMA BurnKept ==
  ASSUME Typed, Sound(World), NEW owner \in Account, owner # Collector,
         NEW to \in Users \cup {Treasury},
         NEW n \in Nat, n \in 1..grid.shares[owner], n <= grid.total_shares,
         bank' = paid_out(claims_of(n), to), grid' = burn(grid, owner, n),
         UNCHANGED <<collector, dex, registry, cl8y, minted>>
  PROVE  Kept
<1>1. /\ collector \in CollectorType /\ bank \in BankType
      /\ dex \in [twap : Nat \ {0}, code : Nat] /\ registry \in RegistryType
      /\ cl8y \in Cl8yType /\ minted \in Nat
  BY WorldFields DEF Typed
<1>2. /\ bank' \in BankType /\ grid' \in GridType /\ LedgerOK(grid')
      /\ \A i \in Token : bank'[i][PAIR] = bank[i][PAIR]
      /\ grid'.shares[Collector] = grid.shares[Collector]
      /\ grid'.pending = grid.pending /\ grid'.config = grid.config
      /\ grid'.admin = grid.admin /\ grid'.pending_admin = grid.pending_admin
  <2>1. Collector \in Account \ {owner}
    BY DEF Account
  <2> QED BY <2>1, BurnStep
<1>3. World' \in WorldType /\ Sound(World')
  BY <1>1, <1>2, SoundParts, WorldKept
<1> QED BY <1>1, <1>2, <1>3, BankAtPair DEF Kept

LEMMA WithdrawIsBurn ==
  ASSUME Typed, NEW u \in Users, NEW shares \in ShareAmounts, NEW to \in Users,
         execute_withdraw(u, shares, to)
  PROVE  /\ shares \in Nat /\ shares \in 1..grid.shares[u] /\ shares <= grid.total_shares
         /\ bank' = paid_out(claims_of(shares), to) /\ grid' = burn(grid, u, shares)
         /\ UNCHANGED <<collector, dex, registry, cl8y, minted>>
BY MarketGridAssumption DEF execute_withdraw

LEMMA RedeemIsBurn ==
  ASSUME Typed, NEW u \in Users, NEW to, execute_redeem_shares(u, to)
  PROVE  LET n == grid.shares[u]
         IN  /\ n \in Nat /\ n \in 1..grid.shares[u] /\ n <= grid.total_shares
             /\ bank' = paid_out(claims_of(n), to) /\ grid' = burn(grid, u, n)
             /\ UNCHANGED <<collector, dex, registry, cl8y, minted>>
<1>1. grid.shares[u] \in Nat /\ grid.total_shares \in Nat
  BY WorldFields, GridFields DEF Typed, Account
<1>2. redeem_allowed(u) /\ redeemed(u, to) /\ UNCHANGED <<collector, dex, registry, cl8y, minted>>
  BY DEF execute_redeem_shares
<1>3. grid.shares[u] \in 1..grid.total_shares
  BY <1>2 DEF redeem_allowed
<1>4. bank' = paid_out(claims_of(grid.shares[u]), to) /\ grid' = burn(grid, u, grid.shares[u])
  BY <1>2 DEF redeemed
<1>5. grid.shares[u] \in 1..grid.shares[u] /\ grid.shares[u] <= grid.total_shares
  BY <1>1, <1>3
<1> QED BY <1>1, <1>2, <1>4, <1>5

LEMMA CollectIsBurn ==
  ASSUME Typed, NEW u \in Users, execute_collect(u)
  PROVE  LET n == grid.shares[Collector]
         IN  /\ n \in Nat /\ n \in 1..grid.shares[Collector] /\ n <= grid.total_shares
             /\ bank' = paid_out(claims_of(n), Treasury) /\ grid' = burn(grid, Collector, n)
             /\ collector' = [collector EXCEPT !.vault_shares = collector.vault_shares + n]
             /\ UNCHANGED <<dex, registry, cl8y, minted>>
<1>1. grid.shares[Collector] \in Nat /\ grid.total_shares \in Nat
  BY WorldFields, GridFields DEF Typed, Account
<1>2. /\ redeem_allowed(Collector) /\ redeemed(Collector, Treasury)
      /\ UNCHANGED <<dex, registry, cl8y, minted>>
      /\ collector' = [collector EXCEPT !.vault_shares = collector.vault_shares + grid.shares[Collector]]
  BY DEF execute_collect, collector_redeems
<1>3. grid.shares[Collector] \in 1..grid.total_shares
  BY <1>2 DEF redeem_allowed
<1>4. /\ bank' = paid_out(claims_of(grid.shares[Collector]), Treasury)
      /\ grid' = burn(grid, Collector, grid.shares[Collector])
  BY <1>2 DEF redeemed
<1>5. /\ grid.shares[Collector] \in 1..grid.shares[Collector]
      /\ grid.shares[Collector] <= grid.total_shares
  BY <1>1, <1>3
<1> QED BY <1>1, <1>2, <1>4, <1>5

LEMMA CollectKept ==
  ASSUME Typed, Sound(World), NEW u \in Users, execute_collect(u)
  PROVE  Kept
<1> DEFINE n == grid.shares[Collector]
<1>1. /\ collector \in CollectorType /\ bank \in BankType
      /\ dex \in [twap : Nat \ {0}, code : Nat] /\ registry \in RegistryType
      /\ cl8y \in Cl8yType /\ minted \in Nat
  BY WorldFields DEF Typed
<1>2. /\ n \in Nat /\ n \in 1..grid.shares[Collector] /\ n <= grid.total_shares
      /\ bank' = paid_out(claims_of(n), Treasury) /\ grid' = burn(grid, Collector, n)
      /\ collector' = [collector EXCEPT !.vault_shares = collector.vault_shares + n]
      /\ UNCHANGED <<dex, registry, cl8y, minted>>
  BY CollectIsBurn
<1>3. /\ bank' \in BankType /\ grid' \in GridType /\ LedgerOK(grid')
      /\ \A i \in Token : bank'[i][PAIR] = bank[i][PAIR]
      /\ grid'.shares[Collector] = grid.shares[Collector] - n
      /\ grid'.pending = grid.pending /\ grid'.config = grid.config
      /\ grid'.admin = grid.admin /\ grid'.pending_admin = grid.pending_admin
  <2>1. Collector \in Account /\ Treasury \in Users \cup {Treasury}
    BY DEF Account
  <2> HIDE DEF n
  <2> QED BY <1>2, <2>1, BurnStep
<1>4. /\ collector' \in CollectorType
      /\ collector'.vault_shares = collector.vault_shares + n
  <2> HIDE DEF n
  <2> QED BY <1>1, <1>2 DEF CollectorType
<1>5. collector'.vault_shares + grid'.shares[Collector] = minted'
  <2>1. collector.vault_shares + grid.shares[Collector] = minted
    BY SoundParts
  <2>2. collector.vault_shares \in Nat
    BY <1>1 DEF CollectorType
  <2>3. minted' = minted
    BY <1>2
  <2>4. collector'.vault_shares = collector.vault_shares + n /\ grid'.shares[Collector] = 0
    BY <1>2, <1>3, <1>4
  <2> QED BY <1>2, <2>1, <2>2, <2>3, <2>4
<1>6. World' \in WorldType /\ Sound(World')
  <2> HIDE DEF n
  <2> QED BY <1>1, <1>2, <1>3, <1>4, <1>5, SoundParts, WorldKept
<1> QED BY <1>1, <1>3, <1>6, BankAtPair DEF Kept

LEMMA FeeStepKept ==
  ASSUME Typed, Sound(World), FeeStep
  PROVE  Kept
<1>1. /\ grid \in GridType /\ collector \in CollectorType /\ bank \in BankType
      /\ dex \in [twap : Nat \ {0}, code : Nat] /\ registry \in RegistryType
      /\ cl8y \in Cl8yType /\ minted \in Nat
  BY WorldFields DEF Typed
<1>2. RegistryNext /\ UNCHANGED <<grid, collector, bank, dex, minted>>
  BY DEF FeeStep
<1>3. RegistryOK(registry, cl8y)
  BY <1>1, SoundParts DEF RegistryOK
<1>4. registry' \in RegistryType /\ cl8y' \in Cl8yType /\ ReservedMarked(registry')
  BY <1>2, <1>3, RegistryStepOK DEF RegistryOK
<1>5. World' \in WorldType /\ Sound(World')
  BY <1>1, <1>2, <1>4, SoundParts, WorldKept
<1> QED BY <1>1, <1>2, <1>5, BankAtPair DEF Kept

\* A call of the administrator's that leaves the shares alone.
LEMMA AdminKept ==
  ASSUME Typed, Sound(World), GridOnly, grid' \in GridType,
         grid'.shares[Collector] = grid.shares[Collector], LedgerOK(grid'),
         grid'.pending = grid.pending, grid.pending # None => grid'.config = grid.config,
         grid'.pending_admin # grid'.admin
  PROVE  Kept
<1>1. /\ collector \in CollectorType /\ bank \in BankType
      /\ dex \in [twap : Nat \ {0}, code : Nat] /\ registry \in RegistryType
      /\ cl8y \in Cl8yType /\ minted \in Nat
  BY WorldFields DEF Typed
<1>2. UNCHANGED <<collector, bank, dex, registry, cl8y, minted>>
  BY DEF GridOnly
<1>3. World' \in WorldType /\ Sound(World')
  BY <1>1, <1>2, SoundParts, WorldKept
<1> QED BY <1>1, <1>2, <1>3, BankAtPair DEF Kept

LEMMA AdminCallKept ==
  ASSUME Typed, Sound(World), NEW u \in Users, AdminCall(u)
  PROVE  Kept
<1>1. /\ grid \in GridType /\ LedgerOK(grid) /\ grid.pending_admin # grid.admin
      /\ collector.vault_shares + grid.shares[Collector] = minted
  BY WorldFields, SoundParts DEF Typed
<1>2. ASSUME NEW c \in ConfigCalls, execute_update_config(u, c) PROVE Kept
  <2>1. c \in ValidConfig
    BY <1>2, MarketGridAssumption DEF execute_update_config, ValidConfig
  <2>2. grid' = [grid EXCEPT !.config = c] /\ GridOnly /\ grid.pending = None
    BY <1>2 DEF execute_update_config, no_pending_swap
  <2>3. /\ grid' \in GridType /\ grid'.shares = grid.shares /\ grid'.total_shares = grid.total_shares
        /\ grid'.pending = grid.pending /\ grid'.pending_admin = grid.pending_admin
        /\ grid'.admin = grid.admin
    BY <1>1, <2>1, <2>2 DEF GridType, ValidConfig
  <2> QED BY <1>1, <2>2, <2>3, AdminKept DEF LedgerOK
<1>3. ASSUME NEW heir \in Users, execute_transfer_admin(u, heir) PROVE Kept
  <2>1. grid' = [grid EXCEPT !.pending_admin = heir] /\ GridOnly /\ heir # grid.admin
    BY <1>3 DEF execute_transfer_admin
  <2>2. /\ grid' \in GridType /\ grid'.shares = grid.shares /\ grid'.total_shares = grid.total_shares
        /\ grid'.pending = grid.pending /\ grid'.pending_admin = heir
        /\ grid'.admin = grid.admin /\ grid'.config = grid.config
    BY <1>1, <2>1 DEF GridType
  <2> QED BY <1>1, <2>1, <2>2, AdminKept DEF LedgerOK
<1>4. ASSUME execute_accept_admin(u) PROVE Kept
  <2> DEFINE g == handed_over(grid, u)
  <2>1. /\ grid' = [g EXCEPT !.admin = u, !.pending_admin = None] /\ GridOnly
        /\ grid.pending_admin = u
    BY <1>4 DEF execute_accept_admin
  <2>2. /\ g \in GridType /\ LedgerOK(g) /\ g.shares[Collector] = grid.shares[Collector]
        /\ g.pending = grid.pending /\ g.config = grid.config
    BY <1>1, <2>1, HandoverLedger
  <2> HIDE DEF g
  <2>3. /\ grid' \in GridType /\ grid'.shares = g.shares /\ grid'.total_shares = g.total_shares
        /\ grid'.pending = g.pending /\ grid'.pending_admin = None
        /\ grid'.admin = u /\ grid'.config = g.config
    BY <2>1, <2>2 DEF GridType
  <2>4. None # u
    BY MarketGridAssumption DEF Account
  <2> QED BY <2>1, <2>2, <2>3, <2>4, AdminKept DEF LedgerOK
<1>5. ASSUME execute_pause(u) \/ execute_resume(u) PROVE Kept
  <2>1. PICK paused \in BOOLEAN : grid' = [grid EXCEPT !.paused = paused] /\ GridOnly
    BY <1>5 DEF execute_pause, execute_resume
  <2>2. /\ grid' \in GridType /\ grid'.shares = grid.shares /\ grid'.total_shares = grid.total_shares
        /\ grid'.pending = grid.pending /\ grid'.pending_admin = grid.pending_admin
        /\ grid'.admin = grid.admin /\ grid'.config = grid.config
    BY <1>1, <2>1 DEF GridType
  <2> QED BY <1>1, <2>1, <2>2, AdminKept DEF LedgerOK
<1>6. ASSUME update_collector_config(u) PROVE Kept
  <2>1. collector' = [collector EXCEPT !.keeper = u] /\ UNCHANGED <<grid, bank, dex, registry, cl8y, minted>>
    BY <1>6 DEF update_collector_config
  <2>2. /\ collector \in CollectorType /\ bank \in BankType
        /\ dex \in [twap : Nat \ {0}, code : Nat] /\ registry \in RegistryType
        /\ cl8y \in Cl8yType /\ minted \in Nat
    BY WorldFields DEF Typed
  <2>3. collector' \in CollectorType /\ collector'.vault_shares = collector.vault_shares
    BY <2>1, <2>2 DEF CollectorType
  <2>4. World' \in WorldType /\ Sound(World')
    BY <1>1, <2>1, <2>2, <2>3, SoundParts, WorldKept
  <2> QED BY <2>1, <2>2, <2>4, BankAtPair DEF Kept
<1> QED BY <1>2, <1>3, <1>4, <1>5, <1>6 DEF AdminCall

LEMMA CallKept ==
  ASSUME Typed, Sound(World), Call
  PROVE  Kept
<1>1. ASSUME NEW u \in Users, ShareCall(u) PROVE Kept
  <2>1. u \in Account /\ u # Collector
    BY ActorAssumption DEF Account
  <2>2. ASSUME NEW tok \in Token, NEW amt \in DepositAmounts,
               execute_receive(u, tok, amt) \/ Donate(u, tok, amt)
        PROVE  Kept
    BY <2>2, DepositKept, DonateKept
  <2>3. ASSUME NEW shares \in ShareAmounts, NEW to \in Users, execute_withdraw(u, shares, to)
        PROVE  Kept
    <3>1. /\ shares \in Nat /\ shares \in 1..grid.shares[u] /\ shares <= grid.total_shares
          /\ bank' = paid_out(claims_of(shares), to) /\ grid' = burn(grid, u, shares)
          /\ UNCHANGED <<collector, dex, registry, cl8y, minted>>
      BY <2>3, WithdrawIsBurn
    <3> QED BY <2>1, <3>1, BurnKept
  <2>4. ASSUME execute_redeem_shares(u, u) PROVE Kept
    <3> DEFINE n == grid.shares[u]
    <3>1. /\ n \in Nat /\ n \in 1..grid.shares[u] /\ n <= grid.total_shares
          /\ bank' = paid_out(claims_of(n), u) /\ grid' = burn(grid, u, n)
          /\ UNCHANGED <<collector, dex, registry, cl8y, minted>>
      BY <2>4, RedeemIsBurn
    <3> HIDE DEF n
    <3> QED BY <2>1, <3>1, BurnKept
  <2>5. ASSUME execute_collect(u) PROVE Kept
    BY <2>5, CollectKept
  <2> QED BY <1>1, <2>2, <2>3, <2>4, <2>5 DEF ShareCall
<1> QED BY <1>1, FeeStepKept, AdminCallKept DEF Call

-----------------------------------------------------------------------------
(* The rebalance. *)

LEMMA ChargedBps ==
  ASSUME NEW g \in GridType, RegistryOK(registry, cl8y), NEW reached \in BOOLEAN
  PROVE  /\ charged_bps(g, reached) \in 0..BPS
         /\ with_cache(g, reached) \in GridType
         /\ with_cache(g, reached).shares = g.shares
         /\ with_cache(g, reached).total_shares = g.total_shares
         /\ with_cache(g, reached).pending = g.pending /\ with_cache(g, reached).config = g.config
         /\ with_cache(g, reached).admin = g.admin
         /\ with_cache(g, reached).pending_admin = g.pending_admin
         /\ with_cache(g, reached).fee_cache \in [Account -> (0..BPS) \cup {None}]
         /\ charged_bps(g, reached) =
              IF with_cache(g, reached).fee_cache[g.admin] = None THEN UNDISCOUNTED_FEE_BPS
              ELSE with_cache(g, reached).fee_cache[g.admin]
<1> DEFINE w == with_cache(g, reached)
           bps == charged_bps(g, reached)
<1>1. /\ g.admin \in Users /\ g.admin \in Account /\ g.fee_cache \in [Account -> (0..BPS) \cup {None}]
  BY GridFields DEF Account
<1>2. None \notin 0..BPS
  <2>1. None \notin Nat
    BY RegistryAssumption
  <2>2. 0..BPS \subseteq Nat
    BY BpsPositive
  <2> QED BY <2>1, <2>2
<1>3. CASE reached
  <2>1. query_effective_fee(g.admin) \in Nat
    BY <1>1, EffectiveFeeInNat, MarketGridAssumption
  <2>2. bps = Least(query_effective_fee(g.admin), BPS)
    BY <1>3 DEF charged_bps
  <2>3. bps \in 0..BPS
    <3>1. \A q \in Nat : Least(q, BPS) \in 0..BPS
      BY BpsPositive DEF Least
    <3> QED BY <2>1, <2>2, <3>1
  <2>4. w = [g EXCEPT !.fee_cache[g.admin] = bps]
    <3>1. charged_bps(g, TRUE) = bps
      BY <1>3
    <3> QED BY <1>3, <3>1 DEF with_cache
  <2> HIDE DEF bps
  <2>5. /\ w \in GridType /\ w.shares = g.shares /\ w.total_shares = g.total_shares
        /\ w.pending = g.pending /\ w.config = g.config /\ w.admin = g.admin
        /\ w.pending_admin = g.pending_admin /\ w.fee_cache[g.admin] = bps
        /\ w.fee_cache \in [Account -> (0..BPS) \cup {None}]
    BY <1>1, <2>3, <2>4 DEF GridType
  <2>6. bps # None
    BY <1>2, <2>3
  <2> HIDE DEF w
  <2> QED BY <2>3, <2>5, <2>6 DEF w, bps
<1>4. CASE ~reached
  <2>1. w = g
    BY <1>4 DEF with_cache
  <2>2. bps = IF g.fee_cache[g.admin] = None THEN UNDISCOUNTED_FEE_BPS ELSE g.fee_cache[g.admin]
    BY <1>4 DEF charged_bps
  <2>3. bps \in 0..BPS
    BY <1>1, <2>2, MarketGridAssumption
  <2> QED BY <1>1, <2>1, <2>2, <2>3
<1> QED BY <1>3, <1>4

\* What the settlement of a trade charges (charge_fee): at most the fee on the
\* proceeds, at the value of a share after the mint.
LEMMA FeeCharged ==
  ASSUME NEW g \in GridType, LedgerOK(g), RegistryOK(registry, cl8y), NEW reached \in BOOLEAN,
         NEW value \in Nat, NEW asset_value \in Nat
  PROVE  LET h == charge_fee(g, value, asset_value, reached)
             bps == IF h.fee_cache[g.admin] = None THEN UNDISCOUNTED_FEE_BPS
                    ELSE h.fee_cache[g.admin]
         IN  /\ h \in GridType /\ LedgerOK(h)
             /\ h.pending = g.pending /\ h.config = g.config /\ h.admin = g.admin
             /\ h.pending_admin = g.pending_admin
             /\ h.shares[Collector] >= g.shares[Collector]
             /\ h.total_shares >= g.total_shares
             /\ (h.total_shares - g.total_shares) * asset_value
                  <= checked_ratio(value, bps, BPS) * h.total_shares
<1> DEFINE h == charge_fee(g, value, asset_value, reached)
           bps == IF h.fee_cache[g.admin] = None THEN UNDISCOUNTED_FEE_BPS ELSE h.fee_cache[g.admin]
           to == g.config.fee_collector
           fee == checked_ratio(value, charged_bps(g, reached), BPS)
           n == fee_shares_for_value(fee, asset_value, g.total_shares)
           w == with_cache(g, reached)
<1>1. /\ g.total_shares \in Nat /\ g.shares \in [Account -> Nat] /\ g.admin \in Account
      /\ g.config.fee_collector \in Account \cup {None} /\ Collector \in Account
      /\ g.fee_cache \in [Account -> (0..BPS) \cup {None}]
  BY GridFields DEF ValidConfig, GridConfig, Account
<1>2. BPS \in Nat /\ BPS > 0
  BY BpsPositive
<1>3. CASE ~fee_due(g, value)
  <2>1. h = g
    BY <1>3 DEF charge_fee
  <2> HIDE DEF h
  <2>2. bps \in 0..BPS
    BY <1>1, <2>1, MarketGridAssumption
  <2> HIDE DEF bps
  <2>3. bps \in Nat
    BY <1>2, <2>2
  <2>4. checked_ratio(value, bps, BPS) \in Nat
    BY <1>2, <2>3, FloorRatio
  <2>5. g.total_shares - g.total_shares = 0 /\ 0 * asset_value = 0
        /\ checked_ratio(value, bps, BPS) * g.total_shares \in Nat
    BY <1>1, <2>4
  <2>6. g.shares[Collector] >= g.shares[Collector] /\ g.total_shares >= g.total_shares
    BY <1>1
  <2> QED BY <2>1, <2>5, <2>6 DEF h, bps
<1>4. CASE fee_due(g, value)
  <2>1. to \in Account
    BY <1>1, <1>4 DEF fee_due
  <2>2. /\ charged_bps(g, reached) \in 0..BPS /\ w \in GridType /\ w.shares = g.shares
        /\ w.total_shares = g.total_shares
        /\ w.pending = g.pending /\ w.config = g.config /\ w.admin = g.admin
        /\ w.pending_admin = g.pending_admin
        /\ charged_bps(g, reached) = IF w.fee_cache[g.admin] = None THEN UNDISCOUNTED_FEE_BPS
                                     ELSE w.fee_cache[g.admin]
    BY ChargedBps
  <2>3. h = mint(w, to, n)
    BY <1>4 DEF charge_fee
  <2>4. fee \in Nat
    <3>1. charged_bps(g, reached) \in Nat
      BY <1>2, <2>2
    <3> QED BY <1>2, <3>1, FloorRatio
  <2> HIDE DEF fee
  <2>5. n \in Nat /\ n * asset_value <= fee * (g.total_shares + n)
    BY <1>1, <2>4, FeeSharesFair
  <2> HIDE DEF n, w, h, to
  <2>6. LedgerOK(w)
    BY <2>2 DEF LedgerOK
  <2>7. /\ h \in GridType /\ LedgerOK(h) /\ h.total_shares = g.total_shares + n
        /\ h.shares[to] = g.shares[to] + n
        /\ \A x \in Account \ {to} : h.shares[x] = g.shares[x]
        /\ h.pending = g.pending /\ h.config = g.config /\ h.admin = g.admin
        /\ h.pending_admin = g.pending_admin /\ h.fee_cache = w.fee_cache
    <3> DEFINE m == mint(w, to, n)
    <3>1. /\ m \in GridType /\ LedgerOK(m) /\ m.total_shares = w.total_shares + n
          /\ m.shares[to] = w.shares[to] + n
          /\ \A x \in Account \ {to} : m.shares[x] = w.shares[x]
          /\ m.pending = w.pending /\ m.config = w.config /\ m.admin = w.admin
          /\ m.pending_admin = w.pending_admin /\ m.fee_cache = w.fee_cache
      <4>1. w \in GridType /\ to \in Account /\ n \in Nat /\ LedgerOK(w)
        BY <2>1, <2>2, <2>5, <2>6
      <4> QED BY <4>1, MintLedger
    <3> HIDE DEF m
    <3>2. h = m
      BY <2>3 DEF m
    <3> QED BY <2>2, <3>1, <3>2
  <2>8. bps = charged_bps(g, reached)
    BY <2>2, <2>7
  <2>9. h.shares[Collector] >= g.shares[Collector]
    <3>1. CASE to = Collector
      BY <1>1, <2>5, <2>7, <3>1
    <3>2. CASE to # Collector
      BY <1>1, <2>7, <3>2
    <3> QED BY <3>1, <3>2
  <2>10. h.total_shares - g.total_shares = n /\ h.total_shares >= g.total_shares
    BY <1>1, <2>5, <2>7
  <2>11. checked_ratio(value, bps, BPS) = fee
    BY <2>8 DEF fee
  <2> HIDE DEF bps
  <2>12. (h.total_shares - g.total_shares) * asset_value
                  <= checked_ratio(value, bps, BPS) * h.total_shares
    BY <2>5, <2>7, <2>10, <2>11
  <2> QED BY <2>7, <2>9, <2>10, <2>12 DEF h, bps
<1> QED BY <1>3, <1>4

\* What a settled trade tells about the balances (validate_settlement).
LEMMA SettledTrade ==
  ASSUME Typed, swap # None, grid.pending = swap.planned, settlement_accepted
  PROVE  LET p == swap.planned
             ask == 1 - p.offer_index
         IN  /\ p.offer_index \in Token /\ ask \in Token /\ p.amount \in Nat \ {0}
             /\ p.captured_twap \in Nat \ {0} /\ p.min_return \in Nat
             /\ p.balances \in Holdings /\ balances \in Holdings
             /\ p.amount <= p.balances[p.offer_index]
             /\ balances[p.offer_index] = p.balances[p.offer_index] - p.amount
             /\ balances[ask] >= p.balances[ask] + p.min_return
             /\ balances[ask] - p.balances[ask] \in Nat
<1> DEFINE p == swap.planned
           ask == 1 - p.offer_index
           h == balances
<1>1. swap \in SwapType /\ bank \in BankType
  BY WorldFields DEF Typed
<1>2. p \in PendingSwap
  BY <1>1 DEF SwapType
<1>3. /\ p.offer_index \in Token /\ p.amount \in Nat \ {0}
      /\ p.captured_twap \in Nat \ {0} /\ p.min_return \in Nat /\ p.balances \in Holdings
  BY <1>2 DEF PendingSwap, Amounts, Token, Holdings
<1>4. ask \in Token
  BY <1>3 DEF Token
<1>5. h \in Holdings
  BY <1>1, HoldingsIn DEF balances
<1>6. validate_settlement(p, h)
  BY DEF settlement_accepted
<1> HIDE DEF p, h
<1>7. /\ p.amount <= p.balances[p.offer_index]
      /\ h[p.offer_index] = p.balances[p.offer_index] - p.amount
      /\ h[ask] >= p.balances[ask] + p.min_return
  BY <1>6 DEF validate_settlement
<1> HIDE DEF ask
<1>8. h[ask] - p.balances[ask] \in Nat
  <2>1. h[ask] \in Nat /\ p.balances[ask] \in Nat
    BY <1>3, <1>4, <1>5 DEF Holdings, Token
  <2> QED BY <1>3, <1>7, <2>1
<1> QED BY <1>3, <1>4, <1>5, <1>7, <1>8 DEF p, h, ask

\* The vault's reply: the slot is empty, the ledger adds up, and the fee is
\* bounded.
LEMMA ReplyStep ==
  ASSUME GridInv, swap # None, settlement_accepted, NEW reached \in BOOLEAN,
         grid' = settled_grid(reached)
  PROVE  LET p == swap.planned
             ask == 1 - p.offer_index
             value == deposit_value(balances[ask] - p.balances[ask], ask, p.captured_twap)
             bps == IF grid'.fee_cache[grid.admin] = None THEN UNDISCOUNTED_FEE_BPS
                    ELSE grid'.fee_cache[grid.admin]
         IN  /\ grid' \in GridType /\ LedgerOK(grid') /\ grid'.pending = None
             /\ grid'.admin = grid.admin /\ grid'.pending_admin = grid.pending_admin
             /\ grid'.shares[Collector] >= grid.shares[Collector]
             /\ grid'.total_shares >= grid.total_shares
             /\ (grid'.total_shares - grid.total_shares) * value_of(bank, p.captured_twap)
                  <= checked_ratio(value, bps, BPS) * grid'.total_shares
<1> DEFINE p == swap.planned
           ask == 1 - p.offer_index
           diff == balances[ask] - p.balances[ask]
           value == deposit_value(diff, ask, p.captured_twap)
           total == nav(balances, p.captured_twap)
           ok == settled_deviation <= grid.config.allocation_tolerance_bps
           taken == cell_taken(grid, ok)
           g == slot_cleared(taken)
<1>1. /\ grid \in GridType /\ bank \in BankType /\ Typed /\ Sound(World) /\ grid.pending = p
  BY WorldFields DEF GridInv, Typed, Underway
<1>2. RegistryOK(registry, cl8y) /\ LedgerOK(grid)
  BY <1>1, WorldFields, SoundParts DEF RegistryOK, Typed
<1>3. /\ ask \in Token /\ p.captured_twap \in Nat \ {0} /\ balances \in Holdings /\ diff \in Nat
  BY <1>1, SettledTrade
<1>4. value \in Nat /\ total \in Nat
  <2>1. total \in Nat
    BY <1>3, NavInNat DEF Holdings
  <2>2. value \in Nat
    <3>1. ask \in {0, 1}
      BY <1>3 DEF Token
    <3> HIDE DEF diff, ask
    <3> QED BY <1>3, <3>1, DepositValueInNat
  <2> QED BY <2>1, <2>2
<1>5. /\ taken \in GridType /\ taken.shares = grid.shares /\ taken.total_shares = grid.total_shares
      /\ taken.admin = grid.admin /\ taken.pending_admin = grid.pending_admin
      /\ taken.config = grid.config
  <2>1. CASE ~ok
    BY <1>1, <2>1 DEF cell_taken
  <2>2. CASE ok
    <3> DEFINE cell == grid_cell(p.captured_twap, grid.config)
    <3>1. cell \in 0..MAX_GRID_COUNT
      <4>1. grid.config \in ValidConfig /\ p.captured_twap \in Nat
        BY <1>1, <1>3, GridFields
      <4> QED BY <4>1, CellOfConfig
    <3>2. taken = [grid EXCEPT !.reference_price = p.captured_twap, !.last_cell = cell]
      BY <1>1, <2>2 DEF cell_taken
    <3> HIDE DEF cell, p
    <3> QED BY <1>1, <1>3, <3>1, <3>2 DEF GridType
  <2> QED BY <2>1, <2>2
<1> HIDE DEF taken
<1>6. /\ g \in GridType /\ g.shares = grid.shares /\ g.total_shares = grid.total_shares
      /\ g.admin = grid.admin /\ g.pending_admin = grid.pending_admin /\ g.pending = None
  BY <1>5 DEF slot_cleared, GridType
<1>7. grid' = charge_fee(g, value, total, reached)
  <2>1. proceeds_value = value
    BY <1>1 DEF proceeds_value, deposit_value
  <2>2. grid' = charge_fee(g, proceeds_value, total, reached)
    BY <1>1 DEF settled_grid, taken
  <2> HIDE DEF value, g, total
  <2> QED BY <2>1, <2>2
<1>8. LedgerOK(g)
  <2> HIDE DEF g
  <2> QED BY <1>2, <1>6 DEF LedgerOK
<1> HIDE DEF g, value, total
<1> DEFINE h == charge_fee(g, value, total, reached)
           bps == IF h.fee_cache[grid.admin] = None THEN UNDISCOUNTED_FEE_BPS
                  ELSE h.fee_cache[grid.admin]
<1>9. /\ h \in GridType /\ LedgerOK(h)
      /\ h.pending = g.pending /\ h.admin = g.admin /\ h.pending_admin = g.pending_admin
      /\ h.shares[Collector] >= g.shares[Collector]
      /\ h.total_shares >= g.total_shares
      /\ (h.total_shares - g.total_shares) * total <= checked_ratio(value, bps, BPS) * h.total_shares
  <2>1. bps = IF h.fee_cache[g.admin] = None THEN UNDISCOUNTED_FEE_BPS
              ELSE h.fee_cache[g.admin]
    BY <1>6
  <2> QED BY <1>2, <1>4, <1>6, <1>8, <2>1, FeeCharged
<1>10. total = value_of(bank, p.captured_twap)
  BY DEF total, value_of, balances
<1>11. grid' = h
  BY <1>7
<1> HIDE DEF h
<1> QED BY <1>6, <1>9, <1>10, <1>11 DEF value

-----------------------------------------------------------------------------
(* The invariant is inductive. *)

LEMMA InitGridInv == Init => GridInv
<1> SUFFICES ASSUME Init PROVE GridInv
  OBVIOUS
<1>1. PICK admin \in Users, keeper \in Users, m \in Markets :
         /\ grid = grid_instantiate(admin, m)
         /\ collector = collector_instantiate(keeper)
         /\ dex = [twap |-> m.twap, code |-> 1]
         /\ bank = [i \in Token |-> [a \in Account |->
                      CASE a = PAIR -> m.reserves[i]
                        [] a \in Users -> InitialTokens
                        [] OTHER -> 0]]
  BY DEF Init
<1>2. swap = None /\ minted = 0 /\ txs = 0 /\ RegistryInit
  BY DEF Init
<1> DEFINE zeros == [a \in Account |-> 0]
<1>3. m.twap \in Nat \ {0} /\ m.reserves \in [Token -> Nat]
  BY MarketGridAssumption DEF Amounts
<1>4. InitialConfig \in ValidConfig
  BY MarketGridAssumption DEF ValidConfig
<1> DEFINE cell == grid_cell(m.twap, InitialConfig)
<1>5. cell \in 0..MAX_GRID_COUNT
  <2>1. m.twap \in Nat
    BY <1>3
  <2> QED BY <1>4, <2>1, CellOfConfig
<1> HIDE DEF cell
<1>6. grid = [admin |-> admin, pending_admin |-> None, paused |-> FALSE, config |-> InitialConfig,
     pair_code_id |-> 1, reference_price |-> m.twap, last_cell |-> cell,
     pending |-> None, shares |-> zeros, total_shares |-> 0,
     fee_cache |-> [a \in Account |-> None]]
  BY <1>1 DEF grid_instantiate, cell
<1>7. grid \in GridType
  BY <1>3, <1>4, <1>5, <1>6 DEF GridType, ValidConfig
<1>8. collector \in CollectorType /\ collector.vault_shares = 0
  BY <1>1 DEF collector_instantiate, CollectorType
<1>9. bank \in BankType
  <2>1. \A i \in Token : m.reserves[i] \in Nat
    BY <1>3
  <2>2. InitialTokens \in Nat
    BY MarketGridAssumption
  <2> QED BY <1>1, <2>1, <2>2 DEF BankType
<1>10. dex \in [twap : Nat \ {0}, code : Nat]
  BY <1>1, <1>3
<1>11. RegistryOK(registry, cl8y)
  BY <1>2, RegistryInitOK
<1>12. World \in WorldType
  BY <1>2, <1>7, <1>8, <1>9, <1>10, <1>11 DEF World, WorldType, RegistryOK
<1>13. SumOver(zeros, Account) = 0
  <2>1. \A a \in Account : zeros[a] = 0
    OBVIOUS
  <2> HIDE DEF zeros
  <2> QED BY <2>1, AccountsFinite, SumZero
<1>14. grid.shares[Collector] = 0 /\ grid.pending_admin # grid.admin
  BY <1>6, MarketGridAssumption DEF Account
<1>15. Sound(World)
  <2>1. /\ World.grid = grid /\ World.collector = collector /\ World.registry = registry
        /\ World.minted = minted
    BY DEF World
  <2>2. grid.total_shares = SumOver(grid.shares, Account)
    <3> HIDE DEF zeros
    <3> QED BY <1>6, <1>13
  <2> QED BY <1>2, <1>8, <1>11, <1>14, <2>1, <2>2 DEF Sound, RegistryOK
<1>16. grid.pending = None
  BY <1>6
<1> QED BY <1>2, <1>12, <1>15, <1>16 DEF GridInv, Typed, Underway

LEMMA TurnStep ==
  ASSUME Typed, Turn
  PROVE  /\ txs' \in Nat /\ swap' \in SwapType \cup {None}
         /\ swap = None => swap' = None
         /\ swap # None => swap' # None /\ swap'.planned = swap.planned
         /\ before' = before
<1>1. CASE Idle /\ txs < MaxTxs /\ txs' = txs + 1 /\ UNCHANGED <<swap, before>>
  BY <1>1 DEF Typed, Idle
<1>2. CASE ~Idle /\ swap.hooks < MaxHooks
           /\ swap' = [swap EXCEPT !.hooks = @ + 1] /\ UNCHANGED <<before, txs>>
  <2>1. swap \in SwapType
    BY <1>2 DEF Typed, Idle
  <2>2. swap.hooks + 1 \in Nat
    BY <2>1 DEF SwapType
  <2>3. swap' \in SwapType /\ swap'.planned = swap.planned
    BY <1>2, <2>1, <2>2 DEF SwapType
  <2>4. None \notin SwapType
    BY NoneAssumption
  <2> QED BY <1>2, <2>1, <2>3, <2>4 DEF Typed, Idle
<1> QED BY <1>1, <1>2 DEF Turn

LEMMA KeptStep ==
  ASSUME GridInv, Call
  PROVE  GridInv'
<1>1. Typed /\ Sound(World) /\ Underway
  BY DEF GridInv
<1>2. Kept
  BY <1>1, CallKept
<1>3. /\ txs' \in Nat /\ swap' \in SwapType \cup {None}
      /\ swap = None => swap' = None
      /\ swap # None => swap' # None /\ swap'.planned = swap.planned
      /\ before' = before
  BY <1>1, TurnStep DEF Call
<1>4. CASE swap = None
  BY <1>1, <1>2, <1>3, <1>4 DEF GridInv, Typed, Underway, Kept
<1>5. CASE swap # None
  <2> DEFINE p == swap.planned
  <2>1. swap'.planned = p /\ before' = before /\ swap' # None
    BY <1>3, <1>5
  <2>2. /\ grid.pending = p /\ before \in WorldType /\ Sound(before) /\ before.grid.pending = None
        /\ bank[p.offer_index][PAIR] >= before.bank[p.offer_index][PAIR] + p.amount
        /\ p.min_return >= floor_after(
               expected_return(p.amount, p.offer_index, p.captured_twap),
               grid.config.max_execution_deviation_bps)
    BY <1>1, <1>5 DEF Underway
  <2>3. swap \in SwapType /\ p \in PendingSwap
    BY <1>1, <1>5 DEF Typed, SwapType
  <2>4. p.offer_index \in Token /\ p.amount \in Nat
    BY <2>3 DEF PendingSwap
  <2>5. p # None
    BY <2>3, NoneAssumption
  <2>6. grid'.pending = p /\ grid'.config = grid.config
    BY <1>2, <2>2, <2>5 DEF Kept
  <2>7. bank'[p.offer_index][PAIR] >= before.bank[p.offer_index][PAIR] + p.amount
    <3>1. bank'[p.offer_index][PAIR] >= bank[p.offer_index][PAIR]
      BY <1>2, <2>4 DEF Kept
    <3>2. /\ bank[p.offer_index][PAIR] \in Nat /\ bank'[p.offer_index][PAIR] \in Nat
          /\ before.bank[p.offer_index][PAIR] \in Nat
      <4>1. bank \in BankType /\ PAIR \in Account
        BY <1>1, WorldFields DEF Typed, Account
      <4>2. bank' \in BankType
        BY <1>2 DEF Kept, World, WorldType
      <4>3. before.bank \in BankType
        BY <2>2 DEF WorldType
      <4> QED BY <2>4, <4>1, <4>2, <4>3 DEF BankType
    <3> QED BY <2>2, <2>4, <3>1, <3>2
  <2> HIDE DEF p
  <2>8. Underway'
    BY <2>1, <2>2, <2>6, <2>7 DEF Underway
  <2> QED BY <1>2, <1>3, <2>8 DEF GridInv, Typed, Kept
<1> QED BY <1>4, <1>5

\* The trade execute_rebalance plans: typed, no more than the vault holds, and
\* with a least return that allows no more than the configured loss.
LEMMA PlanSound ==
  ASSUME Typed, NEW quote \in Nat
  PROVE  LET plan == rebalance_plan(quote)
         IN  /\ plan.offer_index \in Token /\ plan.amount \in Nat
             /\ plan.deviation_bps \in 0..BPS /\ plan.min_return \in Nat
             /\ plan.amount <= bank[plan.offer_index][GRID]
             /\ plan.min_return >= floor_after(
                    expected_return(plan.amount, plan.offer_index, dex.twap),
                    grid.config.max_execution_deviation_bps)
<1> DEFINE c == grid.config
           offer == grid_offer(balances, dex.twap, current_cell, c.count, c.max_trade_bps)
           deviation == grid_deviation(balances, dex.twap, c)
           fair == floor_after(expected_return(offer.amount, offer.index, dex.twap),
                               c.max_execution_deviation_bps)
           quoted == floor_after(quote, c.quote_slippage_bps)
           plan == rebalance_plan(quote)
<1>1. /\ grid \in GridType /\ bank \in BankType /\ dex.twap \in Nat \ {0} /\ dex.twap \in Nat
  BY WorldFields DEF Typed
<1>2. c \in ValidConfig
  BY <1>1, GridFields
<1>3. balances \in Holdings /\ \A i \in Token : balances[i] = bank[i][GRID]
  BY <1>1, HoldingsIn DEF balances
<1> HIDE DEF c
<1>4. /\ c.count \in Nat \ {0} /\ c.max_trade_bps \in Nat /\ c.max_trade_bps <= 5000
      /\ c.max_execution_deviation_bps \in Nat /\ c.max_execution_deviation_bps <= 1000
      /\ c.quote_slippage_bps \in Nat /\ c.quote_slippage_bps <= 1000
  BY <1>2, ConfigLimits
<1>5. current_cell \in Nat
  BY <1>1, <1>2, CellOfConfig DEF current_cell, c
<1>6. offer.index \in {0, 1} /\ offer.amount \in Nat /\ offer.amount <= balances[offer.index]
  <2> DEFINE h == balances
             price == dex.twap
             cell == current_cell
             count == c.count
             cap == c.max_trade_bps
             o == grid_offer(h, price, cell, count, cap)
  <2>1. offer = o
    OBVIOUS
  <2>2. /\ h \in Holdings /\ price \in Nat \ {0} /\ cell \in Nat /\ count \in Nat \ {0}
        /\ cap \in Nat /\ cap <= 5000
    BY <1>1, <1>3, <1>4, <1>5
  <2> HIDE DEF offer, h, price, cell, count, cap
  <2>3. o.index \in {0, 1} /\ o.amount \in Nat /\ o.amount <= h[o.index]
    BY <2>2, GridOfferBounded
  <2> QED BY <2>1, <2>3 DEF h
<1>7. deviation \in 0..BPS
  BY <1>1, <1>2, <1>3, GridDeviationInBps
<1>8. fair \in Nat /\ quoted \in Nat
  <2> DEFINE expected == expected_return(offer.amount, offer.index, dex.twap)
  <2>1. expected \in Nat
    BY <1>1, <1>6, ExpectedReturnInNat
  <2>2. fair \in Nat
    <3> HIDE DEF expected
    <3>1. floor_after(expected, c.max_execution_deviation_bps) \in Nat
      BY <1>4, <2>1, FloorAfterInNat
    <3> QED BY <3>1 DEF expected
  <2>3. quoted \in Nat
    BY <1>4, FloorAfterInNat
  <2> QED BY <2>2, <2>3
<1>9. Greatest(fair, quoted) \in Nat /\ Greatest(fair, quoted) >= fair
  <2> HIDE DEF fair, quoted
  <2> QED BY <1>8 DEF Greatest
<1>10. /\ plan.offer_index = offer.index /\ plan.amount = offer.amount
       /\ plan.deviation_bps = deviation /\ plan.min_return = Greatest(fair, quoted)
  BY DEF rebalance_plan, c
<1> HIDE DEF plan, offer, deviation, quoted
<1>11. plan.min_return >= floor_after(expected_return(plan.amount, plan.offer_index, dex.twap),
                                      c.max_execution_deviation_bps)
  BY <1>9, <1>10
<1> QED BY <1>3, <1>6, <1>7, <1>9, <1>10, <1>11 DEF Token, plan, c

LEMMA RebalanceStep ==
  ASSUME GridInv, NEW quote \in Returns, execute_rebalance(quote)
  PROVE  /\ GridInv' /\ grid'.total_shares = grid.total_shares /\ swap' # None
<1> DEFINE plan == rebalance_plan(quote)
           planned == [captured_twap |-> dex.twap, balances |-> balances,
                       pre_deviation_bps |-> plan.deviation_bps,
                       offer_index |-> plan.offer_index, amount |-> plan.amount,
                       min_return |-> plan.min_return]
           started == [planned |-> planned, hooks |-> 0, paid |-> None]
<1>1. /\ swap = None /\ txs' = txs + 1 /\ grid.pending = None /\ plan.amount # 0
      /\ grid' = [grid EXCEPT !.pending = planned]
      /\ bank' = Moved(bank, plan.offer_index, GRID, PAIR, plan.amount)
      /\ swap' = started /\ before' = World
      /\ UNCHANGED <<collector, dex, registry, cl8y, minted>>
  BY DEF execute_rebalance, Idle, no_pending_swap
<1>2. Typed /\ Sound(World) /\ World \in WorldType /\ txs \in Nat
  BY DEF GridInv, Typed
<1>3. /\ grid \in GridType /\ collector \in CollectorType /\ bank \in BankType
      /\ dex \in [twap : Nat \ {0}, code : Nat] /\ registry \in RegistryType
      /\ cl8y \in Cl8yType /\ minted \in Nat
  BY <1>2, WorldFields
<1>4. /\ plan.offer_index \in Token /\ plan.amount \in Nat
      /\ plan.deviation_bps \in 0..BPS /\ plan.min_return \in Nat
      /\ plan.amount <= bank[plan.offer_index][GRID]
      /\ plan.min_return >= floor_after(
             expected_return(plan.amount, plan.offer_index, dex.twap),
             grid.config.max_execution_deviation_bps)
  BY <1>2, MarketGridAssumption, PlanSound
<1> HIDE DEF plan
<1>5. balances \in Holdings /\ balances \in Amounts
  BY <1>3, HoldingsIn DEF balances, Holdings, Amounts, Token
<1>6. planned \in PendingSwap
  BY <1>1, <1>3, <1>4, <1>5 DEF PendingSwap
<1>7. started \in SwapType /\ started # None /\ started.planned = planned
  <2>1. started \in SwapType
    BY <1>6 DEF SwapType
  <2>2. None \notin SwapType
    BY NoneAssumption
  <2> HIDE DEF started
  <2>3. started # None
    BY <2>1, <2>2
  <2> QED BY <2>1, <2>3 DEF started
<1>8. /\ planned.captured_twap = dex.twap /\ planned.offer_index = plan.offer_index
      /\ planned.amount = plan.amount /\ planned.min_return = plan.min_return
  OBVIOUS
<1> HIDE DEF planned, started
<1>9. /\ grid' \in GridType /\ grid'.shares = grid.shares /\ grid'.total_shares = grid.total_shares
      /\ grid'.pending = planned /\ grid'.config = grid.config
      /\ grid'.admin = grid.admin /\ grid'.pending_admin = grid.pending_admin
  BY <1>1, <1>3, <1>6 DEF GridType
<1>10. /\ bank' \in BankType
       /\ bank'[plan.offer_index][PAIR] = bank[plan.offer_index][PAIR] + plan.amount
  <2>1. GRID \in Account /\ PAIR \in Account /\ GRID # PAIR
    BY DEF Account, GRID, PAIR
  <2> QED BY <1>1, <1>3, <1>4, <2>1, MovedBank
<1>11. World' \in WorldType /\ Sound(World')
  <2>1. /\ ReservedMarked(registry) /\ LedgerOK(grid) /\ grid.pending_admin # grid.admin
        /\ collector.vault_shares + grid.shares[Collector] = minted
    BY <1>2, SoundParts
  <2>2. LedgerOK(grid')
    BY <1>9, <2>1 DEF LedgerOK
  <2> QED BY <1>1, <1>3, <1>9, <1>10, <2>1, <2>2, WorldKept
<1>12. Underway'
  <2>1. before' \in WorldType /\ Sound(before')
    BY <1>1, <1>2
  <2>2. before'.grid.pending = None /\ before'.bank = bank
    BY <1>1 DEF World
  <2>3. swap' # None /\ swap'.planned = planned
    BY <1>1, <1>7
  <2>4. bank'[planned.offer_index][PAIR] >= before'.bank[planned.offer_index][PAIR] + planned.amount
    <3>1. bank[plan.offer_index][PAIR] + plan.amount \in Nat
      BY <1>3, <1>4, BankAtPair
    <3> QED BY <1>8, <1>10, <2>2, <3>1
  <2>5. planned.min_return >= floor_after(
             expected_return(planned.amount, planned.offer_index, planned.captured_twap),
             grid'.config.max_execution_deviation_bps)
    BY <1>4, <1>8, <1>9
  <2> QED BY <1>9, <2>1, <2>2, <2>3, <2>4, <2>5 DEF Underway
<1>13. txs' \in Nat /\ swap' \in SwapType \cup {None}
  BY <1>1, <1>2, <1>7
<1> QED BY <1>1, <1>7, <1>9, <1>11, <1>12, <1>13 DEF GridInv, Typed

LEMMA PairPaysStep ==
  ASSUME GridInv, PairPays
  PROVE  GridInv' /\ grid' = grid /\ swap' # None
<1> DEFINE p == swap.planned
           ask == 1 - p.offer_index
<1>1. /\ swap # None
      /\ UNCHANGED <<grid, collector, dex, registry, cl8y, minted, before, txs>>
  BY DEF PairPays, Idle
<1>2. PICK r \in Returns : /\ r <= bank[ask][PAIR]
                           /\ bank' = Moved(bank, ask, PAIR, GRID, r)
                           /\ swap' = [swap EXCEPT !.paid = r]
  BY DEF PairPays
<1>3. Typed /\ Sound(World) /\ Underway /\ txs \in Nat /\ swap \in SwapType
  BY <1>1 DEF GridInv, Typed
<1>4. /\ grid \in GridType /\ collector \in CollectorType /\ bank \in BankType
      /\ dex \in [twap : Nat \ {0}, code : Nat] /\ registry \in RegistryType
      /\ cl8y \in Cl8yType /\ minted \in Nat
  BY <1>3, WorldFields DEF Typed
<1>5. r \in Nat
  BY MarketGridAssumption
<1>6. swap' \in SwapType /\ swap'.planned = p
  BY <1>2, <1>3, <1>5 DEF SwapType
<1>7. p \in PendingSwap /\ p.offer_index \in Token /\ ask \in Token /\ p.offer_index # ask
  BY <1>3 DEF SwapType, PendingSwap, Token
<1> HIDE DEF p, ask
<1>8. bank' \in BankType /\ bank'[p.offer_index] = bank[p.offer_index]
  <2>1. GRID \in Account /\ PAIR \in Account /\ GRID # PAIR
    BY DEF Account, GRID, PAIR
  <2> QED BY <1>2, <1>4, <1>5, <1>7, <2>1, MovedBank
<1>9. World' \in WorldType /\ Sound(World')
  BY <1>1, <1>3, <1>4, <1>8, SoundParts, WorldKept
<1>10. swap' # None
  BY <1>6, NoneAssumption
<1>11. Underway'
  BY <1>1, <1>3, <1>6, <1>8, <1>10 DEF Underway, p
<1> QED BY <1>1, <1>3, <1>6, <1>9, <1>10, <1>11 DEF GridInv, Typed

LEMMA SettleStep ==
  ASSUME GridInv, reply
  PROVE  GridInv'
<1>1. /\ swap # None /\ settlement_accepted
      /\ minted' = minted + (grid'.shares[Collector] - grid.shares[Collector])
      /\ swap' = None /\ UNCHANGED <<collector, bank, dex, registry, cl8y, txs>>
  BY DEF reply, Idle
<1>2. PICK reached \in BOOLEAN : grid' = settled_grid(reached)
  BY DEF reply
<1>3. /\ grid' \in GridType /\ LedgerOK(grid') /\ grid'.pending = None
      /\ grid'.admin = grid.admin /\ grid'.pending_admin = grid.pending_admin
      /\ grid'.shares[Collector] >= grid.shares[Collector]
  BY <1>1, <1>2, ReplyStep
<1>4. Typed /\ Sound(World) /\ txs \in Nat
  BY DEF GridInv, Typed
<1>5. /\ grid \in GridType /\ collector \in CollectorType /\ bank \in BankType
      /\ dex \in [twap : Nat \ {0}, code : Nat] /\ registry \in RegistryType
      /\ cl8y \in Cl8yType /\ minted \in Nat
  BY <1>4, WorldFields DEF Typed
<1>6. /\ ReservedMarked(registry) /\ grid.pending_admin # grid.admin
      /\ collector.vault_shares + grid.shares[Collector] = minted
  BY <1>4, SoundParts
<1>7. minted' \in Nat /\ collector'.vault_shares + grid'.shares[Collector] = minted'
  <2>1. /\ grid.shares[Collector] \in Nat /\ grid'.shares[Collector] \in Nat
        /\ collector.vault_shares \in Nat
    BY <1>3, <1>5, GridFields DEF CollectorType, Account
  <2>2. collector' = collector
    BY <1>1
  <2> QED BY <1>1, <1>3, <1>5, <1>6, <2>1, <2>2
<1>8. World' \in WorldType /\ Sound(World')
  BY <1>1, <1>3, <1>5, <1>6, <1>7, WorldKept
<1> QED BY <1>1, <1>3, <1>4, <1>8 DEF GridInv, Typed, Underway

LEMMA RevertStep ==
  ASSUME GridInv, Revert
  PROVE  /\ GridInv' /\ swap # None /\ bank' = before.bank
<1>1. /\ swap # None /\ swap' = None /\ txs' = txs
      /\ grid' = before.grid /\ collector' = before.collector /\ bank' = before.bank
      /\ dex' = before.dex /\ registry' = before.registry /\ cl8y' = before.cl8y
      /\ minted' = before.minted
  BY DEF Revert, Idle
<1>2. before \in WorldType /\ Sound(before) /\ before.grid.pending = None /\ txs \in Nat
  BY <1>1 DEF GridInv, Underway, Typed
<1>3. World' = before
  <2>1. before = [grid |-> before.grid, collector |-> before.collector, bank |-> before.bank,
                  dex |-> before.dex, registry |-> before.registry, cl8y |-> before.cl8y,
                  minted |-> before.minted]
    BY <1>2 DEF WorldType
  <2> QED BY <1>1, <2>1 DEF World
<1>4. World' \in WorldType /\ Sound(World')
  BY <1>2, <1>3
<1> QED BY <1>1, <1>2, <1>4 DEF GridInv, Typed, Underway

\* Other traders and the DEX only move the price, the reserves and the code.
LEMMA MarketStep ==
  ASSUME GridInv, MarketMove \/ PairMigrated
  PROVE  GridInv' /\ grid' = grid /\ swap = None
<1>1. /\ swap = None /\ UNCHANGED <<grid, collector, registry, cl8y, minted, swap, before, txs>>
  BY DEF MarketMove, PairMigrated, Idle
<1>2. Typed /\ Sound(World) /\ Underway /\ txs \in Nat
  BY DEF GridInv, Typed
<1>3. /\ grid \in GridType /\ collector \in CollectorType /\ bank \in BankType
      /\ dex \in [twap : Nat \ {0}, code : Nat] /\ registry \in RegistryType
      /\ cl8y \in Cl8yType /\ minted \in Nat
  BY <1>2, WorldFields DEF Typed
<1>4. bank' \in BankType /\ dex' \in [twap : Nat \ {0}, code : Nat]
  <2>1. CASE MarketMove
    <3>1. PICK m \in Markets : /\ dex' = [dex EXCEPT !.twap = m.twap]
                               /\ bank' = [i \in Token |-> [bank[i] EXCEPT ![PAIR] = m.reserves[i]]]
      BY <2>1 DEF MarketMove
    <3>2. m.twap \in Nat \ {0} /\ \A i \in Token : m.reserves[i] \in Nat
      BY MarketGridAssumption DEF Amounts
    <3> QED BY <1>3, <3>1, <3>2 DEF BankType
  <2>2. CASE PairMigrated
    <3>1. PICK code \in PairCodes : dex' = [dex EXCEPT !.code = code] /\ bank' = bank
      BY <2>2 DEF PairMigrated
    <3>2. code \in Nat
      BY MarketGridAssumption
    <3> QED BY <1>3, <3>1, <3>2
  <2> QED BY <2>1, <2>2
<1>5. World' \in WorldType /\ Sound(World')
  BY <1>1, <1>2, <1>3, <1>4, SoundParts, WorldKept
<1>6. Underway'
  BY <1>1, <1>2 DEF Underway
<1> QED BY <1>1, <1>2, <1>5, <1>6 DEF GridInv, Typed

LEMMA NextGridInv == GridInv /\ [Next]_mvars => GridInv'
<1> SUFFICES ASSUME GridInv, [Next]_mvars PROVE GridInv'
  OBVIOUS
<1>1. ASSUME Call PROVE GridInv'
  BY <1>1, KeptStep
<1>2. ASSUME Rebalance PROVE GridInv'
  <2>1. PICK quote \in Returns : execute_rebalance(quote)
    BY <1>2 DEF Rebalance
  <2> QED BY <2>1, RebalanceStep
<1>3. ASSUME PairPays PROVE GridInv'
  BY <1>3, PairPaysStep
<1>4. ASSUME reply PROVE GridInv'
  BY <1>4, SettleStep
<1>5. ASSUME Revert PROVE GridInv'
  BY <1>5, RevertStep
<1>6. ASSUME MarketMove \/ PairMigrated PROVE GridInv'
  BY <1>6, MarketStep
<1>7. ASSUME UNCHANGED mvars PROVE GridInv'
  BY <1>7 DEF mvars, contracts, GridInv, Typed, Underway, World, Sound
<1> QED BY <1>1, <1>2, <1>3, <1>4, <1>5, <1>6, <1>7 DEF Next

LEMMA GridAlwaysInv == Spec => []GridInv
BY InitGridInv, NextGridInv, PTL DEF Spec

-----------------------------------------------------------------------------
(* Consequences of the invariant. *)

\* Everything the contracts store is of its type, whatever the pair pays or
\* calls back and whichever step fails.
THEOREM GridTypeSafe == Spec => []TypeOK
<1>1. GridInv => TypeOK
  <2> SUFFICES ASSUME GridInv PROVE TypeOK
    OBVIOUS
  <2>1. Typed /\ Sound(World) /\ Underway /\ txs \in Nat /\ swap \in SwapType \cup {None}
    BY DEF GridInv, Typed
  <2>2. /\ grid \in GridType /\ collector \in CollectorType /\ bank \in BankType
        /\ dex \in [twap : Nat \ {0}, code : Nat] /\ registry \in RegistryType
        /\ cl8y \in Cl8yType /\ minted \in Nat
    BY <2>1, WorldFields DEF Typed
  <2>3. RegistryTypeOK
    BY <2>1, <2>2, SoundParts, RegistryTyped DEF RegistryOK
  <2>4. grid.pending = IF Idle THEN None ELSE swap.planned
    BY <2>1 DEF Underway, Idle
  <2> QED BY <2>1, <2>2, <2>3, <2>4 DEF TypeOK
<1> QED BY <1>1, GridAlwaysInv, PTL

\* The shares outstanding are the accounts' shares, through every mint, burn,
\* hand-over and undone transaction: the sum is over any finite set of
\* accounts.
THEOREM GridSharesAccounted == Spec => []SharesAccounted
<1>1. GridInv => SharesAccounted
  BY DEF GridInv, Sound, World, SumOver, SharesAccounted
<1> QED BY <1>1, GridAlwaysInv, PTL

\* Every fee share ever minted to the fee collector is in the vault's ledger or
\* in the collector's record of what it redeemed.
THEOREM GridFeesAccounted == Spec => []FeesAccountedFor
<1>1. GridInv => FeesAccountedFor
  BY DEF GridInv, Sound, World, FeesAccountedFor
<1> QED BY <1>1, GridAlwaysInv, PTL

LEMMA GridRegistryOK == GridInv => RegistryOK(registry, cl8y)
<1> SUFFICES ASSUME GridInv PROVE RegistryOK(registry, cl8y)
  OBVIOUS
<1>1. Typed /\ Sound(World)
  BY DEF GridInv
<1> QED BY <1>1, WorldFields, SoundParts DEF Typed, RegistryOK

\* What the registry promises holds too while a vault charges its fees and a
\* failed rebalance rolls the registry back.
THEOREM GridRegistrySafe ==
  Spec => [](ReservedTiersNeverApply /\ MoreCl8yNeverCostsMore)
<1>1. GridInv => ReservedTiersNeverApply /\ MoreCl8yNeverCostsMore
  BY GridRegistryOK, ReservedApart, MoreIsCheaper
<1> QED BY <1>1, GridAlwaysInv, PTL

-----------------------------------------------------------------------------
(* Nobody is diluted. *)

NotDiluted ==
  /\ grid.total_shares = 0 /\ grid'.total_shares > 0 =>
       value_of(bank, dex.twap) + grid'.total_shares <= value_of(bank', dex.twap)
  /\ grid.total_shares \in 1..(grid'.total_shares - 1) =>
       grid.total_shares * value_of(bank', dex.twap)
         >= grid'.total_shares * value_of(bank, dex.twap)
  /\ grid'.total_shares < grid.total_shares =>
       \A i \in Token : bank'[i][GRID] * grid.total_shares
                          >= bank[i][GRID] * grid'.total_shares

LEMMA SameShares ==
  ASSUME grid \in GridType, grid'.total_shares = grid.total_shares
  PROVE  NotDiluted
<1>1. grid.total_shares \in Nat
  BY GridFields
<1> QED BY <1>1 DEF NotDiluted

LEMMA BurnNotDiluted ==
  ASSUME Typed, Sound(World), NEW owner \in Account, NEW to \in Users \cup {Treasury},
         NEW n \in Nat, n \in 1..grid.shares[owner], n <= grid.total_shares,
         bank' = paid_out(claims_of(n), to), grid' = burn(grid, owner, n)
  PROVE  NotDiluted
<1>1. grid.total_shares \in Nat
  BY WorldFields, GridFields DEF Typed
<1>2. /\ grid'.total_shares = grid.total_shares - n
      /\ \A i \in Token : bank'[i][GRID] * grid.total_shares
                            >= bank[i][GRID] * grid'.total_shares
  BY BurnStep
<1>3. /\ ~(grid.total_shares \in 1..(grid'.total_shares - 1))
      /\ ~(grid.total_shares = 0 /\ grid'.total_shares > 0)
  BY <1>1, <1>2
<1> QED BY <1>2, <1>3 DEF NotDiluted

LEMMA DepositNotDiluted ==
  ASSUME Typed, NEW u \in Users, NEW tok \in Token, NEW amt \in DepositAmounts,
         execute_receive(u, tok, amt)
  PROVE  NotDiluted
<1> DEFINE earned == deposit_shares(amt, tok, dex.twap, holdings_in(bank'), grid.total_shares)
           s == grid.total_shares
<1>1. grid \in GridType /\ s \in Nat
  BY WorldFields, GridFields DEF Typed
<1>2. /\ earned \in Nat /\ grid' = mint(grid, u, earned)
      /\ s > 0 => s * value_of(bank', dex.twap) >= (s + earned) * value_of(bank, dex.twap)
      /\ s = 0 => value_of(bank, dex.twap) + earned <= value_of(bank', dex.twap)
  BY DepositStep
<1> HIDE DEF earned
<1>3. grid'.total_shares = s + earned
  BY <1>1, <1>2 DEF mint, GridType
<1>4. s \in 1..(grid'.total_shares - 1) => s > 0
  BY <1>1, <1>2, <1>3
<1>5. ~(grid'.total_shares < s) /\ (s = 0 => grid'.total_shares = earned)
  BY <1>1, <1>2, <1>3
<1> QED BY <1>2, <1>3, <1>4, <1>5 DEF NotDiluted

LEMMA AdminSameShares ==
  ASSUME grid \in GridType, NEW u, AdminCall(u)
  PROVE  grid'.total_shares = grid.total_shares
<1>1. ASSUME NEW c, execute_update_config(u, c) PROVE grid'.total_shares = grid.total_shares
  BY <1>1 DEF execute_update_config, GridType
<1>2. ASSUME NEW heir, execute_transfer_admin(u, heir)
      PROVE  grid'.total_shares = grid.total_shares
  BY <1>2 DEF execute_transfer_admin, GridType
<1>3. ASSUME execute_accept_admin(u) PROVE grid'.total_shares = grid.total_shares
  <2> DEFINE s == [a \in Account |->
        CASE a = grid.admin -> 0
          [] a = u /\ a # grid.admin -> grid.shares[u] + grid.shares[grid.admin]
          [] a # u /\ a # grid.admin -> grid.shares[a]]
  <2>1. grid' = [[grid EXCEPT !.shares = s] EXCEPT !.admin = u, !.pending_admin = None]
    BY <1>3 DEF execute_accept_admin, handed_over
  <2> HIDE DEF s
  <2> QED BY <2>1 DEF GridType
<1>4. ASSUME execute_pause(u) \/ execute_resume(u) \/ update_collector_config(u)
      PROVE  grid'.total_shares = grid.total_shares
  BY <1>4 DEF execute_pause, execute_resume, update_collector_config, GridType
<1> QED BY <1>1, <1>2, <1>3, <1>4 DEF AdminCall

LEMMA CallNotDiluted ==
  ASSUME GridInv, Call
  PROVE  NotDiluted
<1>1. Typed /\ Sound(World) /\ grid \in GridType
  BY WorldFields DEF GridInv, Typed
<1>2. ASSUME FeeStep PROVE NotDiluted
  <2>1. grid' = grid
    BY <1>2 DEF FeeStep
  <2> QED BY <1>1, <2>1, SameShares
<1>3. ASSUME NEW u \in Users, AdminCall(u) PROVE NotDiluted
  BY <1>1, <1>3, AdminSameShares, SameShares
<1>4. ASSUME NEW u \in Users, ShareCall(u) PROVE NotDiluted
  <2>1. u \in Account /\ Collector \in Account
    BY DEF Account
  <2>2. ASSUME NEW tok \in Token, NEW amt \in DepositAmounts, execute_receive(u, tok, amt)
        PROVE  NotDiluted
    BY <1>1, <2>2, DepositNotDiluted
  <2>3. ASSUME NEW tok \in Token, NEW amt \in DepositAmounts, Donate(u, tok, amt)
        PROVE  NotDiluted
    <3>1. grid' = grid
      BY <2>3 DEF Donate
    <3> QED BY <1>1, <3>1, SameShares
  <2>4. ASSUME NEW shares \in ShareAmounts, NEW to \in Users, execute_withdraw(u, shares, to)
        PROVE  NotDiluted
    <3>1. /\ shares \in Nat /\ shares \in 1..grid.shares[u] /\ shares <= grid.total_shares
          /\ bank' = paid_out(claims_of(shares), to) /\ grid' = burn(grid, u, shares)
      BY <1>1, <2>4, WithdrawIsBurn
    <3> QED BY <1>1, <2>1, <3>1, BurnNotDiluted
  <2>5. ASSUME execute_redeem_shares(u, u) PROVE NotDiluted
    <3> DEFINE n == grid.shares[u]
    <3>1. /\ n \in Nat /\ n \in 1..grid.shares[u] /\ n <= grid.total_shares
          /\ bank' = paid_out(claims_of(n), u) /\ grid' = burn(grid, u, n)
      BY <1>1, <2>5, RedeemIsBurn
    <3> HIDE DEF n
    <3> QED BY <1>1, <2>1, <3>1, BurnNotDiluted
  <2>6. ASSUME execute_collect(u) PROVE NotDiluted
    <3> DEFINE n == grid.shares[Collector]
    <3>1. /\ n \in Nat /\ n \in 1..grid.shares[Collector] /\ n <= grid.total_shares
          /\ bank' = paid_out(claims_of(n), Treasury) /\ grid' = burn(grid, Collector, n)
      BY <1>1, <2>6, CollectIsBurn
    <3> HIDE DEF n
    <3> QED BY <1>1, <2>1, <3>1, BurnNotDiluted
  <2> QED BY <1>4, <2>2, <2>3, <2>4, <2>5, <2>6 DEF ShareCall
<1> QED BY <1>2, <1>3, <1>4 DEF Call

\* A deposit outside of a swap takes no value from the shares there are and earns
\* no more than it adds where there are none, and no withdrawal or redemption
\* takes more than its part of either asset, for every balance and every price.
THEOREM GridNobodyDiluted == Spec => NobodyDiluted
<1> DEFINE A == /\ Idle /\ swap' = None /\ grid.total_shares = 0 /\ grid'.total_shares > 0 =>
                     value_of(bank, dex.twap) + grid'.total_shares <= value_of(bank', dex.twap)
                /\ Idle /\ swap' = None /\ grid.total_shares \in 1..(grid'.total_shares - 1) =>
                     grid.total_shares * value_of(bank', dex.twap)
                       >= grid'.total_shares * value_of(bank, dex.twap)
                /\ grid'.total_shares < grid.total_shares /\ Idle =>
                     \A i \in Token : bank'[i][GRID] * grid.total_shares
                                        >= bank[i][GRID] * grid'.total_shares
<1>1. GridInv /\ [Next]_mvars => A
  <2> SUFFICES ASSUME GridInv, [Next]_mvars PROVE A
    OBVIOUS
  <2>1. grid \in GridType
    BY WorldFields DEF GridInv, Typed
  <2>2. CASE Call
    BY <2>2, CallNotDiluted DEF NotDiluted
  <2>3. CASE Rebalance
    <3>1. PICK quote \in Returns : execute_rebalance(quote)
      BY <2>3 DEF Rebalance
    <3>2. NotDiluted
      BY <2>1, <3>1, RebalanceStep, SameShares
    <3> QED BY <3>2 DEF NotDiluted
  <2>4. CASE PairPays \/ reply \/ Revert
    BY <2>4 DEF PairPays, reply, Revert
  <2>5. CASE MarketMove \/ PairMigrated
    <3>1. NotDiluted
      BY <2>1, <2>5, MarketStep, SameShares
    <3> QED BY <3>1 DEF NotDiluted
  <2>6. CASE UNCHANGED mvars
    <3>1. NotDiluted
      BY <2>1, <2>6, SameShares DEF mvars, contracts
    <3> QED BY <3>1 DEF NotDiluted
  <2> QED BY <2>2, <2>3, <2>4, <2>5, <2>6 DEF Next
<1> QED BY <1>1, GridAlwaysInv, PTL DEF Spec, NobodyDiluted

-----------------------------------------------------------------------------
(* The settlement. *)

\* A Revert takes the offer back from the pair, so what leaves the balances as
\* they are is the vault's reply.
LEMMA OnlyReplySettles ==
  ASSUME GridInv, [Next]_mvars, Settles
  PROVE  reply
<1>1. swap # None /\ swap' = None /\ bank' = bank
  BY DEF Settles, Idle
<1>2. ~Call
  <2>1. Typed
    BY DEF GridInv
  <2> QED BY <1>1, <2>1, TurnStep DEF Call
<1>3. ~Rebalance /\ ~MarketMove /\ ~PairMigrated
  BY <1>1 DEF Rebalance, execute_rebalance, MarketMove, PairMigrated, Idle
<1>4. ~PairPays
  BY <1>1, PairPaysStep
<1>5. ~Revert
  <2> SUFFICES ASSUME Revert PROVE FALSE
    OBVIOUS
  <2> DEFINE p == swap.planned
  <2>1. bank = before.bank
    BY <1>1, RevertStep
  <2>2. bank[p.offer_index][PAIR] >= before.bank[p.offer_index][PAIR] + p.amount
    BY <1>1 DEF GridInv, Underway
  <2>3. p \in PendingSwap /\ bank \in BankType
    BY <1>1, WorldFields DEF GridInv, Typed, SwapType
  <2>4. bank[p.offer_index][PAIR] \in Nat /\ p.amount \in Nat \ {0}
    BY <2>3, BankAtPair DEF PendingSwap
  <2> QED BY <2>1, <2>2, <2>4
<1>6. ~UNCHANGED mvars
  BY <1>1 DEF mvars
<1> QED BY <1>2, <1>3, <1>4, <1>5, <1>6 DEF Next

\* The shares minted for the fee are worth, after the mint, no more than the fee
\* on the proceeds, with the registry's rate or the cached one.
THEOREM GridFeeNeverOverclaims == Spec => FeeNeverOverclaims
<1> DEFINE A == Settles =>
         LET p == swap.planned
             ask == 1 - p.offer_index
             proceeds == deposit_value(balances[ask] - p.balances[ask], ask, p.captured_twap)
             bps == IF grid'.fee_cache[grid.admin] = None THEN UNDISCOUNTED_FEE_BPS
                    ELSE grid'.fee_cache[grid.admin]
         IN  (grid'.total_shares - grid.total_shares) * value_of(bank, p.captured_twap)
               <= checked_ratio(proceeds, bps, BPS) * grid'.total_shares
<1>1. GridInv /\ [Next]_mvars => A
  <2> SUFFICES ASSUME GridInv, [Next]_mvars, Settles
               PROVE  LET p == swap.planned
                          ask == 1 - p.offer_index
                          proceeds == deposit_value(balances[ask] - p.balances[ask], ask,
                                                    p.captured_twap)
                          bps == IF grid'.fee_cache[grid.admin] = None THEN UNDISCOUNTED_FEE_BPS
                                 ELSE grid'.fee_cache[grid.admin]
                      IN  (grid'.total_shares - grid.total_shares) * value_of(bank, p.captured_twap)
                            <= checked_ratio(proceeds, bps, BPS) * grid'.total_shares
    OBVIOUS
  <2>1. reply
    BY OnlyReplySettles
  <2>2. swap # None /\ settlement_accepted
    BY <2>1 DEF reply, Idle
  <2>3. PICK reached \in BOOLEAN : grid' = settled_grid(reached)
    BY <2>1 DEF reply
  <2> QED BY <2>2, <2>3, ReplyStep
<1> QED BY <1>1, GridAlwaysInv, PTL DEF Spec, FeeNeverOverclaims

\* A trade of value v that returns at least what is left of e, the floor of
\* v / u, after a loss of l bps loses at most l bps of v and two units.
LEMMA LossArithmetic ==
  ASSUME NEW v \in Nat, NEW u \in Nat \ {0}, NEW l \in Nat, l <= 1000, NEW d \in Nat,
         NEW e \in Nat, v < (e + 1) * u, d >= floor_after(e, l)
  PROVE  (d * u + 2 * u) * BPS + v * l >= v * BPS
<1> DEFINE f == floor_after(e, l)
           k == BPS - l
<1>1. BPS \in Nat /\ BPS > 0 /\ k \in Nat /\ k <= BPS /\ k = BPS - l
  <2>1. l <= BPS
    BY DEF BPS
  <2> QED BY <2>1, BpsPositive
<1>2. e \in Nat /\ v < (e + 1) * u
  OBVIOUS
<1>3. f \in Nat /\ e * k < (f + 1) * BPS
  <2>1. checked_ratio(e, k, BPS) \in Nat /\ e * k < (checked_ratio(e, k, BPS) + 1) * BPS
    BY <1>1, <1>2, FloorRatio
  <2> QED BY <2>1 DEF floor_after
<1>4. d >= f
  OBVIOUS
<1> HIDE DEF f, k
<1> DEFINE b == BPS
<1>5. b \in Nat /\ b > 0 /\ k \in Nat /\ k <= b /\ k = b - l
  BY <1>1
<1> HIDE DEF b
<1>6. (f + 1) * b <= (d + 1) * b
  BY <1>3, <1>4, <1>5
<1>7. e * k <= (d + 1) * b
  <2>1. e * k < (f + 1) * b
    BY <1>3 DEF b
  <2>2. e * k \in Nat /\ (f + 1) * b \in Nat /\ (d + 1) * b \in Nat
    BY <1>2, <1>3, <1>5
  <2> QED BY <1>6, <2>1, <2>2
<1>8. (e * k) * u <= ((d + 1) * b) * u
  <2>1. e * k \in Nat /\ (d + 1) * b \in Nat
    BY <1>2, <1>5
  <2> QED BY <1>7, <2>1
<1>9. v * k <= ((e + 1) * u) * k
  BY <1>2, <1>5
<1>10. u * k <= u * b
  BY <1>5
<1>11. ((e + 1) * u) * k = (e * k) * u + u * k
  BY <1>2, <1>5
<1>12. ((d + 1) * b) * u = (d * u + u) * b /\ (d * u + 2 * u) * b = (d * u + u) * b + u * b
  BY <1>5
<1>13. v * k = v * b - v * l
  BY <1>5
<1>14. /\ v * k \in Nat /\ (e * k) * u \in Nat /\ u * k \in Nat /\ u * b \in Nat
       /\ (d * u + u) * b \in Nat /\ v * b \in Nat /\ v * l \in Nat
  BY <1>2, <1>5
<1>15. (d * u + 2 * u) * b + v * l >= v * b
  BY <1>8, <1>9, <1>10, <1>11, <1>12, <1>13, <1>14
<1> QED BY <1>15 DEF b

\* A rebalance, whatever the pair pays and whoever it calls back, costs the
\* vault at most the tolerated loss on the amount it traded and two roundings.
THEOREM GridLossBounded == Spec => LossBounded
<1> DEFINE p == swap.planned
           traded == p.amount * (IF p.offer_index = 0 THEN p.captured_twap ELSE ONE)
           rounding == 2 * Greatest(p.captured_twap, ONE)
           loss == grid.config.max_execution_deviation_bps
           B == (total_value(balances, p.captured_twap) + rounding) * BPS
                  >= total_value(p.balances, p.captured_twap) * BPS - traded * loss
<1>1. GridInv /\ [Next]_mvars => (Settles => B)
  <2> SUFFICES ASSUME GridInv, [Next]_mvars, Settles PROVE B
    OBVIOUS
  <2>1. swap # None /\ settlement_accepted
    BY OnlyReplySettles DEF reply, Idle
  <2>2. Typed /\ grid.pending = p /\ grid \in GridType
        /\ p.min_return >= floor_after(
               expected_return(p.amount, p.offer_index, p.captured_twap), loss)
    BY <2>1, WorldFields DEF GridInv, Underway, Typed
  <2> DEFINE h == balances
             g == p.balances
             P == p.captured_twap
             o == p.offer_index
             a == p.amount
             m == p.min_return
             d == h[1 - o] - g[1 - o]
  <2>3. /\ o \in Token /\ 1 - o \in Token /\ a \in Nat \ {0} /\ P \in Nat \ {0} /\ m \in Nat
        /\ g \in Holdings /\ h \in Holdings
        /\ h[o] = g[o] - a /\ h[1 - o] >= g[1 - o] + m /\ d \in Nat
    BY <2>1, <2>2, SettledTrade
  <2>4. loss \in Nat /\ loss <= 1000
    BY <2>2, GridFields, ConfigLimits
  <2>5. m >= floor_after(expected_return(a, o, P), loss)
    BY <2>2
  <2>6. B = ((total_value(h, P) + 2 * Greatest(P, ONE)) * BPS
               >= total_value(g, P) * BPS - (a * (IF o = 0 THEN P ELSE ONE)) * loss)
    OBVIOUS
  <2> HIDE DEF h, g, P, o, a, m, loss, B
  <2>7. h[0] \in Nat /\ h[1] \in Nat /\ g[0] \in Nat /\ g[1] \in Nat /\ ONE \in Nat \ {0}
    BY <2>3, OneAssumption DEF Holdings
  <2>8. d \in Nat /\ d >= m
    BY <2>3, <2>7 DEF Token
  <2> DEFINE v == a * (IF o = 0 THEN P ELSE ONE)
             u == IF o = 0 THEN ONE ELSE P
  <2>9. v \in Nat /\ u \in Nat \ {0}
    BY <2>3, <2>7
  <2>10. expected_return(a, o, P) = v \div u
    BY DEF expected_return, checked_ratio
  <2>11. h[1 - o] = g[1 - o] + d
    <3>1. h[1 - o] \in Nat /\ g[1 - o] \in Nat
      BY <2>3, <2>7 DEF Token
    <3> QED BY <3>1
  <2> HIDE DEF d
  <2>12. total_value(h, P) = total_value(g, P) - v + d * u
    <3>1. CASE o = 0
      <4>1. h[0] = g[0] - a /\ h[1] = g[1] + d
        BY <2>3, <2>11, <3>1
      <4> QED BY <2>3, <2>7, <2>8, <3>1, <4>1 DEF total_value
    <3>2. CASE o = 1
      <4>1. h[1] = g[1] - a /\ h[0] = g[0] + d
        BY <2>3, <2>11, <3>2
      <4> QED BY <2>3, <2>7, <2>8, <3>2, <4>1 DEF total_value
    <3> QED BY <2>3, <3>1, <3>2 DEF Token
  <2>13. Greatest(P, ONE) \in Nat /\ u <= Greatest(P, ONE)
    BY <2>3, <2>7 DEF Greatest
  <2>14. total_value(h, P) \in Nat /\ total_value(g, P) \in Nat
    BY <2>3, <2>7 DEF total_value
  <2> HIDE DEF v, u
  <2>15. (d * u + 2 * u) * BPS + v * loss >= v * BPS
    <3>1. PICK e \in Nat : e = v \div u /\ v < (e + 1) * u
      BY <2>9
    <3>2. floor_after(e, loss) \in Nat
      BY <2>4, FloorAfterInNat
    <3>3. d >= floor_after(e, loss)
      BY <2>3, <2>5, <2>8, <2>10, <3>1, <3>2
    <3>4. /\ v \in Nat /\ u \in Nat \ {0} /\ loss \in Nat /\ loss <= 1000 /\ d \in Nat
          /\ v < (e + 1) * u
      BY <2>4, <2>8, <2>9, <3>1
    <3> QED BY <3>3, <3>4, LossArithmetic
  <2> DEFINE x == total_value(h, P)
             y == total_value(g, P)
             r == Greatest(P, ONE)
             b == BPS
  <2>16. x = y - v + d * u /\ x \in Nat /\ y \in Nat /\ r \in Nat /\ u <= r /\ b \in Nat
    BY <2>12, <2>13, <2>14, BpsPositive
  <2>17. (d * u + 2 * u) * b + v * loss >= v * b
    BY <2>15
  <2> HIDE DEF x, y, r, b
  <2>18. (x + 2 * r) * b >= y * b - v * loss
    <3>1. (x + 2 * u) * b <= (x + 2 * r) * b
      BY <2>9, <2>16
    <3>2. x + 2 * u = y - v + (d * u + 2 * u)
      BY <2>8, <2>9, <2>16
    <3>3. d * u + 2 * u \in Nat
      BY <2>8, <2>9
    <3>4. (x + 2 * u) * b = y * b - v * b + (d * u + 2 * u) * b
      <4> DEFINE w == d * u + 2 * u
      <4> HIDE DEF w
      <4>1. w \in Nat /\ x + 2 * u = y - v + w
        BY <3>2, <3>3 DEF w
      <4>2. (x + 2 * u) * b = y * b - v * b + w * b
        BY <2>9, <2>16, <4>1
      <4> QED BY <4>2 DEF w
    <3>5. /\ (x + 2 * u) * b \in Int /\ (x + 2 * r) * b \in Int /\ y * b \in Int /\ v * b \in Int
          /\ v * loss \in Int /\ (d * u + 2 * u) * b \in Int
      BY <2>4, <2>9, <2>16, <3>3
    <3> QED BY <2>17, <3>1, <3>4, <3>5
  <2> QED BY <2>6, <2>18 DEF x, y, r, b, v
<1> QED BY <1>1, GridAlwaysInv, PTL DEF Spec, LossBounded

=============================================================================
