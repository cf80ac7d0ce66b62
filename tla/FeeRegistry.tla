----------------------------- MODULE FeeRegistry -----------------------------
(***************************************************************************)
(* fee-registry: the ladder of CL8Y discount tiers and the effective fee   *)
(* of a trader.  The CL8Y token is external: its balances move on their    *)
(* own and its query may fail.                                             *)
(*                                                                         *)
(* A refused call changes nothing and is no step.                          *)
(***************************************************************************)
EXTENDS Cl8yMath, FiniteSets

CONSTANTS
    Trader,         \* accounts whose CL8Y balance may be asked for
    Governor,       \* accounts that may become governance
    None,           \* an absent Option or storage item
    Cl8yBalances,   \* balances of CL8Y considered
    ONE_CL8Y,       \* 10^18 in the code
    BASE_FEE_BPS,   \* base_fee_bps at instantiation
    TierCalls,      \* tiers as governance's calls name them
    BaseFeeCalls,   \* base fees governance's calls name
    MaxLadder       \* bound: ladder versions

VARIABLES
    registry,   \* governance, base fee, ladder, holdings observed
    cl8y        \* the CL8Y token: balances, and whether its query succeeds

TierId  == 0..255
Tier    == [min_cl8y_balance : Nat, discount_bps : 0..BPS, governance_only : BOOLEAN]
Ladder  == UNION {[ids -> Tier] : ids \in SUBSET TierId}

RegistryType ==
    [governance : Governor, base_fee_bps : 0..BPS, ladder_version : Nat \ {0},
     tiers : Ladder, holdings : [Trader -> Nat \cup {None}]]

Cl8yType == [balance : [Trader -> Nat], answers : BOOLEAN]

ASSUME RegistryAssumption ==
    /\ Cl8yBalances \subseteq Nat /\ ONE_CL8Y \in Nat \ {0}
    /\ BASE_FEE_BPS \in 0..BPS /\ BaseFeeCalls \subseteq Nat
    /\ TierCalls \subseteq [id : TierId, min_cl8y_balance : Nat, discount_bps : Nat,
                            governance_only : BOOLEAN]
    /\ MaxLadder \in Nat
    /\ None \notin Nat

-----------------------------------------------------------------------------
(* Reading. *)

tier_of(min, bps, gov) ==
    [min_cl8y_balance |-> min * ONE_CL8Y, discount_bps |-> bps, governance_only |-> gov]

\* The canonical ladder; 0 and 255 are for market makers and the blacklist.
seed_standard_tiers ==
    [id \in {0, 1, 2, 3, 4, 5, 6, 7, 8, 9, 255} |->
        CASE id = 0 -> tier_of(0, 10000, TRUE)    [] id = 1 -> tier_of(1, 250, FALSE)
          [] id = 2 -> tier_of(5, 1000, FALSE)    [] id = 3 -> tier_of(20, 2000, FALSE)
          [] id = 4 -> tier_of(75, 3500, FALSE)   [] id = 5 -> tier_of(200, 5000, FALSE)
          [] id = 6 -> tier_of(500, 6000, FALSE)  [] id = 7 -> tier_of(1500, 7500, FALSE)
          [] id = 8 -> tier_of(3500, 8500, FALSE) [] id = 9 -> tier_of(7500, 9500, FALSE)
          [] id = 255 -> tier_of(0, 0, TRUE)]

eligible(tiers, amount) ==
    {id \in DOMAIN tiers : /\ ~tiers[id].governance_only
                           /\ amount >= tiers[id].min_cl8y_balance
                           /\ tiers[id].discount_bps > 0}

\* Faulty variant (see README, "Mutants"): the last eligible tier of the ladder wins.
resolve_last_tier(tiers, amount) ==
    IF eligible(tiers, amount) = {} THEN [discount_bps |-> 0, tier_id |-> None]
    ELSE LET last == CHOOSE id \in eligible(tiers, amount) :
                        \A other \in eligible(tiers, amount) : other <= id
         IN  [discount_bps |-> tiers[last].discount_bps, tier_id |-> last]

\* The highest discount among the eligible tiers; the lowest id among equals.
resolve_discount(tiers, amount) ==
    IF eligible(tiers, amount) = {} THEN [discount_bps |-> 0, tier_id |-> None]
    ELSE LET best == CHOOSE id \in eligible(tiers, amount) :
                \A other \in eligible(tiers, amount) :
                    \/ tiers[other].discount_bps < tiers[id].discount_bps
                    \/ tiers[other].discount_bps = tiers[id].discount_bps /\ id <= other
         IN  [discount_bps |-> tiers[best].discount_bps, tier_id |-> best]

effective_fee(base_bps, discount_bps) == (base_bps * (BPS - discount_bps)) \div BPS

\* A discount needs a live balance; observed holdings are never used.
query_effective_fee(trader) ==
    effective_fee(registry.base_fee_bps,
                  IF cl8y.answers
                    THEN resolve_discount(registry.tiers, cl8y.balance[trader]).discount_bps
                    ELSE 0)

-----------------------------------------------------------------------------
(* Calls. *)

assert_governance(sender) == sender = registry.governance

assert_bps(bps) == bps <= BPS

\* Faulty variant (see README, "Mutants"): reserved ids are not looked at.
any_tier_allowed(tier_id, governance_only) == TRUE

assert_not_reserved(tier_id, governance_only) == tier_id \in {0, 255} => governance_only

bump_ladder_version(r) == [r EXCEPT !.ladder_version = @ + 1]

execute_refresh_holding(trader) ==
    /\ cl8y.answers
    /\ registry' = [registry EXCEPT !.holdings[trader] = cl8y.balance[trader]]
    /\ UNCHANGED cl8y

named_tier(t) == [min_cl8y_balance |-> t.min_cl8y_balance, discount_bps |-> t.discount_bps,
                  governance_only |-> t.governance_only]

execute_add_tier(sender, t) ==
    /\ assert_governance(sender)
    /\ assert_bps(t.discount_bps)
    /\ assert_not_reserved(t.id, t.governance_only)
    /\ t.id \notin DOMAIN registry.tiers
    /\ registry' = bump_ladder_version(
         [registry EXCEPT !.tiers =
            [id \in DOMAIN @ \cup {t.id} |-> IF id = t.id THEN named_tier(t) ELSE @[id]]])
    /\ UNCHANGED cl8y

\* The fields in `given' are replaced, the others kept.
execute_update_tier(sender, t, given) ==
    /\ assert_governance(sender)
    /\ t.id \in DOMAIN registry.tiers
    /\ "discount_bps" \in given => assert_bps(t.discount_bps)
    /\ "governance_only" \in given => assert_not_reserved(t.id, t.governance_only)
    /\ registry' = bump_ladder_version(
         [registry EXCEPT !.tiers[t.id] =
            [field \in DOMAIN @ |-> IF field \in given THEN t[field] ELSE @[field]]])
    /\ UNCHANGED cl8y

execute_remove_tier(sender, id) ==
    /\ assert_governance(sender)
    /\ id \in DOMAIN registry.tiers
    /\ registry' = bump_ladder_version(
         [registry EXCEPT !.tiers = [other \in DOMAIN @ \ {id} |-> @[other]]])
    /\ UNCHANGED cl8y

\* The addresses of treasury, collector and CL8Y token are only handed on.
update_registry_config(sender, governance, base_fee_bps) ==
    /\ assert_governance(sender)
    /\ assert_bps(base_fee_bps)
    /\ registry' = [registry EXCEPT !.governance = governance, !.base_fee_bps = base_fee_bps]
    /\ UNCHANGED cl8y

\* External: CL8Y changes hands, or its query starts or stops to fail.
Cl8yMoves ==
    /\ \/ \E trader \in Trader, amount \in Cl8yBalances :
            cl8y' = [cl8y EXCEPT !.balance[trader] = amount]
       \/ cl8y' = [cl8y EXCEPT !.answers = ~@]
    /\ UNCHANGED registry

-----------------------------------------------------------------------------

registry_instantiate ==
    \E governance \in Governor :
        registry = [governance |-> governance, base_fee_bps |-> BASE_FEE_BPS,
                    ladder_version |-> 1, tiers |-> seed_standard_tiers,
                    holdings |-> [trader \in Trader |-> None]]

RegistryInit ==
    /\ registry_instantiate
    /\ cl8y \in [balance : {[trader \in Trader |-> 0]}, answers : {TRUE}]

LadderCall(sender) ==
    /\ registry.ladder_version < MaxLadder
    /\ \E t \in TierCalls :
         \/ execute_add_tier(sender, t)
         \/ \E given \in SUBSET {"min_cl8y_balance", "discount_bps", "governance_only"} :
              execute_update_tier(sender, t, given)
         \/ execute_remove_tier(sender, t.id)

RegistryCall ==
    \/ \E trader \in Trader : execute_refresh_holding(trader)
    \/ \E sender \in Governor :
         \/ LadderCall(sender)
         \/ \E governance \in Governor, bps \in BaseFeeCalls :
              update_registry_config(sender, governance, bps)

RegistryNext == RegistryCall \/ Cl8yMoves

rvars == <<registry, cl8y>>

RegistrySpec == RegistryInit /\ [][RegistryNext]_rvars

-----------------------------------------------------------------------------
(* Properties. *)

RegistryTypeOK ==
    /\ registry.governance \in Governor
    /\ registry.base_fee_bps \in 0..BPS
    /\ registry.ladder_version \in Nat \ {0}
    /\ DOMAIN registry.tiers \subseteq TierId
    /\ \A id \in DOMAIN registry.tiers : registry.tiers[id] \in Tier
    /\ registry.holdings \in [Trader -> Nat \cup {None}]
    /\ cl8y \in [balance : [Trader -> Nat], answers : BOOLEAN]

\* The tiers of market makers and the blacklist are never applied to a balance,
\* whatever governance adds, changes and removes.
ReservedTiersNeverApply ==
    \A amount \in Cl8yBalances :
        resolve_discount(registry.tiers, amount).tier_id \notin {0, 255}

\* However governance shapes the ladder, holding more CL8Y never costs more and
\* nobody pays more than the base fee.
MoreCl8yNeverCostsMore ==
    \A more, less \in Cl8yBalances :
        LET fee(amount) == effective_fee(registry.base_fee_bps,
                              resolve_discount(registry.tiers, amount).discount_bps)
        IN  more >= less => fee(more) <= fee(less) /\ fee(less) <= registry.base_fee_bps

=============================================================================
