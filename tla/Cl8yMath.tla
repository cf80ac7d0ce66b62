------------------------------ MODULE Cl8yMath ------------------------------
(***************************************************************************)
(* The integer arithmetic the vault and liquidity contracts share: floor   *)
(* ratios, deviations in basis points, the size of a rebalance trade, the  *)
(* shares a deposit earns and the shares a fee mints.  A Decimal is its    *)
(* number of atomics, so Decimal::one() is the constant ONE (10^18 on      *)
(* chain).  A pair of Uint128 is a function on {0, 1}.                     *)
(*                                                                         *)
(* Every intermediate product of the code is a Uint256 and every narrowing *)
(* back to Uint128 is checked, so arithmetic never wraps: it either gives  *)
(* the exact floor below or fails the transaction.                         *)
(***************************************************************************)
EXTENDS Integers

CONSTANT ONE          \* atomics of Decimal::one()

ASSUME OneAssumption == ONE \in Nat \ {0}

BPS == 10000          \* one, in basis points

Least(a, b)    == IF a <= b THEN a ELSE b
Greatest(a, b) == IF a <= b THEN b ELSE a

\* Floor of value * numerator / denominator (Uint256 product).
checked_ratio(value, numerator, denominator) ==
    (value * numerator) \div denominator

-----------------------------------------------------------------------------
(* Deviations, in basis points, capped at BPS. *)

ratio_deviation(actual, expected) ==
    LET difference == IF actual >= expected THEN actual - expected
                                            ELSE expected - actual
    IN  IF difference >= expected
          THEN BPS
          ELSE Least((difference * BPS) \div expected, BPS)

relative_deviation(current, reference) == ratio_deviation(current, reference)

\* Distance of the holdings from a 50/50 split by value at `price`.
allocation_deviation(holdings, price) ==
    CASE holdings[0] = 0 /\ holdings[1] = 0 -> 0
      [] (holdings[0] = 0) # (holdings[1] = 0) -> BPS
      [] OTHER -> ratio_deviation(holdings[1] * ONE, price * holdings[0])

-----------------------------------------------------------------------------
(* The rebalance trade. *)

\* Half of the value difference, offered from the richer side and capped by
\* max_trade_bps of that holding.  Amount 0 stands for the code's None.
planned_offer(holdings, price, max_trade_bps) ==
    LET token0_value == holdings[0] * price
        token1_value == holdings[1] * ONE
        index    == IF token1_value > token0_value THEN 1 ELSE 0
        uncapped == IF index = 1
                      THEN ((token1_value - token0_value) \div ONE) \div 2
                      ELSE ((token0_value - token1_value) \div price) \div 2
        cap      == checked_ratio(holdings[index], max_trade_bps, BPS)
    IN  [index |-> index, amount |-> Least(uncapped, cap)]

expected_return(amount, offer_index, price) ==
    IF offer_index = 0 THEN checked_ratio(amount, price, ONE)
                       ELSE checked_ratio(amount, ONE, price)

\* What is left of `amount` after a loss of `loss_bps`.
floor_after(amount, loss_bps) == checked_ratio(amount, BPS - loss_bps, BPS)

validate_pool_safety(reserves, twap, offer, amount, max_spot_twap_bps, max_trade_pool_bps) ==
    /\ reserves[0] # 0 /\ reserves[1] # 0
    /\ relative_deviation(checked_ratio(reserves[1], ONE, reserves[0]), twap)
          <= max_spot_twap_bps
    /\ amount * BPS <= reserves[offer] * max_trade_pool_bps

\* Faulty variant (see README, "Mutants"): whatever arrived is enough.
any_proceeds(pending, settled) ==
    settled[pending.offer_index] = pending.balances[pending.offer_index] - pending.amount

\* The settled balances show exactly one trade of the planned size that paid
\* at least the planned minimum.
validate_settlement(pending, settled) ==
    LET offer == pending.offer_index
        ask   == 1 - offer
    IN  /\ pending.amount <= pending.balances[offer]
        /\ settled[offer] = pending.balances[offer] - pending.amount
        /\ settled[ask] >= pending.balances[ask] + pending.min_return

\* A trade must improve the allocation or leave it within the tolerance.
validate_rebalance_outcome(previous, current, tolerance) ==
    ~(current >= previous /\ current > tolerance)

-----------------------------------------------------------------------------
(* Shares and net asset value (in token 0). *)

nav(balances, price) == balances[0] + (balances[1] * ONE) \div price

\* Shares of an established vault's deposit: the smaller of the two
\* proportional contributions.
proportional_deposit_shares(pre_balances, post_balances, supply) ==
    LET part(i) == checked_ratio(post_balances[i] - pre_balances[i],
                                 supply, pre_balances[i])
    IN  Least(part(0), part(1))

\* Faulty variant (see README, "Mutants"): claims rounded up.
rounded_up_claims(balances, shares, supply) ==
    [i \in {0, 1} |-> (balances[i] * shares + supply - 1) \div supply]

\* The assets `shares` out of `supply` are worth.
withdrawal_claims(balances, shares, supply) ==
    [i \in {0, 1} |-> checked_ratio(balances[i], shares, supply)]

\* Faulty variant (see README, "Mutants"): fee shares rounded up.
rounded_up_fee_shares(fee_value, pre_fee_nav, supply) ==
    IF fee_value = 0 \/ supply = 0 \/ fee_value >= pre_fee_nav
      THEN 0
      ELSE (fee_value * supply) \div (pre_fee_nav - fee_value) + 1

\* Dilutive shares whose redemption value after the mint does not exceed the
\* fee.
fee_shares_for_value(fee_value, pre_fee_nav, supply) ==
    IF fee_value = 0 \/ supply = 0 \/ fee_value >= pre_fee_nav
      THEN 0
      ELSE (fee_value * supply) \div (pre_fee_nav - fee_value)

=============================================================================
