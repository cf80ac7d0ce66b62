------------------------------ MODULE GridMath ------------------------------
(***************************************************************************)
(* The arithmetic of the market grid: the cell of a price, the allocation  *)
(* a cell asks for, the trade towards it and the shares a deposit earns.   *)
(* Ratios, deviations, settlement checks and fee shares are the            *)
(* rebalancer's (Cl8yMath): grid-vault-swap repeats that code.             *)
(***************************************************************************)
EXTENDS Cl8yMath

\* The equal-width cell a price falls in: 0 at or below the lower bound, count
\* at or above the upper one.  A step that truncates to 0 puts all in cell 0.
grid_cell(price, grid) ==
    LET step == (grid.upper - grid.lower) \div grid.count
    IN  CASE price <= grid.lower -> 0
          [] price >= grid.upper -> grid.count
          [] price > grid.lower /\ price < grid.upper ->
               IF step = 0 THEN 0 ELSE Least((price - grid.lower) \div step, grid.count)

\* Token 1's share of the value in a cell, as a Decimal.
weight(cell, count) == (cell * ONE) \div count

total_value(holdings, price) == holdings[0] * price + holdings[1] * ONE

target_token1(holdings, price, cell, count) ==
    (total_value(holdings, price) * weight(cell, count)) \div ONE

\* Distance of token 1's value from the cell's target, in bps of the target.
grid_deviation(holdings, price, grid) ==
    LET target == target_token1(holdings, price, grid_cell(price, grid), grid.count)
        actual == holdings[1] * ONE
    IN  CASE target = 0 /\ actual = 0 -> 0
          [] target = 0 /\ actual # 0 -> BPS
          [] OTHER -> ratio_deviation(actual, target)

\* The whole difference to the target, capped by max_trade_bps of the offered
\* holding.  Amount 0 stands for the code's None.
grid_offer(holdings, price, cell, count, max_trade_bps) ==
    LET token1_value == holdings[1] * ONE
        target == target_token1(holdings, price, cell, count)
        index  == IF token1_value > target THEN 1 ELSE 0
        uncapped == IF index = 1 THEN (token1_value - target) \div ONE
                                 ELSE (target - token1_value) \div price
        cap    == checked_ratio(holdings[index], max_trade_bps, BPS)
    IN  [index |-> index, amount |-> Least(uncapped, cap)]

deposit_value(amount, token, price) ==
    IF token = 0 THEN amount ELSE checked_ratio(amount, ONE, price)

\* Faulty variant (see README, "Mutants"): one share for one token 0.
unpriced_deposit_shares(amount, token, price, balances, total_shares) ==
    deposit_value(amount, token, price)

\* Shares for `amount' of `token', already part of `balances': proportional to
\* the net asset value before the deposit.
deposit_shares(amount, token, price, balances, total_shares) ==
    LET value == deposit_value(amount, token, price)
        prior == nav([balances EXCEPT ![token] = @ - amount], price)
    IN  IF total_shares = 0 \/ prior = 0 THEN value
        ELSE checked_ratio(value, total_shares, prior)

=============================================================================
