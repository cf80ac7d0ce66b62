---------------------------- MODULE MCMarketGrid ----------------------------
(***************************************************************************)
(* Small instances of the market grid for TLC: two cells between the       *)
(* prices 1 and 3, half of the value in either token at price 2.           *)
(***************************************************************************)
EXTENDS MarketGridSystem, TLC

Pair(a, b) == [i \in {0, 1} |-> IF i = 0 THEN a ELSE b]

Market(twap, a, b) == [twap |-> twap, reserves |-> Pair(a, b)]

Low  == Market(2, 20, 20)
Mid  == Market(4, 20, 40)
High == Market(6, 20, 60)

TwoMarkets   == {Mid, High}
ThreeMarkets == {Low, Mid, High}

Config(count, tolerance, collecting) ==
    [count |-> count, lower |-> 2, upper |-> 6, allocation_tolerance_bps |-> tolerance,
     max_trade_bps |-> 5000, max_execution_deviation_bps |-> 1000,
     quote_slippage_bps |-> 500, max_spot_twap_deviation_bps |-> 1000,
     max_trade_pool_bps |-> 2000, max_spread |-> 5, fee_registry |-> TRUE,
     fee_collector |-> IF collecting THEN Collector ELSE None]

TwoCells == Config(2, 2000, TRUE)
NoConfigs == {}
UsersCollect == {[TwoCells EXCEPT !.fee_collector = u] : u \in Users}
SomeConfigs == {TwoCells, Config(1, 1000, FALSE), Config(0, 1000, TRUE)}

Heirs == Permutations(Users)

=============================================================================
