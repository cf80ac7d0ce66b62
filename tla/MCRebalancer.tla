---------------------------- MODULE MCRebalancer ----------------------------
(***************************************************************************)
(* Small instances of the rebalancer for TLC.                              *)
(***************************************************************************)
EXTENDS Rebalancer, TLC

Pair(a, b) == [i \in {0, 1} |-> IF i = 0 THEN a ELSE b]

Market(twap, a, b) == [twap |-> twap, reserves |-> Pair(a, b)]

Risk(tolerance) ==
    [rebalance_threshold_bps |-> 2000, allocation_tolerance_bps |-> tolerance,
     max_trade_bps |-> 5000, max_execution_deviation_bps |-> 1000,
     quote_slippage_bps |-> 500, max_spot_twap_deviation_bps |-> 1000,
     max_trade_pool_bps |-> 2000, max_spread |-> 5]

Swap(token, amount, deadline, spread) ==
    [offer_token |-> token, amount |-> amount, min_return |-> 1,
     max_spread |-> spread, deadline |-> deadline]

Deposit(who, a, b, min_shares, deadline, swap) ==
    [op |-> "Deposit", sender |-> who, amounts |-> Pair(a, b),
     min_shares |-> min_shares, deadline |-> deadline, swap |-> swap]

Withdraw(who, shares, to, min, deadline) ==
    [op |-> "Withdraw", sender |-> who, shares |-> shares, to |-> to,
     payout |-> None, min_assets |-> Pair(min, min), deadline |-> deadline,
     swap |-> None]

WithdrawOne(who, shares, to, payout, min, swap) ==
    [op |-> "Withdraw", sender |-> who, shares |-> shares, to |-> to,
     payout |-> payout, min_assets |-> Pair(min, min), deadline |-> NOW,
     swap |-> swap]

Donate(who, token, amount) ==
    [op |-> "Transfer", tok |-> token, from |-> who, to |-> VAULT, amt |-> amount]

Rebalance(deadline) == [op |-> "Rebalance", sender |-> Keeper, deadline |-> deadline]
SyncReference == [op |-> "SyncReference", sender |-> Keeper]

-----------------------------------------------------------------------------
(* Instance "lp": depositors, the collector and the keeper. *)

LpMarkets == {Market(1, 20, 20), Market(2, 20, 40)}
LpRisk    == Risk(2000)
LpVault   == Pair(1, 0)
LpReturns == {1, 2, 3}

LpLpCalls ==
    {Deposit(u, 4, 4, 1, NOW, None) : u \in Users}
    \cup {Deposit(u, 5, 2, 2, NOW, Swap(0, 2, NOW, 5)) : u \in Users}
    \cup {Deposit(u, 1, 3, 1, NOW, Swap(1, 1, NOW, 5)) : u \in Users}
    \cup {Deposit(u, 2, 2, 1, NOW, Swap(1, 3, NOW, 5)) : u \in Users}
    \cup {Withdraw(u, s, u, 0, NOW) : u \in Users \cup {Collector}, s \in {1, 3}}
    \cup {WithdrawOne(u, s, u, t, 1, Swap(1 - t, a, NOW, 5)) :
            u \in Users, s \in {2}, t \in Token, a \in {1, 2}}
    \cup {[op |-> "Cw20Burn", sender |-> u, amt |-> 1] : u \in Users}
    \cup {[op |-> "Cw20Transfer", sender |-> u, to |-> v, amt |-> 2] :
            u \in Users, v \in Users}
    \cup {Donate(u, 1, 2) : u \in Users}

LpKeeperCalls == {Rebalance(NOW), SyncReference}

Symmetry == Permutations(Users)

-----------------------------------------------------------------------------
(* Instance "hooks": one depositor, a pair that calls back ... *)

\* Tight enough for two rebalances after one deposit: the second finds the
\* fee that the first one cached.
HookRisk == Risk(1000)

HookLpCalls ==
    {Deposit(u, 4, 4, 1, NOW, None) : u \in Users}
    \cup {Deposit(u, 5, 2, 2, NOW, Swap(0, a, NOW, 5)) : u \in Users, a \in {2, 6}}
    \cup {Withdraw(u, 3, u, 0, NOW) : u \in Users}
    \cup {WithdrawOne(u, 3, u, t, 1, Swap(1 - t, a, NOW, 5)) :
            u \in Users, t \in Token, a \in {1, 2}}

\* A new administrator may take over in the middle of a swap.
HandedOver(op) ==
    {[op |-> op, sender |-> Admin, step |-> "transfer", admin |-> u] : u \in Users}
    \cup {[op |-> op, sender |-> u, step |-> "accept"] : u \in Users}

HookHookCalls ==
    HookLpCalls
    \cup {Donate(u, t, 1) : u \in Users, t \in Token}
    \cup {[op |-> "Cw20Burn", sender |-> u, amt |-> 1] : u \in Users}
    \cup {[op |-> "Cw20Transfer", sender |-> u, to |-> Keeper, amt |-> 1] : u \in Users}
    \cup {Rebalance(NOW)}
    \cup {[op |-> "Pause", sender |-> Admin], [op |-> "RevokeLiquidity", sender |-> Admin]}
    \cup {[op |-> "MintTo", sender |-> u, to |-> u, amt |-> 1] : u \in Users}
    \cup {[op |-> "MigrateVault", liquidity_code_id |-> 1]}
    \cup HandedOver("VaultAdmin")

-----------------------------------------------------------------------------
(* ... and administrators, migrations, code drift. *)

From(op) == {[op |-> op, sender |-> a] : a \in {Admin} \cup Users}

Handover(op) ==
    HandedOver(op) \cup {[op |-> op, sender |-> Admin, step |-> "cancel"]}

\* Half of the calls below are refused: expired, unauthorized or invalid.
AdminLpCalls ==
    {Deposit(u, 4, 4, 1, d, None) : u \in Users, d \in {NOW - 1, NOW}}
    \cup {Deposit(u, 4, 4, 1, NOW, Swap(0, 1, NOW, 11)) : u \in Users}
    \cup {Withdraw(u, 3, u, 1, d) : u \in Users, d \in {NOW - 1, NOW}}
    \cup {WithdrawOne(u, 3, u, 1, 1, Swap(0, a, NOW, 5)) : u \in Users, a \in {1, 2}}

StrayCalls ==
    {[op |-> "LiquiditySwap", sender |-> u, params |-> Swap(0, 1, NOW, 5)] : u \in Users}
    \cup {[op |-> "TransferTo", sender |-> u, tok |-> 0, amt |-> 1, to |-> u] : u \in Users}
    \cup {[op |-> "Finalize", sender |-> u] : u \in Users}

VaultAdminCalls ==
    From("Pause") \cup From("Resume") \cup From("RevokeLiquidity") \cup From("SetLiquidity")
    \cup {[op |-> "UpdateKeeper", sender |-> a, keeper |-> u] : a \in {Admin} \cup Users, u \in Users}
    \cup {[op |-> "UpdateThresholds", sender |-> Admin, risk |-> Risk(t), new_window |-> w] :
             t \in {2000, 3000}, w \in BOOLEAN}
    \cup {[op |-> "UpdateFeeConfig", sender |-> a, registry |-> FALSE, collector |-> None] :
             a \in {Admin} \cup Users}
    \cup {[op |-> "MigrateVault", liquidity_code_id |-> c] : c \in {0, 1, 2}}
    \cup Handover("VaultAdmin")

OtherAdminCalls ==
    {[op |-> "UpdateConfig", sender |-> Admin, minimum |-> m] : m \in {1, 3}}
    \cup Handover("LiquidityAdmin") \cup Handover("ProxyAdmin")
    \cup From("RegisterVault") \cup From("RemoveVault") \cup {[op |-> "MigrateProxy"]}

AdminAdminCalls  == VaultAdminCalls \cup OtherAdminCalls
HookAdminLpCalls == HookLpCalls \cup AdminLpCalls \cup StrayCalls
AdminKeeperCalls == {Rebalance(d) : d \in {NOW - 1, NOW}} \cup {SyncReference}

=============================================================================
