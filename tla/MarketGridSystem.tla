--------------------------- MODULE MarketGridSystem ---------------------------
(***************************************************************************)
(* The market grid with the fee registry, the fee collector and a pair     *)
(* that may call back: one vault, its administrators, the operator's       *)
(* permissionless rebalances, and the protocol's fee collections.          *)
(***************************************************************************)
EXTENDS MarketGrid, FiniteSetsExt

grid_instantiate(admin, market) ==
    [admin |-> admin, pending_admin |-> None, paused |-> FALSE, config |-> InitialConfig,
     pair_code_id |-> 1, reference_price |-> market.twap,
     last_cell |-> grid_cell(market.twap, InitialConfig),
     pending |-> None, shares |-> [a \in Account |-> 0], total_shares |-> 0,
     fee_cache |-> [a \in Account |-> None]]

collector_instantiate(keeper) == [keeper |-> keeper, vault_shares |-> 0]

Init ==
    /\ RegistryInit
    /\ \E admin, keeper \in Users, m \in Markets :
         /\ grid = grid_instantiate(admin, m)
         /\ collector = collector_instantiate(keeper)
         /\ dex = [twap |-> m.twap, code |-> 1]
         /\ bank = [i \in Token |-> [a \in Account |->
                      CASE a = PAIR -> m.reserves[i]
                        [] a \in Users -> InitialTokens
                        [] OTHER -> 0]]
    /\ swap = None /\ before = None /\ minted = 0 /\ txs = 0

-----------------------------------------------------------------------------
(* Steps. *)

Donate(sender, tok, amt) ==
    /\ amt <= bank[tok][sender]
    /\ bank' = Moved(bank, tok, sender, GRID, amt)
    /\ UNCHANGED <<grid, collector, dex, registry, cl8y, minted>>

ShareCall(u) ==
    \/ \E tok \in Token, amt \in DepositAmounts :
         execute_receive(u, tok, amt) \/ Donate(u, tok, amt)
    \/ \E shares \in ShareAmounts, to \in Users : execute_withdraw(u, shares, to)
    \/ execute_redeem_shares(u, u)
    \/ execute_collect(u)

AdminCall(u) ==
    \/ \E c \in ConfigCalls : execute_update_config(u, c)
    \/ \E heir \in Users : execute_transfer_admin(u, heir)
    \/ execute_accept_admin(u)
    \/ execute_pause(u) \/ execute_resume(u)
    \/ update_collector_config(u)

FeeStep == RegistryNext /\ UNCHANGED <<grid, collector, bank, dex, minted>>

Call == Turn /\ (FeeStep \/ \E u \in Users : ShareCall(u) \/ AdminCall(u))

\* External: other traders, and the DEX migrating its pair.
MarketMove ==
    /\ Idle
    /\ \E m \in Markets :
         /\ dex' = [dex EXCEPT !.twap = m.twap]
         /\ bank' = [i \in Token |-> [bank[i] EXCEPT ![PAIR] = m.reserves[i]]]
    /\ UNCHANGED <<grid, collector, registry, cl8y, minted, swap, before, txs>>

PairMigrated ==
    /\ Idle
    /\ \E code \in PairCodes : dex' = [dex EXCEPT !.code = code]
    /\ UNCHANGED <<grid, collector, bank, registry, cl8y, minted, swap, before, txs>>

Rebalance == \E quote \in Returns : execute_rebalance(quote)

Next ==
    \/ Call \/ Rebalance \/ PairPays \/ reply \/ Revert
    \/ MarketMove \/ PairMigrated

Spec == Init /\ [][Next]_mvars

-----------------------------------------------------------------------------
(* Types. *)

PendingSwap ==
    [captured_twap : Nat \ {0}, balances : Amounts, pre_deviation_bps : 0..BPS,
     offer_index : Token, amount : Nat \ {0}, min_return : Nat]

GridType ==
    [admin : Users, pending_admin : Users \cup {None}, paused : BOOLEAN,
     config : {c \in GridConfig : validate_config(c)},
     pair_code_id : {1}, reference_price : Nat \ {0}, last_cell : 0..MAX_GRID_COUNT,
     pending : PendingSwap \cup {None}, shares : [Account -> Nat], total_shares : Nat,
     fee_cache : [Account -> (0..BPS) \cup {None}]]

CollectorType == [keeper : Users, vault_shares : Nat]

BankType == [Token -> [Account -> Nat]]

SwapType == [planned : PendingSwap, hooks : Nat, paid : Nat \cup {None}]

ASSUME NoneAssumption == None \notin PendingSwap /\ None \notin SwapType

\* Balances, shares and records are never negative, cached fees never exceed
\* 100%, a stored configuration is a valid one, and a pending swap exists
\* exactly while a rebalance runs, and is the one that runs.
TypeOK ==
    /\ RegistryTypeOK
    /\ grid \in GridType
    /\ collector \in CollectorType
    /\ bank \in BankType
    /\ dex \in [twap : Nat \ {0}, code : Nat]
    /\ swap \in SwapType \cup {None}
    /\ grid.pending = IF Idle THEN None ELSE swap.planned
    /\ minted \in Nat /\ txs \in Nat

-----------------------------------------------------------------------------
(* Properties. *)

value_of(b, price) == nav(holdings_in(b), price)

\* The shares outstanding are the accounts' shares, through every mint, burn
\* and hand-over.
SharesAccounted ==
    grid.total_shares = MapThenSumSet(LAMBDA a : grid.shares[a], Account)

\* Every fee share ever minted to the fee collector is either still in the
\* vault's ledger or in the collector's record of what it redeemed.
FeesAccountedFor == collector.vault_shares + grid.shares[Collector] = minted

\* A deposit outside of a swap takes no value from the shares there are; one
\* that finds no shares earns no more than the value it adds, whatever was
\* donated before; and no withdrawal or redemption takes more than its part of
\* either asset.
NobodyDiluted ==
    [][/\ Idle /\ swap' = None /\ grid.total_shares = 0 /\ grid'.total_shares > 0 =>
            value_of(bank, dex.twap) + grid'.total_shares <= value_of(bank', dex.twap)
       /\ Idle /\ swap' = None /\ grid.total_shares \in 1..(grid'.total_shares - 1) =>
            grid.total_shares * value_of(bank', dex.twap)
              >= grid'.total_shares * value_of(bank, dex.twap)
       /\ grid'.total_shares < grid.total_shares /\ Idle =>
            \A i \in Token : bank'[i][GRID] * grid.total_shares
                               >= bank[i][GRID] * grid'.total_shares]_mvars

\* The pending rebalance settles (a Revert restores the balances).
Settles == ~Idle /\ swap' = None /\ bank' = bank

\* The shares minted for the fee are worth, after the mint, no more than the
\* fee on the proceeds.
FeeNeverOverclaims ==
    [][Settles =>
         LET p == swap.planned
             ask == 1 - p.offer_index
             proceeds == deposit_value(balances[ask] - p.balances[ask], ask, p.captured_twap)
             bps == IF grid'.fee_cache[grid.admin] = None THEN UNDISCOUNTED_FEE_BPS
                    ELSE grid'.fee_cache[grid.admin]
         IN  (grid'.total_shares - grid.total_shares) * value_of(bank, p.captured_twap)
               <= checked_ratio(proceeds, bps, BPS) * grid'.total_shares]_mvars

\* A rebalance, whatever the pair pays and calls back, costs the vault at most
\* the tolerated loss on the amount it traded, and two roundings.
LossBounded ==
    [][Settles =>
         LET p == swap.planned
             traded == p.amount * (IF p.offer_index = 0 THEN p.captured_twap ELSE ONE)
             rounding == 2 * Greatest(p.captured_twap, ONE)
         IN  (total_value(balances, p.captured_twap) + rounding) * BPS
               >= total_value(p.balances, p.captured_twap) * BPS
                    - traded * grid.config.max_execution_deviation_bps]_mvars

\* As market-grid-system/README.md describes the lower bound: a portfolio that
\* still holds token 1 there gets a corrective trade, not an error.  A trade at
\* the fair price that nobody disturbed settles.
LowerBoundPlansSettle ==
    ~Idle /\ swap.hooks = 0 /\ swap.paid # None =>
        LET p == swap.planned
        IN  /\ grid_cell(p.captured_twap, grid.config) = 0
            /\ swap.paid >= p.min_return
            => settlement_accepted

=============================================================================
