----------------------------- MODULE MarketGrid -----------------------------
(***************************************************************************)
(* grid-vault-swap: one administrator's inventory of two assets, moved     *)
(* along a grid of price levels by swaps, and the protocol fee on them.    *)
(*                                                                         *)
(* Every call but Rebalance is one step.  A rebalance hands the offer to   *)
(* the pair; while the pair runs, `before' holds the state a failure goes  *)
(* back to, and the pair may call anybody's entry points before the        *)
(* vault's reply settles the trade.  Calls that are refused change nothing *)
(* and are no steps.                                                       *)
(***************************************************************************)
EXTENDS FeeRegistry, GridMath

CONSTANTS
    Users,                  \* accounts that may administer the vault
    Collector, Treasury,    \* the fee-collector contract and its payee
    Markets,                \* states of the market: records [twap, reserves]
    Returns,                \* amounts a swap may pay or a simulation may quote
    PairCodes,              \* code ids the DEX may migrate the pair to
    DepositAmounts,         \* amounts of a deposit or a donation
    ShareAmounts,           \* shares named by a withdrawal
    ConfigCalls,            \* configurations UpdateConfig's calls ask for
    InitialConfig,          \* the configuration at instantiation
    InitialTokens,          \* asset balance of every user
    UNDISCOUNTED_FEE_BPS,   \* 180 in the code
    MaxTxs, MaxHooks        \* bounds: transactions; callbacks of the pair in one

GRID == "grid"
PAIR == "pair"

Account == Users \cup {Collector, Treasury, GRID, PAIR}
Token   == {0, 1}
Amounts == [Token -> Nat]

VARIABLES
    grid,       \* the vault's storage
    collector,  \* the fee-collector's: keeper, VAULT_SHARES of this vault
    bank,       \* the two asset CW20s: token -> account -> balance
    dex,        \* what the pair answers: TWAP, code id
    swap,       \* the rebalance being executed
    before,     \* the state to go back to if it fails
    minted,     \* history: fee shares ever minted to the collector contract
    txs         \* transactions so far

contracts == <<grid, collector, bank, dex, registry, cl8y, minted>>
mvars     == <<contracts, swap, before, txs>>

MAX_SPREAD == 10        \* per cent
MAX_TRADE_BPS == 5000
MAX_EXECUTION_DEVIATION_BPS == 1000
MAX_QUOTE_SLIPPAGE_BPS == 500
MAX_SPOT_TWAP_DEVIATION_BPS == 1000
MAX_TRADE_POOL_BPS == 2000
MAX_ALLOCATION_TOLERANCE_BPS == 2000
MAX_GRID_COUNT == 500

GridConfig ==
    [count : Nat, lower : Nat, upper : Nat, allocation_tolerance_bps : Nat,
     max_trade_bps : Nat, max_execution_deviation_bps : Nat, quote_slippage_bps : Nat,
     max_spot_twap_deviation_bps : Nat, max_trade_pool_bps : Nat, max_spread : Nat,
     fee_registry : BOOLEAN, fee_collector : Account \cup {None}]

validate_config(c) ==
    /\ c.count \in 1..MAX_GRID_COUNT
    /\ c.lower > 0 /\ c.upper > c.lower
    /\ c.allocation_tolerance_bps \in 1..MAX_ALLOCATION_TOLERANCE_BPS
    /\ c.max_trade_bps \in 1..MAX_TRADE_BPS
    /\ c.max_execution_deviation_bps \in 0..MAX_EXECUTION_DEVIATION_BPS
    /\ c.quote_slippage_bps \in 0..MAX_QUOTE_SLIPPAGE_BPS
    /\ c.max_spot_twap_deviation_bps \in 1..MAX_SPOT_TWAP_DEVIATION_BPS
    /\ c.max_trade_pool_bps \in 1..MAX_TRADE_POOL_BPS
    /\ c.max_spread \in 1..MAX_SPREAD

\* The users are not the contracts, nor is the treasury the vault or its pair.
ASSUME ActorAssumption ==
    /\ IsFiniteSet(Users) /\ {Collector, GRID, PAIR} \cap Users = {}
    /\ Treasury \notin {GRID, PAIR}

ASSUME MarketGridAssumption ==
    /\ Users \subseteq Trader /\ None \notin Account
    /\ InitialConfig \in GridConfig /\ validate_config(InitialConfig)
    /\ ConfigCalls \subseteq GridConfig
    /\ Markets \subseteq [twap : Nat \ {0}, reserves : Amounts]
    /\ Returns \subseteq Nat /\ PairCodes \subseteq Nat
    /\ DepositAmounts \subseteq Nat /\ ShareAmounts \subseteq Nat /\ InitialTokens \in Nat
    /\ UNDISCOUNTED_FEE_BPS \in 0..BPS /\ MaxTxs \in Nat /\ MaxHooks \in Nat

-----------------------------------------------------------------------------
(* Tokens, queries and checks. *)

Moved(b, tok, from, to, amt) ==
    LET paid == [b EXCEPT ![tok][from] = @ - amt]
    IN  [paid EXCEPT ![tok][to] = @ + amt]

holdings_in(b) == [i \in Token |-> b[i][GRID]]
balances == holdings_in(bank)

Idle == swap = None

\* A step is a transaction of its own, or a callback of the pair.
Turn ==
    \/ Idle /\ txs < MaxTxs /\ txs' = txs + 1 /\ UNCHANGED <<swap, before>>
    \/ ~Idle /\ swap.hooks < MaxHooks
       /\ swap' = [swap EXCEPT !.hooks = @ + 1] /\ UNCHANGED <<before, txs>>

assert_admin(sender) == sender = grid.admin

assert_not_paused == ~grid.paused

no_pending_swap == grid.pending = None

assert_pair_code_id == dex.code = grid.pair_code_id

-----------------------------------------------------------------------------
(* Deposits and withdrawals. *)

mint(g, account, amount) ==
    [g EXCEPT !.shares[account] = @ + amount, !.total_shares = @ + amount]
burn(g, account, amount) ==
    [g EXCEPT !.shares[account] = @ - amount, !.total_shares = @ - amount]

\* CW20 Send with the Deposit hook: the tokens arrive first, then the shares
\* are minted at the net asset value without them.  A pending swap is no
\* obstacle.
execute_receive(sender, tok, amt) ==
    LET paid  == Moved(bank, tok, sender, GRID, amt)
        earned == deposit_shares(amt, tok, dex.twap, holdings_in(paid), grid.total_shares)
    IN  /\ amt \in 1..bank[tok][sender]
        /\ assert_not_paused /\ assert_admin(sender) /\ assert_pair_code_id
        /\ earned # 0
        /\ bank' = paid
        /\ grid' = mint(grid, sender, earned)
        /\ UNCHANGED <<collector, dex, registry, cl8y, minted>>

claims_of(shares) == withdrawal_claims(balances, shares, grid.total_shares)

paid_out(claims, to) ==
    Moved(Moved(bank, 0, GRID, to, claims[0]), 1, GRID, to, claims[1])

execute_withdraw(sender, shares, to) ==
    /\ no_pending_swap
    /\ shares \in 1..grid.shares[sender] /\ shares <= grid.total_shares
    /\ bank' = paid_out(claims_of(shares), to)
    /\ grid' = burn(grid, sender, shares)
    /\ UNCHANGED <<collector, dex, registry, cl8y, minted>>

\* The configured collector redeems all its shares.
redeem_allowed(sender) ==
    /\ sender = grid.config.fee_collector
    /\ grid.shares[sender] \in 1..grid.total_shares
    /\ no_pending_swap

redeemed(sender, to) ==
    /\ bank' = paid_out(claims_of(grid.shares[sender]), to)
    /\ grid' = burn(grid, sender, grid.shares[sender])

execute_redeem_shares(sender, to) ==
    /\ redeem_allowed(sender)
    /\ redeemed(sender, to)
    /\ UNCHANGED <<collector, dex, registry, cl8y, minted>>

-----------------------------------------------------------------------------
(* fee-collector: Collect on this vault.  Recording and redeeming succeed or *)
(* fail together.                                                            *)

\* Faulty variant (see README, "Mutants"): a refused redemption is not an error.
collector_may_redeem ==
    \/ redeem_allowed(Collector) /\ redeemed(Collector, Treasury)
    \/ ~redeem_allowed(Collector) /\ UNCHANGED <<bank, grid>>

collector_redeems == redeem_allowed(Collector) /\ redeemed(Collector, Treasury)

execute_collect(sender) ==
    /\ sender = collector.keeper
    /\ grid.shares[Collector] # 0
    /\ collector' = [collector EXCEPT !.vault_shares = @ + grid.shares[Collector]]
    /\ collector_redeems
    /\ UNCHANGED <<dex, registry, cl8y, minted>>

\* Governance names another keeper (the other fields are addresses the model
\* does not tell apart).
update_collector_config(keeper) ==
    /\ collector' = [collector EXCEPT !.keeper = keeper]
    /\ UNCHANGED <<grid, bank, dex, registry, cl8y, minted>>

-----------------------------------------------------------------------------
(* The rebalance. *)

current_cell == grid_cell(dex.twap, grid.config)

rebalance_plan(quote) ==
    LET deviation == grid_deviation(balances, dex.twap, grid.config)
        offer == grid_offer(balances, dex.twap, current_cell, grid.config.count,
                            grid.config.max_trade_bps)
    IN  [should_rebalance |-> \/ current_cell # grid.last_cell
                              \/ deviation > grid.config.allocation_tolerance_bps,
         deviation_bps |-> deviation, offer_index |-> offer.index, amount |-> offer.amount,
         min_return |-> Greatest(
             floor_after(expected_return(offer.amount, offer.index, dex.twap),
                         grid.config.max_execution_deviation_bps),
             floor_after(quote, grid.config.quote_slippage_bps))]

pool_reserves == [i \in Token |-> bank[i][PAIR]]

World == [grid |-> grid, collector |-> collector, bank |-> bank, dex |-> dex,
          registry |-> registry, cl8y |-> cl8y, minted |-> minted]

\* Permissionless; refused after its deadline.  The offer reaches the pair directly or through a proxy;
\* both name the vault as the receiver of the proceeds.
execute_rebalance(quote) ==
    LET plan == rebalance_plan(quote)
        planned == [captured_twap |-> dex.twap, balances |-> balances,
                    pre_deviation_bps |-> plan.deviation_bps,
                    offer_index |-> plan.offer_index, amount |-> plan.amount,
                    min_return |-> plan.min_return]
    IN  /\ Idle /\ txs < MaxTxs
        /\ assert_not_paused /\ no_pending_swap /\ assert_pair_code_id
        /\ plan.should_rebalance /\ plan.amount # 0
        /\ validate_pool_safety(pool_reserves, dex.twap, plan.offer_index, plan.amount,
              grid.config.max_spot_twap_deviation_bps, grid.config.max_trade_pool_bps)
        /\ grid' = [grid EXCEPT !.pending = planned]
        /\ bank' = Moved(bank, plan.offer_index, GRID, PAIR, plan.amount)
        /\ swap' = [planned |-> planned, hooks |-> 0, paid |-> None] /\ before' = World
        /\ txs' = txs + 1
        /\ UNCHANGED <<collector, dex, registry, cl8y, minted>>

\* External: the pair pays what it likes, once.
PairPays ==
    /\ ~Idle /\ swap.paid = None
    /\ \E r \in Returns :
         /\ r <= bank[1 - swap.planned.offer_index][PAIR]
         /\ bank' = Moved(bank, 1 - swap.planned.offer_index, PAIR, GRID, r)
         /\ swap' = [swap EXCEPT !.paid = r]
    /\ UNCHANGED <<grid, collector, dex, registry, cl8y, minted, before, txs>>

\* The fee of the administrator: the registry's answer, or when it cannot be
\* reached the last answer of the vault's own cache.
charged_bps(g, reached) ==
    CASE reached -> Least(query_effective_fee(g.admin), BPS)
      [] ~reached /\ g.fee_cache[g.admin] # None -> g.fee_cache[g.admin]
      [] ~reached /\ g.fee_cache[g.admin] = None -> UNDISCOUNTED_FEE_BPS

with_cache(g, reached) ==
    IF reached THEN [g EXCEPT !.fee_cache[g.admin] = charged_bps(g, TRUE)] ELSE g

fee_due(g, value) == /\ g.config.fee_registry /\ g.config.fee_collector # None
                     /\ value # 0

charge_fee(g, value, asset_value, reached) ==
    IF ~fee_due(g, value) THEN g
    ELSE mint(with_cache(g, reached), g.config.fee_collector,
              fee_shares_for_value(checked_ratio(value, charged_bps(g, reached), BPS),
                                   asset_value, g.total_shares))

cell_taken(g, within_tolerance) ==
    IF ~within_tolerance THEN g
    ELSE [g EXCEPT !.reference_price = g.pending.captured_twap,
                   !.last_cell = grid_cell(g.pending.captured_twap, g.config)]

settled_deviation ==
    grid_deviation(balances, grid.pending.captured_twap, grid.config)

settlement_accepted ==
    /\ grid.pending # None
    /\ validate_settlement(grid.pending, balances)
    /\ validate_rebalance_outcome(grid.pending.pre_deviation_bps, settled_deviation,
                                  grid.config.allocation_tolerance_bps)

proceeds_value ==
    LET ask == 1 - grid.pending.offer_index
        proceeds == balances[ask] - grid.pending.balances[ask]
    IN  IF ask = 0 THEN proceeds
        ELSE checked_ratio(proceeds, ONE, grid.pending.captured_twap)

slot_cleared(g) == [g EXCEPT !.pending = None]

settled_grid(reached) ==
    LET g == cell_taken(grid, settled_deviation <= grid.config.allocation_tolerance_bps)
    IN  charge_fee(slot_cleared(g), proceeds_value,
                   nav(balances, grid.pending.captured_twap), reached)

\* The pair is done: the vault's reply settles the trade.  The registry may be
\* out of reach.
reply ==
    /\ ~Idle /\ settlement_accepted
    /\ \E reached \in BOOLEAN : grid' = settled_grid(reached)
    /\ minted' = minted + (grid'.shares[Collector] - grid.shares[Collector])
    /\ swap' = None /\ before' = None
    /\ UNCHANGED <<collector, bank, dex, registry, cl8y, txs>>

\* The pair or the reply fails: the chain undoes the transaction.
Revert ==
    /\ ~Idle
    /\ LET w == before
       IN  /\ grid' = w.grid /\ collector' = w.collector /\ bank' = w.bank
           /\ dex' = w.dex /\ registry' = w.registry /\ cl8y' = w.cl8y
           /\ minted' = w.minted
    /\ swap' = None /\ before' = None /\ UNCHANGED txs

-----------------------------------------------------------------------------
(* The administrator. *)

GridOnly == UNCHANGED <<collector, bank, dex, registry, cl8y, minted>>

execute_update_config(sender, c) ==
    /\ assert_admin(sender) /\ no_pending_swap /\ validate_config(c)
    /\ grid' = [grid EXCEPT !.config = c]
    /\ GridOnly

execute_transfer_admin(sender, admin) ==
    /\ assert_admin(sender) /\ admin # grid.admin
    /\ grid' = [grid EXCEPT !.pending_admin = admin]
    /\ GridOnly

\* Faulty variant (see README, "Mutants"): the new administrator gets a copy.
copied_over(g, to) == [g EXCEPT !.shares[to] = @ + g.shares[g.admin]]

handed_over(g, to) ==
    [g EXCEPT !.shares = [a \in Account |->
        CASE a = g.admin -> 0
          [] a = to /\ a # g.admin -> @[to] + @[g.admin]
          [] a # to /\ a # g.admin -> @[a]]]

execute_accept_admin(sender) ==
    /\ grid.pending_admin = sender
    /\ grid' = [handed_over(grid, sender) EXCEPT !.admin = sender, !.pending_admin = None]
    /\ GridOnly

execute_pause(sender) ==
    /\ assert_admin(sender) /\ ~grid.paused
    /\ grid' = [grid EXCEPT !.paused = TRUE] /\ GridOnly

execute_resume(sender) ==
    /\ assert_admin(sender) /\ grid.paused
    /\ grid' = [grid EXCEPT !.paused = FALSE] /\ GridOnly

=============================================================================
