------------------------------ MODULE GridVault ------------------------------
(***************************************************************************)
(* The limit-order grid vault of one owner: it rests equal orders on the   *)
(* rungs of a price grid, learns of fills by looking, charges the protocol *)
(* fee in shares on what fills brought in, and lets the owner out, in the  *)
(* end without anybody's help.                                             *)
(*                                                                         *)
(* An action is a whole transaction: the entry point, the messages it      *)
(* sends and the replies to them.  The pair answers within the transaction *)
(* and pays with plain transfers, so nothing runs in between; PLACEMENTS,  *)
(* PENDING_PAGES and the reply ids are empty again when it ends.  A refused *)
(* call is no step.                                                        *)
(***************************************************************************)
EXTENDS LimitPair, FiniteSetsExt

CONSTANTS
    Admins,                  \* administrators, of the manager and of the vault
    Collector,               \* the fee collector, when fees are configured
    None,                    \* an absent Option or storage item
    Grids,                   \* what create_bot is called with
    Pools,                   \* reserves of the pair's pool, for the reference price
    MIN_PRICE, MAX_PRICE,    \* 10^9 and 10^27 atomics in the code
    MAX_GRID_COUNT,          \* config.max_grid_count
    MAX_ORDERS_PER_RECONCILE,
    MAX_ACTIVE_ORDERS,       \* config.max_active_orders_per_bot
    KEEPER_REWARD, MINIMUM_GAS_RESERVE,
    UNDISCOUNTED_FEE_BPS,    \* 180 in the code
    MAX_UINT128,             \* 2^128 - 1 in the code
    FeeAnswers,              \* fees the registry may answer
    MakerFees,               \* what the pair keeps of an order's escrow
    DepositAmounts, ShareAmounts, GasAmounts,  \* amounts callers name
    MaxGas,                  \* bound: gas credit
    MaxOrderId               \* bound: orders placed in a behaviour

ASSUME ShareholderAssumption == Collector \notin Users
ASSUME GridAssumption ==
    /\ Grids \subseteq [lower_price : Nat, upper_price : Nat, grid_count : Nat]
    /\ Pools \subseteq [Token -> Nat]
    /\ MIN_PRICE \in Nat \ {0} /\ MAX_PRICE \in Nat /\ MAX_GRID_COUNT \in Nat
ASSUME AmountAssumption ==
    /\ KEEPER_REWARD \in Nat /\ MINIMUM_GAS_RESERVE \in Nat /\ MAX_UINT128 \in Nat
    /\ DepositAmounts \subseteq Nat /\ ShareAmounts \subseteq Nat /\ GasAmounts \subseteq Nat
    /\ MakerFees \subseteq Nat

VARIABLES
    config,        \* owner, admin, pending_admin, keeper, fees configured; None: no vault
    mode,          \* VAULT_MODE
    policy,        \* token policy: enabled, allowed, quarantined
    bot,           \* BOTS: the grid, its balances, shares and gas; None before create_bot
    orders,        \* ORDERS: id -> recorded order
    cancelled,     \* CANCELLED_ORDERS: the ids
    shares,        \* SHARES: holder -> shares
    fee_cache      \* EFFECTIVE_FEE_CACHE of the owner

vault == <<config, mode, policy, bot, orders, cancelled, shares, fee_cache>>

required_gas == MINIMUM_GAS_RESERVE + KEEPER_REWARD

\* checked_add: the transaction fails on overflow.
fits(amount, onto) == amount \in 0..(MAX_UINT128 - onto)

sum_of(f, S) == MapThenSumSet(LAMBDA x : f[x], S)

VaultInit ==
    /\ config = None /\ mode = "Active" /\ bot = None
    /\ policy = [enabled |-> FALSE, allowed |-> {}, quarantined |-> {}]
    /\ orders = << >> /\ cancelled = {} /\ fee_cache = None
    /\ shares = [a \in Users \cup {Collector} |-> 0]

\* What instantiate saves.
instantiated(owner, admin, template) ==
    [owner |-> owner, admin |-> admin, pending_admin |-> None,
     keeper |-> template.keeper, fees |-> template.fees]

-----------------------------------------------------------------------------
(* The grid. *)

pool_price(reserves) == checked_ratio(reserves[1], ONE, reserves[0])

grid_price(grid, index) ==
    grid.lower_price
        + ((grid.upper_price - grid.lower_price) * index) \div (grid.grid_count - 1)

\* RUNGS: the price is fixed with the bot and gives the side.
rung_price(index) == grid_price(bot, index)
on_side(grid, reference, t) ==
    {r \in 0..(grid.grid_count - 1) :
        IF t = Ask THEN grid_price(grid, r) > reference
                   ELSE grid_price(grid, r) < reference}
side_rungs(t) == on_side(bot, bot.reference_price, t)

\* Prices rise with the index: the bids are the first rungs, the asks the last.
side_rung(t, k) ==
    IF t = Bid THEN k ELSE bot.grid_count - Cardinality(side_rungs(Ask)) + k

require_token_available(p, t) ==
    /\ t \notin p.quarantined
    /\ p.enabled => t \in p.allowed

\* The policy as create_bot finds it: the first bot allows its own tokens.
seeded == IF policy.enabled THEN policy
          ELSE [policy EXCEPT !.enabled = TRUE, !.allowed = @ \cup Token]

execute_create_bot(grid, reserves, gas) ==
    LET reference == pool_price(reserves) IN
    /\ config # None /\ mode = "Active" /\ bot = None
    /\ grid.grid_count \in 2..MAX_GRID_COUNT
    /\ grid.lower_price < grid.upper_price
    /\ \A t \in Token : require_token_available(seeded, t)
    /\ grid.grid_count <= pair.batch_limit
    /\ reserves[0] # 0 /\ reserves[1] # 0
    /\ grid.lower_price < reference /\ reference < grid.upper_price
    /\ \A i \in 0..(grid.grid_count - 1) : grid_price(grid, i) \in MIN_PRICE..MAX_PRICE
    /\ \A i \in 0..(grid.grid_count - 2) : grid_price(grid, i) # grid_price(grid, i + 1)
    /\ \A t \in Token : on_side(grid, reference, t) # {}
    /\ gas >= required_gas
    /\ policy' = seeded
    /\ bot' = [pair_code_id |-> pair.code_id,
               lower_price |-> grid.lower_price, upper_price |-> grid.upper_price,
               grid_count |-> grid.grid_count, reference_price |-> reference,
               free_balances |-> [t \in Token |-> 0], total_shares |-> 0,
               gas_credit |-> gas, active_orders |-> 0,
               pair_batch_limit |-> pair.batch_limit]
    /\ UNCHANGED <<config, mode, orders, cancelled, shares, fee_cache, market>>

-----------------------------------------------------------------------------
(* Placing orders. *)

assert_pair_code == pair.code_id = bot.pair_code_id

amount_each(free, t) == free[t] \div Cardinality(side_rungs(t))

\* Orders allocate_side sends for a side when `ahead' orders are counted: one
\* per rung, or none when there is too little or the limit is reached.
sent(free, t, ahead) ==
    LET n == Cardinality(side_rungs(t))
    IN  IF amount_each(free, t) = 0 \/ ahead + n > MAX_ACTIVE_ORDERS THEN 0 ELSE n

\* How many of `n' sent orders rest in the end: a batch is placed in full or
\* fails the transaction; a single order may be refused, and is restored.
may_rest(n) == IF n = 1 THEN {0, 1} ELSE {n}

\* `rest[t]' orders of each side, bids first, with maker fee `cut', on top of
\* the bot and the bank as the handler has made them.
place(b, new_bank, rest, cut) ==
    LET first(t) == IF t = Bid THEN next_order_id ELSE next_order_id + rest[Bid]
        total    == rest[Bid] + rest[Ask]
        new_ids  == next_order_id..(next_order_id + total - 1)
        each(t)  == amount_each(b.free_balances, t)
        side(o)  == IF o < first(Ask) THEN Bid ELSE Ask
        rung(o)  == side_rung(side(o), o - first(side(o)))
        left(o)  == each(side(o)) - cut
    IN  /\ total > 0 => cut \in MakerFees
        /\ \A o \in new_ids : cut < each(side(o))
        /\ next_order_id + total - 1 <= MaxOrderId
        /\ bot' = [b EXCEPT !.free_balances = [t \in Token |-> @[t] - rest[t] * each(t)],
                            !.active_orders = @ + total]
        /\ bank' = [t \in Token |->
                      [new_bank[t] EXCEPT ![GRID] = @ - rest[t] * each(t),
                                          ![OTHERS] = @ + rest[t] * cut]]
        /\ orders' = [o \in DOMAIN orders \cup new_ids |->
                        IF o \in DOMAIN orders THEN orders[o]
                        ELSE [rung_index |-> rung(o), token |-> side(o),
                              price |-> rung_price(rung(o)), remaining |-> left(o)]]
        /\ book' = [o \in DOMAIN book \cup new_ids |->
                      IF o \in DOMAIN book THEN book[o]
                      ELSE [token |-> side(o), price |-> rung_price(rung(o)),
                            left |-> left(o), parked |-> FALSE]]
        /\ next_order_id' = next_order_id + total
        /\ UNCHANGED pair

deposit_shares(amount, t, price) ==
    IF t = 0 THEN amount ELSE checked_ratio(amount, ONE, price)

\* The owner deposits through the token; the side that sells it is allocated.
execute_receive(t, amount, cut) ==
    LET minted    == deposit_shares(amount, t, bot.reference_price)
        deposited == [bot EXCEPT !.free_balances[t] = @ + amount, !.total_shares = @ + minted]
    IN  /\ bot # None /\ mode = "Active" /\ assert_pair_code
        /\ amount > 0 /\ amount <= bank[t][config.owner]
        /\ bot.gas_credit >= required_gas
        /\ t \notin policy.quarantined
        /\ bank[t][GRID] = bot.free_balances[t]
        /\ minted # 0
        /\ shares' = [shares EXCEPT ![config.owner] = @ + minted]
        /\ \E n \in may_rest(sent(deposited.free_balances, t, bot.active_orders)) :
              place(deposited, moved(config.owner, GRID, t, amount),
                    [s \in Token |-> IF s = t THEN n ELSE 0], cut)
        /\ UNCHANGED <<config, mode, policy, cancelled, fee_cache>>

\* The owner puts what is free back on the grid, bids first.
execute_allocate(cut) ==
    /\ bot # None /\ mode = "Active" /\ assert_pair_code
    /\ policy.quarantined = {}
    /\ LET bids == sent(bot.free_balances, Bid, bot.active_orders)
           asks == sent(bot.free_balances, Ask, bot.active_orders + bids)
       IN  /\ bids + asks > 0
           /\ \E b \in may_rest(bids), a \in may_rest(asks) :
                 place(bot, bank, [t \in Token |-> IF t = Bid THEN b ELSE a], cut)
    /\ UNCHANGED <<config, mode, policy, cancelled, shares, fee_cache>>

-----------------------------------------------------------------------------
(* Cancel and claim pages. *)

\* The entries in the order of their ids, `limit' to a page.
pages(entries, limit) ==
    LET page_of(o) == Cardinality({p \in entries : p < o}) \div limit
    IN  {{o \in entries : page_of(o) = page_of(e)} : e \in entries}

\* The entries of the pages that went through: the pair may fail any page, and
\* fails one above its limit.  A failed page leaves its orders as they were.
may_confirm(entries, limit) ==
    {UNION done : done \in SUBSET {p \in pages(entries, limit) :
                                     Cardinality(p) <= pair.batch_limit}}

refund(done, t) == sum_of([o \in DOMAIN book |-> book[o].left],
                          {o \in done : book[o].token = t})

\* Faulty variant (see README, "Mutants"): the refund of every page asked for.
hopeful_credit(free, asked, done, t) == free[t] + refund(asked, t)

\* What a confirmed page adds to the free balances.
credited_refund(free, asked, done, t) == free[t] + refund(done, t)

\* Faulty variant (see README, "Mutants"): recorded although the page failed.
cancels_asked_for(cancels, done) == cancels

cancels_recorded(cancels, done) == cancels \cap done

\* Faulty variant (see README, "Mutants"): removed when the page is sent.
untracked_when_sent(asked, done) == asked

untracked(asked, done) == done

\* Faulty variant (see README, "Mutants"): the orders of every page asked for.
orders_asked_for(asked, done) == Cardinality(asked)

orders_settled(asked, done) == Cardinality(done)

\* handle_pending_page for all pages of a transaction that cancels `cancels'
\* and claims `claims', on top of the bot `b' and the orders it tracks.
settle_pages(b, tracked, cancels, claims, done) ==
    LET asked == cancels \cup claims
    IN  /\ \A t \in Token : fits(refund(done, t), b.free_balances[t])
        /\ bot' = [b EXCEPT !.free_balances =
                                [t \in Token |-> credited_refund(@, asked, done, t)],
                            !.active_orders = @ - orders_settled(asked, done)]
        /\ orders' = Restrict(tracked, DOMAIN tracked \ untracked(asked, done))
        /\ cancelled' = cancelled \cup cancels_recorded(cancels, done)
        /\ bank' = [t \in Token |-> [bank[t] EXCEPT ![GRID] = @ + refund(done, t)]]
        /\ book' = Restrict(book, DOMAIN book \ done)
        /\ UNCHANGED <<pair, next_order_id>>

\* The orders a cancellation takes: the first ones in the order of their ids.
first_tracked ==
    {o \in DOMAIN orders :
        Cardinality({p \in DOMAIN orders : p < o}) < MAX_ORDERS_PER_RECONCILE}

validate_order(o, recorded) ==
    /\ book[o].token = recorded.token
    /\ book[o].price = recorded.price
    /\ book[o].left <= recorded.remaining

validate_refund(o, recorded) ==
    /\ book[o].token = recorded.token
    /\ book[o].left <= recorded.remaining

\* The owner cancels; every order must be as it was last seen.
execute_cancel_all ==
    /\ bot # None /\ assert_pair_code
    /\ \A o \in first_tracked : /\ active(o)
                                /\ validate_order(o, orders[o])
                                /\ book[o].left = orders[o].remaining
    /\ \E done \in may_confirm(first_tracked, pair.batch_limit) :
          settle_pages(bot, orders, first_tracked, {}, done)
    /\ UNCHANGED <<config, mode, policy, shares, fee_cache>>

-----------------------------------------------------------------------------
(* Reconciliation. *)

\* Faulty variant (see README, "Mutants"): only what is free.
free_value(b, tracked) == nav(b.free_balances, b.reference_price)

\* Free balances and the recorded escrow, in token 0.
bot_asset_value(b, tracked) ==
    nav([t \in Token |-> b.free_balances[t]
            + sum_of([o \in DOMAIN tracked |-> tracked[o].remaining],
                     {o \in DOMAIN tracked : tracked[o].token = t})],
        b.reference_price)

\* The rate and the cache it leaves for a registry's `answer' (None: no answer).
resolved_fee(answer) ==
    LET cache == IF answer = None THEN fee_cache ELSE Least(answer, BPS)
    IN  [cache |-> cache, bps |-> IF cache = None THEN UNDISCOUNTED_FEE_BPS ELSE cache]

\* Shares charge_fee mints for proceeds `credited', with the bot `b' and the
\* orders still tracked after the settlement.
fee_shares(b, tracked, credited, bps) ==
    fee_shares_for_value(checked_ratio(nav(credited, b.reference_price), bps, BPS),
                         bot_asset_value(b, tracked), b.total_shares)

\* Anybody reports a list of order ids; the keeper is paid for it.  An order
\* the pair knows neither as active nor as parked counts as executed; when the
\* pair's LimitOrder query fails, `blind', so does every active one.
execute_reconcile(ids, sender, answer, blind) ==
    LET credited == [t \in Token |-> bank[t][GRID] - bot.free_balances[t]]
        seen     == {o \in ids : active(o) /\ ~blind}
        claims   == {o \in ids : parked(o)}
        gone     == ids \ (seen \cup claims)
        filled   == {o \in seen : book[o].left # orders[o].remaining}
        tracked  == [o \in DOMAIN orders \ gone |->
                       IF o \in seen
                         THEN [orders[o] EXCEPT !.remaining = book[o].left]
                         ELSE orders[o]]
        synced   == [bot EXCEPT !.free_balances = [t \in Token |-> bank[t][GRID]],
                                !.active_orders = @ - Cardinality(gone)]
        fee      == resolved_fee(answer)
        minted   == IF config.fees THEN fee_shares(synced, tracked, credited, fee.bps) ELSE 0
    IN  /\ bot # None /\ mode = "Active" /\ assert_pair_code
        /\ ids # {} /\ Cardinality(ids) <= MAX_ORDERS_PER_RECONCILE
        /\ ids \subseteq DOMAIN orders
        /\ bot.gas_credit >= required_gas
        /\ \A t \in Token : credited[t] >= 0
        /\ \A o \in seen : validate_order(o, orders[o])
        /\ \A o \in claims : validate_refund(o, orders[o])
        /\ gone \cup claims \cup filled # {} \/ \E t \in Token : credited[t] # 0
        /\ fits(minted, bot.total_shares)
        /\ fee_cache' = IF config.fees THEN fee.cache ELSE fee_cache
        /\ shares' = [shares EXCEPT ![Collector] = @ + minted]
        /\ \E done \in may_confirm(claims, pair.batch_limit) :
              settle_pages([synced EXCEPT
                              !.total_shares = @ + minted,
                              !.gas_credit = IF sender = config.keeper
                                               THEN @ - KEEPER_REWARD ELSE @],
                           tracked, {}, claims, done)
        /\ UNCHANGED <<config, mode, policy>>

\* The owner has an order tracked again that the vault forgot.
execute_recover_order(o, index) ==
    LET t     == IF index \in side_rungs(Ask) THEN Ask ELSE Bid
        order == [rung_index |-> index, token |-> t, price |-> rung_price(index),
                  remaining |-> book[o].left]
        known == [p \in DOMAIN orders \cup {o} |-> IF p = o THEN order ELSE orders[p]]
    IN  /\ bot # None /\ assert_pair_code
        /\ o \notin DOMAIN orders /\ o \notin cancelled
        /\ index \in side_rungs(Ask) \cup side_rungs(Bid)
        /\ active(o) \/ parked(o)
        /\ active(o) => validate_order(o, order)
        /\ parked(o) => validate_refund(o, order)
        /\ order.remaining # 0
        /\ \E done \in may_confirm({p \in {o} : parked(p)}, bot.pair_batch_limit) :
              settle_pages([bot EXCEPT !.active_orders = @ + 1], known, {},
                           {p \in {o} : parked(p)}, done)
        /\ UNCHANGED <<config, mode, policy, shares, fee_cache>>

\* The owner credits what arrived without a report; no fee is charged.
execute_sync_balances ==
    /\ bot # None
    /\ \A t \in Token : bot.free_balances[t] <= bank[t][GRID]
    /\ bot' = [bot EXCEPT !.free_balances = [t \in Token |-> bank[t][GRID]]]
    /\ UNCHANGED <<config, mode, policy, orders, cancelled, shares, fee_cache, market>>

-----------------------------------------------------------------------------
(* Ways out. *)

\* `holder' burns `burned' shares for `paid' and leaves `free' behind; the
\* tokens go to `recipient'.
pay_out(holder, burned, paid, free, recipient) ==
    /\ bot' = [bot EXCEPT !.free_balances = free, !.total_shares = @ - burned]
    /\ shares' = [shares EXCEPT ![holder] = @ - burned]
    /\ bank' = [t \in Token |-> [bank[t] EXCEPT ![GRID] = @ - paid[t],
                                                ![recipient] = @ + paid[t]]]

redeem(holder, burned, recipient) ==
    LET paid == withdrawal_claims(bot.free_balances, burned, bot.total_shares)
    IN  /\ bot.active_orders = 0
        /\ burned \in 1..Least(shares[holder], bot.total_shares)
        /\ pay_out(holder, burned, paid,
                   [t \in Token |-> bot.free_balances[t] - paid[t]], recipient)
        /\ UNCHANGED <<config, mode, policy, orders, cancelled, fee_cache, pair, book, next_order_id>>

execute_withdraw(burned) ==
    /\ bot # None /\ mode # "Exit"
    /\ redeem(config.owner, burned, config.owner)

\* The configured collector redeems all it has, in any mode.
execute_redeem_shares ==
    /\ bot # None /\ config.fees
    /\ redeem(Collector, shares[Collector], OTHERS)

\* Faulty variant (see README, "Mutants"): as cancel_all settles an order.
unchanged_since_recorded(o) == active(o) /\ book[o].left = orders[o].remaining

\* The orders an emergency cancellation knows what to do with.
classified(o) ==
    \/ active(o) /\ validate_order(o, orders[o])
    \/ parked(o) /\ validate_refund(o, orders[o])

emergency_cancel_accepted ==
    /\ bot # None /\ mode = "Exit" /\ assert_pair_code
    /\ \A o \in first_tracked : classified(o)

\* The owner cancels or claims whatever state the orders are in.
execute_emergency_cancel ==
    LET cancels == {o \in first_tracked : active(o)}
        claims  == {o \in first_tracked : parked(o)}
    IN  /\ emergency_cancel_accepted
        /\ \E c \in may_confirm(cancels, bot.pair_batch_limit),
              d \in may_confirm(claims, bot.pair_batch_limit) :
              settle_pages(bot, orders, cancels, claims, c \cup d)
        /\ UNCHANGED <<config, mode, policy, shares, fee_cache>>

emergency_withdraw_accepted ==
    /\ bot # None /\ mode = "Exit"
    /\ DOMAIN orders = {}
    /\ shares[config.owner] \in 1..bot.total_shares

\* Faulty variant (see README, "Mutants"): the owner takes everything.
whole_balance(balances, burned, supply) == balances

emergency_claims(balances, burned, supply) == withdrawal_claims(balances, burned, supply)

\* Faulty variant (see README, "Mutants"): as if nobody else held shares.
nothing_left(supply, burned) == 0

supply_left(supply, burned) == supply - burned

\* The owner leaves with their part of what the vault really holds.
execute_emergency_withdraw ==
    LET balances == [t \in Token |-> bank[t][GRID]]
        burned   == shares[config.owner]
        paid     == emergency_claims(balances, burned, bot.total_shares)
    IN  /\ emergency_withdraw_accepted
        /\ shares' = [shares EXCEPT ![config.owner] = 0]
        /\ bot' = [bot EXCEPT
                     !.free_balances = [t \in Token |-> balances[t] - paid[t]],
                     !.total_shares = supply_left(@, burned),
                     !.active_orders = 0]
        /\ bank' = [t \in Token |-> [bank[t] EXCEPT ![GRID] = @ - paid[t],
                                                    ![config.owner] = @ + paid[t]]]
        /\ UNCHANGED <<config, mode, policy, orders, cancelled, fee_cache, pair, book, next_order_id>>

-----------------------------------------------------------------------------
(* Gas credit. *)

\* Anybody pays for the keeper.
execute_fund_gas(amount) ==
    /\ bot # None
    /\ amount > 0 /\ bot.gas_credit + amount <= MaxGas
    /\ bot' = [bot EXCEPT !.gas_credit = @ + amount]
    /\ UNCHANGED <<config, mode, policy, orders, cancelled, shares, fee_cache, market>>

\* Faulty variant (see README, "Mutants"): only resting orders need a keeper.
needed_by_orders == IF bot.active_orders # 0 THEN required_gas ELSE 0

\* What has to stay while somebody has a stake in the vault.
gas_to_keep ==
    IF bot.active_orders # 0 \/ bot.total_shares # 0 THEN required_gas ELSE 0

execute_withdraw_gas(amount) ==
    /\ bot # None
    /\ amount \in 1..bot.gas_credit
    /\ bot.gas_credit - amount >= gas_to_keep
    /\ bot' = [bot EXCEPT !.gas_credit = @ - amount]
    /\ UNCHANGED <<config, mode, policy, orders, cancelled, shares, fee_cache, market>>

-----------------------------------------------------------------------------
(* Governance. *)

execute_update_keeper(keeper) ==
    /\ config # None
    /\ config' = [config EXCEPT !.keeper = keeper]
    /\ UNCHANGED <<mode, policy, bot, orders, cancelled, shares, fee_cache, market>>

execute_transfer_admin(admin) ==
    /\ config # None
    /\ config' = [config EXCEPT !.pending_admin = admin]
    /\ UNCHANGED <<mode, policy, bot, orders, cancelled, shares, fee_cache, market>>

execute_accept_admin ==
    /\ config # None /\ config.pending_admin # None
    /\ config' = [config EXCEPT !.admin = config.pending_admin, !.pending_admin = None]
    /\ UNCHANGED <<mode, policy, bot, orders, cancelled, shares, fee_cache, market>>

execute_update_pair_code(code) ==
    /\ bot # None /\ code # 0
    /\ bot' = [bot EXCEPT !.pair_code_id = code]
    /\ UNCHANGED <<config, mode, policy, orders, cancelled, shares, fee_cache, market>>

set_mode(from, to) ==
    /\ config # None /\ mode \in from
    /\ mode' = to
    /\ UNCHANGED <<config, policy, bot, orders, cancelled, shares, fee_cache, market>>

execute_pause      == set_mode({"Active"}, "Paused")
execute_resume     == set_mode({"Paused"}, "Active")
execute_enter_exit == bot # None /\ set_mode({"Active", "Paused"}, "Exit")

set_policy(new) ==
    /\ config # None
    /\ policy' = new
    /\ UNCHANGED <<config, mode, bot, orders, cancelled, shares, fee_cache, market>>

execute_add_allowed_token(t) ==
    set_policy([policy EXCEPT !.enabled = TRUE, !.allowed = @ \cup {t}])
execute_remove_allowed_token(t) == set_policy([policy EXCEPT !.allowed = @ \ {t}])
execute_quarantine_token(t)     == set_policy([policy EXCEPT !.quarantined = @ \cup {t}])
execute_unquarantine_token(t)   == set_policy([policy EXCEPT !.quarantined = @ \ {t}])
=============================================================================
