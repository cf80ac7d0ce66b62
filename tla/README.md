# TLA+ verification of the CL8Y bot and liquidity contracts

This directory models the programs of this repository in TLA+, checks them with
TLC on small instances and proves the central results with TLAPS for every
value of the constants. All paths are relative to the repository root (`src/`
in `PROJECT.json`).

## 1. The system

| part | where | state | operations |
|---|---|---|---|
| **bot-vault** | `rebalancer-system/contracts/bot-vault` | admin and hand-over, keeper, liquidity binding (address + code id), proxy, pair code id, pause, risk limits, reference price, fee registry/collector, fee cache, `PENDING_REBALANCE` | `Rebalance` and its reply, `SyncReference`, `LiquiditySwap`, `Transfer`, `Finalize` (liquidity only), pause/resume, set/revoke liquidity, keeper, thresholds, fee config, admin hand-over, migrate |
| **bot-liquidity** | `rebalancer-system/contracts/bot-liquidity` | vault, admin, minimum first deposit, the CW20 share ledger, `PENDING` (deposit, single-token withdrawal, authorized transfers) | `Deposit`, `Withdraw` (pro rata or one token), their replies, `MintTo`, CW20 transfer and burn, config, hand-over |
| **swap-proxy** | `rebalancer-system/contracts/swap-proxy` | admin, routes | `RegisterVault`, `RemoveVault`, `Receive` (forward a swap), hand-over, migrate |
| **fee-registry** | `fee-system/contracts/fee-registry` | tiers, base fee, holdings seen, configuration | tier maintenance, `RefreshHolding`, `EffectiveFee` query |
| **fee-collector** | `fee-system/contracts/fee-collector` | configuration, `VAULT_SHARES` collected so far | `Collect`, configuration |
| **market grid** | `market-grid-system/contracts/grid-vault-swap` | custody of two assets, share ledger, last grid cell, pending swap, pause, fee config | `Receive` (deposit), `Withdraw`, `Rebalance` and its reply, `RedeemShares`, configuration |
| **grid-vault** (limit grid) | `limit-grid-system/contracts/grid-vault` | owner, admin and keeper, `VAULT_MODE`, token policy, one bot (grid, free balances, shares, gas credit, order count, pinned pair code), `ORDERS`, `CANCELLED_ORDERS`, share ledger, fee cache | create bot, deposit, allocate, reconcile, recover order, cancel all, sync, withdraw, gas, `RedeemShares`, enter exit, emergency cancel and withdraw, token policy, pause/resume, keeper, hand-over |
| **grid-manager** | `limit-grid-system/contracts/grid-manager` | admin, template, pending creations, `VAULTS` and the owners' index | `CreateVault` and its reply, update config, hand-over |
| **grid operator** | `grid-operator-system/services/grid-operator` (`keeper.py`, `indexer.py`, `db.py`, `cli.py`) | SQLite: scan cursor, orders, raw events, batches with their events, transaction attempts | scan, refresh orders, freeze, sign, mark, broadcast, poll, confirm, record failures, clear an intervention |
| **swap keeper**, **discovery keeper** | the same directory, `swap_keeper.py`, `discovery_keeper.py` | a JSON file per vault: in-flight hash or broadcast marker, suppressed plan | one keeper pass per vault |
| **example keeper** | `rebalancer-system/examples/keeper` | the same file, with a checksum and three backups | one keeper pass; `diagnose`, `resolve`, `restore-backup` |
| *external* | CL8Y DEX pair and factory, CW20 tokens, the CosmWasm chain | | |

### How the parts interact

A *transaction* is one call of one entry point. A handler that succeeds returns
messages, which the chain runs depth first; a handler that fails undoes the
transaction, or, below a `reply_always` submessage, everything since that
submessage was sent. The contracts call each other in the middle of
transactions: bot-liquidity tells bot-vault to swap, transfer or finalize;
bot-vault asks bot-liquidity by query (`Authorization`) whether the operation
is the pending one; bot-vault sends the offered tokens to swap-proxy, which
sends them to the pair, naming the vault as receiver of the proceeds; the pair
is foreign code and may call any entry point before it returns. After a
rebalance bot-vault asks the fee registry for the administrator's fee and lets
bot-liquidity mint the collector's shares (`MintTo`).

The market grid is one contract with the same pattern: a rebalance hands the
offer to the pair, and its reply settles, charges the fee in shares and takes
the new grid cell over. The fee collector later redeems such shares from either
kind of vault.

The limit grid rests orders instead of swapping. The manager instantiates a vault
per owner and is not heard of again. The vault places one order per rung, and
the pair fills them without telling it: the vault learns of fills when somebody
reports orders with `Reconcile` (the keeper is paid from the gas reserve), and of
refunds of expired orders, which the pair parks, by claiming them.
Cancellations and claims go out in pages of at most the pair's batch limit, each
a `reply_always` submessage that may fail without the others.

The off-chain programs meet the contracts only through transactions and
queries. The grid operator turns final blocks into events of fills, freezes a
bounded batch of orders, and reports them to the limit-grid vault with
`Reconcile`; the swap keepers ask a vault for its plan and send `Rebalance`.
All of them are single processes with a file or a database that outlives them.

### What is hard

* **Re-entrance and pending slots.** Between the dispatch of a swap and its
  reply the contracts are half settled. `PENDING_REBALANCE` and `PENDING` guard
  that window; whoever fills them relies on the reply to empty them on *every*
  path, also when the swap fails.
* **One vault, everybody's money.** A deposit's swap is paid out of the common
  custody; a withdrawal's swap likewise. Roundings decide who pays.
* **Failures caught in the middle.** A single-token withdrawal catches the
  failure of its swap; nothing may be burned or left pending.
* **Two contracts, one binding.** Code ids may drift, the administrator may
  revoke and rebind; exits must stay open, and custody must not follow a
  revoked or migrated contract.
* **Learning by looking.** The limit grid's free balances and orders are a cache
  of what the pair did meanwhile. Escrow that fills between two looks must be in
  the recorded orders or in the balance, never in both and never in neither.
* **The way out.** An owner whose administrator, keeper or token fails has the
  Exit mode; every state the orders may be in has to be one it can handle.
* **Stale data.** Captured TWAP, captured balances, the cached fee; an order
  list refreshed ahead of the scan.
* **A transaction nobody has heard of again.** The process dies, a save fails or
  an answer is lost anywhere between signing and saving the hash. Sending again
  pays twice; never sending again stops the vault.
* **Fills go on.** Orders are filled, expire, and are reconciled by others
  while a batch with their events is on its way.

`PROJECT.json` lists each such hazard at its line, with the properties that
would catch it.

## 2. Modules

| module | models |
|---|---|
| `Cl8yMath` | floor ratios, deviations, the planned trade, deposit, withdrawal and fee shares of the rebalancer |
| `RebalancerState` | the contracts' storage, every message's type, and the transaction machine (`work`, `Submit`, `Abort`, `Commit`) |
| `Dex` | the asset CW20s and the pair, external: exact transfers; the pair pays any amount, refuses or calls back; markets, pair and bot-liquidity code move between transactions |
| `SwapProxy`, `BotVault`, `BotLiquidity` | the three contracts, one operator per entry point |
| `Rebalancer` | the composition: initial states, next-state relation, properties |
| `ShareVault` | the abstract specification: what a two-asset share vault promises |
| `MCRebalancer` | the instances for TLC |
| `FeeRegistry` | the ladder of tiers and governance's operations on it; `MCFeeRegistry` instantiates it |
| `GridMath` | cells, target weights, planned trades and deposit shares of the market grid |
| `MarketGrid` | the market grid's entry points, its swap and reply; the fee collector's record |
| `MarketGridSystem` | `MarketGrid` over `FeeRegistry`: initial states, next-state relation, properties; `MCMarketGrid` instantiates it |
| `LimitPair` | external to the limit grid: the pair's book, its fills, expiries, parked refunds, batch limit and code; the balances; one incident may happen per behaviour |
| `GridVault` | the limit-grid vault, one operator per entry point |
| `GridManager` | the manager: template, reserved ids, `VAULTS` and the owners' index |
| `LimitGrid` | the composition: one vault of the manager followed from its creation to its exit; initial states, next-state relation, properties. `MCLimitGrid` instantiates it |
| `GridChain` | external to the operator: one limit-grid vault's orders, the pair's fills and refunds, the operator's transactions |
| `GridIndexer`, `GridKeeper` | the operator's database: scanning and refreshing; one operator per database transaction on a batch |
| `GridOperator` | the process: the serial loop, its calls, crashes, properties. TLC runs it directly |
| `TrackedKeeper` | what the two JSON-file keepers share, and the chain they talk to |
| `SwapKeeper`, `RebalancerKeeper` | `swap_keeper.py`; the example keeper with its operator's commands. TLC runs these two directly |
| `Cl8yMath_proofs` | lemmas about the contracts' arithmetic and about sums over a finite set of accounts, which the contracts' proofs use |
| `ShareVault_proofs`, `Rebalancer_proofs`, `RebalancerCustody_proofs`, `MarketGrid_proofs`, `Keepers_proofs`, `LimitGrid_proofs`, `GridOperator_proofs` | the theorems |

`RebalancerState <- Dex <- SwapProxy <- BotVault <- BotLiquidity <- Rebalancer`
and `LimitPair <- GridVault <- GridManager <- LimitGrid` are
chains of EXTENDS, because the contracts read each other's storage by
query and the transaction machine undoes all of them together. State is one
record per contract whose fields carry the names of the Rust storage
structures; an operator has the name of the Rust function it translates.

*Transaction machine.* `work` is the list of messages the running transaction
has still to run, `Head(work)` the one being handled. A handler is an action
with two kinds of disjunct: accepted (storage changes, `Return(msgs)` puts its
messages in front) and refused (`Abort`). Two messages remember the state to go
back to: `Commit`, at the end of every transaction, and `WithdrawReply`, the
reply of the only `reply_always` submessage. `Submit` starts a transaction when
`work` is empty, or, while the pair's `Receive` is at the head, is the pair
calling back. Queries see the current, half-settled state, as on chain.

*Data.* A Decimal is its number of atomics with `ONE` for 10^18; the constants
that only scale (`LOCKED_INITIAL_SHARES`, the undiscounted fee) are CONSTANTS so
that small amounts show the roundings. Intermediate products are Uint256 in the
code and every narrowing is checked, so integers do not wrap: overflow of
Uint128 is an error that fails the transaction and is left out, with amounts
below it. Addresses are model values; validation of address strings,
attributes and query pagination are left out. CW20 allowances of the share
token are left out: a delegated transfer is a transfer its owner consented to.

*Market grid.* Every call is one step but `Rebalance`, which keeps the state
it found in `before`, its plan in `swap`, and hands over to the pair; the pair
pays and calls back, and the reply settles or goes back to `before`. `FeeRegistry` is the real ladder here, not
an arbitrary answer; its configuration in the market runs is the base fee with
CL8Y balances 0 and 200.

*Limit grid.* An action is a whole transaction. Unlike the rebalancer's pair,
the limit-order pair answers the vault's messages with plain transfers, so
nothing runs in between, and `PLACEMENTS`, `PENDING_PAGES` and the reply ids are
empty again when the transaction ends. Which pages fail, which orders are
refused or skipped and what the pair keeps of an escrow (`MakerFees`) are
choices within the action; a page that fails leaves no trace but its event, and
a single order that fails is given back. `ReconcileBlind` is a report
while the pair's order query fails. Prices of the rungs are computed from the
grid as `RUNGS` is, since they never change after `create_bot`. The administrator's
calls and the pair's incidents are counted by `Event`, except those that end
what another one began (resume, accept, unquarantine).

*Grid operator.* One action is one database transaction or one call, so that
the chain, a crash or the operator's command may come between any two. `op`
holds what the process knows besides the database: where it is, its batch, the
answer it got, the height it scans to. `chain.covered` is history only. An
attempt is a field of its batch, because only the latest one is read. One
event is one block; fills of one block differ in nothing the code looks at.
SQLite's transactions are atomic and durable (`journal_mode=WAL`,
`synchronous=FULL`), which the model takes as given.

*JSON-file keepers.* `files` is the state file followed by its backups; a save
replaces it atomically (write, fsync, rename), or raises and leaves the old one, or,
when only the directory's fsync fails, raises and leaves the new one,
while the tracker in memory has the new values, as in the code. The node takes
or refuses a transaction, or the call fails with either. `failed` is history
only. A transaction is final once the configured confirmation blocks are on top
of it; the operator is to configure more of them than a reorganisation is deep.

## 3. What is checked

| run | instance | what it shows |
|---|---|---|
| `rebalancer_lp` | two depositors (symmetric), the collector, the keeper; two market states; any four transactions | the share ledger adds up (`SharesAccounted`), a failed or short withdrawal changes nothing (`WithdrawalAllOrNothing`), and the contracts implement `ShareVault` (`KeepsSharePromise`), by which deposits, withdrawals, donations and burns dilute nobody and only a call of `Rebalance` trades |
| `rebalancer_hooks` | one depositor, a pair that calls back once per transaction into any contract, in which a new administrator may take over; a registry that answers 0, 200 % or not at all; administrators, expired, unauthorized and invalid calls, migrations of all contracts, drift of the pair's and of bot-liquidity's code; three transactions | no pending slot survives its transaction (`SettledBetweenTransactions`), a deposit's swap costs incumbents nothing (`DepositSparesIncumbents`), a rebalance draws only its offer (`RebalanceDrawBounded`), the minted fee is worth no more than the fee (`FeeNeverOverclaims`), nothing stays in the proxy (`ProxyKeepsNothing`), a paused vault mints nothing and pays only pro-rata exits (`PauseHolds`), a revoked or migrated liquidity contract moves nothing (`StaleBindingHasNoCustody`), a due pro-rata exit is never refused (`ExitAlwaysOpen`) |
| `fee_registry` | the canonical ladder changed at both ends and in the middle, any order of calls | reserved tiers never apply (`ReservedTiersNeverApply`), more CL8Y never costs more (`MoreCl8yNeverCostsMore`) |
| `market` | two users (symmetric), a keeper, the collector; two market states, a pair that calls back once, three configurations, drift of the pair's code, a CL8Y token that may fail to answer; three transactions | the share ledger adds up through deposits, exits and hand-overs (`SharesAccounted`); no fee share is lost between vault and collector (`FeesAccountedFor`); nobody is diluted outside of a swap, also by the first deposit after a donation (`NobodyDiluted`); no fee overclaims (`FeeNeverOverclaims`); a settled rebalance lost no more than configured (`LossBounded`) |
| `market_bound` | three markets, no callbacks | *expected violation*: see Findings |
| `operator` | two orders of two fills, batches of one order, four event blocks, two faults, a batch fails at most twice, fairness | nothing is sent twice (`NeverSentTwice`), nothing leaves the queue without a final reconcile (`ReconciledOnChain`), every scanned fill is queued or accounted for (`NoFillLost`), no event is frozen twice (`FrozenOnce`), inclusions are recognised (`InclusionRecognised`), fills are scanned (`FillsScanned`) |
| `operator_late_fills` | one order of three fills, no fault | *expected violation*: see Findings |
| `limit_grid` | two users, two administrators, a keeper and anybody else, two vaults; one bid and two asks around the price 3/2; one incident; three orders | the owner's and the collector's shares are all there are (`SharesAccounted`); free balances are in custody (`FreeInCustody`); the order count is the number of tracked orders (`OrdersCounted`); what the pair holds for the vault is tracked or recoverable (`EscrowReachable`), and only a blind report untracks a live order (`TrackedUntilGone`); the keeper's minimum reserve stays behind shares (`ReserveBehindShares`); no exit pays more than the burned part (`NobodyOverpaid`); no fee overclaims as long as no live order is forgotten (`FeeNeverOverclaims`); in Exit the owner can cancel or leave, executed orders aside (`ExitOpenUnlessExecuted`); the manager's maps agree with the vaults (`RegistryConsistent`) |
| `limit_grid_exit` | the same instance, a pair that may keep 1 of an escrow | *expected violation*: see Findings |
| `swap_keeper` | two plans, three transactions, three faults, fairness | one transaction in flight (`OneInFlight`), known to the file (`UnresolvedIsSaved`), rejected plans wait (`RejectedPlansWait`), a final transaction is let go of (`FinalIsResolved`) |
| `example_keeper` | one plan, two backups, four transactions, two faults, `resolve`, one misread failure and one `restore-backup` | each of the last two costs at most one more transaction in flight (`InFlightPaidFor`) and at most one the file does not know (`UnsavedPaidFor`) |
| `example_keeper_misread` | the misread failure alone | *expected violation*: see Findings |

The modules' `TypeOK` and `RepliesFollowSlots` are among the invariants of no run:
they are proved.

**Bounds.** For the contracts with callbacks `MaxTxs` (transactions per behaviour) and `MaxHooks` (callbacks per
transaction) are the only counters. Every hazard of re-entrance needs at most a
bootstrap deposit, one operation that goes wrong and one that profits from it;
four transactions add a second depositor or a rebalance in between. One
callback suffices to re-enter with any call; callbacks nest because the called
handler may reach the pair again. Amounts up to nine tokens with one locked
share exercise each rounding, and `Returns` lets the pair pay less than, as
much as and more than the fair price. The fee registry answers 0 or 200 % or
fails. In `rebalancer_hooks` the tolerance is half the threshold, so that two rebalances
fit behind one deposit: the first caches a fee and its callback names another
administrator, the callback of the second lets him accept, and the registry fails.

In the market runs `ONE` is 2 and the range of two cells goes from price 1 to 3.
`market` uses the middle and the upper end and a second configuration of one
cell, so that a move of the market as well as a reconfiguration makes a
rebalance due; `market_bound` adds the lower end. `Returns` again holds less
than, as much as and more than fair.

In the limit grid's runs `ONE` is 2, amounts are at most a handful and divisions
leave remainders; the pair keeps nothing of an escrow (in `limit_grid_exit` nothing or
1; the theorems allow anything); its batch limit is 1
or 3, so that a call on two orders takes one page or two, of which any may
fail, and that the limit may fall below what the vault recorded. Reports and
cancellations take up to two orders of the three that fit (`MAX_ORDERS_PER_RECONCILE`,
`MAX_ACTIVE_ORDERS`, `MaxOrderId`). `MaxEvents`
allows one incident per behaviour: a change of the pair's code or batch limit, a donation, a
blind report, a call of the administrator, a withdrawal of gas. `FirstOwner`
fixes whose vault is followed, `MaxVaults` is 2. The
manager's and the administrator's calls happen before the bot exists
(`Deploying`), and a bot is created only in a vault nobody reconfigured
(`Untouched`): they do not act on the bot otherwise, save for pausing,
quarantine and the pinned code, which are allowed at any time. The theorems of
section 4 hold without any of these bounds but these two.

For the operator, `MaxHeight` bounds the blocks with an event (empty blocks go
on until the last is final), `MaxFaults` crashes, lost answers, refused or
failing calls. Two faults suffice for a lost answer with a crash behind it, or
for a batch that fails into intervention with `MAX_FAILURES` at 2, is cleared and
fails again. Two orders with batches of one leave one order waiting while the
other is on its way. For the keepers three transactions and three faults leave
room for a lost one, a reorganised one and one too many; the example keeper may
have three in flight, after a misread failure and a restored backup, and a
fourth would be one too many.

**Mutants.** Beside some definitions stands a *faulty variant*: the same
operator with a dropped guard, a wrong rounding or a forgotten reset, as a bug
in that code would have it. `PROJECT.json` names, for each property, a variant
under which TLC finds the property violated; the properties thereby show that
they depend on what the code does. The specifications never use the variants.

**Fairness.** The contracts' properties assume none: on chain nobody is obliged
to call anything. `GridOperator!FairSpec` and `SwapKeeper!FairSpec` assume weak
fairness of the process's own steps as one action, because the documented
service units restart it and every call has a timeout, and, for the operator,
that empty blocks go on. A final transaction whose status is not answered in
time is a fault and counts against `MaxFaults`: the node answers at last. Nothing is assumed of inclusion, of commands, of the
backoff or of which outcome a call has. That an owner can leave a limit grid is stated
without fairness: `ExitOpenUnlessExecuted` says that one of two calls is accepted
in the state at hand, and asks nobody else to act.

## 4. What is proved

TLAPS proves, for all values of the constants under the named assumptions in
the modules: accounts are distinct, the users a finite set (`ActorAssumption`);
limits are within the caps the code validates; calls are messages, and the three
contracts send nothing but what their handlers return (`CallsAssumption`: on
chain the sender of a message is its caller); an absent item differs from every
value that could be present (`NoneAssumption`); amounts are naturals.

**The rebalancer: what every state keeps** (`Rebalancer_proofs`)

* `TypeCorrect`: `Spec => []TypeOK`, in every state, also
  between two messages of a transaction. It is inductive as it stands because
  `TypeOK` also types the messages of `work` and the snapshots in them; the
  proof has one lemma per action. The arithmetic it needs (a ratio of naturals
  is a natural, a deviation is at most 10 000 bps, a planned offer at most half
  the holding) is in `Cl8yMath_proofs`.
* `RepliesAlwaysFollow` and `AlwaysSettled`:
  no sequence of calls, failures and callbacks leaves a pending slot filled.
  `SettledBetweenTransactions` alone is not inductive: it says nothing of the
  middle of a transaction. The strengthening `RepliesFollowSlots` says that a
  filled slot has exactly the replies that will empty it in `work`, in order,
  and that every snapshot in `work` is followed by the replies its own slots
  need, which is what survives an abort.
* `LedgerBalanced`: the shares of all holders are the total supply
  (`SharesAccounted`), for any finite set of users. Inductive once it is said of
  the snapshots too (`LedgerKept`), because a failure goes back to one of them.
* `AlwaysGuarded`, on which the custody proofs rest: `Guarded` adds to the types and to
  `RepliesFollowSlots` the shape of the stack. `Stacked`: only messages the
  contracts send one another wait behind the one being handled, in a contract's name
  only what that contract sent; a deposit's swap waits behind nothing but transfers of
  the deposit; and an entry point runs either first in its transaction or as a callback. `UnboundKept`: a vault without liquidity contract is paused,
  in every snapshot too. `SwapsWatched`: while a swap is on its way a rebalance,
  deposit or single-token withdrawal is pending, and no reply that would end it
  is due before the swap.

**The rebalancer: who may take what** (`RebalancerCustody_proofs`). None of these
properties is inductive: each speaks of one moment, of a slot or of the end
of a transaction, and holds only because of what is still to run. Each has an
invariant of its own beside `Guarded`:

| theorem | property | invariant: what it adds |
|---|---|---|
| `RebalanceDrawIsBounded` | `RebalanceDrawBounded` | `DrawBounded`: while the offer is being sent the vault still has everything, from then on it is short of that offer, also in the snapshots; no payment runs meanwhile |
| `DepositsSpareIncumbents` | `DepositSparesIncumbents` | `DepositFunded`: as long as the deposit's swap waits, its amount has been received beyond the recorded balances, or a transfer in front of it brings it |
| `ProxyIsEmpty` | `ProxyKeepsNothing` | `ProxyFlow`: the proxy has exactly what the message being handled carries through it |
| `StaleBindingsHaveNoCustody` | `StaleBindingHasNoCustody` | `StaleKept`: no swap and no payment is under way, and the vault keeps its configuration and its assets, in the snapshots too |
| `PausedVaultHolds` | `PauseHolds` | `PauseKept`: the vault stays paused with nothing pending, no swap and no reply of a rebalance waits, liquidity's replies wait right behind a call the paused vault refuses, and only a pro-rata exit authorizes payments |
| `FeesNeverOverclaim` | `FeeNeverOverclaims` | `FeeKept`: a pending rebalance recorded the balances and the price its transaction found |
| `WithdrawalsAreAtomic` | `WithdrawalAllOrNothing` | `WithdrawPhases`: a withdrawal is asked for, has its swap running with shares and slot untouched and a snapshot to go back to, has failed, has burned its shares with every payment made or waiting in `work`, or is undone |

Two theorems have a hypothesis on the calls.
`ProxyIsEmpty` assumes `ProxyUnpaid`: no transfer and no withdrawal names the proxy as
its recipient. Nothing on chain prevents such a gift, and the proxy has no way to
give it away again; the property is about what swaps leave there.
`WithdrawalsAreAtomic` assumes `HooksSpendOwn`: of the transfers of assets made in
a callback, the pair makes only its own. Otherwise the recipient might spend
what it has received before the transaction ends, and hold less at the end
although it was paid. All other calls (deposits, withdrawals, rebalances,
share transfers, administration, migrations) are callbacks under both
hypotheses. For the same reason `WithdrawalAllOrNothing` leaves out withdrawals to
the vault, the proxy and the pair, whose balances the swap itself moves.

**The market grid and the fee registry** (`MarketGrid_proofs`), for any accounts,
ladder, market, configuration, pair and number of callbacks: every property of the run
`market` (`GridSharesAccounted`, `GridFeesAccounted`, `GridNobodyDiluted`,
`GridFeeNeverOverclaims`, `GridLossBounded`), its types (`GridTypeSafe`), and both of
`fee_registry` (`RegistryReservesTiers`, `RegistryDiscountsMonotone`), also while a failed
rebalance rolls the registry back (`GridRegistrySafe`). The invariant `GridInv` says that the
present state is typed and `Sound` (the ledger adds up, minted fee shares are
in it or in the collector's record, the registry's reserved tiers are marked)
and, while a rebalance runs (`Underway`), that `PENDING_SWAP` is its plan, that `before` is sound
as well, that the pair still has the offer, and that the least return of the plan is
within the configured loss, which nothing called back meanwhile may change. From it the three
action properties are proved step by step; `GridLossBounded` needs most of the arithmetic.

**The arithmetic**

* `DepositSharesFair`, `ClaimsFair`, `FeeSharesFair` (`Cl8yMath_proofs`): the
  three roundings favour the vault for every amount.
* `SumEmpty`, `SumStep`, `SumSame`, `SumUpdate`, `SumMoved` and the rest of their family
  (`Cl8yMath_proofs`): what a sum over a finite set of accounts does when one
  account changes or two exchange shares. The sum is a fold, and the library's
  induction on finite sets is out of the prover's reach; the lemmas are proved from a
  minimal counterexample instead (`MinimalSubset`).
* `AlwaysBacked`, `NobodyDiluted` (`ShareVault_proofs`), for any set of amounts
  and a positive number of locked shares: what the abstract promise means for the
  holders. The contracts keep the promise (`KeepsSharePromise`, by TLC), so
  shares outstanding are backed by both assets, and no call but a rebalance lowers the
  assets behind a share: the refinement mapping takes `trading` for "the running
  transaction is a call of `Rebalance`". Typing is a condition of every step of `ShareVault`,
  so its lemma (`SVTyping`) is only what these two rest on.

**The keepers, the limit grid and the operator**

* `SwapKeeperOneInFlight`, `SwapKeeperUnresolvedIsSaved`, `SwapKeeperTypeOK`
  (`Keepers_proofs`), under `TrackedKeeperAssumption` (bounds are naturals, no
  plan is `None`): for any number of plans, transactions, backups and faults.
  `OneInFlight` is not inductive: that all earlier transactions are final at a
  broadcast is known only from the tracker. The invariant `IInv` adds that only
  the last transaction may be open, that the tracker in memory (`Memory`), like
  the file, knows it or carries the marker, and what each step of a submission
  relies on (`Submission`).
* `RebalancerKeeperOneInFlight`, `RebalancerKeeperUnresolvedIsSaved`: the same
  invariant for the example keeper, if `MaxMisread = 0` and `MaxRestores = 0`.
  Without either condition TLC finds the property violated.
* `RebalancerKeeperInFlightPaidFor`, `RebalancerKeeperUnsavedPaidFor`,
  `RebalancerKeeperTypeOK`: what happens without them, for any number of either. The
  invariant `RkIInv` bounds three sets of open transactions by the number of misread failures and
  restored backups (`Forgivable`): those the file does not know, those the running
  process does not know, and, before a broadcast, all of them; and it says that the
  backups, too, name only transactions the node took.
* `LimitGrid_proofs`, under the assumptions of `LimitPair`, `GridVault`, `GridManager`
  and `LimitGrid`, for any number of users, rungs, orders, pages, incidents and any
  amounts, fees and limits: `TypeCorrect`, `SharesAlwaysAccounted`, `AlwaysInCustody`,
  `OrdersAlwaysCounted`, `ReserveAlwaysBehindShares`, `EscrowAlwaysReachable`,
  `ExitAlwaysOpen`, `NeverForgotten`, `NobodyEverOverpaid` and
  `RegistryAlwaysConsistent`, which is every property of the run `limit_grid` but
  `FeeNeverOverclaims`. They rest on one inductive invariant, `IInv`, the
  conjunction of the types, the four accounting invariants (shares, custody,
  order count, reserve) and of what these need of each other: nothing is owned or at
  rest before the bot exists (`NoBot`); the grid has rungs on both sides (`GridOK`);
  what is at rest is on a rung of its side and was never recorded as cancelled
  (`EscrowRecoverable`); a tracked order agrees with what the pair has of it
  (`OrdersMatch`). The accounting invariants are not inductive by themselves: a
  refund is credited from the order's record, so free balances stay in custody only if
  the record is right; the record of a recovered order is right only because orders
  rest on rungs and ids are never reused. There is one lemma per action; the pages of a
  cancellation and the placements on both sides have their own, because they are
  settled together in one step. `EscrowReachable` and `ExitOpenUnlessExecuted`
  follow from `IInv` in a single state; `TrackedUntilGone` and `NobodyOverpaid` are
  proved of each step from it. `RegistryConsistent` has an invariant of its own
  (`RegistryInv`, which adds only the types of the next id and of the instances).
* `GridOperator_proofs`, under `GridChainAssumption` and `GridKeeperAssumption` (a fill
  and a failure take at least one, batches are not empty, bounds are naturals), for
  any number of orders, fills, blocks, faults and failures and any finality depth:
  `OperatorTypeCorrect`, `OperatorNeverSendsTwice`, `OperatorTakesOnlyReconciled`,
  `OperatorLosesNoFill`, `OperatorFreezesOnce`. They rest on one inductive invariant.
  That nothing is open when a transaction is sent is not in the chain but in the state
  of the latest batch (`LatestOK`: a batch that may be signed has nothing open and
  nothing done; one that is polled knows the last transaction) and in where
  the process is (`StageOK`); every other batch is confirmed (`BatchOK`). That
  a confirmation covers what the batch was frozen for needs `TxOK`: a transaction
  runs after those fills. That no fill is lost needs the chain's side (`ChainOK`: a
  fill nobody accounted for belongs to a tracked order whose recorded remainder is
  too high) and the indexer's (`IndexOK`: a tracked order that is not active
  was placed above the scanned height). The chain's steps are shown once to be
  among those a block may take (`Grows`), and such a block keeps the invariant.

Only model-checked: `LateFillsConsumed` (which is violated), liveness
(`InclusionRecognised`, `FillsScanned`, `FinalIsResolved`), `RejectedPlansWait`, the
rebalancer's `ExitAlwaysOpen` and its refinement of `ShareVault` (`KeepsSharePromise`), the
three expected violations of section 5 with their properties, and the fee of the limit grid
(`FeeNeverOverclaims` there), whose value is a sum over the orders.

## 5. Findings

Each is a run that is expected to end in a violation; the counterexample of TLC
is the behaviour described.

* `market_bound`: `market-grid-system/README.md:74-76` says that lower-bound
  portfolios produce a corrective plan rather than an error. They do, but the
  deviation is 10,000 bps before and after a trade that leaves any token 1, so
  the vault's own reply refuses the plan's swap.
* `operator_late_fills`: the operator's README (lines 43-46) says that a
  confirmation also marks fills indexed after the freeze, through the height of
  execution. The scan comes before the poll in a serial loop, so those fills are
  not in the table yet; they start a batch of their own, which the vault refuses
  as long as nothing else has changed.
* `example_keeper_misread`: the keeper's README promises one hash in flight and a
  stop on an unknown outcome. A broadcast command that fails without a transient
  word in its output counts as a rejection, though the node may have taken the
  transaction.
* `limit_grid_exit`: `grid-operator-system/docs/GRID_MANAGER_PROTOCOL.md:292` says that
  Exit "keeps the owner recovery path available while normal maintenance is
  disabled", and line 39 that a missing order with a healthy parked query is not
  ambiguous. An order executed in full that nobody reported before `EnterExit`
  is just that, and `execute_emergency_cancel` refuses it as unverifiable;
  `execute_emergency_withdraw` waits until no order is tracked, and neither
  `Reconcile` nor a return from Exit is accepted any more. The fill may come between
  the owner's last look and the call. `ExitOpenUnlessExecuted` shows that, with the
  pinned pair code, this is the only such state.

Seen while reading and modelling, without a run of their own:

* A report while the pair's order query fails takes the orders for executed and
  forgets them, live as they are. `RecoverOrder` brings them back; until then the
  vault values itself too low, and the collector's shares may be worth more
  than the fee. The precondition of `FeeNeverOverclaims` excludes that.
* `Reconcile` and `CancelAll` ask the pair for its batch limit; `EmergencyCancel` and
  `RecoverOrder` use the one recorded when the bot was created, which nothing
  updates. If the pair has lowered its limit since, full pages of an emergency
  cancellation are larger than the pair takes and fail, however often it is
  repeated. `ExitOpenUnlessExecuted` promises an accepted call, not that its
  pages go through.
* A limit-grid vault that is paused while an order has changed can only go to Exit or
  be resumed: cancellations ask for reconciled orders, and reconciling for the Active mode.
* The limit grid refuses deposits of a token while any balance of it is not yet counted, and mints the
  value deposited as shares, whatever a share is worth by then. Only the owner
  may deposit; the holder who gains or loses is again the fee collector.
* The branch of `execute_reconcile` that counts cancelled orders (line 650) is never
  taken: an order recorded as cancelled is not tracked any more.
* `orders_remain` of an emergency cancellation is read before its pages have run.
* The comment in `rebalancer-system/contracts/bot-vault/src/contract.rs:1213-1214` says
  that an answer without a holding makes the fee be skipped; the code then charges the
  cached or the undiscounted fee.
* `rebalancer-system/docs/protocols/SWAP_PROXY.md:23` names as a condition of
  `RegisterVault` that "The vault route is not already registered."; the code
  overwrites the route, with one validated like the old one.
* `market-grid-system/README.md:20-21` says that deposits cannot extract value
  from existing holders. A deposit while the vault's swap runs is priced without
  the amount in flight. Only the administrator may deposit, so the holder who
  loses is the fee collector.
* The example keeper's README says "Unknown broadcast state is always refused
  and can never trigger rebroadcast." `restore_backup` refuses such a backup, but
  not such a current file, which it replaces; `MaxRestores` counts these in
  `InFlightPaidFor`.
* The operator's README says that the swap keepers' files have checksums and
  three backups, which only the example keeper's have.
* After a reverted claim page the retried batch names orders the vault no longer
  tracks, and its signing fails without being counted.

## 6. What is not modelled

* Of the limit grid: migration (which only raises the version), queries, the
  validation of decimals, addresses and the manager's limits, several bots of one
  vault (the code allows one) and the other vaults' lives: a second
  vault is only instantiated, because vaults share nothing.
* Administrative calls between creation and exit other than pausing,
  quarantine and the pinned code, see Bounds.
* Several vaults in one operator or one discovery keeper: they share a loop and a
  key, but no state.
* Reorganisations deeper than the finality depth (the indexer refuses to go on),
  restoring a database backup, schema migrations, configuration parsing.
* Two processes on one state file: `flock` is taken to exclude them.
* Address and decimal parsing, attributes, pagination, logs, deployment scripts.
* Overflow of Uint128, which fails the transaction; in the limit grid `MAX_UINT128`
  bounds the balances.

## 7. What is left

1. The grid operator over the limit-grid vault as modelled here: `GridChain`'s vault
   as an abstraction of `GridVault`, by a refinement mapping; the two differ in grain
   (`GridChain` has fills as events in blocks, `GridVault` as balances).
2. The abstract "at most one unresolved transaction" keeper that both the swap
   keeper and the grid operator implement.
3. Proofs: the refinement of `ShareVault` by the rebalancer, step by step from the
   custody invariants; the fee of the limit grid, from the lemmas on sums;
   `RejectedPlansWait` of the swap keeper.
4. The discovery keeper over several vaults, and a database restored in between.

Out of the prover's reach, and left to TLC: liveness, and `ENABLED`.
`ExitAlwaysOpen` is an action property without `ENABLED`; its proof would have to
follow a pro-rata exit through its transaction as `WithdrawPhases` does.
