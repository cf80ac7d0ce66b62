----------------------------- MODULE Rebalancer -----------------------------
(***************************************************************************)
(* The rebalancer: bot-vault, bot-liquidity and swap-proxy around a pair   *)
(* and two tokens, run by the chain's transaction machine.                 *)
(***************************************************************************)
EXTENDS BotLiquidity, FiniteSetsExt

CONSTANTS
    LpCalls,        \* calls of depositors and share holders
    KeeperCalls,    \* Rebalance and SyncReference
    AdminCalls,     \* the administrators' calls
    HookCalls,      \* calls the pair may make back into the contracts
    InitialRisk,    \* the vault's thresholds and risk limits
    InitialMinimum, \* minimum_initial_deposit
    InitialTokens,  \* asset balance of every user
    InitialVault,   \* assets already donated to the vault
    ProxyMinorVersions  \* 2, or 1 for a legacy proxy

ASSUME InstantiateAssumption ==
    /\ InitialRisk \in RiskParams /\ validate_risk_controls(InitialRisk)
    /\ InitialMinimum \in Nat /\ InitialMinimum > LOCKED_INITIAL_SHARES
    /\ InitialTokens \in Nat /\ InitialVault \in Amounts
    /\ ProxyMinorVersions \subseteq {1, 2}

\* Who may call on its own account: the three contracts only send what their
\* handlers return, under their own address.
External == Users \cup {Admin, Keeper, Collector, PAIR}

ASSUME CallsAssumption ==
    \A m \in LpCalls \cup KeeperCalls \cup AdminCalls \cup HookCalls :
        /\ m \in ExecuteMsg
        /\ m.op = "Transfer" => m.from \in External
        /\ m.op \notin {"Transfer", "MigrateVault", "MigrateProxy"} => m.sender \in External

vault_instantiate(twap) ==
    [admin |-> Admin, pending_admin |-> None, keeper |-> Keeper,
     liquidity_contract |-> LIQ, liquidity_code_id |-> 1,
     proxy |-> PROXY, pair_code_id |-> 1, paused |-> FALSE,
     risk |-> InitialRisk, reference_price |-> twap,
     fee_registry |-> TRUE, fee_collector |-> Collector,
     fee_cache |-> [a \in Account |-> None], pending |-> None]

liquidity_instantiate ==
    [vault |-> VAULT, code |-> 1, admin |-> Admin, pending_admin |-> None,
     minimum_initial_deposit |-> InitialMinimum, pending |-> None,
     shares |-> [a \in Account |-> 0], total_supply |-> 0]

proxy_instantiate(minor) ==
    [admin |-> Admin, pending_admin |-> None, minor_version |-> minor,
     route |-> IF minor = 1 THEN None ELSE [pair |-> PAIR, pair_code_id |-> 1]]

\* A deployment: the three contracts instantiated, the liquidity contract
\* bound and the route registered (a 0.1 proxy has none yet).
Init ==
    /\ \E m \in Markets :
         /\ vault = vault_instantiate(m.twap)
         /\ dex = [twap |-> m.twap, code |-> 1]
         /\ bank = [i \in Token |-> [a \in Account |->
                      CASE a \in Users -> InitialTokens
                        [] a = VAULT   -> InitialVault[i]
                        [] a = PAIR    -> m.reserves[i]
                        [] OTHER       -> 0]]
    /\ liq = liquidity_instantiate
    /\ \E minor \in ProxyMinorVersions : proxy = proxy_instantiate(minor)
    /\ work = <<>> /\ hooks = 0 /\ txs = 0

SubmitCall ==
    \/ work = <<>> /\ \E m \in LpCalls \cup KeeperCalls \cup AdminCalls :
         Submit(m)
    \/ Running("PairReceive") /\ \E m \in HookCalls : Submit(m)

TokenStep == TokenTransfer \/ TokenTransferFrom \/ TokenSend

\* What runs once a transaction was submitted.
TxStep == Commit \/ TokenStep \/ PairSwap \/ SwapProxyStep \/ BotVaultStep \/ BotLiquidityStep

\* What happens between transactions outside the contracts.
Environment == MarketMove \/ PairMigrated \/ LiquidityMigrated

Next == SubmitCall \/ TxStep \/ Environment

Spec == Init /\ [][Next]_vars

-----------------------------------------------------------------------------
(* State of the last committed transaction. *)

Idle      == work = <<>>
Committed == IF Idle THEN Snapshot ELSE work[Len(work)].snap
TxCall    == work[Len(work)].call     \* the entry point of the running transaction

Holdings(s) == [i \in Token |-> s.bank[i][VAULT]]
Ending      == Running("Commit")      \* every message of the transaction succeeded

-----------------------------------------------------------------------------
(* Properties. *)

\* Every storage item and every message has its declared type: no balance or
\* supply is ever negative, no fee is cached above 100%, and the vault's risk
\* limits stay within their hard caps.
TypeOK ==
    /\ Snapshot \in SnapshotType
    /\ work \in Seq(Message)
    /\ hooks \in 0..MaxHooks /\ txs \in 0..MaxTxs

\* Both pending slots (PENDING_REBALANCE, PENDING) are empty between
\* transactions, whichever handler, reply or callback failed on the way: a
\* slot left behind would block the vault for good.
SettledBetweenTransactions ==
    Idle => liq.pending = None /\ vault.pending = None

\* Why that holds: whoever fills a slot leaves, in the same step, the replies
\* that empty it, and a snapshot to go back to has its replies behind it.
Waits(op, s) == \E i \in DOMAIN s : s[i].op = op

RebalanceCovered(v, s) == v.pending # None => Waits("RebalanceReply", s)

OperationCovered(l, s) ==
    l.pending # None =>
        \/ l.pending.kind = "Deposit" /\ Waits("DepositReply", s)
        \/ l.pending.kind = "WithdrawSingle"
           /\ (Waits("WithdrawReply", s) \/ Waits("WithdrawFailed", s))
        \/ l.pending.kind = "AuthorizedTransfers" /\ l.pending.replies_remaining = 1
           /\ Waits("TransferReply", s)
        \/ l.pending.kind = "AuthorizedTransfers" /\ l.pending.replies_remaining = 2
           /\ \E i, j \in DOMAIN s :
                 i < j /\ s[i].op = "TransferReply" /\ s[j].op = "TransferReply"

SnapshotCovered(i, s) ==
    /\ s[i].op = "Commit" <=> i = Len(s)
    /\ s[i].op = "Commit" => s[i].snap.vault.pending = None /\ s[i].snap.liq.pending = None
    /\ s[i].op = "WithdrawReply" =>
          /\ s[i].snap.liq.pending.kind = "WithdrawSingle"
          /\ s[i].snap.vault.pending # None =>
                \E j \in DOMAIN s : j > i /\ s[j].op = "RebalanceReply"

SnapshotsCovered == \A i \in DOMAIN work : SnapshotCovered(i, work)

\* A pending slot always has its replies among the messages still to run.
RepliesFollowSlots ==
    RebalanceCovered(vault, work) /\ OperationCovered(liq, work) /\ SnapshotsCovered

\* The CW20 ledger: the shares of all holders are the total supply.
SharesAccounted ==
    MapThenSumSet(LAMBDA a : liq.shares[a], Account) = liq.total_supply

\* A deposit's swap spends only what the deposit brought: until its reply, the
\* vault never holds less of either asset than before the deposit.
DepositSparesIncumbents ==
    liq.pending # None /\ liq.pending.kind = "Deposit" =>
        \A i \in Token : bank[i][VAULT] >= liq.pending.pre_balances[i]

\* While a rebalance is pending nothing but its own offer leaves the vault,
\* whatever the pair calls back.
RebalanceDrawBounded ==
    vault.pending # None =>
        \A i \in Token :
            bank[i][VAULT] >= vault.pending.balances[i]
                - (IF i = vault.pending.offer_index THEN vault.pending.amount ELSE 0)

\* The proxy forwards exactly what it received and the pair pays the vault:
\* neither a completed nor a failed swap leaves tokens in the proxy.
ProxyKeepsNothing == Idle => \A i \in Token : bank[i][PROXY] = 0

LpOperations == {"Deposit", "Withdraw", "Cw20Transfer", "Cw20Burn"}

\* A withdrawal burns exactly the shares it was asked to and pays at least its
\* minimum, or (single-token swap failed) changes nothing at all.  (A recipient
\* through which the payment itself runs is left out.)
WithdrawalAllOrNothing ==
    Ending /\ TxCall.op = "Withdraw" /\ TxCall.to \notin {VAULT, PROXY, PAIR} =>
        \/ Snapshot = Committed
        \/ /\ liq.total_supply = Committed.liq.total_supply - TxCall.shares
           /\ liq.shares[TxCall.sender] = Committed.liq.shares[TxCall.sender] - TxCall.shares
           /\ \A i \in Token : TxCall.payout \in {None, i} =>
                 bank[i][TxCall.to] >= Committed.bank[i][TxCall.to] + TxCall.min_assets[i]

\* The fee shares about to be minted are worth, after the mint, no more than
\* the fee on the trade's proceeds at the price the transaction found: at the
\* rate last heard for whoever is administrator now, never above 100%, and at
\* the undiscounted rate when none was heard.
FeeNeverOverclaims ==
    Running("MintTo") /\ Call.sender = VAULT =>
        LET old      == Holdings(Committed)
            price    == Committed.dex.twap
            gained   == IF balances[0] > old[0]
                          THEN balances[0] - old[0]
                          ELSE checked_ratio(balances[1] - old[1], ONE, price)
            fee_bps  == IF vault.fee_cache[vault.admin] = None THEN UNDISCOUNTED_FEE_BPS
                        ELSE Least(vault.fee_cache[vault.admin], BPS)
        IN  Call.amt * nav(balances, price)
              <= checked_ratio(gained, fee_bps, BPS) * (liq.total_supply + Call.amt)

\* A pro-rata withdrawal that the vault's binding and the caller's own limits
\* admit.
ExitDue(m, s) ==
    /\ m.op = "Withdraw" /\ m.payout = None
    /\ m.deadline >= NOW /\ m.shares \in 1..s.liq.shares[m.sender]
    /\ LET c == withdrawal_claims(Holdings(s), m.shares, s.liq.total_supply)
       IN  (\A i \in Token : c[i] >= m.min_assets[i]) /\ (\E i \in Token : c[i] # 0)
    /\ s.vault.liquidity_contract = LIQ
    /\ s.liq.code = s.vault.liquidity_code_id

\* Pro-rata exits are never refused: not while paused, not after the pair was
\* replaced or the route removed.
ExitAlwaysOpen ==
    [][~Idle /\ ~Ending /\ work' = <<>> => ~ExitDue(TxCall, Committed)]_vars

\* A paused vault mints no shares and pays nothing but pro-rata exits.
PauseHolds ==
    Ending /\ Committed.vault.paused /\ TxCall.op # "Resume" =>
        /\ liq.total_supply <= Committed.liq.total_supply
        /\ \A i \in Token : bank[i][VAULT] < Committed.bank[i][VAULT] =>
              TxCall.op = "Withdraw" /\ TxCall.payout = None

\* A liquidity contract that was revoked, or runs code other than the approved
\* one, moves nothing out of the vault.
StaleBindingHasNoCustody ==
    /\ Ending /\ TxCall.op \in LpOperations
    /\ \/ Committed.vault.liquidity_contract = None
       \/ Committed.liq.code # Committed.vault.liquidity_code_id
    => \A i \in Token : bank[i][VAULT] >= Committed.bank[i][VAULT]

\* The contracts keep the share vault's promise on every committed state, and
\* what a transaction commits is a trade only if a rebalance was called.
SV == INSTANCE ShareVault WITH
        LOCKED <- LOCKED_INITIAL_SHARES, Amount <- Nat,
        assets <- Holdings(Committed), supply <- Committed.liq.total_supply,
        trading <- ~Idle /\ TxCall.op = "Rebalance"

KeepsSharePromise == SV!SVSpec

=============================================================================
