-------------------------- MODULE RebalancerState --------------------------
(***************************************************************************)
(* The storage of the rebalancer's contracts and the chain's transaction   *)
(* machine that runs their handlers.                                       *)
(*                                                                         *)
(* A transaction is a call of one entry point.  A handler either fails, or *)
(* changes its contract's storage and returns messages; the chain runs     *)
(* those depth first, each with everything it causes, before the messages  *)
(* that follow it.  `work' is what the running transaction still has to    *)
(* run, next first.  A handler that fails undoes the transaction back to   *)
(* its start, or, under a reply_always submessage, back to the dispatch of *)
(* that submessage, whose reply then sees the failure.                     *)
(*                                                                         *)
(* The pair is external code: while it runs it may call back into any      *)
(* entry point, which is what the contracts' pending slots guard against.  *)
(***************************************************************************)
EXTENDS Cl8yMath, Sequences, FiniteSets

CONSTANTS
    Users,                  \* accounts that deposit, hold and withdraw shares
    Admin, Keeper,          \* initial admin of all contracts; initial keeper
    Collector,              \* the fee-collector contract, an LP holder
    None,                   \* an absent Option or storage item
    LOCKED_INITIAL_SHARES,  \* 1_000 in the code
    UNDISCOUNTED_FEE_BPS,   \* 180 in the code
    NOW,                    \* block time; deadlines are chosen around it
    MaxTxs,                 \* bound: transactions in a behaviour
    MaxHooks                \* bound: callbacks of the pair in a transaction

VAULT == "vault"
LIQ   == "liq"
PROXY == "proxy"
PAIR  == "pair"

Account == Users \cup {Admin, Keeper, Collector, VAULT, LIQ, PROXY, PAIR}
Token   == {0, 1}

ASSUME ActorAssumption ==
    /\ {VAULT, LIQ, PROXY, PAIR, None} \cap (Users \cup {Admin, Keeper, Collector}) = {}
    /\ IsFiniteSet(Users)
ASSUME LockedAssumption == LOCKED_INITIAL_SHARES \in Nat \ {0}
ASSUME UndiscountedAssumption == UNDISCOUNTED_FEE_BPS \in 0..BPS
ASSUME NowAssumption == NOW \in Nat
ASSUME BoundAssumption == MaxTxs \in Nat /\ MaxHooks \in Nat

MAX_SPREAD == 10        \* per cent
MAX_TRADE_BPS == 5000
MAX_EXECUTION_DEVIATION_BPS == 1000
MAX_QUOTE_SLIPPAGE_BPS == 500
MAX_SPOT_TWAP_DEVIATION_BPS == 1000
MAX_TRADE_POOL_BPS == 2000
MAX_ALLOCATION_TOLERANCE_BPS == 2000

VARIABLES
    vault,   \* bot-vault: config, pause switch, pending rebalance, fee cache
    liq,     \* bot-liquidity: config, pending operation, the CW20 ledger
    proxy,   \* swap-proxy: admin, the route of the vault
    bank,    \* the two asset CW20s: token -> account -> balance
    dex,     \* what the pair answers: TWAP, code id
    work,    \* messages the running transaction still has to run
    hooks,   \* callbacks made by the pair in the running transaction
    txs      \* transactions submitted so far

storage == <<vault, liq, proxy, bank, dex>>
vars    == <<storage, work, hooks, txs>>

Snapshot == [vault |-> vault, liq |-> liq, proxy |-> proxy,
             bank |-> bank, dex |-> dex]

-----------------------------------------------------------------------------
(* What the contracts store. *)

Amounts == [Token -> Nat]

\* The thresholds and risk limits as a caller names them.
RiskParams ==
    [rebalance_threshold_bps : Nat, allocation_tolerance_bps : Nat,
     max_trade_bps : Nat, max_execution_deviation_bps : Nat,
     quote_slippage_bps : Nat, max_spot_twap_deviation_bps : Nat,
     max_trade_pool_bps : Nat, max_spread : Nat]

validate_risk_controls(r) ==
    /\ r.rebalance_threshold_bps \in 1..BPS
    /\ r.allocation_tolerance_bps \in 1..MAX_ALLOCATION_TOLERANCE_BPS
    /\ r.max_trade_bps \in 1..MAX_TRADE_BPS
    /\ r.max_execution_deviation_bps \in 0..MAX_EXECUTION_DEVIATION_BPS
    /\ r.quote_slippage_bps \in 0..MAX_QUOTE_SLIPPAGE_BPS
    /\ r.max_spot_twap_deviation_bps \in 1..MAX_SPOT_TWAP_DEVIATION_BPS
    /\ r.max_trade_pool_bps \in 1..MAX_TRADE_POOL_BPS
    /\ r.max_spread \in 1..MAX_SPREAD

PendingRebalance ==
    [captured_twap : Nat \ {0}, balances : Amounts, pre_deviation_bps : 0..BPS,
     offer_index : Token, amount : Nat \ {0}, min_return : Nat]

VaultType ==
    [admin : Account, pending_admin : Account \cup {None}, keeper : Account,
     liquidity_contract : {LIQ, None}, liquidity_code_id : Nat, proxy : {PROXY},
     pair_code_id : Nat, paused : BOOLEAN,
     risk : {r \in RiskParams : validate_risk_controls(r)},
     reference_price : Nat \ {0}, fee_registry : BOOLEAN,
     fee_collector : Account \cup {None},
     fee_cache : [Account -> (0..BPS) \cup {None}],
     pending : PendingRebalance \cup {None}]

SwapParams ==
    [offer_token : Token, amount : Nat, min_return : Nat, max_spread : Nat, deadline : Nat]

AuthorizedTransfer == [token : Token, amount : Nat, recipient : Account]

PendingDeposit ==
    [kind : {"Deposit"}, depositor : Account, pre_balances : Amounts,
     pre_supply : Nat, price : Nat \ {0}, min_shares : Nat, swap : SwapParams \cup {None}]

PendingWithdrawSingle ==
    [kind : {"WithdrawSingle"}, owner : Account, shares : Nat \ {0}, recipient : Account,
     payout_token : Token, base_amount : Nat, pre_payout_balance : Nat, min_amount : Nat,
     swap : SwapParams]

PendingTransfers ==
    [kind : {"AuthorizedTransfers"}, transfers : Seq(AuthorizedTransfer),
     replies_remaining : 1..2]

PendingOperation == PendingDeposit \cup PendingWithdrawSingle \cup PendingTransfers

\* An absent item is none that could be present.
ASSUME NoneAssumption ==
    None \notin Nat \cup Account \cup PendingRebalance \cup SwapParams \cup PendingOperation

LiquidityType ==
    [vault : {VAULT}, code : Nat, admin : Account, pending_admin : Account \cup {None},
     minimum_initial_deposit : Nat, pending : PendingOperation \cup {None},
     shares : [Account -> Nat], total_supply : Nat]

ProxyType ==
    [admin : Account, pending_admin : Account \cup {None}, minor_version : {1, 2},
     route : [pair : {PAIR}, pair_code_id : Nat] \cup {None}]

SnapshotType ==
    [vault : VaultType, liq : LiquidityType, proxy : ProxyType,
     bank : [Token -> [Account -> Nat]], dex : [twap : Nat \ {0}, code : Nat]]

-----------------------------------------------------------------------------
(* The messages: what accounts may call, what the contracts send to each     *)
(* other, and the chain's replies.                                           *)

ProxyHook == [pair : {PAIR}, min_return : Nat, max_spread : Nat, deadline : Nat]
PairHook  == [to : Account, min_return : Nat]

DepositMsg == [op : {"Deposit"}, sender : Account, amounts : Amounts, min_shares : Nat,
               deadline : Nat, swap : SwapParams \cup {None}]
WithdrawMsg == [op : {"Withdraw"}, sender : Account, shares : Nat, to : Account,
                payout : {None}, min_assets : Amounts, deadline : Nat, swap : {None}]
WithdrawSingleMsg == [op : {"Withdraw"}, sender : Account, shares : Nat, to : Account,
                payout : Token, min_assets : Amounts, deadline : Nat, swap : SwapParams]
ShareTransferMsg == [op : {"Cw20Transfer"}, sender : Account, to : Account, amt : Nat]
ShareBurnMsg == [op : {"Cw20Burn"}, sender : Account, amt : Nat]
MintToMsg == [op : {"MintTo"}, sender : Account, to : Account, amt : Nat]
UpdateConfigMsg == [op : {"UpdateConfig"}, sender : Account, minimum : Nat]

LiquidityCall == DepositMsg \cup WithdrawMsg \cup WithdrawSingleMsg \cup ShareTransferMsg
                 \cup ShareBurnMsg \cup MintToMsg \cup UpdateConfigMsg

RebalanceMsg == [op : {"Rebalance"}, sender : Account, deadline : Nat]
LiquiditySwapMsg == [op : {"LiquiditySwap"}, sender : Account, params : SwapParams]
TransferToMsg == [op : {"TransferTo"}, sender : Account, tok : Token, amt : Nat, to : Account]
UpdateKeeperMsg == [op : {"UpdateKeeper"}, sender : Account, keeper : Account]
UpdateThresholdsMsg == [op : {"UpdateThresholds"}, sender : Account, risk : RiskParams,
                        new_window : BOOLEAN]
UpdateFeeConfigMsg == [op : {"UpdateFeeConfig"}, sender : Account, registry : BOOLEAN,
                       collector : Account \cup {None}]
MigrateVaultMsg == [op : {"MigrateVault"}, liquidity_code_id : Nat]

VaultCall == RebalanceMsg \cup LiquiditySwapMsg \cup TransferToMsg \cup UpdateKeeperMsg
             \cup UpdateThresholdsMsg \cup UpdateFeeConfigMsg \cup MigrateVaultMsg

\* Calls that carry nothing but their sender.
PlainMsg == [op : {"SyncReference", "Finalize", "Pause", "Resume", "RevokeLiquidity",
                   "SetLiquidity", "RegisterVault", "RemoveVault"}, sender : Account]
MigrateProxyMsg == [op : {"MigrateProxy"}]
HandoverMsg ==
    [op : {"VaultAdmin", "LiquidityAdmin", "ProxyAdmin"}, sender : Account,
     step : {"transfer"}, admin : Account]
    \cup
    [op : {"VaultAdmin", "LiquidityAdmin", "ProxyAdmin"}, sender : Account,
     step : {"accept", "cancel"}]

TransferMsg == [op : {"Transfer"}, tok : Token, from : Account, to : Account, amt : Nat]

\* The calls an account can make.
ExecuteMsg == LiquidityCall \cup VaultCall \cup PlainMsg \cup MigrateProxyMsg
              \cup HandoverMsg \cup TransferMsg

TransferFromMsg == [op : {"TransferFrom"}, tok : Token, from : Account, to : Account, amt : Nat]
SendMsg == [op : {"Send"}, tok : Token, from : {VAULT}, to : {PROXY}, amt : Nat, hook : ProxyHook]
           \cup [op : {"Send"}, tok : Token, from : {PROXY}, to : {PAIR}, amt : Nat, hook : PairHook]
ProxyReceiveMsg == [op : {"ProxyReceive"}, tok : Token, amt : Nat, sender : Account, hook : ProxyHook]
PairReceiveMsg == [op : {"PairReceive"}, tok : Token, amt : Nat, sender : Account, hook : PairHook]

\* The chain's own: replies, and the end of the transaction.
ReplyMsg == [op : {"RebalanceReply", "DepositReply", "TransferReply", "WithdrawFailed"}]
WithdrawReplyMsg == [op : {"WithdrawReply"}, snap : SnapshotType]
CommitMsg == [op : {"Commit"}, snap : SnapshotType, call : ExecuteMsg]

Message == ExecuteMsg \cup TransferFromMsg \cup SendMsg \cup ProxyReceiveMsg
           \cup PairReceiveMsg \cup ReplyMsg \cup WithdrawReplyMsg \cup CommitMsg

-----------------------------------------------------------------------------
(* The transaction machine. *)

Running(op)  == work # <<>> /\ Head(work).op = op
Call         == Head(work)
Return(msgs) == work' = msgs \o Tail(work) /\ UNCHANGED <<hooks, txs>>
Done         == Return(<<>>)

\* Messages that remember the state to go back to: the end of the transaction
\* and the reply of a reply_always submessage.  A reply that itself fails is
\* not caught by its own submessage.
Checkpoints == {i \in 2..Len(work) : work[i].op \in {"Commit", "WithdrawReply"}}

\* The running handler returned an error: back to the nearest checkpoint.
Abort ==
    \E i \in Checkpoints :
        /\ \A d \in Checkpoints : i <= d
        /\ LET s == work[i].snap
           IN  /\ vault' = s.vault /\ liq' = s.liq /\ proxy' = s.proxy
               /\ bank' = s.bank /\ dex' = s.dex
        /\ work' = IF work[i].op = "Commit"
                     THEN <<>>
                     ELSE <<[op |-> "WithdrawFailed"]>>
                          \o SubSeq(work, i + 1, Len(work))
        /\ UNCHANGED <<hooks, txs>>

\* A new transaction, or a callback of the pair from inside a swap.
Submit(m) ==
    /\ \/ /\ work = <<>> /\ txs < MaxTxs
          /\ work' = <<m, [op |-> "Commit", snap |-> Snapshot, call |-> m]>>
          /\ txs' = txs + 1
          /\ hooks' = 0
       \/ /\ Running("PairReceive") /\ hooks < MaxHooks
          /\ work' = <<m>> \o work
          /\ hooks' = hooks + 1
          /\ UNCHANGED txs
    /\ UNCHANGED storage

Commit == Running("Commit") /\ Done /\ UNCHANGED storage

-----------------------------------------------------------------------------
(* Queries one contract makes of another. *)

\* What each contract reads with Cw20QueryMsg::Balance of both assets.
holdings_of(account) == [i \in Token |-> bank[i][account]]
balances == holdings_of(VAULT)

NoAuthorization == [swap |-> None, transfers |-> <<>>, finalize |-> FALSE]

\* bot-liquidity's Authorization query: what the pending operation allows.
liquidity_authorization ==
    IF liq.pending = None THEN NoAuthorization
    ELSE CASE liq.pending.kind = "Deposit" ->
                [NoAuthorization EXCEPT !.swap = liq.pending.swap,
                                        !.finalize = liq.pending.swap = None]
           [] liq.pending.kind = "WithdrawSingle" ->
                [NoAuthorization EXCEPT !.swap = liq.pending.swap]
           [] liq.pending.kind = "AuthorizedTransfers" ->
                [NoAuthorization EXCEPT !.transfers = liq.pending.transfers]

-----------------------------------------------------------------------------
(* Two-step admin hand-over, the same code in the three contracts. *)

admin_handover_allowed(contract, m) ==
    IF m.step = "accept" THEN contract.pending_admin = m.sender
                         ELSE contract.admin = m.sender

admin_handover(contract, m) ==
    CASE m.step = "transfer" -> [contract EXCEPT !.pending_admin = m.admin]
      [] m.step = "accept"   -> [contract EXCEPT !.admin = m.sender,
                                                 !.pending_admin = None]
      [] m.step = "cancel"   -> [contract EXCEPT !.pending_admin = None]

=============================================================================
