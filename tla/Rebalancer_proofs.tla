------------------------- MODULE Rebalancer_proofs -------------------------
(***************************************************************************)
(* What every state of the rebalancer keeps, for every set of accounts,    *)
(* calls, markets and pair returns: its types, the replies a pending slot  *)
(* waits for, the sum of the shares, and the invariant Guarded, from which *)
(* RebalancerCustody_proofs goes on.                                       *)
(***************************************************************************)
EXTENDS Rebalancer, Cl8yMath_proofs, TLAPS

-----------------------------------------------------------------------------
(* Messages: the operation of a message determines its fields. *)

LEMMA CallOf ==
  ASSUME NEW m \in Message
  PROVE  /\ m.op = "Deposit"         => m \in DepositMsg
         /\ m.op = "Withdraw"        => m \in WithdrawMsg \cup WithdrawSingleMsg
         /\ m.op = "Cw20Transfer"    => m \in ShareTransferMsg
         /\ m.op = "Cw20Burn"        => m \in ShareBurnMsg
         /\ m.op = "MintTo"          => m \in MintToMsg
         /\ m.op = "UpdateConfig"    => m \in UpdateConfigMsg
         /\ m.op = "Rebalance"       => m \in RebalanceMsg
         /\ m.op = "LiquiditySwap"   => m \in LiquiditySwapMsg
         /\ m.op = "TransferTo"      => m \in TransferToMsg
         /\ m.op = "UpdateKeeper"    => m \in UpdateKeeperMsg
         /\ m.op = "UpdateThresholds" => m \in UpdateThresholdsMsg
         /\ m.op = "UpdateFeeConfig" => m \in UpdateFeeConfigMsg
         /\ m.op = "MigrateVault"    => m \in MigrateVaultMsg
         /\ m.op \in {"VaultAdmin", "LiquidityAdmin", "ProxyAdmin"} => m \in HandoverMsg
         /\ m.op = "Transfer"        => m \in TransferMsg
         /\ m.op = "TransferFrom"    => m \in TransferFromMsg
         /\ m.op = "Send"            => m \in SendMsg
         /\ m.op = "ProxyReceive"    => m \in ProxyReceiveMsg
         /\ m.op = "PairReceive"     => m \in PairReceiveMsg
         /\ m.op = "WithdrawReply"   => m \in WithdrawReplyMsg
         /\ m.op = "Commit"          => m \in CommitMsg
BY DEF Message, ExecuteMsg, LiquidityCall, VaultCall, DepositMsg, WithdrawMsg,
       WithdrawSingleMsg, ShareTransferMsg, ShareBurnMsg, MintToMsg, UpdateConfigMsg,
       RebalanceMsg, LiquiditySwapMsg, TransferToMsg, UpdateKeeperMsg, UpdateThresholdsMsg,
       UpdateFeeConfigMsg, MigrateVaultMsg, PlainMsg, MigrateProxyMsg, HandoverMsg,
       TransferMsg, TransferFromMsg, SendMsg, ProxyReceiveMsg, PairReceiveMsg, ReplyMsg,
       WithdrawReplyMsg, CommitMsg

\* Messages that are no checkpoints: all that handlers return, but for the
\* reply of a reply_always submessage.
Plain == {m \in Message : m.op \notin {"Commit", "WithdrawReply"}}

LEMMA PlainIsMessage == Seq(Plain) \subseteq Seq(Message)
BY DEF Plain

LEMMA ConcatIndex ==
  ASSUME NEW s \in Seq(Message), NEW m \in Seq(Message)
  PROVE  /\ DOMAIN (m \o s) = 1..(Len(m) + Len(s))
         /\ \A i \in DOMAIN m : (m \o s)[i] = m[i]
         /\ \A i \in DOMAIN s : (m \o s)[Len(m) + i] = s[i]
         /\ \A i \in DOMAIN (m \o s) : i > Len(m) => i - Len(m) \in DOMAIN s
OBVIOUS

LEMMA ConcatLen ==
  ASSUME NEW s \in Seq(Message), NEW m \in Seq(Message)
  PROVE  m \o s \in Seq(Message) /\ Len(m \o s) = Len(m) + Len(s)
OBVIOUS

\* TypeOK, one conjunct per variable.
Typed ==
    /\ vault \in VaultType /\ liq \in LiquidityType /\ proxy \in ProxyType
    /\ bank \in [Token -> [Account -> Nat]]
    /\ dex \in [twap : Nat \ {0}, code : Nat]
    /\ work \in Seq(Message)
    /\ hooks \in 0..MaxHooks /\ txs \in 0..MaxTxs

LEMMA TypedIsTypeOK == Typed <=> TypeOK
BY DEF Typed, TypeOK, Snapshot, SnapshotType

\* The running message is a message.
LEMMA RunningCall ==
  ASSUME Typed, work # <<>>
  PROVE  Call \in Message /\ Tail(work) \in Seq(Message)
BY DEF Call, Typed

-----------------------------------------------------------------------------
(* The transaction machine. *)

\* A handler that returned messages leaves messages to run.
LEMMA ReturnTyped ==
  ASSUME Typed, work # <<>>, NEW msgs \in Seq(Message), Return(msgs)
  PROVE  work' \in Seq(Message) /\ hooks' \in 0..MaxHooks /\ txs' \in 0..MaxTxs
BY RunningCall DEF Return, Typed

LEMMA DoneTyped ==
  ASSUME Typed, work # <<>>, Done
  PROVE  work' \in Seq(Message) /\ hooks' \in 0..MaxHooks /\ txs' \in 0..MaxTxs
BY RunningCall DEF Done, Return, Typed

\* An error restores a checkpoint, whose snapshot is typed.
LEMMA AbortTyped ==
  ASSUME Typed, Abort
  PROVE  Typed'
<1>1. PICK i \in Checkpoints :
        /\ LET s == work[i].snap
           IN  /\ vault' = s.vault /\ liq' = s.liq /\ proxy' = s.proxy
               /\ bank' = s.bank /\ dex' = s.dex
        /\ work' = IF work[i].op = "Commit" THEN <<>>
                   ELSE <<[op |-> "WithdrawFailed"]>> \o SubSeq(work, i + 1, Len(work))
        /\ UNCHANGED <<hooks, txs>>
  BY DEF Abort
<1>2. work \in Seq(Message) /\ i \in 1..Len(work) /\ work[i] \in Message
      /\ work[i].op \in {"Commit", "WithdrawReply"}
  BY DEF Checkpoints, Typed
<1>3. work[i].snap \in SnapshotType
  <2>1. work[i] \in CommitMsg \cup WithdrawReplyMsg
    BY <1>2, CallOf
  <2>2. QED
    BY <2>1 DEF CommitMsg, WithdrawReplyMsg
<1>4. /\ vault' \in VaultType /\ liq' \in LiquidityType /\ proxy' \in ProxyType
      /\ bank' \in [Token -> [Account -> Nat]] /\ dex' \in [twap : Nat \ {0}, code : Nat]
  BY <1>1, <1>3 DEF SnapshotType
<1>5. [op |-> "WithdrawFailed"] \in Message
  BY DEF Message, ReplyMsg
<1>6. work' \in Seq(Message)
  <2>1. SubSeq(work, i + 1, Len(work)) \in Seq(Message)
    BY <1>2
  <2>2. QED
    BY <1>1, <1>5, <2>1
<1>7. QED
  BY <1>1, <1>4, <1>6 DEF Typed

LEMMA SubmitTyped ==
  ASSUME Typed, NEW m \in ExecuteMsg, Submit(m)
  PROVE  Typed'
<1>1. m \in Message
  BY DEF Message
<1>2. UNCHANGED storage
  BY DEF Submit
<1>3. CASE work = <<>>
  <2> DEFINE c == [op |-> "Commit", snap |-> Snapshot, call |-> m]
  <2>1. c \in Message
    BY DEF Message, CommitMsg, Typed, Snapshot, SnapshotType
  <2>2. work' = <<m, c>> /\ txs < MaxTxs /\ txs' = txs + 1 /\ hooks' = 0
    BY <1>3 DEF Submit, Running
  <2> HIDE DEF c
  <2>3. work' \in Seq(Message)
    BY <1>1, <2>1, <2>2
  <2>4. hooks' \in 0..MaxHooks /\ txs' \in 0..MaxTxs
    BY <2>2, BoundAssumption DEF Typed
  <2>5. QED
    BY <1>2, <2>3, <2>4 DEF storage, Typed
<1>4. CASE Running("PairReceive")
  <2>1. work' = <<m>> \o work /\ hooks < MaxHooks /\ hooks' = hooks + 1 /\ txs' = txs
    BY <1>4 DEF Submit, Running
  <2>2. work' \in Seq(Message)
    BY <1>1, <2>1 DEF Typed
  <2>3. hooks' \in 0..MaxHooks /\ txs' \in 0..MaxTxs
    BY <2>1, BoundAssumption DEF Typed
  <2>4. QED
    BY <1>2, <2>2, <2>3 DEF storage, Typed
<1>5. QED
  BY <1>3, <1>4 DEF Submit

LEMMA CommitTyped ==
  ASSUME Typed, Commit
  PROVE  Typed'
BY DoneTyped DEF Commit, Running, storage, Typed

-----------------------------------------------------------------------------
(* Tokens, the pair and the market. *)

LEMMA MovedTyped ==
  ASSUME Typed, NEW t \in Token, NEW f \in Account, NEW to \in Account, NEW a \in Nat,
         a <= bank[t][f]
  PROVE  Moved(t, f, to, a) \in [Token -> [Account -> Nat]]
<1> DEFINE T  == [Token -> [Account -> Nat]]
           b1 == [bank EXCEPT ![t][f] = @ - a]
<1>1. bank \in T
  BY DEF Typed
<1>2. bank[t][f] - a \in Nat
  BY <1>1
<1>3. b1 \in T
  BY <1>1, <1>2
<1>4. Moved(t, f, to, a) = [b1 EXCEPT ![t][to] = @ + a]
  BY DEF Moved
<1> HIDE DEF b1
<1>5. b1[t][to] + a \in Nat
  BY <1>3
<1>6. QED
  BY <1>3, <1>4, <1>5

LEMMA PayTyped ==
  ASSUME Typed, NEW m, m.tok \in Token, m.from \in Account, m.to \in Account, m.amt \in Nat, Pay(m)
  PROVE  bank' \in [Token -> [Account -> Nat]]
BY MovedTyped DEF Pay

LEMMA TokenTyped ==
  ASSUME Typed, TokenStep
  PROVE  Typed'
<1>1. CASE TokenTransfer
  <2>1. work # <<>> /\ Call \in TransferMsg
    BY <1>1, RunningCall, CallOf DEF TokenTransfer, Running, Call
  <2>2. CASE Pay(Call) /\ Done
    BY <2>1, <2>2, PayTyped, DoneTyped DEF TransferMsg, Pay, Typed
  <2>3. QED
    BY <1>1, <2>2, AbortTyped DEF TokenTransfer
<1>2. CASE TokenTransferFrom
  <2>1. work # <<>> /\ Call \in TransferFromMsg
    BY <1>2, RunningCall, CallOf DEF TokenTransferFrom, Running, Call
  <2>2. CASE Pay(Call) /\ Done
    BY <2>1, <2>2, PayTyped, DoneTyped DEF TransferFromMsg, Pay, Typed
  <2>3. QED
    BY <1>2, <2>2, AbortTyped DEF TokenTransferFrom
<1>3. CASE TokenSend
  <2>1. work # <<>> /\ Call \in SendMsg
    BY <1>3, RunningCall, CallOf DEF TokenSend, Running, Call
  <2> DEFINE r == [op |-> IF Call.to = PROXY THEN "ProxyReceive" ELSE "PairReceive",
                   tok |-> Call.tok, amt |-> Call.amt,
                   sender |-> Call.from, hook |-> Call.hook]
  <2>2. CASE Pay(Call) /\ Return(<<r>>)
    <3>1. r \in Message
      BY <2>1 DEF SendMsg, Message, ProxyReceiveMsg, PairReceiveMsg, Account, PROXY, PAIR, VAULT
    <3>2. <<r>> \in Seq(Message)
      BY <3>1
    <3>3. bank' \in [Token -> [Account -> Nat]]
      BY <2>1, <2>2, PayTyped DEF SendMsg, Account, VAULT, PROXY, PAIR
    <3>4. QED
      BY <2>1, <2>2, <3>2, <3>3, ReturnTyped DEF Pay, Typed
  <2>3. QED
    BY <1>3, <2>2, AbortTyped DEF TokenSend
<1>4. QED
  BY <1>1, <1>2, <1>3 DEF TokenStep

LEMMA PairTyped ==
  ASSUME Typed, PairSwap
  PROVE  Typed'
<1>1. work # <<>> /\ Call \in PairReceiveMsg
  BY RunningCall, CallOf DEF PairSwap, Running, Call
<1>2. ASSUME NEW r \in Returns, r <= bank[1 - Call.tok][PAIR],
             bank' = Moved(1 - Call.tok, PAIR, Call.hook.to, r),
             UNCHANGED <<vault, liq, proxy, dex>>, Done
      PROVE  Typed'
  <2>1. 1 - Call.tok \in Token /\ Call.hook.to \in Account /\ PAIR \in Account /\ r \in Nat
    BY <1>1, ReturnAssumption DEF PairReceiveMsg, PairHook, Token, Account
  <2>2. bank' \in [Token -> [Account -> Nat]]
    BY <1>2, <2>1, MovedTyped
  <2>3. QED
    BY <1>1, <1>2, <2>2, DoneTyped DEF Typed
<1>3. QED
  BY <1>2, AbortTyped DEF PairSwap

LEMMA EnvironmentTyped ==
  ASSUME Typed, Environment
  PROVE  Typed'
<1>1. CASE MarketMove
  BY <1>1, MarketAssumption, SMTT(60) DEF MarketMove, Typed, Token, Amounts, Account
<1>2. CASE PairMigrated
  BY <1>2, CodeAssumption DEF PairMigrated, Typed
<1>3. CASE LiquidityMigrated
  BY <1>3, CodeAssumption DEF LiquidityMigrated, Typed, LiquidityType
<1>4. QED
  BY <1>1, <1>2, <1>3 DEF Environment

-----------------------------------------------------------------------------
(* A handler that changes one contract's storage and returns messages. *)

LEMMA VaultStepTyped ==
  ASSUME Typed, work # <<>>, NEW msgs \in Seq(Message), Return(msgs),
         vault' \in VaultType, VaultUnchanged
  PROVE  Typed'
BY ReturnTyped DEF VaultUnchanged, Typed

LEMMA LiqStepTyped ==
  ASSUME Typed, work # <<>>, NEW msgs \in Seq(Message), Return(msgs),
         liq' \in LiquidityType, LiqUnchanged
  PROVE  Typed'
BY ReturnTyped DEF LiqUnchanged, Typed

LEMMA ProxyStepTyped ==
  ASSUME Typed, work # <<>>, NEW msgs \in Seq(Message), Return(msgs),
         proxy' \in ProxyType, UNCHANGED <<vault, liq, bank, dex>>
  PROVE  Typed'
BY ReturnTyped DEF Typed

LEMMA QueryStepTyped ==
  ASSUME Typed, work # <<>>, NEW msgs \in Seq(Message), Return(msgs), UNCHANGED storage
  PROVE  Typed'
BY ReturnTyped DEF Typed, storage

LEMMA EmptyIsMessages == <<>> \in Seq(Message)
OBVIOUS

-----------------------------------------------------------------------------
(* swap-proxy *)

LEMMA SwapProxyTyped ==
  ASSUME Typed, SwapProxyStep
  PROVE  Typed'
<1>1. CASE execute_register_vault
  <2>1. ASSUME proxy' = [proxy EXCEPT !.route = [pair |-> PAIR, pair_code_id |-> vault.pair_code_id]]
        PROVE  proxy' \in ProxyType
    BY <2>1 DEF Typed, ProxyType, VaultType
  <2>2. QED
    BY <1>1, <2>1, ProxyStepTyped, EmptyIsMessages, AbortTyped
       DEF execute_register_vault, Done, Running
<1>2. CASE execute_remove_vault
  <2>1. ASSUME proxy' = [proxy EXCEPT !.route = None]
        PROVE  proxy' \in ProxyType
    BY <2>1 DEF Typed, ProxyType
  <2>2. QED
    BY <1>2, <2>1, ProxyStepTyped, EmptyIsMessages, AbortTyped
       DEF execute_remove_vault, Done, Running
<1>3. CASE execute_receive
  <2>1. work # <<>> /\ Call \in ProxyReceiveMsg
    BY <1>3, RunningCall, CallOf DEF execute_receive, Running, Call
  <2> DEFINE r == [op |-> "Send", tok |-> Call.tok, from |-> PROXY,
                   to |-> PAIR, amt |-> Call.amt, hook |-> pair_hook(Call)]
  <2>2. r \in Message
    BY <2>1 DEF ProxyReceiveMsg, ProxyHook, pair_hook, Message, SendMsg, PairHook
  <2>3. <<r>> \in Seq(Message)
    BY <2>2
  <2>4. QED
    BY <1>3, <2>1, <2>3, QueryStepTyped, AbortTyped DEF execute_receive
<1>4. CASE proxy_admin
  <2>1. work # <<>> /\ Call \in HandoverMsg
    BY <1>4, RunningCall, CallOf DEF proxy_admin, Running, Call
  <2>2. admin_handover(proxy, Call) \in ProxyType
    BY <2>1 DEF HandoverMsg, admin_handover, Typed, ProxyType
  <2>3. QED
    BY <1>4, <2>1, <2>2, ProxyStepTyped, EmptyIsMessages, AbortTyped DEF proxy_admin, Done
<1>5. CASE proxy_migrate
  <2>1. ASSUME proxy' = [proxy EXCEPT !.pending_admin = None, !.minor_version = 2]
        PROVE  proxy' \in ProxyType
    BY <2>1 DEF Typed, ProxyType
  <2>2. QED
    BY <1>5, <2>1, ProxyStepTyped, EmptyIsMessages, AbortTyped
       DEF proxy_migrate, Done, Running
<1>6. QED
  BY <1>1, <1>2, <1>3, <1>4, <1>5 DEF SwapProxyStep

-----------------------------------------------------------------------------
(* bot-vault *)

\* The administrator's entry points.
LEMMA VaultAdminTyped ==
  ASSUME Typed,
         \/ execute_set_liquidity \/ execute_revoke_liquidity \/ execute_pause
         \/ execute_resume \/ execute_update_keeper \/ execute_update_fee_config
         \/ vault_admin \/ vault_migrate \/ execute_update_thresholds
  PROVE  Typed'
<1>1. CASE execute_set_liquidity
  <2>1. ASSUME vault' = [vault EXCEPT !.liquidity_contract = LIQ]
        PROVE  vault' \in VaultType
    BY <2>1 DEF Typed, VaultType
  <2>2. QED
    BY <1>1, <2>1, VaultStepTyped, EmptyIsMessages, AbortTyped
       DEF execute_set_liquidity, Done, Running
<1>2. CASE execute_revoke_liquidity
  <2>1. ASSUME vault' = [vault EXCEPT !.liquidity_contract = None, !.paused = TRUE]
        PROVE  vault' \in VaultType
    BY <2>1 DEF Typed, VaultType
  <2>2. QED
    BY <1>2, <2>1, VaultStepTyped, EmptyIsMessages, AbortTyped
       DEF execute_revoke_liquidity, Done, Running
<1>3. CASE execute_pause \/ execute_resume
  <2>1. ASSUME NEW p \in BOOLEAN, vault' = [vault EXCEPT !.paused = p]
        PROVE  vault' \in VaultType
    BY <2>1 DEF Typed, VaultType
  <2>2. QED
    BY <1>3, <2>1, VaultStepTyped, EmptyIsMessages, AbortTyped
       DEF execute_pause, execute_resume, Done, Running
<1>4. CASE execute_update_keeper
  <2>1. work # <<>> /\ Call \in UpdateKeeperMsg
    BY <1>4, RunningCall, CallOf DEF execute_update_keeper, Running, Call
  <2>2. ASSUME vault' = [vault EXCEPT !.keeper = Call.keeper]
        PROVE  vault' \in VaultType
    BY <2>1, <2>2 DEF UpdateKeeperMsg, Typed, VaultType
  <2>3. QED
    BY <1>4, <2>1, <2>2, VaultStepTyped, EmptyIsMessages, AbortTyped
       DEF execute_update_keeper, Done
<1>5. CASE execute_update_fee_config
  <2>1. work # <<>> /\ Call \in UpdateFeeConfigMsg
    BY <1>5, RunningCall, CallOf DEF execute_update_fee_config, Running, Call
  <2>2. ASSUME vault' = [vault EXCEPT !.fee_registry = Call.registry,
                                      !.fee_collector = Call.collector]
        PROVE  vault' \in VaultType
    BY <2>1, <2>2 DEF UpdateFeeConfigMsg, Typed, VaultType
  <2>3. QED
    BY <1>5, <2>1, <2>2, VaultStepTyped, EmptyIsMessages, AbortTyped
       DEF execute_update_fee_config, Done
<1>6. CASE vault_admin
  <2>1. work # <<>> /\ Call \in HandoverMsg
    BY <1>6, RunningCall, CallOf DEF vault_admin, Running, Call
  <2>2. admin_handover(vault, Call) \in VaultType
    BY <2>1 DEF HandoverMsg, admin_handover, Typed, VaultType
  <2>3. QED
    BY <1>6, <2>1, <2>2, VaultStepTyped, EmptyIsMessages, AbortTyped DEF vault_admin, Done
<1>7. CASE vault_migrate
  <2>1. work # <<>> /\ Call \in MigrateVaultMsg
    BY <1>7, RunningCall, CallOf DEF vault_migrate, Running, Call
  <2>2. ASSUME vault' = [vault EXCEPT !.liquidity_contract = None,
                                      !.liquidity_code_id = Call.liquidity_code_id,
                                      !.paused = TRUE,
                                      !.pending_admin = None]
        PROVE  vault' \in VaultType
    BY <2>1, <2>2 DEF MigrateVaultMsg, Typed, VaultType
  <2>3. QED
    BY <1>7, <2>1, <2>2, VaultStepTyped, EmptyIsMessages, AbortTyped DEF vault_migrate, Done
<1>8. CASE execute_update_thresholds
  <2>1. work # <<>> /\ Call \in UpdateThresholdsMsg
    BY <1>8, RunningCall, CallOf DEF execute_update_thresholds, Running, Call
  <2>2. ASSUME validate_risk_controls(Call.risk), vault' = [vault EXCEPT !.risk = Call.risk]
        PROVE  vault' \in VaultType
    BY <2>1, <2>2 DEF UpdateThresholdsMsg, Typed, VaultType
  <2>3. ASSUME NEW m \in Markets, validate_risk_controls(Call.risk),
               vault' = [vault EXCEPT !.risk = Call.risk, !.reference_price = m.twap],
               dex' = [dex EXCEPT !.twap = m.twap]
        PROVE  vault' \in VaultType /\ dex' \in [twap : Nat \ {0}, code : Nat]
    <3>1. m.twap \in Nat \ {0}
      BY MarketAssumption
    <3>2. QED
      BY <2>1, <2>3, <3>1 DEF UpdateThresholdsMsg, Typed, VaultType
  <2>4. ASSUME NEW m \in Markets, validate_risk_controls(Call.risk),
               vault' = [vault EXCEPT !.risk = Call.risk, !.reference_price = m.twap],
               dex' = [dex EXCEPT !.twap = m.twap],
               Done, UNCHANGED <<liq, proxy, bank>>
        PROVE  Typed'
    BY <2>1, <2>3, <2>4, DoneTyped DEF Typed
  <2>5. QED
    BY <1>8, <2>1, <2>2, <2>4, VaultStepTyped, EmptyIsMessages, AbortTyped
       DEF execute_update_thresholds, Done
<1>9. QED
  BY <1>1, <1>2, <1>3, <1>4, <1>5, <1>6, <1>7, <1>8

LEMMA SwapMessageTyped ==
  ASSUME Typed, NEW p \in SwapParams
  PROVE  proxy_swap_message(p) \in Message
BY DEF Typed, VaultType, SwapParams, proxy_swap_message, Message, SendMsg, ProxyHook

LEMMA BalancesTyped ==
  ASSUME Typed
  PROVE  balances \in Amounts /\ holdings_of(PAIR) \in Amounts
BY DEF Typed, balances, holdings_of, Amounts, Account

\* The entry points of the liquidity contract.
LEMMA VaultLiquidityTyped ==
  ASSUME Typed, execute_liquidity_swap \/ execute_transfer \/ execute_finalize
  PROVE  Typed'
<1>1. CASE execute_liquidity_swap
  <2>1. work # <<>> /\ Call \in LiquiditySwapMsg
    BY <1>1, RunningCall, CallOf DEF execute_liquidity_swap, Running, Call
  <2>2. proxy_swap_message(Call.params) \in Message
    BY <2>1, SwapMessageTyped DEF LiquiditySwapMsg
  <2>3. <<proxy_swap_message(Call.params)>> \in Seq(Message)
    BY <2>2
  <2>4. QED
    BY <1>1, <2>1, <2>3, QueryStepTyped, AbortTyped DEF execute_liquidity_swap
<1>2. CASE execute_transfer
  <2>1. work # <<>> /\ Call \in TransferToMsg
    BY <1>2, RunningCall, CallOf DEF execute_transfer, Running, Call
  <2> DEFINE r == [op |-> "Transfer", tok |-> Call.tok, from |-> VAULT,
                   to |-> Call.to, amt |-> Call.amt]
  <2>2. r \in Message
    BY <2>1 DEF TransferToMsg, TransferMsg, ExecuteMsg, Message, Account
  <2>3. <<r>> \in Seq(Message)
    BY <2>2
  <2>4. QED
    BY <1>2, <2>1, <2>3, QueryStepTyped, AbortTyped DEF execute_transfer
<1>3. CASE execute_finalize
  BY <1>3, QueryStepTyped, EmptyIsMessages, AbortTyped DEF execute_finalize, Done, Running
<1>4. QED
  BY <1>1, <1>2, <1>3

\* The hard caps on what an administrator may allow a trade to lose.
LEMMA RiskWithinCaps ==
  ASSUME NEW r, r \in RiskParams, validate_risk_controls(r)
  PROVE  /\ r.max_trade_bps \in Nat /\ r.max_trade_bps <= 5000
         /\ r.max_execution_deviation_bps \in Nat /\ r.max_execution_deviation_bps <= 1000
         /\ r.quote_slippage_bps \in Nat /\ r.quote_slippage_bps <= 1000
<1> DEFINE t == r.max_trade_bps
           e == r.max_execution_deviation_bps
           s == r.quote_slippage_bps
<1>1. /\ t \in 1..MAX_TRADE_BPS
      /\ e \in 0..MAX_EXECUTION_DEVIATION_BPS
      /\ s \in 0..MAX_QUOTE_SLIPPAGE_BPS
  BY Zenon DEF validate_risk_controls
<1> HIDE DEF t, e, s
<1>2. t \in Nat /\ t <= 5000 /\ e \in Nat /\ e <= 1000 /\ s \in Nat /\ s <= 1000
  BY <1>1 DEF MAX_TRADE_BPS, MAX_EXECUTION_DEVIATION_BPS, MAX_QUOTE_SLIPPAGE_BPS
<1>3. QED
  BY <1>2 DEF t, e, s

\* Whatever the pair quotes, the planned trade has an offer, an amount of at
\* most half of the holding and a minimum return.
LEMMA PlanTyped ==
  ASSUME Typed, NEW quote \in Returns
  PROVE  LET plan == rebalance_plan(quote)
         IN  /\ plan.captured_twap \in Nat \ {0}
             /\ plan.allocation_deviation_bps \in 0..BPS
             /\ plan.offer_index \in Token
             /\ plan.amount \in Nat /\ 2 * plan.amount <= balances[plan.offer_index]
             /\ plan.min_return \in Nat
<1>1. balances \in [{0, 1} -> Nat] /\ dex.twap \in Nat \ {0} /\ quote \in Nat
  BY BalancesTyped, ReturnAssumption DEF Typed, Amounts, Token
<1>2. /\ vault.risk.max_trade_bps \in Nat /\ vault.risk.max_trade_bps <= 5000
      /\ vault.risk.max_execution_deviation_bps \in Nat
      /\ vault.risk.max_execution_deviation_bps <= 1000
      /\ vault.risk.quote_slippage_bps \in Nat /\ vault.risk.quote_slippage_bps <= 1000
  <2>1. vault.risk \in RiskParams /\ validate_risk_controls(vault.risk)
    BY DEF Typed, VaultType
  <2>2. QED
    BY <2>1, RiskWithinCaps
<1> DEFINE offer == planned_offer(balances, dex.twap, vault.risk.max_trade_bps)
           fair  == expected_return(offer.amount, offer.index, dex.twap)
           floor == floor_after(fair, vault.risk.max_execution_deviation_bps)
           slip  == floor_after(quote, vault.risk.quote_slippage_bps)
<1>3. offer.index \in Token /\ offer.amount \in Nat /\ 2 * offer.amount <= balances[offer.index]
  BY <1>1, <1>2, OfferBounded, SMTT(60) DEF Token
<1>4. allocation_deviation(balances, dex.twap) \in 0..BPS
  BY <1>1, AllocationInBps
<1>5. rebalance_plan(quote) =
        [should_rebalance |-> rebalance_status.should_rebalance,
         captured_twap |-> dex.twap,
         allocation_deviation_bps |-> allocation_deviation(balances, dex.twap),
         offer_index |-> offer.index, amount |-> offer.amount,
         min_return |-> Greatest(floor, slip)]
  BY DEF rebalance_plan, rebalance_status
<1> HIDE DEF offer
<1>6. fair \in Nat
  <2>1. PICK a \in Nat, i \in {0, 1}, p \in Nat \ {0} :
          a = offer.amount /\ i = offer.index /\ p = dex.twap
    BY <1>1, <1>3 DEF Token
  <2>2. expected_return(a, i, p) \in Nat
    BY ExpectedReturnInNat
  <2>3. QED
    BY <2>1, <2>2
<1> HIDE DEF fair
<1>7. floor \in Nat /\ slip \in Nat
  <2>1. PICK a \in Nat, e \in Nat, s \in Nat :
          /\ a = fair /\ e = vault.risk.max_execution_deviation_bps /\ e <= 1000
          /\ s = vault.risk.quote_slippage_bps /\ s <= 1000
    BY <1>2, <1>6
  <2>2. floor_after(a, e) \in Nat
    BY <2>1, FloorAfterInNat
  <2>3. PICK q \in Nat : q = quote
    BY <1>1
  <2>4. floor_after(q, s) \in Nat
    BY <2>1, FloorAfterInNat
  <2>5. QED
    BY <2>1, <2>2, <2>3, <2>4
<1> HIDE DEF floor, slip
<1>8. Greatest(floor, slip) \in Nat
  BY <1>7 DEF Greatest
<1>9. QED
  BY <1>1, <1>3, <1>4, <1>5, <1>8

LEMMA RebalanceTyped ==
  ASSUME Typed, execute_rebalance
  PROVE  Typed'
<1>1. work # <<>> /\ Call \in RebalanceMsg
  BY RunningCall, CallOf DEF execute_rebalance, Running, Call
<1>2. PICK quote \in Returns :
        LET plan == rebalance_plan(quote)
        IN  \/ /\ rebalance_allowed(Call, plan)
               /\ vault' = [vault EXCEPT !.pending =
                     [captured_twap |-> plan.captured_twap,
                      balances |-> balances,
                      pre_deviation_bps |-> plan.allocation_deviation_bps,
                      offer_index |-> plan.offer_index,
                      amount |-> plan.amount,
                      min_return |-> plan.min_return]]
               /\ Return(<<proxy_swap_message(
                              [offer_token |-> plan.offer_index,
                               amount |-> plan.amount,
                               min_return |-> plan.min_return,
                               max_spread |-> vault.risk.max_spread,
                               deadline |-> Call.deadline]),
                            [op |-> "RebalanceReply"]>>)
               /\ VaultUnchanged
            \/ ~rebalance_allowed(Call, plan) /\ Abort
  BY DEF execute_rebalance
<1> DEFINE plan == rebalance_plan(quote)
           swap == [offer_token |-> plan.offer_index, amount |-> plan.amount,
                    min_return |-> plan.min_return, max_spread |-> vault.risk.max_spread,
                    deadline |-> Call.deadline]
           pend == [captured_twap |-> plan.captured_twap, balances |-> balances,
                    pre_deviation_bps |-> plan.allocation_deviation_bps,
                    offer_index |-> plan.offer_index, amount |-> plan.amount,
                    min_return |-> plan.min_return]
<1>3. /\ plan.captured_twap \in Nat \ {0}
      /\ plan.allocation_deviation_bps \in 0..BPS
      /\ plan.offer_index \in Token
      /\ plan.amount \in Nat
      /\ plan.min_return \in Nat
  BY PlanTyped
<1> HIDE DEF plan
<1>4. CASE rebalance_allowed(Call, plan) /\ vault' = [vault EXCEPT !.pending = pend]
           /\ Return(<<proxy_swap_message(swap), [op |-> "RebalanceReply"]>>) /\ VaultUnchanged
  <2>1. plan.amount # 0
    BY <1>4 DEF rebalance_allowed
  <2>2. pend \in PendingRebalance
    BY <1>3, <2>1, BalancesTyped DEF PendingRebalance
  <2>3. swap \in SwapParams
    BY <1>1, <1>3 DEF SwapParams, RebalanceMsg, Typed, VaultType, RiskParams
  <2> HIDE DEF pend, swap
  <2>4. vault' \in VaultType
    BY <1>4, <2>2 DEF Typed, VaultType
  <2>5. [op |-> "RebalanceReply"] \in Message
    BY DEF Message, ReplyMsg
  <2>6. <<proxy_swap_message(swap), [op |-> "RebalanceReply"]>> \in Seq(Message)
    BY <2>3, <2>5, SwapMessageTyped
  <2>7. QED
    BY <1>1, <1>4, <2>4, <2>6, VaultStepTyped
<1>5. QED
  BY <1>2, <1>4, AbortTyped DEF plan

LEMMA SyncTyped ==
  ASSUME Typed, execute_sync_reference
  PROVE  Typed'
<1>1. ASSUME vault' = [vault EXCEPT !.reference_price = rebalance_status.current_price]
      PROVE  vault' \in VaultType
  <2>1. rebalance_status.current_price \in Nat \ {0}
    BY DEF rebalance_status, Typed
  <2>2. QED
    BY <1>1, <2>1 DEF Typed, VaultType
<1>2. QED
  BY <1>1, VaultStepTyped, EmptyIsMessages, AbortTyped DEF execute_sync_reference, Done, Running

\* The fee: never above 100%, and minted to the configured collector only.
LEMMA FeeTyped ==
  ASSUME Typed, NEW answer \in FeeAnswers \cup {QueryFailed}, NEW value \in Nat, NEW worth \in Nat
  PROVE  LET fee == charge_fee(answer, value, worth)
         IN  /\ fee.cache \in [Account -> (0..BPS) \cup {None}]
             /\ fee.shares \in Nat
             /\ fee.shares # 0 => vault.fee_collector \in Account
<1> DEFINE user == vault.admin
           cached == vault.fee_cache[user]
           fee_bps == CASE answer # QueryFailed -> capped_fee(answer)
                        [] answer = QueryFailed /\ cached # None -> capped_fee(cached)
                        [] OTHER -> UNDISCOUNTED_FEE_BPS
           fee_value == checked_ratio(value, fee_bps, BPS)
           minted == fee_shares_for_value(fee_value, worth, liq.total_supply)
<1>1. /\ user \in Account /\ vault.fee_collector \in Account \cup {None}
      /\ vault.fee_cache \in [Account -> (0..BPS) \cup {None}]
      /\ liq.total_supply \in Nat
  BY DEF Typed, VaultType, LiquidityType
<1>2. fee_bps \in 0..BPS
  <2>1. \A n \in Nat : capped_fee(n) \in 0..BPS
    BY DEF capped_fee, Least, BPS
  <2>2. \A n \in 0..BPS : n \in Nat
    BY DEF BPS
  <2>3. cached \in (0..BPS) \cup {None}
    BY <1>1
  <2>4. answer # QueryFailed => answer \in Nat
    BY FeeAnswersAssumption DEF QueryFailed
  <2>5. UNDISCOUNTED_FEE_BPS \in 0..BPS
    BY UndiscountedAssumption
  <2>6. CASE answer # QueryFailed
    BY <2>1, <2>4, <2>6
  <2>7. CASE answer = QueryFailed /\ cached # None
    BY <2>1, <2>2, <2>3, <2>7
  <2>8. CASE answer = QueryFailed /\ cached = None
    BY <2>5, <2>8
  <2>9. QED
    BY <2>6, <2>7, <2>8
<1>3. fee_value \in Nat
  <2> HIDE DEF fee_bps
  <2>1. PICK f \in Nat : f = fee_bps
    BY <1>2 DEF BPS
  <2>2. BPS \in Nat /\ BPS > 0
    BY DEF BPS
  <2>3. checked_ratio(value, f, BPS) \in Nat
    BY <2>2, FloorRatio
  <2>4. QED
    BY <2>1, <2>3
<1>4. minted \in Nat
  <2> HIDE DEF fee_value
  <2>1. PICK f \in Nat, s \in Nat : f = fee_value /\ s = liq.total_supply
    BY <1>1, <1>3
  <2>2. fee_shares_for_value(f, worth, s) \in Nat
    BY FeeSharesFair
  <2>3. QED
    BY <2>1, <2>2
<1> DEFINE applies == /\ vault.fee_registry
                      /\ vault.fee_collector # None
                      /\ value # 0
                      /\ vault.liquidity_contract # None
<1>5. charge_fee(answer, value, worth) =
        IF ~applies
          THEN [cache |-> vault.fee_cache, shares |-> 0]
          ELSE [cache  |-> IF answer = QueryFailed THEN vault.fee_cache
                           ELSE [vault.fee_cache EXCEPT ![user] = fee_bps],
                shares |-> minted]
  BY DEF charge_fee
<1> HIDE DEF fee_bps, minted
<1>6. QED
  BY <1>1, <1>2, <1>4, <1>5

\* The fee charged on a settled rebalance, and the message that mints it.
LEMMA SettledFeeTyped ==
  ASSUME Typed, vault.pending # None, validate_settlement(vault.pending, balances),
         NEW answer \in FeeAnswers \cup {QueryFailed}
  PROVE  LET pending == vault.pending
             fee == charge_fee(answer, proceeds_value(pending, balances),
                               nav(balances, pending.captured_twap))
         IN  /\ fee.cache \in [Account -> (0..BPS) \cup {None}]
             /\ (IF fee.shares = 0 THEN <<>>
                 ELSE <<[op |-> "MintTo", sender |-> VAULT, to |-> vault.fee_collector,
                         amt |-> fee.shares]>>) \in Seq(Plain)
<1> DEFINE pending == vault.pending
           settled == balances
           value   == proceeds_value(pending, settled)
           worth   == nav(settled, pending.captured_twap)
<1>1. settled \in [{0, 1} -> Nat]
  BY BalancesTyped DEF Amounts, Token
<1>2. pending \in PendingRebalance
  BY DEF Typed, VaultType
<1>3. value \in Nat
  <2>1. PICK o \in Token, p \in Nat \ {0}, b \in [{0, 1} -> Nat], m \in Nat :
          o = pending.offer_index /\ p = pending.captured_twap /\ b = pending.balances
          /\ m = pending.min_return
    BY <1>2 DEF PendingRebalance, Amounts, Token
  <2>2. settled[1 - o] >= b[1 - o] + m
    BY <2>1 DEF validate_settlement
  <2>3. 1 - o \in {0, 1} /\ settled[1 - o] \in Nat /\ b[1 - o] \in Nat
    BY <1>1 DEF Token
  <2>4. PICK n \in Nat : n = settled[1 - o] - b[1 - o]
    BY <2>2, <2>3
  <2>5. checked_ratio(n, ONE, p) \in Nat
    BY InToken0
  <2>6. value = IF 1 - o = 0 THEN n ELSE checked_ratio(n, ONE, p)
    BY <2>1, <2>4 DEF proceeds_value
  <2>7. QED
    BY <2>5, <2>6
<1>4. worth \in Nat
  <2>1. PICK p \in Nat \ {0} : p = pending.captured_twap
    BY <1>2 DEF PendingRebalance
  <2>2. nav(settled, p) \in Nat
    BY <1>1, NavInNat
  <2>3. QED
    BY <2>1, <2>2
<1> HIDE DEF value, worth
<1> DEFINE fee  == charge_fee(answer, value, worth)
           mint == [op |-> "MintTo", sender |-> VAULT, to |-> vault.fee_collector,
                    amt |-> fee.shares]
<1>5. /\ fee.cache \in [Account -> (0..BPS) \cup {None}] /\ fee.shares \in Nat
      /\ fee.shares # 0 => vault.fee_collector \in Account
  BY <1>3, <1>4, FeeTyped
<1> HIDE DEF fee
<1>6. fee.shares # 0 => mint \in Plain
  BY <1>5 DEF Message, Plain, ExecuteMsg, LiquidityCall, MintToMsg, Account
<1> HIDE DEF mint
<1>7. (IF fee.shares = 0 THEN <<>> ELSE <<mint>>) \in Seq(Plain)
  BY <1>6
<1>8. QED
  BY <1>5, <1>7 DEF fee, mint, value, worth

LEMMA CompleteRebalanceTyped ==
  ASSUME Typed, complete_rebalance
  PROVE  Typed'
<1> DEFINE pending == vault.pending
           current == allocation_deviation(balances, pending.captured_twap)
           fee(answer) == charge_fee(answer, proceeds_value(pending, balances),
                                     nav(balances, pending.captured_twap))
           msgs(answer) == IF fee(answer).shares = 0 THEN <<>>
                           ELSE <<[op |-> "MintTo", sender |-> VAULT,
                                   to |-> vault.fee_collector, amt |-> fee(answer).shares]>>
<1>1. work # <<>>
  BY DEF complete_rebalance, Running
<1>2. ASSUME pending # None, validate_settlement(pending, balances),
             NEW answer \in FeeAnswers \cup {QueryFailed},
             vault' = [vault EXCEPT
                         !.pending = None,
                         !.reference_price = reference_after(pending, current),
                         !.fee_cache = fee(answer).cache],
             Return(msgs(answer)),
             VaultUnchanged
      PROVE  Typed'
  <2>1. msgs(answer) \in Seq(Plain) /\ fee(answer).cache \in [Account -> (0..BPS) \cup {None}]
    BY <1>2, SettledFeeTyped
  <2> DEFINE price == reference_after(pending, current)
             cache == fee(answer).cache
  <2>2. price \in Nat \ {0}
    <3>1. pending \in PendingRebalance
      BY <1>2 DEF Typed, VaultType
    <3>2. QED
      BY <3>1 DEF reference_after, PendingRebalance, Typed, VaultType
  <2>3. vault' = [vault EXCEPT !.pending = None, !.reference_price = price, !.fee_cache = cache]
    BY <1>2
  <2> HIDE DEF price, cache, msgs
  <2>4. cache \in [Account -> (0..BPS) \cup {None}]
    BY <2>1 DEF cache
  <2>5. vault' \in VaultType
    BY <2>2, <2>3, <2>4 DEF Typed, VaultType
  <2>6. QED
    BY <1>1, <1>2, <2>1, <2>5, PlainIsMessage, VaultStepTyped
<1>3. CASE Abort
  BY <1>3, AbortTyped
<1>4. CASE ~Abort
  <2>1. PICK answer \in FeeAnswers \cup {QueryFailed} :
          /\ vault' = [vault EXCEPT
               !.pending = None,
               !.reference_price = reference_after(pending, current),
               !.fee_cache = fee(answer).cache]
          /\ Return(msgs(answer))
          /\ VaultUnchanged
    BY <1>4 DEF complete_rebalance
  <2>2. pending # None /\ validate_settlement(pending, balances)
    BY <1>4 DEF complete_rebalance
  <2> HIDE DEF fee, msgs
  <2>3. QED
    BY <1>2, <2>1, <2>2
<1>5. QED
  BY <1>3, <1>4

LEMMA BotVaultTyped ==
  ASSUME Typed, BotVaultStep
  PROVE  Typed'
BY VaultLiquidityTyped, RebalanceTyped, CompleteRebalanceTyped, SyncTyped, VaultAdminTyped
   DEF BotVaultStep

-----------------------------------------------------------------------------
(* bot-liquidity *)

LEMMA MintTyped ==
  ASSUME NEW l \in LiquidityType, NEW a \in Account, NEW n \in Nat
  PROVE  mint_shares(l, a, n) \in LiquidityType
<1>1. l.shares[a] + n \in Nat /\ l.total_supply + n \in Nat
  BY DEF LiquidityType
<1>2. QED
  BY <1>1 DEF mint_shares, LiquidityType

LEMMA BurnTyped ==
  ASSUME NEW l \in LiquidityType, NEW a \in Account, NEW n \in Nat, burnable(l, a, n)
  PROVE  burn_shares(l, a, n) \in LiquidityType
<1>1. l.shares[a] - n \in Nat /\ l.total_supply - n \in Nat
  BY DEF LiquidityType, burnable
<1>2. QED
  BY <1>1 DEF burn_shares, LiquidityType

LEMMA MoveTyped ==
  ASSUME NEW l \in LiquidityType, NEW f \in Account, NEW t \in Account, NEW n \in Nat,
         n <= l.shares[f]
  PROVE  move_shares(l, f, t, n) \in LiquidityType
<1> DEFINE paid == [l EXCEPT !.shares[f] = @ - n]
<1>1. l.shares[f] - n \in Nat
  BY DEF LiquidityType
<1>2. paid \in LiquidityType
  BY <1>1 DEF LiquidityType
<1>3. move_shares(l, f, t, n) = [paid EXCEPT !.shares[t] = @ + n]
  BY DEF move_shares
<1> HIDE DEF paid
<1>4. paid.shares[t] + n \in Nat
  BY <1>2 DEF LiquidityType
<1>5. QED
  BY <1>2, <1>3, <1>4 DEF LiquidityType

LEMMA PendingTyped ==
  ASSUME NEW l \in LiquidityType, NEW p \in PendingOperation \cup {None}
  PROVE  [l EXCEPT !.pending = p] \in LiquidityType
BY DEF LiquidityType

LEMMA PendingOfKind ==
  ASSUME Typed, liq.pending # None
  PROVE  /\ liq.pending.kind = "Deposit" => liq.pending \in PendingDeposit
         /\ liq.pending.kind = "WithdrawSingle" => liq.pending \in PendingWithdrawSingle
         /\ liq.pending.kind = "AuthorizedTransfers" => liq.pending \in PendingTransfers
BY DEF Typed, LiquidityType, PendingOperation, PendingDeposit, PendingWithdrawSingle,
       PendingTransfers

\* The share ledger's and the administrator's entry points.
LEMMA LedgerTyped ==
  ASSUME Typed,
         \/ execute_mint_to \/ execute_cw20_transfer \/ execute_cw20_burn
         \/ execute_update_config \/ liquidity_admin
  PROVE  Typed'
<1>0. liq \in LiquidityType
  BY DEF Typed
<1>1. CASE execute_mint_to
  <2>1. work # <<>> /\ Call \in MintToMsg
    BY <1>1, RunningCall, CallOf DEF execute_mint_to, Running, Call
  <2>2. mint_shares(liq, Call.to, Call.amt) \in LiquidityType
    BY <1>0, <2>1, MintTyped DEF MintToMsg
  <2>3. QED
    BY <1>1, <2>1, <2>2, LiqStepTyped, EmptyIsMessages, AbortTyped DEF execute_mint_to, Done
<1>2. CASE execute_cw20_transfer
  <2>1. work # <<>> /\ Call \in ShareTransferMsg
    BY <1>2, RunningCall, CallOf DEF execute_cw20_transfer, Running, Call
  <2>2. Call.amt <= liq.shares[Call.sender] =>
          move_shares(liq, Call.sender, Call.to, Call.amt) \in LiquidityType
    BY <1>0, <2>1, MoveTyped DEF ShareTransferMsg
  <2>3. QED
    BY <1>2, <2>1, <2>2, LiqStepTyped, EmptyIsMessages, AbortTyped
       DEF execute_cw20_transfer, Done
<1>3. CASE execute_cw20_burn
  <2>1. work # <<>> /\ Call \in ShareBurnMsg
    BY <1>3, RunningCall, CallOf DEF execute_cw20_burn, Running, Call
  <2>2. burnable(liq, Call.sender, Call.amt) =>
          burn_shares(liq, Call.sender, Call.amt) \in LiquidityType
    BY <1>0, <2>1, BurnTyped DEF ShareBurnMsg
  <2>3. QED
    BY <1>3, <2>1, <2>2, LiqStepTyped, EmptyIsMessages, AbortTyped
       DEF execute_cw20_burn, Done
<1>4. CASE execute_update_config
  <2>1. work # <<>> /\ Call \in UpdateConfigMsg
    BY <1>4, RunningCall, CallOf DEF execute_update_config, Running, Call
  <2>2. [liq EXCEPT !.minimum_initial_deposit = Call.minimum] \in LiquidityType
    BY <1>0, <2>1 DEF UpdateConfigMsg, LiquidityType
  <2>3. QED
    BY <1>4, <2>1, <2>2, LiqStepTyped, EmptyIsMessages, AbortTyped
       DEF execute_update_config, Done
<1>5. CASE liquidity_admin
  <2>1. work # <<>> /\ Call \in HandoverMsg
    BY <1>5, RunningCall, CallOf DEF liquidity_admin, Running, Call
  <2>2. admin_handover(liq, Call) \in LiquidityType
    BY <1>0, <2>1 DEF HandoverMsg, admin_handover, LiquidityType
  <2>3. QED
    BY <1>5, <2>1, <2>2, LiqStepTyped, EmptyIsMessages, AbortTyped DEF liquidity_admin, Done
<1>6. QED
  BY <1>1, <1>2, <1>3, <1>4, <1>5

LEMMA DepositMessagesPlain ==
  ASSUME Typed, Call \in DepositMsg
  PROVE  /\ deposit_messages(Call) \in Seq(Plain)
         /\ \E i \in DOMAIN deposit_messages(Call) :
               deposit_messages(Call)[i].op = "DepositReply"
<1> DEFINE pull(i) == IF Call.amounts[i] = 0 THEN <<>>
                      ELSE <<[op |-> "TransferFrom", tok |-> i, from |-> Call.sender,
                              to |-> liq.vault, amt |-> Call.amounts[i]]>>
           fin == IF Call.swap = None
                    THEN [op |-> "Finalize", sender |-> LIQ]
                    ELSE [op |-> "LiquiditySwap", sender |-> LIQ, params |-> Call.swap]
           rep == [op |-> "DepositReply"]
<1>1. \A i \in Token : pull(i) \in Seq(Plain)
  <2>1. TAKE i \in Token
  <2> DEFINE t == [op |-> "TransferFrom", tok |-> i, from |-> Call.sender,
                   to |-> liq.vault, amt |-> Call.amounts[i]]
  <2>2. liq.vault = VAULT
    BY DEF Typed, LiquidityType
  <2>3. t \in Plain
    BY <2>2 DEF DepositMsg, Amounts, Message, Plain, TransferFromMsg, Account
  <2> HIDE DEF t
  <2>4. pull(i) = IF Call.amounts[i] = 0 THEN <<>> ELSE <<t>>
    BY DEF t
  <2>5. QED
    BY <2>3, <2>4
<1>2. fin \in Plain
  <2>1. CASE Call.swap = None
    BY <2>1 DEF Message, Plain, ExecuteMsg, PlainMsg, Account
  <2>2. CASE Call.swap # None
    BY <2>2 DEF DepositMsg, Message, Plain, ExecuteMsg, VaultCall, LiquiditySwapMsg, Account
  <2>3. QED
    BY <2>1, <2>2
<1>3. rep \in Plain
  BY DEF Message, Plain, ReplyMsg
<1>4. deposit_messages(Call) = pull(0) \o pull(1) \o <<fin, rep>>
  BY DEF deposit_messages
<1>5. rep.op = "DepositReply"
  OBVIOUS
<1> HIDE DEF pull, fin, rep
<1>6. pull(0) \in Seq(Plain) /\ pull(1) \in Seq(Plain) /\ <<fin, rep>> \in Seq(Plain)
  BY <1>1, <1>2, <1>3 DEF Token
<1>7. deposit_messages(Call) \in Seq(Plain)
  BY <1>4, <1>6
<1>8. \E i \in DOMAIN deposit_messages(Call) : deposit_messages(Call)[i] = rep
  <2> DEFINE m == pull(0) \o pull(1)
             f == <<fin, rep>>
  <2>1. m \in Seq(Plain) /\ f \in Seq(Plain) /\ 2 \in DOMAIN f /\ f[2] = rep
    BY <1>6
  <2> HIDE DEF m, f
  <2>2. Len(m) + 2 \in DOMAIN (m \o f) /\ (m \o f)[Len(m) + 2] = rep
    BY <2>1, PlainIsMessage, ConcatIndex
  <2>3. QED
    BY <1>4, <2>2 DEF m, f
<1>9. QED
  BY <1>5, <1>7, <1>8

LEMMA DepositTyped ==
  ASSUME Typed, execute_deposit
  PROVE  Typed'
<1>1. work # <<>> /\ Call \in DepositMsg
  BY RunningCall, CallOf DEF execute_deposit, Running, Call
<1> DEFINE pend == [kind |-> "Deposit", depositor |-> Call.sender,
                    pre_balances |-> balances, pre_supply |-> liq.total_supply,
                    price |-> dex.twap, min_shares |-> Call.min_shares, swap |-> Call.swap]
<1>2. pend \in PendingOperation
  <2>1. liq.total_supply \in Nat /\ dex.twap \in Nat \ {0}
    BY DEF Typed, LiquidityType
  <2>2. QED
    BY <1>1, <2>1, BalancesTyped DEF DepositMsg, PendingOperation, PendingDeposit
<1> HIDE DEF pend
<1>3. [liq EXCEPT !.pending = pend] \in LiquidityType
  BY <1>2, PendingTyped DEF Typed
<1>4. deposit_messages(Call) \in Seq(Message)
  BY <1>1, DepositMessagesPlain, PlainIsMessage
<1>5. QED
  BY <1>1, <1>3, <1>4, LiqStepTyped, AbortTyped DEF execute_deposit, pend

\* A completed deposit mints a natural number of shares, and so does the lock.
LEMMA DepositSharesInNat ==
  ASSUME Typed, NEW p \in PendingDeposit, NEW post \in [{0, 1} -> Nat],
         \A i \in {0, 1} : post[i] >= p.pre_balances[i]
  PROVE  deposit_shares(p, post) \in Nat /\ locked_shares(p) \in Nat
<1>1. PICK pre \in [{0, 1} -> Nat], price \in Nat \ {0}, s \in Nat :
        pre = p.pre_balances /\ price = p.price /\ s = p.pre_supply
  BY DEF PendingDeposit, Amounts, Token
<1> DEFINE v == nav(post, price) - nav(pre, price)
<1>2. nav(post, price) \in Nat /\ nav(pre, price) \in Nat
  BY NavInNat
<1>3. locked_shares(p) \in Nat
  BY <1>1, <1>2, LockedAssumption DEF locked_shares
<1>4. CASE s = 0
  <2>1. deposit_shares(p, post) = IF v < liq.minimum_initial_deposit \/ v <= LOCKED_INITIAL_SHARES
                                    THEN 0 ELSE v - LOCKED_INITIAL_SHARES
    BY <1>1, <1>4 DEF deposit_shares
  <2>2. v \in Int
    BY <1>2
  <2> HIDE DEF v
  <2>3. QED
    BY <1>3, <2>1, <2>2, LockedAssumption
<1>5. CASE s # 0 /\ (pre[0] = 0 \/ pre[1] = 0)
  BY <1>1, <1>3, <1>5 DEF deposit_shares
<1>6. CASE s # 0 /\ ~(pre[0] = 0 \/ pre[1] = 0)
  <2>1. pre \in [{0, 1} -> Nat \ {0}]
    BY <1>6
  <2>2. proportional_deposit_shares(pre, post, s) \in Nat
    BY <1>1, <2>1, DepositSharesFair
  <2>3. deposit_shares(p, post) = proportional_deposit_shares(pre, post, s)
    BY <1>1, <1>6 DEF deposit_shares
  <2>4. QED
    BY <1>3, <2>2, <2>3
<1>7. QED
  BY <1>4, <1>5, <1>6

LEMMA CompleteDepositTyped ==
  ASSUME Typed, complete_deposit
  PROVE  Typed'
<1> DEFINE p == liq.pending
           l1 == mint_shares(liq, LIQ, locked_shares(p))
           l2 == mint_shares(l1, p.depositor, deposit_shares(p, balances))
<1>1. work # <<>>
  BY DEF complete_deposit, Running
<1>2. ASSUME complete_deposit_allowed(p, balances)
      PROVE  [l2 EXCEPT !.pending = None] \in LiquidityType
  <2>1. p \in PendingDeposit
    BY <1>2, PendingOfKind DEF complete_deposit_allowed
  <2>2. balances \in [{0, 1} -> Nat] /\ \A i \in {0, 1} : balances[i] >= p.pre_balances[i]
    BY <1>2, BalancesTyped DEF complete_deposit_allowed, Amounts, Token
  <2>3. deposit_shares(p, balances) \in Nat /\ locked_shares(p) \in Nat /\ p.depositor \in Account
    BY <2>1, <2>2, DepositSharesInNat DEF PendingDeposit
  <2> HIDE DEF p
  <2>4. l1 \in LiquidityType
    BY <2>3, MintTyped DEF Typed, Account
  <2> HIDE DEF l1
  <2>5. l2 \in LiquidityType
    BY <2>3, <2>4, MintTyped
  <2> HIDE DEF l2
  <2>6. QED
    BY <2>5, PendingTyped
<1>3. QED
  BY <1>1, <1>2, LiqStepTyped, EmptyIsMessages, AbortTyped DEF complete_deposit, Done

-----------------------------------------------------------------------------
(* Withdrawals. *)

LEMMA ClaimsTyped ==
  ASSUME Typed, NEW m \in WithdrawMsg \cup WithdrawSingleMsg, withdraw_allowed(m)
  PROVE  claims(m) \in [{0, 1} -> Nat] /\ m.shares \in Nat \ {0}
<1>1. m.shares \in Nat /\ m.shares # 0 /\ liq.total_supply \in Nat /\ m.shares <= liq.total_supply
  BY DEF withdraw_allowed, burnable, WithdrawMsg, WithdrawSingleMsg, Typed, LiquidityType
<1>2. PICK s \in Nat \ {0}, t \in Nat : s = liq.total_supply /\ t = m.shares /\ t \in 0..s
  BY <1>1
<1>3. balances \in [{0, 1} -> Nat]
  BY BalancesTyped DEF Amounts, Token
<1>4. \A i \in {0, 1} : withdrawal_claims(balances, t, s)[i] \in 0..balances[i]
  BY <1>2, <1>3, ClaimsFair
<1>5. \A i \in {0, 1} : withdrawal_claims(balances, t, s)[i] \in Nat
  BY <1>3, <1>4
<1>6. withdrawal_claims(balances, t, s) \in [{0, 1} -> Nat]
  BY <1>5 DEF withdrawal_claims
<1>7. QED
  BY <1>1, <1>2, <1>6 DEF claims

\* The two messages of one authorized transfer.
Leg(t) == <<vault_transfer(t), [op |-> "TransferReply"]>>

LEMMA LegPlain ==
  ASSUME NEW t \in AuthorizedTransfer
  PROVE  Leg(t) \in Seq(Plain)
<1>1. vault_transfer(t) \in Plain
  BY DEF vault_transfer, AuthorizedTransfer, Message, Plain, ExecuteMsg, VaultCall,
         TransferToMsg, Account
<1>2. [op |-> "TransferReply"] \in Plain
  BY DEF Message, Plain, ReplyMsg
<1>3. QED
  BY <1>1, <1>2 DEF Leg

\* A pro-rata withdrawal authorizes one or two transfers.
LEMMA TransfersTyped ==
  ASSUME Typed, NEW m \in WithdrawMsg \cup WithdrawSingleMsg, withdraw_allowed(m),
         pro_rata_transfers(m) # <<>>
  PROVE  LET transfers == pro_rata_transfers(m)
         IN  /\ transfers \in Seq(AuthorizedTransfer) /\ Len(transfers) \in 1..2
             /\ \A i \in 1..Len(transfers) : Leg(transfers[i]) \in Seq(Plain)
<1>1. claims(m) \in [{0, 1} -> Nat] /\ m.shares \in Nat
  BY ClaimsTyped
<1> DEFINE transfers == pro_rata_transfers(m)
           t(i) == [token |-> i, amount |-> claims(m)[i], recipient |-> m.to]
           pay(i) == IF claims(m)[i] = 0 THEN <<>> ELSE <<t(i)>>
<1>2. \A i \in {0, 1} : t(i) \in AuthorizedTransfer
  BY <1>1 DEF AuthorizedTransfer, Token, WithdrawMsg, WithdrawSingleMsg
<1>3. transfers = pay(0) \o pay(1)
  BY DEF pro_rata_transfers
<1> HIDE DEF t, transfers
<1>4. transfers \in Seq(AuthorizedTransfer) /\ Len(transfers) \in 1..2
  <2>1. \A i \in {0, 1} : /\ pay(i) \in Seq(AuthorizedTransfer)
                          /\ Len(pay(i)) \in {0, 1}
    BY <1>2
  <2> HIDE DEF pay
  <2>2. transfers \in Seq(AuthorizedTransfer) /\ Len(transfers) = Len(pay(0)) + Len(pay(1))
    BY <1>3, <2>1
  <2>3. Len(transfers) # 0
    <3>1. transfers # <<>>
      BY DEF transfers
    <3>2. QED
      BY <2>2, <3>1
  <2>4. Len(pay(0)) + Len(pay(1)) \in {0, 1, 2}
    <3>1. PICK a \in {0, 1}, b \in {0, 1} : a = Len(pay(0)) /\ b = Len(pay(1))
      BY <2>1
    <3>2. a + b \in {0, 1, 2}
      OBVIOUS
    <3>3. QED
      BY <3>1, <3>2
  <2>5. QED
    BY <2>2, <2>3, <2>4
<1>5. \A i \in 1..Len(transfers) : Leg(transfers[i]) \in Seq(Plain)
  BY <1>4, LegPlain
<1>6. QED
  BY <1>4, <1>5 DEF transfers

LEMMA ProRataTyped ==
  ASSUME Typed, execute_withdraw_pro_rata
  PROVE  Typed'
<1>1. work # <<>> /\ Call \in WithdrawMsg \cup WithdrawSingleMsg
  BY RunningCall, CallOf DEF execute_withdraw_pro_rata, Running, Call
<1> DEFINE transfers == pro_rata_transfers(Call)
           leg(i) == <<vault_transfer(transfers[i]), [op |-> "TransferReply"]>>
           pend == [kind |-> "AuthorizedTransfers", transfers |-> transfers,
                    replies_remaining |-> Len(transfers)]
           burned == burn_shares(liq, Call.sender, Call.shares)
           msgs == IF Len(transfers) = 1 THEN leg(1) ELSE leg(1) \o leg(2)
<1>2. ASSUME withdraw_allowed(Call), transfers # <<>>
      PROVE  [burned EXCEPT !.pending = pend] \in LiquidityType /\ msgs \in Seq(Message)
  <2>1. Call.shares \in Nat
    BY <1>1, <1>2, ClaimsTyped
  <2>4. /\ transfers \in Seq(AuthorizedTransfer) /\ Len(transfers) \in 1..2
        /\ \A i \in 1..Len(transfers) : Leg(transfers[i]) \in Seq(Plain)
    BY <1>1, <1>2, TransfersTyped
  <2> HIDE DEF transfers
  <2>5. pend \in PendingOperation
    BY <2>4 DEF PendingOperation, PendingTransfers
  <2>6. burned \in LiquidityType
    BY <1>1, <1>2, <2>1, BurnTyped DEF withdraw_allowed, Typed, WithdrawMsg, WithdrawSingleMsg
  <2> HIDE DEF burned, pend
  <2>7. [burned EXCEPT !.pending = pend] \in LiquidityType
    BY <2>5, <2>6, PendingTyped
  <2>8. \A i \in 1..Len(transfers) : leg(i) \in Seq(Message)
    BY <2>4, PlainIsMessage DEF Leg
  <2> HIDE DEF leg
  <2>9. msgs \in Seq(Message)
    <3>1. CASE Len(transfers) = 1
      BY <2>8, <3>1
    <3>2. CASE Len(transfers) = 2
      <4>1. leg(1) \in Seq(Message) /\ leg(2) \in Seq(Message)
        BY <2>8, <3>2
      <4>2. QED
        BY <3>2, <4>1
    <3>3. QED
      BY <2>4, <3>1, <3>2
  <2>10. QED
    BY <2>7, <2>9
<1>3. QED
  <2>1. CASE /\ withdraw_allowed(Call) /\ transfers # <<>>
             /\ liq' = [burned EXCEPT !.pending = pend]
             /\ Return(msgs) /\ LiqUnchanged
    <3>1. liq' \in LiquidityType /\ msgs \in Seq(Message)
      BY <1>2, <2>1
    <3> HIDE DEF msgs, burned, pend, transfers
    <3>2. QED
      BY <1>1, <2>1, <3>1, LiqStepTyped
  <2>2. CASE Abort
    BY <2>2, AbortTyped
  <2>3. QED
    BY <2>1, <2>2 DEF execute_withdraw_pro_rata

LEMMA SingleWithdrawTyped ==
  ASSUME Typed, execute_single_withdraw
  PROVE  Typed'
<1>1. work # <<>> /\ Call \in WithdrawSingleMsg
  BY RunningCall, CallOf DEF execute_single_withdraw, Running, Call, WithdrawMsg
<1> DEFINE pend == [kind |-> "WithdrawSingle", owner |-> Call.sender,
                    shares |-> Call.shares, recipient |-> Call.to,
                    payout_token |-> Call.payout,
                    base_amount |-> claims(Call)[Call.payout],
                    pre_payout_balance |-> balances[Call.payout],
                    min_amount |-> Call.min_assets[Call.payout],
                    swap |-> Call.swap]
           escrowed == [liq EXCEPT !.pending = pend]
           swap == [op |-> "LiquiditySwap", sender |-> LIQ, params |-> Call.swap]
           reply == [op |-> "WithdrawReply", snap |-> [Snapshot EXCEPT !.liq = escrowed]]
<1>2. ASSUME single_withdraw_allowed(Call)
      PROVE  escrowed \in LiquidityType /\ <<swap, reply>> \in Seq(Message)
  <2>1. claims(Call) \in [{0, 1} -> Nat] /\ Call.shares \in Nat \ {0}
    BY <1>1, <1>2, ClaimsTyped DEF single_withdraw_allowed
  <2>2. /\ claims(Call)[Call.payout] \in Nat /\ balances[Call.payout] \in Nat
        /\ Call.min_assets[Call.payout] \in Nat
    BY <1>1, <2>1, BalancesTyped DEF WithdrawSingleMsg, Amounts, Token
  <2>3. pend \in PendingOperation
    BY <1>1, <2>1, <2>2 DEF WithdrawSingleMsg, PendingOperation, PendingWithdrawSingle
  <2> HIDE DEF pend
  <2>4. escrowed \in LiquidityType
    BY <2>3, PendingTyped DEF Typed
  <2> HIDE DEF escrowed
  <2>5. [Snapshot EXCEPT !.liq = escrowed] \in SnapshotType
    BY <2>4 DEF Snapshot, SnapshotType, Typed
  <2>6. reply \in Message
    BY <2>5 DEF Message, WithdrawReplyMsg
  <2>7. swap \in Message
    BY <1>1 DEF WithdrawSingleMsg, Message, ExecuteMsg, VaultCall, LiquiditySwapMsg, Account
  <2> HIDE DEF swap, reply
  <2>8. QED
    BY <2>4, <2>6, <2>7
<1>3. CASE /\ single_withdraw_allowed(Call) /\ liq' = escrowed
           /\ Return(<<swap, reply>>) /\ LiqUnchanged
  <2>1. liq' \in LiquidityType /\ <<swap, reply>> \in Seq(Message)
    BY <1>2, <1>3
  <2> HIDE DEF escrowed, swap, reply
  <2>2. QED
    BY <1>1, <1>3, <2>1, LiqStepTyped
<1>4. QED
  BY <1>3, AbortTyped DEF execute_single_withdraw

LEMMA FailTyped ==
  ASSUME Typed, fail_single_withdraw
  PROVE  Typed'
<1>1. [liq EXCEPT !.pending = None] \in LiquidityType
  BY PendingTyped DEF Typed
<1>2. QED
  BY <1>1, LiqStepTyped, EmptyIsMessages DEF fail_single_withdraw, Done, Running

LEMMA CompleteWithdrawTyped ==
  ASSUME Typed, complete_single_withdraw
  PROVE  Typed'
<1>1. work # <<>>
  BY DEF complete_single_withdraw, Running
<1> DEFINE p == liq.pending
           t == [token |-> p.payout_token, amount |-> payout_of(p), recipient |-> p.recipient]
           pend == [kind |-> "AuthorizedTransfers", transfers |-> <<t>>, replies_remaining |-> 1]
           burned == burn_shares(liq, p.owner, p.shares)
           msgs == <<vault_transfer(t), [op |-> "TransferReply"]>>
<1>2. ASSUME p # None, p.kind = "WithdrawSingle", balances[p.payout_token] >= p.pre_payout_balance,
             burnable(liq, p.owner, p.shares)
      PROVE  [burned EXCEPT !.pending = pend] \in LiquidityType /\ msgs \in Seq(Message)
  <2>1. p \in PendingWithdrawSingle
    BY <1>2, PendingOfKind
  <2>2. payout_of(p) \in Nat
    <3>1. /\ balances[p.payout_token] \in Nat /\ p.pre_payout_balance \in Nat
          /\ p.base_amount \in Nat
      BY <2>1, BalancesTyped DEF PendingWithdrawSingle, Amounts
    <3>2. QED
      BY <1>2, <3>1 DEF payout_of
  <2>3. t \in AuthorizedTransfer
    BY <2>1, <2>2 DEF AuthorizedTransfer, PendingWithdrawSingle
  <2>4. burned \in LiquidityType
    BY <1>2, <2>1, BurnTyped DEF PendingWithdrawSingle, Typed
  <2> HIDE DEF burned, t
  <2>5. pend \in PendingOperation
    BY <2>3 DEF PendingOperation, PendingTransfers
  <2> HIDE DEF pend
  <2>6. [burned EXCEPT !.pending = pend] \in LiquidityType
    BY <2>4, <2>5, PendingTyped
  <2>7. QED
    BY <2>3, <2>6, LegPlain, PlainIsMessage DEF Leg
<1>3. CASE /\ p # None /\ p.kind = "WithdrawSingle" /\ burnable(liq, p.owner, p.shares)
           /\ balances[p.payout_token] >= p.pre_payout_balance
           /\ liq' = [burned EXCEPT !.pending = pend]
           /\ Return(msgs) /\ LiqUnchanged
  <2>1. liq' \in LiquidityType /\ msgs \in Seq(Message)
    BY <1>2, <1>3
  <2> HIDE DEF burned, pend, msgs
  <2>2. QED
    BY <1>1, <1>3, <2>1, LiqStepTyped
<1>4. QED
  BY <1>3, AbortTyped DEF complete_single_withdraw

LEMMA TransferReplyTyped ==
  ASSUME Typed, complete_authorized_transfer
  PROVE  Typed'
<1>1. work # <<>>
  BY DEF complete_authorized_transfer, Running
<1> DEFINE p == liq.pending
           next == IF p.replies_remaining = 1 THEN None
                   ELSE [p EXCEPT !.replies_remaining = @ - 1]
<1>2. ASSUME p # None, p.kind = "AuthorizedTransfers"
      PROVE  [liq EXCEPT !.pending = next] \in LiquidityType
  <2>1. p \in PendingTransfers
    BY <1>2, PendingOfKind
  <2>2. PICK r \in {1, 2} : r = p.replies_remaining
    BY <2>1 DEF PendingTransfers
  <2>3. CASE r = 1
    BY <2>2, <2>3, PendingTyped DEF Typed
  <2>4. CASE r = 2
    <3>1. next = [p EXCEPT !.replies_remaining = 1]
      BY <2>2, <2>4
    <3>2. next \in PendingTransfers
      BY <2>1, <3>1 DEF PendingTransfers
    <3> HIDE DEF next
    <3>3. QED
      BY <3>2, PendingTyped DEF Typed, PendingOperation
  <2>5. QED
    BY <2>3, <2>4
<1>3. QED
  BY <1>1, <1>2, LiqStepTyped, EmptyIsMessages, AbortTyped
     DEF complete_authorized_transfer, Done

LEMMA BotLiquidityTyped ==
  ASSUME Typed, BotLiquidityStep
  PROVE  Typed'
BY DepositTyped, CompleteDepositTyped, ProRataTyped, SingleWithdrawTyped,
   CompleteWithdrawTyped, FailTyped, TransferReplyTyped, LedgerTyped DEF BotLiquidityStep

-----------------------------------------------------------------------------
(* The theorem. *)

LEMMA InitTyped == Init => Typed
<1> SUFFICES ASSUME Init PROVE Typed
  OBVIOUS
<1>1. PICK m \in Markets :
        /\ vault = vault_instantiate(m.twap)
        /\ dex = [twap |-> m.twap, code |-> 1]
        /\ bank = [i \in Token |-> [a \in Account |->
                     CASE a \in Users -> InitialTokens
                       [] a = VAULT   -> InitialVault[i]
                       [] a = PAIR    -> m.reserves[i]
                       [] OTHER       -> 0]]
  BY DEF Init
<1>2. m.twap \in Nat \ {0} /\ m.reserves \in [Token -> Nat]
  BY MarketAssumption DEF Amounts
<1>3. vault \in VaultType
  BY <1>1, <1>2, InstantiateAssumption DEF vault_instantiate, VaultType, Account
<1>4. bank \in [Token -> [Account -> Nat]]
  BY <1>1, <1>2, InstantiateAssumption DEF Amounts
<1>5. liq \in LiquidityType
  BY InstantiateAssumption DEF Init, liquidity_instantiate, LiquidityType, Account
<1>6. proxy \in ProxyType
  BY InstantiateAssumption DEF Init, proxy_instantiate, ProxyType, Account
<1>7. QED
  BY <1>1, <1>2, <1>3, <1>4, <1>5, <1>6, BoundAssumption DEF Init, Typed

LEMMA SubmitCallTyped ==
  ASSUME Typed, SubmitCall
  PROVE  Typed'
BY CallsAssumption, SubmitTyped DEF SubmitCall

LEMMA TypedStep == Typed /\ [Next]_vars => Typed'
<1> SUFFICES ASSUME Typed, [Next]_vars PROVE Typed'
  OBVIOUS
<1>1. CASE SubmitCall
  BY <1>1, SubmitCallTyped
<1>2. CASE TxStep
  BY <1>2, CommitTyped, TokenTyped, PairTyped, SwapProxyTyped, BotVaultTyped, BotLiquidityTyped
     DEF TxStep
<1>3. CASE Environment
  BY <1>3, EnvironmentTyped
<1>4. CASE UNCHANGED vars
  BY <1>4 DEF vars, storage, Typed
<1>5. QED
  BY <1>1, <1>2, <1>3, <1>4 DEF Next

\* Type correctness of the contracts: in every reachable state, also in the
\* middle of a transaction and whatever the pair pays or calls back, balances,
\* shares and supply are natural numbers, cached fees are at most 100%, and the
\* stored risk limits respect their hard caps.
THEOREM TypeCorrect == Spec => []TypeOK
<1>1. Spec => []Typed
  BY InitTyped, TypedStep, PTL DEF Spec
<1>2. Typed => TypeOK
  BY TypedIsTypeOK
<1>3. QED
  BY <1>1, <1>2, PTL

-----------------------------------------------------------------------------
(* No pending slot survives its transaction: whatever fails, is refused or *)
(* calls back on the way, PENDING_REBALANCE and PENDING are empty again    *)
(* when the transaction is over.                                           *)

\* The replies that empty bot-liquidity's slot.
Replies == {"DepositReply", "TransferReply", "WithdrawReply", "WithdrawFailed"}

-----------------------------------------------------------------------------
(* Messages waiting behind other messages. *)

LEMMA WaitsBehind ==
  ASSUME NEW s \in Seq(Message), NEW m \in Seq(Message), NEW op, Waits(op, s)
  PROVE  Waits(op, m \o s)
<1>1. PICK i \in DOMAIN s : s[i].op = op
  BY DEF Waits
<1>2. Len(m) + i \in DOMAIN (m \o s) /\ (m \o s)[Len(m) + i].op = op
  BY <1>1, ConcatIndex
<1>3. QED
  BY <1>2 DEF Waits

LEMMA WaitsAhead ==
  ASSUME NEW s \in Seq(Message), NEW m \in Seq(Message), NEW op, Waits(op, m)
  PROVE  Waits(op, m \o s)
<1>1. PICK i \in DOMAIN m : m[i].op = op
  BY DEF Waits
<1>2. i \in DOMAIN (m \o s) /\ (m \o s)[i].op = op
  BY <1>1, ConcatIndex
<1>3. QED
  BY <1>2 DEF Waits

\* Running a message takes away only that message.
LEMMA WaitsOn ==
  ASSUME NEW s \in Seq(Message), s # <<>>, NEW op, Waits(op, s), Head(s).op # op
  PROVE  Waits(op, Tail(s))
<1>1. PICK i \in DOMAIN s : s[i].op = op
  BY DEF Waits
<1>2. i # 1
  BY <1>1
<1>3. i - 1 \in DOMAIN Tail(s) /\ Tail(s)[i - 1] = s[i]
  BY <1>1, <1>2
<1>4. QED
  BY <1>1, <1>3 DEF Waits

LEMMA OperationBehind ==
  ASSUME NEW l, NEW s \in Seq(Message), NEW m \in Seq(Message), OperationCovered(l, s)
  PROVE  OperationCovered(l, m \o s)
<1>1. ASSUME NEW i \in DOMAIN s, NEW j \in DOMAIN s, i < j,
             s[i].op = "TransferReply", s[j].op = "TransferReply"
      PROVE  \E a, b \in DOMAIN (m \o s) :
               a < b /\ (m \o s)[a].op = "TransferReply" /\ (m \o s)[b].op = "TransferReply"
  <2>1. /\ Len(m) + i \in DOMAIN (m \o s) /\ (m \o s)[Len(m) + i] = s[i]
        /\ Len(m) + j \in DOMAIN (m \o s) /\ (m \o s)[Len(m) + j] = s[j]
    BY ConcatIndex
  <2>2. Len(m) + i < Len(m) + j
    BY <1>1
  <2>3. QED
    BY <1>1, <2>1, <2>2
<1>2. \A op : Waits(op, s) => Waits(op, m \o s)
  BY WaitsBehind
<1>3. QED
  BY <1>1, <1>2 DEF OperationCovered

LEMMA OperationOn ==
  ASSUME NEW l, NEW s \in Seq(Message), s # <<>>, OperationCovered(l, s), Head(s).op \notin Replies
  PROVE  OperationCovered(l, Tail(s))
<1>1. ASSUME NEW i \in DOMAIN s, NEW j \in DOMAIN s, i < j,
             s[i].op = "TransferReply", s[j].op = "TransferReply"
      PROVE  \E a, b \in DOMAIN Tail(s) :
               a < b /\ Tail(s)[a].op = "TransferReply" /\ Tail(s)[b].op = "TransferReply"
  <2>1. i # 1 /\ j # 1
    BY <1>1 DEF Replies
  <2>2. /\ i - 1 \in DOMAIN Tail(s) /\ Tail(s)[i - 1] = s[i]
        /\ j - 1 \in DOMAIN Tail(s) /\ Tail(s)[j - 1] = s[j]
        /\ i - 1 < j - 1
    BY <1>1, <2>1
  <2>3. QED
    BY <1>1, <2>2
<1>2. \A op \in Replies : Waits(op, s) => Waits(op, Tail(s))
  BY WaitsOn
<1>3. QED
  BY <1>1, <1>2 DEF OperationCovered, Replies

-----------------------------------------------------------------------------
(* The snapshots on the stack. *)

\* A covered message stays covered when messages are put in front of it ...
LEMMA CoveredConcat ==
  ASSUME NEW t \in Seq(Message), NEW m \in Seq(Message), NEW i \in DOMAIN t,
         SnapshotCovered(i, t)
  PROVE  SnapshotCovered(Len(m) + i, m \o t)
<1> DEFINE w == m \o t
           h == Len(m) + i
<1>1. w[h] = t[i]
  BY ConcatIndex
<1>2. h = Len(w) <=> i = Len(t)
  OBVIOUS
<1>3. ASSUME NEW j \in DOMAIN t, j > i, t[j].op = "RebalanceReply"
      PROVE  \E g \in DOMAIN w : g > h /\ w[g].op = "RebalanceReply"
  <2>1. Len(m) + j \in DOMAIN w /\ w[Len(m) + j] = t[j]
    BY ConcatIndex
  <2>2. Len(m) + j > h
    BY <1>3
  <2>3. QED
    BY <1>3, <2>1, <2>2
<1> HIDE DEF w, h
<1>4. QED
  BY <1>1, <1>2, <1>3 DEF SnapshotCovered, w, h

\* ... and when those in front of it are taken away.
LEMMA CoveredSuffix ==
  ASSUME NEW s \in Seq(Message), NEW d \in Nat, d <= Len(s),
         NEW i \in DOMAIN SubSeq(s, d + 1, Len(s)), SnapshotCovered(d + i, s)
  PROVE  SnapshotCovered(i, SubSeq(s, d + 1, Len(s)))
<1> DEFINE t == SubSeq(s, d + 1, Len(s))
<1>1. t \in Seq(Message) /\ Len(t) + d = Len(s)
  OBVIOUS
<1>2. \A j \in DOMAIN t : d + j \in DOMAIN s /\ t[j] = s[d + j]
  OBVIOUS
<1>3. \A j \in DOMAIN s : j > d + i => \E g \in DOMAIN t : g > i /\ j = d + g
  <2>1. TAKE j \in DOMAIN s
  <2>2. HAVE j > d + i
  <2>3. j - d \in DOMAIN t /\ j - d > i /\ j = d + (j - d)
    BY <2>2
  <2>4. QED
    BY <2>3
<1>4. d + i = Len(s) <=> i = Len(t)
  BY <1>1
<1> HIDE DEF t
<1>5. ASSUME NEW j \in DOMAIN s, j > d + i, s[j].op = "RebalanceReply"
      PROVE  \E g \in DOMAIN t : g > i /\ t[g].op = "RebalanceReply"
  BY <1>2, <1>3, <1>5
<1>6. i \in DOMAIN t
  BY DEF t
<1>7. SnapshotCovered(i, t)
  BY <1>2, <1>4, <1>5, <1>6 DEF SnapshotCovered
<1>8. QED
  BY <1>7 DEF t

\* Replacing the first d messages by some that are no checkpoints keeps the
\* stack in order.
LEMMA SnapshotsKept ==
  ASSUME NEW s \in Seq(Message), NEW m \in Seq(Message), NEW d \in Nat, d < Len(s),
         \A i \in DOMAIN s : SnapshotCovered(i, s),
         \A i \in DOMAIN m : m[i].op \notin {"Commit", "WithdrawReply"}
  PROVE  LET w == m \o SubSeq(s, d + 1, Len(s))
         IN  \A i \in DOMAIN w : SnapshotCovered(i, w)
<1> DEFINE t == SubSeq(s, d + 1, Len(s))
           w == m \o t
<1>1. t \in Seq(Message) /\ Len(t) > 0
  OBVIOUS
<1>2. \A i \in DOMAIN t : SnapshotCovered(i, t)
  <2>1. TAKE i \in DOMAIN t
  <2>2. d + i \in DOMAIN s
    OBVIOUS
  <2>3. QED
    BY <2>2, CoveredSuffix
<1> HIDE DEF t
<1>3. \A i \in DOMAIN t : SnapshotCovered(Len(m) + i, w)
  BY <1>1, <1>2, CoveredConcat
<1>4. ASSUME NEW i \in DOMAIN m
      PROVE  SnapshotCovered(i, w)
  <2>1. w[i] = m[i] /\ i # Len(w)
    BY <1>1
  <2> HIDE DEF w
  <2>2. QED
    BY <2>1 DEF SnapshotCovered
<1>5. \A i \in DOMAIN w : i \in DOMAIN m \/ \E j \in DOMAIN t : i = Len(m) + j
  <2>1. TAKE i \in DOMAIN w
  <2>2. CASE i <= Len(m)
    BY <1>1, <2>2
  <2>3. CASE i > Len(m)
    <3>1. i - Len(m) \in DOMAIN t /\ i = Len(m) + (i - Len(m))
      BY <1>1, <2>3
    <3>2. QED
      BY <3>1
  <2>4. QED
    BY <1>1, <2>2, <2>3
<1> HIDE DEF w
<1>6. \A i \in DOMAIN w : SnapshotCovered(i, w)
  BY <1>3, <1>4, <1>5
<1>7. QED
  BY <1>6 DEF w, t

-----------------------------------------------------------------------------
(* The transaction machine. *)

\* A running message other than Commit has the rest of its transaction behind it.
LEMMA MoreToRun ==
  ASSUME Typed, SnapshotsCovered, work # <<>>, Call.op # "Commit"
  PROVE  /\ 1 < Len(work)
         /\ Tail(work) = SubSeq(work, 2, Len(work)) /\ Tail(work) \in Seq(Message)
<1>1. work \in Seq(Message) /\ Len(work) \in DOMAIN work
  BY DEF Typed
<1>2. work[Len(work)].op = "Commit"
  BY <1>1 DEF SnapshotsCovered, SnapshotCovered
<1>3. Len(work) # 1
  BY <1>1, <1>2 DEF Call
<1>4. Len(work) \in Nat /\ Len(work) > 1
  <2>1. PICK n \in Nat : n = Len(work)
    BY <1>1
  <2>2. n # 0 /\ n # 1
    BY <1>1, <1>3, <2>1
  <2>3. QED
    BY <2>1, <2>2
<1>5. Tail(work) = SubSeq(work, 2, Len(work)) /\ Tail(work) \in Seq(Message)
  BY <1>1
<1>6. QED
  BY <1>4, <1>5

\* What a returning handler leaves of the stack.
LEMMA ReturnCovered ==
  ASSUME Typed, RepliesFollowSlots, work # <<>>, Call.op # "Commit",
         NEW msgs \in Seq(Plain), Return(msgs)
  PROVE  /\ SnapshotsCovered'
         /\ Call.op # "RebalanceReply" => RebalanceCovered(vault, work')
         /\ Call.op \notin Replies => OperationCovered(liq, work')
<1>1. msgs \in Seq(Message) /\ \A i \in DOMAIN msgs : msgs[i].op \notin {"Commit", "WithdrawReply"}
  BY DEF Plain
<1>2. /\ 1 < Len(work)
      /\ Tail(work) = SubSeq(work, 2, Len(work)) /\ Tail(work) \in Seq(Message)
  BY MoreToRun DEF RepliesFollowSlots
<1>3. work \in Seq(Message)
  BY DEF Typed
<1>4. work' = msgs \o Tail(work)
  BY DEF Return
<1>5. SnapshotsCovered'
  <2>1. LET w == msgs \o SubSeq(work, 1 + 1, Len(work))
        IN  \A i \in DOMAIN w : SnapshotCovered(i, w)
    BY <1>1, <1>2, <1>3, SnapshotsKept DEF RepliesFollowSlots, SnapshotsCovered
  <2>2. msgs \o SubSeq(work, 1 + 1, Len(work)) = work'
    BY <1>2, <1>4
  <2>3. QED
    BY <2>1, <2>2 DEF SnapshotsCovered
<1>6. ASSUME Call.op # "RebalanceReply"
      PROVE  RebalanceCovered(vault, work')
  BY <1>1, <1>2, <1>3, <1>4, <1>6, WaitsOn, WaitsBehind
     DEF RepliesFollowSlots, RebalanceCovered, Call
<1>7. ASSUME Call.op \notin Replies
      PROVE  OperationCovered(liq, work')
  <2>1. OperationCovered(liq, Tail(work))
    BY <1>3, <1>7, OperationOn DEF RepliesFollowSlots, Call
  <2>2. QED
    BY <1>1, <1>2, <1>4, <2>1, OperationBehind
<1>8. QED
  BY <1>5, <1>6, <1>7

\* A handler that touches no slot.
LEMMA PlainStepSettled ==
  ASSUME Typed, RepliesFollowSlots, work # <<>>,
         Call.op \notin Replies \cup {"Commit", "RebalanceReply"},
         NEW msgs \in Seq(Plain), Return(msgs),
         vault'.pending = vault.pending, liq'.pending = liq.pending
  PROVE  RepliesFollowSlots'
<1>1. SnapshotsCovered' /\ RebalanceCovered(vault, work') /\ OperationCovered(liq, work')
  BY ReturnCovered
<1>2. QED
  BY <1>1 DEF RepliesFollowSlots, RebalanceCovered, OperationCovered

LEMMA EmptyIsPlain == <<>> \in Seq(Plain)
OBVIOUS

LEMMA AbortSettled ==
  ASSUME Typed, RepliesFollowSlots, Abort
  PROVE  RepliesFollowSlots'
<1>1. PICK i \in Checkpoints :
        /\ vault' = work[i].snap.vault /\ liq' = work[i].snap.liq
        /\ work' = IF work[i].op = "Commit" THEN <<>>
                   ELSE <<[op |-> "WithdrawFailed"]>> \o SubSeq(work, i + 1, Len(work))
  BY DEF Abort
<1>2. work \in Seq(Message) /\ i \in DOMAIN work /\ SnapshotCovered(i, work)
      /\ work[i].op \in {"Commit", "WithdrawReply"}
  BY DEF Checkpoints, RepliesFollowSlots, SnapshotsCovered, Typed
<1>3. CASE work[i].op = "Commit"
  <2>1. work' = <<>> /\ vault'.pending = None /\ liq'.pending = None
    BY <1>1, <1>2, <1>3 DEF SnapshotCovered
  <2>2. QED
    BY <2>1 DEF RepliesFollowSlots, SnapshotsCovered, RebalanceCovered, OperationCovered
<1>4. CASE work[i].op = "WithdrawReply"
  <2> DEFINE m == <<[op |-> "WithdrawFailed"]>>
             t == SubSeq(work, i + 1, Len(work))
  <2>1. i \in Nat /\ i < Len(work)
    BY <1>2, <1>4 DEF SnapshotCovered
  <2>2. m \in Seq(Message) /\ t \in Seq(Message) /\ work' = m \o t
    BY <1>1, <1>2, <1>4, <2>1 DEF Message, ReplyMsg
  <2>3. SnapshotsCovered'
    <3>1. \A j \in DOMAIN m : m[j].op \notin {"Commit", "WithdrawReply"}
      OBVIOUS
    <3> HIDE DEF m
    <3>2. LET w == m \o SubSeq(work, i + 1, Len(work))
          IN  \A j \in DOMAIN w : SnapshotCovered(j, w)
      BY <1>2, <2>1, <2>2, <3>1, SnapshotsKept DEF RepliesFollowSlots, SnapshotsCovered
    <3>3. \A j \in DOMAIN work' : SnapshotCovered(j, work')
      BY <2>2, <3>2
    <3>4. QED
      BY <3>3 DEF SnapshotsCovered
  <2>4. RebalanceCovered(vault', work')
    <3>1. ASSUME NEW j \in DOMAIN work, j > i, work[j].op = "RebalanceReply"
          PROVE  Waits("RebalanceReply", t)
      <4>1. j - i \in DOMAIN t /\ t[j - i] = work[j]
        BY <1>2, <2>1, <3>1
      <4>2. QED
        BY <3>1, <4>1 DEF Waits
    <3> HIDE DEF m, t
    <3>2. vault'.pending # None => Waits("RebalanceReply", t)
      BY <1>1, <1>2, <1>4, <3>1 DEF SnapshotCovered
    <3>3. QED
      BY <2>2, <3>2, WaitsBehind DEF RebalanceCovered
  <2>5. OperationCovered(liq', work')
    <3>1. Waits("WithdrawFailed", m)
      BY DEF Waits
    <3> HIDE DEF m, t
    <3>2. Waits("WithdrawFailed", work')
      BY <2>2, <3>1, WaitsAhead
    <3>3. liq'.pending.kind = "WithdrawSingle"
      BY <1>1, <1>2, <1>4 DEF SnapshotCovered
    <3>4. QED
      BY <3>2, <3>3 DEF OperationCovered
  <2>6. QED
    BY <2>3, <2>4, <2>5 DEF RepliesFollowSlots
<1>5. QED
  BY <1>2, <1>3, <1>4

LEMMA SubmitSettled ==
  ASSUME Typed, RepliesFollowSlots, NEW m \in ExecuteMsg, Submit(m)
  PROVE  RepliesFollowSlots'
<1>1. m \in Message /\ m.op \notin {"Commit", "WithdrawReply"}
  BY DEF Message, ExecuteMsg, LiquidityCall, VaultCall, DepositMsg, WithdrawMsg,
         WithdrawSingleMsg, ShareTransferMsg, ShareBurnMsg, MintToMsg, UpdateConfigMsg,
         RebalanceMsg, LiquiditySwapMsg, TransferToMsg, UpdateKeeperMsg, UpdateThresholdsMsg,
         UpdateFeeConfigMsg, MigrateVaultMsg, PlainMsg, MigrateProxyMsg, HandoverMsg,
         TransferMsg
<1>2. vault' = vault /\ liq' = liq
  BY DEF Submit, storage
<1>3. CASE work = <<>>
  <2> DEFINE c == [op |-> "Commit", snap |-> Snapshot, call |-> m]
  <2>1. vault.pending = None /\ liq.pending = None
    BY <1>3 DEF RepliesFollowSlots, RebalanceCovered, OperationCovered, Waits
  <2>2. work' = <<m, c>>
    BY <1>3 DEF Submit, Running
  <2>3. /\ c.op = "Commit" /\ c.snap.vault.pending = None /\ c.snap.liq.pending = None
    BY <2>1 DEF Snapshot
  <2> HIDE DEF c
  <2>4. DOMAIN work' = {1, 2} /\ Len(work') = 2 /\ work'[1] = m /\ work'[2] = c
    BY <2>2
  <2>5. SnapshotCovered(1, work')
    BY <1>1, <2>4 DEF SnapshotCovered
  <2>6. SnapshotCovered(2, work')
    BY <2>3, <2>4 DEF SnapshotCovered
  <2>7. SnapshotsCovered'
    BY <2>4, <2>5, <2>6 DEF SnapshotsCovered
  <2>8. QED
    BY <1>2, <2>1, <2>7 DEF RepliesFollowSlots, RebalanceCovered, OperationCovered
<1>4. CASE Running("PairReceive")
  <2>1. work \in Seq(Message) /\ work' = <<m>> \o work /\ work # <<>>
    BY <1>4 DEF Submit, Running, Typed
  <2>2. <<m>> \in Seq(Message) /\ \A i \in DOMAIN <<m>> : <<m>>[i].op \notin {"Commit", "WithdrawReply"}
    BY <1>1
  <2> DEFINE s == <<m>>
  <2> HIDE DEF s
  <2>3. RebalanceCovered(vault, s \o work) /\ OperationCovered(liq, s \o work)
    BY <2>1, <2>2, WaitsBehind, OperationBehind DEF RepliesFollowSlots, RebalanceCovered, s
  <2>4. SnapshotsCovered'
    <3>1. 0 \in Nat /\ 0 < Len(work) /\ SubSeq(work, 0 + 1, Len(work)) = work
      BY <2>1
    <3>2. LET w == s \o SubSeq(work, 0 + 1, Len(work))
          IN  \A i \in DOMAIN w : SnapshotCovered(i, w)
      BY <2>1, <2>2, <3>1, SnapshotsKept DEF RepliesFollowSlots, SnapshotsCovered, s
    <3>3. s \o SubSeq(work, 0 + 1, Len(work)) = work'
      BY <2>1, <3>1 DEF s
    <3>4. QED
      BY <3>2, <3>3 DEF SnapshotsCovered
  <2>5. QED
    BY <1>2, <2>1, <2>3, <2>4 DEF RepliesFollowSlots, RebalanceCovered, OperationCovered, s
<1>5. QED
  BY <1>3, <1>4 DEF Submit

\* At the end of a transaction nothing waits any more, so the slots are empty.
LEMMA CommitSettled ==
  ASSUME Typed, RepliesFollowSlots, Commit
  PROVE  RepliesFollowSlots'
<1>1. work \in Seq(Message) /\ work # <<>> /\ Head(work).op = "Commit" /\ work' = Tail(work)
      /\ vault' = vault /\ liq' = liq
  BY DEF Commit, Running, Done, Return, Typed, storage
<1>2. 1 \in DOMAIN work /\ work[1].op = "Commit"
  BY <1>1
<1>3. Len(work) = 1
  BY <1>2 DEF RepliesFollowSlots, SnapshotsCovered, SnapshotCovered
<1>4. \A op : Waits(op, work) => op = "Commit"
  BY <1>1, <1>2, <1>3 DEF Waits
<1>5. ~\E i, j \in DOMAIN work : i < j
  BY <1>1, <1>3
<1>6. vault.pending = None /\ liq.pending = None
  BY <1>4, <1>5 DEF RepliesFollowSlots, RebalanceCovered, OperationCovered
<1>7. work' = <<>>
  BY <1>1, <1>3
<1>8. QED
  BY <1>1, <1>6, <1>7 DEF RepliesFollowSlots, RebalanceCovered, OperationCovered, SnapshotsCovered

-----------------------------------------------------------------------------
(* The handlers that touch no slot. *)

LEMMA EnvironmentSettled ==
  ASSUME Typed, RepliesFollowSlots, Environment
  PROVE  RepliesFollowSlots'
<1>1. work' = work /\ vault'.pending = vault.pending /\ liq'.pending = liq.pending
  BY DEF Environment, MarketMove, PairMigrated, LiquidityMigrated, Typed, LiquidityType
<1>2. QED
  BY <1>1 DEF RepliesFollowSlots, RebalanceCovered, OperationCovered, SnapshotsCovered

LEMMA TokenSettled ==
  ASSUME Typed, RepliesFollowSlots, TokenStep
  PROVE  RepliesFollowSlots'
<1>1. CASE TokenTransfer \/ TokenTransferFrom
  <2>1. work # <<>> /\ Call.op \in {"Transfer", "TransferFrom"}
    BY <1>1 DEF TokenTransfer, TokenTransferFrom, Running, Call
  <2>2. CASE Pay(Call) /\ Done
    BY <2>1, <2>2, PlainStepSettled, EmptyIsPlain DEF Pay, Done, Replies
  <2>3. QED
    BY <1>1, <2>2, AbortSettled DEF TokenTransfer, TokenTransferFrom
<1>2. CASE TokenSend
  <2>1. work # <<>> /\ Call \in SendMsg /\ Call.op = "Send"
    BY <1>2, RunningCall, CallOf DEF TokenSend, Running, Call
  <2> DEFINE r == [op |-> IF Call.to = PROXY THEN "ProxyReceive" ELSE "PairReceive",
                   tok |-> Call.tok, amt |-> Call.amt,
                   sender |-> Call.from, hook |-> Call.hook]
  <2>2. CASE Pay(Call) /\ Return(<<r>>)
    <3>1. r \in Message
      BY <2>1 DEF SendMsg, Message, ProxyReceiveMsg, PairReceiveMsg, Account, PROXY, PAIR, VAULT
    <3>2. <<r>> \in Seq(Plain)
      BY <3>1 DEF Plain
    <3> HIDE DEF r
    <3>3. QED
      BY <2>1, <2>2, <3>2, PlainStepSettled DEF Pay, Replies
  <2>3. QED
    BY <1>2, <2>2, AbortSettled DEF TokenSend
<1>3. QED
  BY <1>1, <1>2 DEF TokenStep

LEMMA PairSettled ==
  ASSUME Typed, RepliesFollowSlots, PairSwap
  PROVE  RepliesFollowSlots'
<1>1. work # <<>> /\ Call.op = "PairReceive"
  BY DEF PairSwap, Running, Call
<1>2. CASE UNCHANGED <<vault, liq, proxy, dex>> /\ Done
  BY <1>1, <1>2, PlainStepSettled, EmptyIsPlain DEF Done, Replies
<1>3. QED
  BY <1>2, AbortSettled DEF PairSwap

LEMMA SwapProxySettled ==
  ASSUME Typed, RepliesFollowSlots, SwapProxyStep
  PROVE  RepliesFollowSlots'
<1>1. CASE \/ execute_register_vault \/ execute_remove_vault \/ proxy_admin \/ proxy_migrate
  <2>1. work # <<>> /\ Call.op \in {"RegisterVault", "RemoveVault", "ProxyAdmin", "MigrateProxy"}
    BY <1>1 DEF execute_register_vault, execute_remove_vault, proxy_admin, proxy_migrate,
                Running, Call
  <2>2. CASE vault' = vault /\ liq' = liq /\ Done
    BY <2>1, <2>2, PlainStepSettled, EmptyIsPlain DEF Done, Replies
  <2>3. QED
    BY <1>1, <2>2, AbortSettled
       DEF execute_register_vault, execute_remove_vault, proxy_admin, proxy_migrate
<1>2. CASE execute_receive
  <2>1. work # <<>> /\ Call \in ProxyReceiveMsg /\ Call.op = "ProxyReceive"
    BY <1>2, RunningCall, CallOf DEF execute_receive, Running, Call
  <2> DEFINE r == [op |-> "Send", tok |-> Call.tok, from |-> PROXY,
                   to |-> PAIR, amt |-> Call.amt, hook |-> pair_hook(Call)]
  <2>2. r \in Message
    BY <2>1 DEF ProxyReceiveMsg, ProxyHook, pair_hook, Message, SendMsg, PairHook
  <2>3. <<r>> \in Seq(Plain)
    BY <2>2 DEF Plain
  <2>4. CASE Return(<<r>>) /\ UNCHANGED storage
    <3> HIDE DEF r
    <3>1. QED
      BY <2>1, <2>3, <2>4, PlainStepSettled DEF storage, Replies
  <2>5. QED
    BY <1>2, <2>4, AbortSettled DEF execute_receive
<1>3. QED
  BY <1>1, <1>2 DEF SwapProxyStep

LEMMA HandoverKeepsPending ==
  ASSUME Typed, work # <<>>, Call.op \in {"VaultAdmin", "LiquidityAdmin"}
  PROVE  /\ admin_handover(vault, Call).pending = vault.pending
         /\ admin_handover(liq, Call).pending = liq.pending
<1>1. Call.step \in {"transfer", "accept", "cancel"}
  BY RunningCall, CallOf DEF HandoverMsg
<1>2. QED
  BY <1>1 DEF admin_handover, Typed, VaultType, LiquidityType

LEMMA VaultAdminSettled ==
  ASSUME Typed, RepliesFollowSlots,
         \/ execute_set_liquidity \/ execute_revoke_liquidity \/ execute_pause
         \/ execute_resume \/ execute_update_keeper \/ execute_update_fee_config
         \/ vault_admin \/ vault_migrate \/ execute_update_thresholds
         \/ execute_sync_reference \/ execute_finalize
  PROVE  RepliesFollowSlots'
<1>1. work # <<>> /\ Call.op \in {"SetLiquidity", "RevokeLiquidity", "Pause", "Resume",
          "UpdateKeeper", "UpdateFeeConfig", "VaultAdmin", "MigrateVault", "UpdateThresholds",
          "SyncReference", "Finalize"}
  BY DEF execute_set_liquidity, execute_revoke_liquidity, execute_pause, execute_resume,
         execute_update_keeper, execute_update_fee_config, vault_admin, vault_migrate,
         execute_update_thresholds, execute_sync_reference, execute_finalize, Running, Call
<1>2. vault \in VaultType
  BY DEF Typed
<1> DEFINE kept == vault'.pending = vault.pending /\ liq' = liq /\ Done
<1>3. execute_set_liquidity => Abort \/ kept
  BY <1>2 DEF execute_set_liquidity, VaultUnchanged, VaultType
<1>4. execute_revoke_liquidity => Abort \/ kept
  BY <1>2 DEF execute_revoke_liquidity, VaultUnchanged, VaultType
<1>5. execute_pause => Abort \/ kept
  BY <1>2 DEF execute_pause, VaultUnchanged, VaultType
<1>6. execute_resume => Abort \/ kept
  BY <1>2 DEF execute_resume, VaultUnchanged, VaultType
<1>7. execute_update_keeper => Abort \/ kept
  BY <1>2 DEF execute_update_keeper, VaultUnchanged, VaultType
<1>8. execute_update_fee_config => Abort \/ kept
  BY <1>2 DEF execute_update_fee_config, VaultUnchanged, VaultType
<1>9. vault_admin => Abort \/ kept
  BY HandoverKeepsPending DEF vault_admin, Running, Call, VaultUnchanged
<1>10. vault_migrate => Abort \/ kept
  BY <1>2 DEF vault_migrate, VaultUnchanged, VaultType
<1>11. execute_update_thresholds => Abort \/ kept
  BY <1>2 DEF execute_update_thresholds, VaultUnchanged, VaultType
<1>12. execute_sync_reference => Abort \/ kept
  BY <1>2 DEF execute_sync_reference, VaultUnchanged, VaultType
<1>13. execute_finalize => Abort \/ kept
  BY <1>2 DEF execute_finalize, storage, VaultUnchanged, VaultType
<1>14. CASE kept
  BY <1>1, <1>14, PlainStepSettled, EmptyIsPlain DEF Done, Replies
<1> HIDE DEF kept
<1>15. QED
  BY <1>3, <1>4, <1>5, <1>6, <1>7, <1>8, <1>9, <1>10, <1>11, <1>12, <1>13, <1>14, AbortSettled

LEMMA LedgerSettled ==
  ASSUME Typed, RepliesFollowSlots,
         \/ execute_mint_to \/ execute_cw20_transfer \/ execute_cw20_burn
         \/ execute_update_config \/ liquidity_admin
  PROVE  RepliesFollowSlots'
<1>1. work # <<>> /\ Call.op \in {"MintTo", "Cw20Transfer", "Cw20Burn", "UpdateConfig", "LiquidityAdmin"}
  BY DEF execute_mint_to, execute_cw20_transfer, execute_cw20_burn, execute_update_config,
         liquidity_admin, Running, Call
<1>2. liq \in LiquidityType
  BY DEF Typed
<1> DEFINE kept == liq'.pending = liq.pending /\ vault' = vault /\ Done
<1>3. execute_mint_to => Abort \/ kept
  BY <1>2 DEF execute_mint_to, mint_shares, LiqUnchanged, LiquidityType
<1>4. execute_cw20_transfer => Abort \/ kept
  BY <1>2 DEF execute_cw20_transfer, move_shares, LiqUnchanged, LiquidityType
<1>5. execute_cw20_burn => Abort \/ kept
  BY <1>2 DEF execute_cw20_burn, burn_shares, LiqUnchanged, LiquidityType
<1>6. execute_update_config => Abort \/ kept
  BY <1>2 DEF execute_update_config, LiqUnchanged, LiquidityType
<1>7. liquidity_admin => Abort \/ kept
  BY HandoverKeepsPending DEF liquidity_admin, Running, Call, LiqUnchanged
<1>8. CASE kept
  BY <1>1, <1>8, PlainStepSettled, EmptyIsPlain DEF Done, Replies
<1> HIDE DEF kept
<1>9. QED
  BY <1>3, <1>4, <1>5, <1>6, <1>7, <1>8, AbortSettled

LEMMA SwapMessagePlain ==
  ASSUME Typed, NEW p \in SwapParams
  PROVE  proxy_swap_message(p) \in Plain
BY SwapMessageTyped DEF proxy_swap_message, Plain

LEMMA VaultLiquiditySettled ==
  ASSUME Typed, RepliesFollowSlots, execute_liquidity_swap \/ execute_transfer
  PROVE  RepliesFollowSlots'
<1>1. CASE execute_liquidity_swap
  <2>1. work # <<>> /\ Call \in LiquiditySwapMsg /\ Call.op = "LiquiditySwap"
    BY <1>1, RunningCall, CallOf DEF execute_liquidity_swap, Running, Call
  <2> DEFINE msgs == <<proxy_swap_message(Call.params)>>
  <2>2. msgs \in Seq(Plain)
    BY <2>1, SwapMessagePlain DEF LiquiditySwapMsg
  <2>3. Abort \/ (Return(msgs) /\ UNCHANGED storage)
    BY <1>1 DEF execute_liquidity_swap
  <2> HIDE DEF msgs
  <2>4. QED
    BY <2>1, <2>2, <2>3, AbortSettled, PlainStepSettled DEF storage, Replies
<1>2. CASE execute_transfer
  <2>1. work # <<>> /\ Call \in TransferToMsg /\ Call.op = "TransferTo"
    BY <1>2, RunningCall, CallOf DEF execute_transfer, Running, Call
  <2> DEFINE r == [op |-> "Transfer", tok |-> Call.tok, from |-> VAULT,
                   to |-> Call.to, amt |-> Call.amt]
             msgs == <<r>>
  <2>2. r \in Plain
    BY <2>1 DEF TransferToMsg, TransferMsg, ExecuteMsg, Message, Account, Plain
  <2>3. msgs \in Seq(Plain)
    BY <2>2
  <2>4. Abort \/ (Return(msgs) /\ UNCHANGED storage)
    BY <1>2 DEF execute_transfer
  <2> HIDE DEF msgs
  <2>5. QED
    BY <2>1, <2>3, <2>4, AbortSettled, PlainStepSettled DEF storage, Replies
<1>3. QED
  BY <1>1, <1>2

-----------------------------------------------------------------------------
(* The rebalance: its slot is filled with the reply behind the swap, and the *)
(* reply empties it.                                                         *)

LEMMA RebalanceSettled ==
  ASSUME Typed, RepliesFollowSlots, execute_rebalance
  PROVE  RepliesFollowSlots'
<1>1. work # <<>> /\ Call \in RebalanceMsg /\ Call.op = "Rebalance"
  BY RunningCall, CallOf DEF execute_rebalance, Running, Call
<1>2. PICK quote \in Returns :
        LET plan == rebalance_plan(quote)
        IN  \/ Return(<<proxy_swap_message(
                           [offer_token |-> plan.offer_index,
                            amount |-> plan.amount,
                            min_return |-> plan.min_return,
                            max_spread |-> vault.risk.max_spread,
                            deadline |-> Call.deadline]),
                        [op |-> "RebalanceReply"]>>)
               /\ VaultUnchanged
            \/ Abort
  BY DEF execute_rebalance
<1> DEFINE plan == rebalance_plan(quote)
           swap == [offer_token |-> plan.offer_index, amount |-> plan.amount,
                    min_return |-> plan.min_return, max_spread |-> vault.risk.max_spread,
                    deadline |-> Call.deadline]
           reply == [op |-> "RebalanceReply"]
           msgs == <<proxy_swap_message(swap), reply>>
<1>3. plan.offer_index \in Token /\ plan.amount \in Nat /\ plan.min_return \in Nat
  BY PlanTyped
<1> HIDE DEF plan
<1>4. swap \in SwapParams
  BY <1>1, <1>3 DEF SwapParams, RebalanceMsg, Typed, VaultType, RiskParams
<1> HIDE DEF swap
<1>5. reply \in Plain
  BY DEF Message, ReplyMsg, Plain
<1>6. msgs \in Seq(Plain) /\ msgs \in Seq(Message) /\ Waits("RebalanceReply", msgs)
  <2>1. msgs \in Seq(Plain)
    BY <1>4, <1>5, SwapMessagePlain
  <2>2. 2 \in DOMAIN msgs /\ msgs[2] = reply
    OBVIOUS
  <2>3. QED
    BY <2>1, <2>2, PlainIsMessage DEF Waits
<1>7. CASE Return(msgs) /\ VaultUnchanged
  <2> HIDE DEF msgs
  <2>1. SnapshotsCovered' /\ OperationCovered(liq, work')
    BY <1>1, <1>6, <1>7, ReturnCovered DEF Replies
  <2>2. Waits("RebalanceReply", work')
    BY <1>1, <1>6, <1>7, RunningCall, WaitsAhead DEF Return
  <2>3. QED
    BY <1>7, <2>1, <2>2 DEF RepliesFollowSlots, RebalanceCovered, OperationCovered, VaultUnchanged
<1>8. QED
  BY <1>2, <1>7, AbortSettled DEF plan, swap

LEMMA CompleteRebalanceSettled ==
  ASSUME Typed, RepliesFollowSlots, complete_rebalance
  PROVE  RepliesFollowSlots'
<1>1. work # <<>> /\ Call.op = "RebalanceReply"
  BY DEF complete_rebalance, Running, Call
<1>2. CASE Abort
  BY <1>2, AbortSettled
<1>3. CASE ~Abort
  <2> DEFINE pending == vault.pending
             current == allocation_deviation(balances, pending.captured_twap)
             fee(answer) == charge_fee(answer, proceeds_value(pending, balances),
                                       nav(balances, pending.captured_twap))
             mint(n) == IF n = 0 THEN <<>>
                        ELSE <<[op |-> "MintTo", sender |-> VAULT,
                                to |-> vault.fee_collector, amt |-> n]>>
  <2>1. PICK answer \in FeeAnswers \cup {QueryFailed} :
          /\ vault' = [vault EXCEPT
               !.pending = None,
               !.reference_price = reference_after(pending, current),
               !.fee_cache = fee(answer).cache]
          /\ Return(mint(fee(answer).shares))
          /\ VaultUnchanged
    BY <1>3 DEF complete_rebalance
  <2>2. pending # None /\ validate_settlement(pending, balances)
    BY <1>3 DEF complete_rebalance
  <2>3. mint(fee(answer).shares) \in Seq(Plain)
    BY <2>2, SettledFeeTyped
  <2>4. vault'.pending = None
    BY <2>1 DEF Typed, VaultType
  <2> HIDE DEF mint, fee, current
  <2>5. SnapshotsCovered' /\ OperationCovered(liq, work')
    BY <1>1, <2>1, <2>3, ReturnCovered DEF Replies
  <2>6. QED
    BY <2>1, <2>4, <2>5 DEF RepliesFollowSlots, RebalanceCovered, OperationCovered, VaultUnchanged
<1>4. QED
  BY <1>2, <1>3

-----------------------------------------------------------------------------
(* bot-liquidity's slot. *)

\* A handler that puts the reply for its own slot in front of the stack.
LEMMA SlotFilled ==
  ASSUME Typed, RepliesFollowSlots, work # <<>>, Call.op \notin {"Commit", "RebalanceReply"},
         NEW msgs \in Seq(Plain), Return(msgs), LiqUnchanged,
         OperationCovered(liq', msgs \o Tail(work))
  PROVE  RepliesFollowSlots'
<1>1. SnapshotsCovered' /\ RebalanceCovered(vault, work')
  BY ReturnCovered
<1>2. QED
  BY <1>1 DEF RepliesFollowSlots, RebalanceCovered, OperationCovered, LiqUnchanged, Return

\* A handler that empties the slot needs no reply any more.
LEMMA SlotEmptied ==
  ASSUME Typed, RepliesFollowSlots, work # <<>>, Call.op \notin {"Commit", "RebalanceReply"},
         Done, LiqUnchanged, liq'.pending = None
  PROVE  RepliesFollowSlots'
<1>1. OperationCovered(liq', <<>> \o Tail(work))
  BY DEF OperationCovered
<1>2. QED
  BY <1>1, SlotFilled, EmptyIsPlain DEF Done

LEMMA DepositSettled ==
  ASSUME Typed, RepliesFollowSlots, execute_deposit
  PROVE  RepliesFollowSlots'
<1>1. work # <<>> /\ Call \in DepositMsg /\ Call.op = "Deposit"
  BY RunningCall, CallOf DEF execute_deposit, Running, Call
<1> DEFINE msgs == deposit_messages(Call)
<1>2. msgs \in Seq(Plain) /\ Waits("DepositReply", msgs)
  BY <1>1, DepositMessagesPlain DEF Waits
<1>3. CASE deposit_allowed(Call) /\ Return(msgs) /\ LiqUnchanged
           /\ liq'.pending.kind = "Deposit"
  <2> HIDE DEF msgs
  <2>1. Waits("DepositReply", msgs \o Tail(work))
    BY <1>1, <1>2, RunningCall, PlainIsMessage, WaitsAhead
  <2>2. QED
    BY <1>1, <1>2, <1>3, <2>1, SlotFilled DEF OperationCovered
<1>4. liq \in LiquidityType
  BY DEF Typed
<1>5. QED
  BY <1>3, <1>4, AbortSettled DEF execute_deposit, LiquidityType

LEMMA CompleteDepositSettled ==
  ASSUME Typed, RepliesFollowSlots, complete_deposit
  PROVE  RepliesFollowSlots'
<1>1. work # <<>> /\ Call.op = "DepositReply"
  BY DEF complete_deposit, Running, Call
<1>2. liq \in LiquidityType
  BY DEF Typed
<1>3. Abort \/ (liq'.pending = None /\ Done /\ LiqUnchanged)
  BY <1>2 DEF complete_deposit, mint_shares, LiquidityType
<1>4. QED
  BY <1>1, <1>3, SlotEmptied, AbortSettled

LEMMA LegWaits ==
  ASSUME NEW t \in AuthorizedTransfer
  PROVE  /\ DOMAIN Leg(t) = {1, 2} /\ Len(Leg(t)) = 2
         /\ Leg(t)[2].op = "TransferReply"
BY DEF Leg

LEMMA LegOf ==
  ASSUME NEW s \in Seq(AuthorizedTransfer), Len(s) \in 1..2
  PROVE  /\ s[1] \in AuthorizedTransfer /\ Leg(s[1]) \in Seq(Plain)
         /\ Len(s) = 2 => s[2] \in AuthorizedTransfer /\ Leg(s[2]) \in Seq(Plain)
<1>1. s[1] \in AuthorizedTransfer /\ (Len(s) = 2 => s[2] \in AuthorizedTransfer)
  OBVIOUS
<1>2. QED
  BY <1>1, LegPlain

LEMMA TwoLegs ==
  ASSUME NEW a \in Seq(Message), NEW b \in Seq(Message), NEW c \in Seq(Message),
         Len(a) = 2, Len(b) = 2
  PROVE  LET s == (a \o b) \o c
         IN  2 \in DOMAIN s /\ s[2] = a[2] /\ 4 \in DOMAIN s /\ s[4] = b[2]
<1> DEFINE m == a \o b
<1>1. 2 \in DOMAIN a /\ 2 \in DOMAIN b
  OBVIOUS
<1>2. m \in Seq(Message)
  OBVIOUS
<1>3. m[2] = a[2] /\ m[4] = b[2] /\ 2 \in DOMAIN m /\ 4 \in DOMAIN m
  <2>1. DOMAIN m = 1..4
    <3>1. DOMAIN m = 1..(Len(a) + Len(b))
      BY ConcatIndex
    <3>2. Len(a) + Len(b) = 4
      OBVIOUS
    <3> HIDE DEF m
    <3>3. QED
      BY <3>1, <3>2
  <2>2. m[2] = a[2]
    BY <1>1, ConcatIndex
  <2>3. m[2 + 2] = b[2]
    BY <1>1, ConcatIndex
  <2>4. QED
    BY <2>1, <2>2, <2>3
<1> HIDE DEF m
<1>4. \A i \in DOMAIN m : i \in DOMAIN (m \o c) /\ (m \o c)[i] = m[i]
  BY <1>2
<1>5. QED
  BY <1>3, <1>4 DEF m

LEMMA ProRataSettled ==
  ASSUME Typed, RepliesFollowSlots, execute_withdraw_pro_rata
  PROVE  RepliesFollowSlots'
<1>1. work # <<>> /\ Call \in WithdrawMsg \cup WithdrawSingleMsg /\ Call.op = "Withdraw"
  BY RunningCall, CallOf DEF execute_withdraw_pro_rata, Running, Call
<1> DEFINE transfers == pro_rata_transfers(Call)
           msgs == IF Len(transfers) = 1 THEN Leg(transfers[1])
                   ELSE Leg(transfers[1]) \o Leg(transfers[2])
           t == Tail(work)
<1>2. CASE /\ withdraw_allowed(Call) /\ transfers # <<>>
           /\ liq'.pending.kind = "AuthorizedTransfers"
           /\ liq'.pending.replies_remaining = Len(transfers)
           /\ Return(msgs) /\ LiqUnchanged
  <2>1. /\ transfers \in Seq(AuthorizedTransfer) /\ Len(transfers) \in 1..2
        /\ \A i \in 1..Len(transfers) : Leg(transfers[i]) \in Seq(Plain)
    BY <1>1, <1>2, TransfersTyped
  <2>2. t \in Seq(Message)
    BY <1>1, RunningCall
  <2> HIDE DEF transfers, t
  <2>3. CASE Len(transfers) = 1
    <3> DEFINE m == Leg(transfers[1])
    <3>1. transfers[1] \in AuthorizedTransfer /\ m \in Seq(Plain) /\ msgs = m
      <4>1. transfers[1] \in AuthorizedTransfer /\ Leg(transfers[1]) \in Seq(Plain)
        BY <2>1, <2>3, LegOf
      <4>2. QED
        BY <2>3, <4>1
    <3>2. Waits("TransferReply", m)
      BY <3>1, LegWaits DEF Waits
    <3> HIDE DEF m
    <3>3. Waits("TransferReply", m \o t)
      BY <2>2, <3>1, <3>2, PlainIsMessage, WaitsAhead
    <3>4. OperationCovered(liq', m \o t)
      BY <1>2, <2>3, <3>3 DEF OperationCovered
    <3>5. QED
      BY <1>1, <1>2, <3>1, <3>4, SlotFilled DEF t
  <2>4. CASE Len(transfers) = 2
    <3> DEFINE m1 == Leg(transfers[1])
               m2 == Leg(transfers[2])
               m == m1 \o m2
    <3>1. /\ transfers[1] \in AuthorizedTransfer /\ m1 \in Seq(Plain)
          /\ transfers[2] \in AuthorizedTransfer /\ m2 \in Seq(Plain)
          /\ msgs = m
      <4>1. transfers[1] \in AuthorizedTransfer /\ Leg(transfers[1]) \in Seq(Plain)
        BY <2>1, <2>4, LegOf
      <4>2. transfers[2] \in AuthorizedTransfer /\ Leg(transfers[2]) \in Seq(Plain)
        BY <2>1, <2>4, LegOf
      <4>3. QED
        BY <2>4, <4>1, <4>2
    <3>2. /\ Len(m1) = 2 /\ m1[2].op = "TransferReply"
          /\ Len(m2) = 2 /\ m2[2].op = "TransferReply"
      BY <3>1, LegWaits
    <3> HIDE DEF m1, m2
    <3>3. m \in Seq(Plain) /\ m \in Seq(Message)
      BY <3>1, PlainIsMessage
    <3>4. /\ 2 \in DOMAIN (m \o t) /\ (m \o t)[2] = m1[2]
          /\ 4 \in DOMAIN (m \o t) /\ (m \o t)[4] = m2[2]
      BY <2>2, <3>1, <3>2, PlainIsMessage, TwoLegs, ZenonT(60)
    <3> HIDE DEF m
    <3>5. OperationCovered(liq', m \o t)
      BY <1>2, <2>4, <3>2, <3>4 DEF OperationCovered
    <3>6. QED
      BY <1>1, <1>2, <3>1, <3>3, <3>5, SlotFilled DEF t
  <2>5. QED
    BY <2>1, <2>3, <2>4
<1>3. CASE Abort
  BY <1>3, AbortSettled
<1>4. CASE ~Abort
  <2> DEFINE burned == burn_shares(liq, Call.sender, Call.shares)
             pend == [kind |-> "AuthorizedTransfers", transfers |-> transfers,
                      replies_remaining |-> Len(transfers)]
  <2>1. /\ withdraw_allowed(Call) /\ transfers # <<>>
        /\ liq' = [burned EXCEPT !.pending = pend]
        /\ Return(msgs) /\ LiqUnchanged
    BY <1>4 DEF execute_withdraw_pro_rata, Leg
  <2>2. [burned EXCEPT !.pending = pend].pending = pend
    BY DEF burn_shares, Typed, LiquidityType
  <2> HIDE DEF burned, msgs, transfers
  <2>3. QED
    BY <1>2, <2>1, <2>2
<1>5. QED
  BY <1>3, <1>4

LEMMA FailSettled ==
  ASSUME Typed, RepliesFollowSlots, fail_single_withdraw
  PROVE  RepliesFollowSlots'
<1>1. work # <<>> /\ Call.op = "WithdrawFailed" /\ Done /\ LiqUnchanged /\ liq'.pending = None
  BY DEF fail_single_withdraw, Running, Call, Typed, LiquidityType
<1>2. QED
  BY <1>1, SlotEmptied

LEMMA CompleteWithdrawSettled ==
  ASSUME Typed, RepliesFollowSlots, complete_single_withdraw
  PROVE  RepliesFollowSlots'
<1>1. work # <<>> /\ Call.op = "WithdrawReply"
  BY DEF complete_single_withdraw, Running, Call
<1> DEFINE p == liq.pending
           t == [token |-> p.payout_token, amount |-> payout_of(p), recipient |-> p.recipient]
           pend == [kind |-> "AuthorizedTransfers", transfers |-> <<t>>, replies_remaining |-> 1]
           burned == burn_shares(liq, p.owner, p.shares)
<1>2. CASE Abort
  BY <1>2, AbortSettled
<1>3. CASE ~Abort
  <2>1. /\ p # None /\ p.kind = "WithdrawSingle" /\ balances[p.payout_token] >= p.pre_payout_balance
        /\ liq' = [burned EXCEPT !.pending = pend]
        /\ Return(Leg(t)) /\ LiqUnchanged
    BY <1>3 DEF complete_single_withdraw, Leg
  <2>2. t \in AuthorizedTransfer
    <3>1. p \in PendingWithdrawSingle
      BY <2>1, PendingOfKind
    <3>2. /\ balances[p.payout_token] \in Nat /\ p.pre_payout_balance \in Nat
          /\ p.base_amount \in Nat
      BY <3>1, BalancesTyped DEF PendingWithdrawSingle, Amounts
    <3>3. payout_of(p) \in Nat
      BY <2>1, <3>2 DEF payout_of
    <3>4. QED
      BY <3>1, <3>3 DEF AuthorizedTransfer, PendingWithdrawSingle
  <2>3. liq'.pending = pend
    BY <2>1 DEF burn_shares, Typed, LiquidityType
  <2> DEFINE m == Leg(t)
  <2> HIDE DEF t, burned
  <2>4. m \in Seq(Plain) /\ Waits("TransferReply", m)
    BY <2>2, LegPlain, LegWaits DEF Waits
  <2> HIDE DEF m
  <2>5. Waits("TransferReply", m \o Tail(work))
    BY <1>1, <2>4, RunningCall, PlainIsMessage, WaitsAhead
  <2>6. OperationCovered(liq', m \o Tail(work))
    BY <2>3, <2>5 DEF OperationCovered
  <2>7. QED
    BY <1>1, <2>1, <2>4, <2>6, SlotFilled DEF m
<1>4. QED
  BY <1>2, <1>3

LEMMA TransferReplySettled ==
  ASSUME Typed, RepliesFollowSlots, complete_authorized_transfer
  PROVE  RepliesFollowSlots'
<1>1. work # <<>> /\ Call.op = "TransferReply"
  BY DEF complete_authorized_transfer, Running, Call
<1> DEFINE p == liq.pending
<1>2. CASE Abort
  BY <1>2, AbortSettled
<1>3. CASE ~Abort
  <2>1. /\ p # None /\ p.kind = "AuthorizedTransfers" /\ Done /\ LiqUnchanged
        /\ liq' = [liq EXCEPT !.pending = IF p.replies_remaining = 1 THEN None
                                          ELSE [p EXCEPT !.replies_remaining = @ - 1]]
    BY <1>3 DEF complete_authorized_transfer
  <2>2. p \in PendingTransfers
    BY <2>1, PendingOfKind
  <2>3. PICK r \in {1, 2} : r = p.replies_remaining
    BY <2>2 DEF PendingTransfers
  <2>4. CASE r = 1
    <3>1. liq'.pending = None
      BY <2>1, <2>3, <2>4 DEF Typed, LiquidityType
    <3>2. QED
      BY <1>1, <2>1, <3>1, SlotEmptied
  <2>5. CASE r = 2
    <3>1. liq'.pending = [p EXCEPT !.replies_remaining = 1]
      BY <2>1, <2>3, <2>5 DEF Typed, LiquidityType
    <3>2. liq'.pending.kind = "AuthorizedTransfers" /\ liq'.pending.replies_remaining = 1
      BY <2>1, <2>2, <3>1 DEF PendingTransfers
    <3>3. work \in Seq(Message)
      BY DEF Typed
    <3>4. PICK i \in DOMAIN work, j \in DOMAIN work :
            i < j /\ work[j].op = "TransferReply"
      BY <2>1, <2>3, <2>5 DEF RepliesFollowSlots, OperationCovered
    <3>5. j - 1 \in DOMAIN Tail(work) /\ Tail(work)[j - 1] = work[j]
      BY <1>1, <3>3, <3>4
    <3>6. Waits("TransferReply", Tail(work))
      BY <3>4, <3>5 DEF Waits
    <3>7. <<>> \o Tail(work) = Tail(work)
      BY <1>1, RunningCall
    <3>8. OperationCovered(liq', <<>> \o Tail(work))
      BY <3>2, <3>6, <3>7 DEF OperationCovered
    <3>9. QED
      BY <1>1, <2>1, <3>8, SlotFilled, EmptyIsPlain DEF Done
  <2>6. QED
    BY <2>3, <2>4, <2>5
<1>4. QED
  BY <1>2, <1>3

\* The escrow: the reply it leaves is also the place to go back to, with the
\* slot still filled, when the swap fails.
LEMMA SingleWithdrawSettled ==
  ASSUME Typed, RepliesFollowSlots, execute_single_withdraw
  PROVE  RepliesFollowSlots'
<1>1. work # <<>> /\ Call \in WithdrawSingleMsg /\ Call.op = "Withdraw"
  BY RunningCall, CallOf DEF execute_single_withdraw, Running, Call, WithdrawMsg
<1> DEFINE pend == [kind |-> "WithdrawSingle", owner |-> Call.sender,
                    shares |-> Call.shares, recipient |-> Call.to,
                    payout_token |-> Call.payout,
                    base_amount |-> claims(Call)[Call.payout],
                    pre_payout_balance |-> balances[Call.payout],
                    min_amount |-> Call.min_assets[Call.payout],
                    swap |-> Call.swap]
           escrowed == [liq EXCEPT !.pending = pend]
           swap == [op |-> "LiquiditySwap", sender |-> LIQ, params |-> Call.swap]
           reply == [op |-> "WithdrawReply", snap |-> [Snapshot EXCEPT !.liq = escrowed]]
           t == Tail(work)
<1>2. CASE Abort
  BY <1>2, AbortSettled
<1>3. CASE ~Abort
  <2>1. single_withdraw_allowed(Call) /\ liq' = escrowed /\ Return(<<swap, reply>>) /\ LiqUnchanged
    BY <1>3 DEF execute_single_withdraw
  <2>2. pend.kind = "WithdrawSingle" /\ escrowed.pending = pend
    BY DEF Typed, LiquidityType
  <2>3. Typed'
    BY SingleWithdrawTyped
  <2>4. reply.op = "WithdrawReply" /\ reply.snap.liq = escrowed /\ reply.snap.vault = vault
        /\ swap.op = "LiquiditySwap"
    BY DEF Snapshot
  <2> HIDE DEF pend, escrowed, swap, reply
  <2>5. /\ 1 < Len(work) /\ t = SubSeq(work, 2, Len(work)) /\ t \in Seq(Message)
        /\ work \in Seq(Message)
    BY <1>1, MoreToRun DEF RepliesFollowSlots, Typed
  <2>6. work' = <<swap, reply>> \o t /\ work' \in Seq(Message)
    BY <2>1, <2>3 DEF Return, Typed
  <2> HIDE DEF t
  <2>7. /\ Len(work') = Len(t) + 2 /\ work'[1] = swap /\ work'[2] = reply
        /\ \A i \in DOMAIN t : i + 2 \in DOMAIN work' /\ work'[i + 2] = t[i]
        /\ \A i \in DOMAIN work' : i \in {1, 2} \/ \E j \in DOMAIN t : i = j + 2
    <3>1. /\ Len(work') = Len(t) + 2 /\ work'[1] = swap /\ work'[2] = reply
          /\ \A i \in DOMAIN t : i + 2 \in DOMAIN work' /\ work'[i + 2] = t[i]
      BY <2>5, <2>6
    <3>2. ASSUME NEW i \in DOMAIN work', i \notin {1, 2}
          PROVE  \E j \in DOMAIN t : i = j + 2
      <4>1. i - 2 \in DOMAIN t /\ i = (i - 2) + 2
        BY <2>5, <2>6, <3>1, <3>2
      <4>2. QED
        BY <4>1
    <3>3. QED
      BY <3>1, <3>2
  <2>8. RebalanceCovered(vault, t) /\ \A i \in DOMAIN t : SnapshotCovered(i, t)
    <3>1. RebalanceCovered(vault, t)
      BY <1>1, <2>5, WaitsOn DEF RepliesFollowSlots, RebalanceCovered, Call, t
    <3>2. ASSUME NEW i \in DOMAIN t PROVE SnapshotCovered(i, t)
      <4>1. 1 + i \in DOMAIN work /\ SnapshotCovered(1 + i, work)
        BY <2>5 DEF RepliesFollowSlots, SnapshotsCovered
      <4>2. QED
        BY <2>5, <4>1, CoveredSuffix
    <3>3. QED
      BY <3>1, <3>2
  <2>9. ASSUME NEW i \in DOMAIN t, SnapshotCovered(i, t)
        PROVE  SnapshotCovered(i + 2, work')
    <3>1. i + 2 = Len(work') <=> i = Len(t)
      BY <2>5, <2>7
    <3>2. ASSUME NEW j \in DOMAIN t, j > i, t[j].op = "RebalanceReply"
          PROVE  \E g \in DOMAIN work' : g > i + 2 /\ work'[g].op = "RebalanceReply"
      <4>1. j + 2 \in DOMAIN work' /\ work'[j + 2] = t[j] /\ j + 2 > i + 2
        BY <2>5, <2>7, <3>2
      <4>2. QED
        BY <3>2, <4>1
    <3>3. work'[i + 2] = t[i]
      BY <2>7
    <3>4. QED
      BY <2>9, <3>1, <3>2, <3>3 DEF SnapshotCovered
  <2>10. Len(t) > 0
    BY <2>5 DEF t
  <2>11. SnapshotCovered(1, work')
    BY <2>4, <2>5, <2>7, <2>10 DEF SnapshotCovered
  <2>12. SnapshotCovered(2, work')
    <3>1. 2 # Len(work')
      BY <2>5, <2>7, <2>10
    <3>2. vault.pending # None => \E j \in DOMAIN work' : j > 2 /\ work'[j].op = "RebalanceReply"
      <4>1. ASSUME NEW j \in DOMAIN t, t[j].op = "RebalanceReply"
            PROVE  \E g \in DOMAIN work' : g > 2 /\ work'[g].op = "RebalanceReply"
        <5>1. j + 2 \in DOMAIN work' /\ work'[j + 2] = t[j] /\ j + 2 > 2
          BY <2>5, <2>7
        <5>2. QED
          BY <4>1, <5>1
      <4>2. QED
        BY <2>8, <4>1 DEF RebalanceCovered, Waits
    <3>3. QED
      BY <2>2, <2>4, <2>7, <3>1, <3>2 DEF SnapshotCovered
  <2>13. SnapshotsCovered'
    BY <2>7, <2>8, <2>9, <2>11, <2>12 DEF SnapshotsCovered
  <2>14. RebalanceCovered(vault, work')
    <3>1. ASSUME NEW op, Waits(op, t) PROVE Waits(op, work')
      BY <2>7, <3>1 DEF Waits
    <3>2. QED
      BY <2>8, <3>1 DEF RebalanceCovered
  <2>15. OperationCovered(liq', work')
    <3>1. Waits("WithdrawReply", work')
      <4>1. 2 \in DOMAIN work'
        BY <2>5, <2>6, <2>7
      <4>2. QED
        BY <2>4, <2>7, <4>1 DEF Waits
    <3>2. QED
      BY <2>1, <2>2, <3>1 DEF OperationCovered
  <2>16. QED
    BY <2>1, <2>13, <2>14, <2>15 DEF RepliesFollowSlots, RebalanceCovered, LiqUnchanged
<1>4. QED
  BY <1>2, <1>3

-----------------------------------------------------------------------------
(* The theorems. *)

LEMMA TxStepSettled ==
  ASSUME Typed, RepliesFollowSlots, TxStep
  PROVE  RepliesFollowSlots'
<1>1. CASE Commit \/ TokenStep \/ PairSwap \/ SwapProxyStep
  BY <1>1, CommitSettled, TokenSettled, PairSettled, SwapProxySettled
<1>2. CASE BotVaultStep
  BY <1>2, VaultLiquiditySettled, RebalanceSettled, CompleteRebalanceSettled, VaultAdminSettled
     DEF BotVaultStep
<1>3. CASE BotLiquidityStep
  BY <1>3, DepositSettled, CompleteDepositSettled, ProRataSettled, SingleWithdrawSettled,
     CompleteWithdrawSettled, FailSettled, TransferReplySettled, LedgerSettled
     DEF BotLiquidityStep
<1>4. QED
  BY <1>1, <1>2, <1>3 DEF TxStep

LEMMA InitSettled == Init => RepliesFollowSlots
BY DEF Init, vault_instantiate, liquidity_instantiate, RepliesFollowSlots,
       RebalanceCovered, OperationCovered, SnapshotsCovered

LEMMA SettledStep == Typed /\ RepliesFollowSlots /\ [Next]_vars => RepliesFollowSlots'
<1> SUFFICES ASSUME Typed, RepliesFollowSlots, [Next]_vars PROVE RepliesFollowSlots'
  OBVIOUS
<1>1. CASE SubmitCall
  BY <1>1, CallsAssumption, SubmitSettled DEF SubmitCall
<1>2. CASE TxStep
  BY <1>2, TxStepSettled
<1>3. CASE Environment
  BY <1>3, EnvironmentSettled
<1>4. CASE UNCHANGED vars
  BY <1>4 DEF vars, storage, RepliesFollowSlots, RebalanceCovered, OperationCovered, SnapshotsCovered
<1>5. QED
  BY <1>1, <1>2, <1>3, <1>4 DEF Next

\* Whoever fills a pending slot leaves the replies that empty it on the stack,
\* and so does every state a failing swap goes back to: for any number of
\* users and calls, and whatever the pair calls back while it runs.
THEOREM RepliesAlwaysFollow == Spec => []RepliesFollowSlots
<1>1. Spec => [](Typed /\ RepliesFollowSlots)
  BY InitTyped, TypedStep, InitSettled, SettledStep, PTL DEF Spec
<1>2. QED
  BY <1>1, PTL

\* PENDING_REBALANCE and PENDING are empty between transactions: no sequence of
\* calls, failures and callbacks leaves the vault or the share contract blocked.
THEOREM AlwaysSettled == Spec => []SettledBetweenTransactions
<1>1. RepliesFollowSlots => SettledBetweenTransactions
  BY DEF RepliesFollowSlots, SettledBetweenTransactions, RebalanceCovered, OperationCovered,
         Waits, Idle
<1>2. QED
  BY <1>1, RepliesAlwaysFollow, PTL

-----------------------------------------------------------------------------
(* Which handler runs, and what it leaves alone. *)

\* The running message chooses the handler.
LEMMA HandlerOf ==
  ASSUME TxStep
  PROVE  /\ work # <<>>
         /\ Call.op = "Commit"          => Commit
         /\ Call.op = "Transfer"        => TokenTransfer
         /\ Call.op = "TransferFrom"    => TokenTransferFrom
         /\ Call.op = "Send"            => TokenSend
         /\ Call.op = "PairReceive"     => PairSwap
         /\ Call.op = "ProxyReceive"    => execute_receive
         /\ Call.op = "LiquiditySwap"   => execute_liquidity_swap
         /\ Call.op = "TransferTo"      => execute_transfer
         /\ Call.op = "Finalize"        => execute_finalize
         /\ Call.op = "Rebalance"       => execute_rebalance
         /\ Call.op = "RebalanceReply"  => complete_rebalance
         /\ Call.op = "Deposit"         => execute_deposit
         /\ Call.op = "DepositReply"    => complete_deposit
         /\ Call.op = "Withdraw"        => execute_withdraw_pro_rata \/ execute_single_withdraw
         /\ Call.op = "WithdrawReply"   => complete_single_withdraw
         /\ Call.op = "WithdrawFailed"  => fail_single_withdraw
         /\ Call.op = "TransferReply"   => complete_authorized_transfer
         /\ Call.op = "MintTo"          => execute_mint_to
         /\ Call.op = "Cw20Transfer"    => execute_cw20_transfer
         /\ Call.op = "Cw20Burn"        => execute_cw20_burn
         /\ Call.op = "UpdateConfig"    => execute_update_config
         /\ Call.op = "LiquidityAdmin"  => liquidity_admin
         /\ Call.op = "SyncReference"   => execute_sync_reference
         /\ Call.op = "SetLiquidity"    => execute_set_liquidity
         /\ Call.op = "RevokeLiquidity" => execute_revoke_liquidity
         /\ Call.op = "Pause"           => execute_pause
         /\ Call.op = "Resume"          => execute_resume
         /\ Call.op = "UpdateKeeper"    => execute_update_keeper
         /\ Call.op = "UpdateThresholds" => execute_update_thresholds
         /\ Call.op = "UpdateFeeConfig" => execute_update_fee_config
         /\ Call.op = "VaultAdmin"      => vault_admin
         /\ Call.op = "MigrateVault"    => vault_migrate
         /\ Call.op = "RegisterVault"   => execute_register_vault
         /\ Call.op = "RemoveVault"     => execute_remove_vault
         /\ Call.op = "ProxyAdmin"      => proxy_admin
         /\ Call.op = "MigrateProxy"    => proxy_migrate
<1>1. /\ Commit => Running("Commit")
      /\ TokenTransfer => Running("Transfer")
      /\ TokenTransferFrom => Running("TransferFrom")
      /\ TokenSend => Running("Send")
      /\ PairSwap => Running("PairReceive")
  BY DEF Commit, TokenTransfer, TokenTransferFrom, TokenSend, PairSwap
<1>2. /\ execute_receive => Running("ProxyReceive")
      /\ execute_register_vault => Running("RegisterVault")
      /\ execute_remove_vault => Running("RemoveVault")
      /\ proxy_admin => Running("ProxyAdmin")
      /\ proxy_migrate => Running("MigrateProxy")
  BY DEF execute_receive, execute_register_vault, execute_remove_vault, proxy_admin, proxy_migrate
<1>3. /\ execute_liquidity_swap => Running("LiquiditySwap")
      /\ execute_transfer => Running("TransferTo")
      /\ execute_finalize => Running("Finalize")
      /\ execute_rebalance => Running("Rebalance")
      /\ complete_rebalance => Running("RebalanceReply")
      /\ execute_sync_reference => Running("SyncReference")
      /\ execute_set_liquidity => Running("SetLiquidity")
  BY DEF execute_liquidity_swap, execute_transfer, execute_finalize, execute_rebalance,
         complete_rebalance, execute_sync_reference, execute_set_liquidity
<1>4. /\ execute_revoke_liquidity => Running("RevokeLiquidity")
      /\ execute_pause => Running("Pause")
      /\ execute_resume => Running("Resume")
      /\ execute_update_keeper => Running("UpdateKeeper")
      /\ execute_update_thresholds => Running("UpdateThresholds")
      /\ execute_update_fee_config => Running("UpdateFeeConfig")
      /\ vault_admin => Running("VaultAdmin")
      /\ vault_migrate => Running("MigrateVault")
  BY DEF execute_revoke_liquidity, execute_pause, execute_resume, execute_update_keeper,
         execute_update_thresholds, execute_update_fee_config, vault_admin, vault_migrate
<1>5. /\ execute_deposit => Running("Deposit")
      /\ complete_deposit => Running("DepositReply")
      /\ execute_withdraw_pro_rata => Running("Withdraw")
      /\ execute_single_withdraw => Running("Withdraw")
      /\ complete_single_withdraw => Running("WithdrawReply")
      /\ fail_single_withdraw => Running("WithdrawFailed")
      /\ complete_authorized_transfer => Running("TransferReply")
  BY DEF execute_deposit, complete_deposit, execute_withdraw_pro_rata, execute_single_withdraw,
         complete_single_withdraw, fail_single_withdraw, complete_authorized_transfer
<1>6. /\ execute_mint_to => Running("MintTo")
      /\ execute_cw20_transfer => Running("Cw20Transfer")
      /\ execute_cw20_burn => Running("Cw20Burn")
      /\ execute_update_config => Running("UpdateConfig")
      /\ liquidity_admin => Running("LiquidityAdmin")
  BY DEF execute_mint_to, execute_cw20_transfer, execute_cw20_burn, execute_update_config,
         liquidity_admin
<1>7. CASE Commit \/ TokenStep \/ PairSwap \/ SwapProxyStep
  BY <1>7, <1>1, <1>2 DEF TokenStep, SwapProxyStep, Running, Call
<1>8. CASE BotVaultStep
  BY <1>8, <1>3, <1>4 DEF BotVaultStep, Running, Call
<1>9. CASE BotLiquidityStep
  BY <1>9, <1>5, <1>6 DEF BotLiquidityStep, Running, Call
<1>10. QED
  BY <1>7, <1>8, <1>9 DEF TxStep

\* Handlers that return messages; handlers of the operations' slot; handlers
\* that change the share ledger; handlers that move assets.
Returning == {"Send", "ProxyReceive", "LiquiditySwap", "TransferTo", "Rebalance",
              "RebalanceReply", "Deposit", "Withdraw", "WithdrawReply"}
SlotOps   == {"Deposit", "DepositReply", "Withdraw", "WithdrawReply", "WithdrawFailed",
              "TransferReply"}
LedgerOps == {"DepositReply", "Withdraw", "WithdrawReply", "MintTo", "Cw20Transfer", "Cw20Burn"}
MoveOps   == {"Transfer", "TransferFrom", "Send", "PairReceive"}
VaultOps  == {"Rebalance", "RebalanceReply", "SyncReference", "SetLiquidity", "RevokeLiquidity",
              "Pause", "Resume", "UpdateKeeper", "UpdateThresholds", "UpdateFeeConfig",
              "VaultAdmin", "MigrateVault"}
LiqOps    == SlotOps \cup LedgerOps \cup {"UpdateConfig", "LiquidityAdmin"}

\* A vault without liquidity contract is paused.
UnboundPaused(v) == v.liquidity_contract = None => v.paused

Framed ==
    /\ Call.op \notin Returning => Done
    /\ Call.op \notin MoveOps => bank' = bank
    /\ Call.op # "UpdateThresholds" => dex' = dex
    /\ Call.op \notin VaultOps => vault' = vault
    /\ Call.op \notin {"Rebalance", "RebalanceReply"} => vault'.pending = vault.pending
    /\ Call.op # "Resume" /\ vault.paused => vault'.paused
    /\ UnboundPaused(vault) => UnboundPaused(vault')
    /\ Call.op \notin LiqOps => liq' = liq
    /\ Call.op \notin SlotOps => liq'.pending = liq.pending
    /\ Call.op \notin LedgerOps => liq'.shares = liq.shares /\ liq'.total_supply = liq.total_supply
    /\ liq'.code = liq.code

LEMMA TokenFramed ==
  ASSUME Typed, TokenStep \/ PairSwap \/ Commit, ~Abort
  PROVE  Framed
<1>1. ASSUME TokenTransfer \/ TokenTransferFrom PROVE Framed
  BY <1>1 DEF TokenTransfer, TokenTransferFrom, Pay, Running, Call, Framed, LedgerOps, SlotOps,
              LiqOps, VaultOps, MoveOps
<1>2. ASSUME TokenSend PROVE Framed
  BY <1>2 DEF TokenSend, Pay, Running, Call, Framed, Returning, LedgerOps, SlotOps,
              LiqOps, VaultOps, MoveOps
<1>3. ASSUME PairSwap PROVE Framed
  BY <1>3 DEF PairSwap, Running, Call, Framed, LedgerOps, SlotOps, LiqOps, VaultOps, MoveOps
<1>4. ASSUME Commit PROVE Framed
  BY <1>4 DEF Commit, storage, Running, Call, Framed, LedgerOps, SlotOps, LiqOps, VaultOps, MoveOps
<1>5. QED
  BY <1>1, <1>2, <1>3, <1>4 DEF TokenStep

\* A handler that changes neither assets nor shares.
LEMMA ProxyFramed ==
  ASSUME Typed, SwapProxyStep, ~Abort
  PROVE  Framed
<1> DEFINE kept == UNCHANGED <<vault, liq, bank, dex>>
<1>1. ASSUME execute_receive PROVE Framed
  BY <1>1 DEF execute_receive, storage, Running, Call, Framed, Returning, LedgerOps, SlotOps,
              LiqOps, VaultOps, MoveOps
<1>2. ASSUME \/ execute_register_vault \/ execute_remove_vault \/ proxy_admin \/ proxy_migrate
      PROVE  Framed
  <2>1. kept /\ Done
    BY <1>2 DEF execute_register_vault, execute_remove_vault, proxy_admin, proxy_migrate
  <2>2. QED
    BY <2>1 DEF Framed
<1>3. QED
  BY <1>1, <1>2 DEF SwapProxyStep

LEMMA VaultFramed ==
  ASSUME Typed, BotVaultStep, ~Abort
  PROVE  Framed
<1>1. vault \in VaultType
  BY DEF Typed
<1>2. ASSUME \/ execute_liquidity_swap \/ execute_transfer \/ execute_finalize
      PROVE  Framed
  BY <1>2 DEF execute_liquidity_swap, execute_transfer, execute_finalize, storage, Running, Call,
              Framed, Returning
<1>3. ASSUME execute_rebalance PROVE Framed
  <2>1. /\ Call.op = "Rebalance" /\ \E p : vault' = [vault EXCEPT !.pending = p]
        /\ VaultUnchanged
    BY <1>3 DEF execute_rebalance, Running, Call
  <2>2. vault'.paused = vault.paused /\ vault'.liquidity_contract = vault.liquidity_contract
    BY <1>1, <2>1 DEF VaultType
  <2>3. QED
    BY <2>1, <2>2 DEF VaultUnchanged, Framed, Returning, VaultOps, UnboundPaused
<1>4. ASSUME complete_rebalance PROVE Framed
  <2>1. /\ Call.op = "RebalanceReply"
        /\ \E r, c : vault' = [vault EXCEPT !.pending = None, !.reference_price = r, !.fee_cache = c]
        /\ VaultUnchanged
    BY <1>4 DEF complete_rebalance, Running, Call
  <2>2. vault'.paused = vault.paused /\ vault'.liquidity_contract = vault.liquidity_contract
    BY <1>1, <2>1 DEF VaultType
  <2>3. QED
    BY <2>1, <2>2 DEF VaultUnchanged, Framed, Returning, VaultOps, UnboundPaused
<1> DEFINE kept == /\ vault'.pending = vault.pending /\ Done
                   /\ Call.op # "Resume" /\ vault.paused => vault'.paused
                   /\ UnboundPaused(vault) => UnboundPaused(vault')
                   /\ Call.op # "UpdateThresholds" => dex' = dex
                   /\ liq' = liq /\ bank' = bank /\ Call.op \in VaultOps
<1>5. execute_sync_reference => kept
  BY <1>1 DEF execute_sync_reference, VaultUnchanged, VaultType, VaultOps, UnboundPaused, Running, Call
<1>6. execute_set_liquidity => kept
  BY <1>1, ActorAssumption DEF execute_set_liquidity, VaultUnchanged, VaultType, VaultOps, UnboundPaused, Running, Call
<1>7. execute_revoke_liquidity => kept
  BY <1>1 DEF execute_revoke_liquidity, VaultUnchanged, VaultType, VaultOps, UnboundPaused, Running, Call
<1>8. execute_pause => kept
  BY <1>1 DEF execute_pause, VaultUnchanged, VaultType, VaultOps, UnboundPaused, Running, Call
<1>9. execute_resume => kept
  BY <1>1 DEF execute_resume, VaultUnchanged, VaultType, VaultOps, UnboundPaused, Running, Call
<1>10. execute_update_keeper => kept
  BY <1>1 DEF execute_update_keeper, VaultUnchanged, VaultType, VaultOps, UnboundPaused, Running, Call
<1>11. execute_update_thresholds => kept
  BY <1>1 DEF execute_update_thresholds, VaultUnchanged, VaultType, VaultOps, UnboundPaused, Running, Call
<1>12. execute_update_fee_config => kept
  BY <1>1 DEF execute_update_fee_config, VaultUnchanged, VaultType, VaultOps, UnboundPaused, Running, Call
<1>13. vault_migrate => kept
  BY <1>1 DEF vault_migrate, VaultUnchanged, VaultType, VaultOps, UnboundPaused, Running, Call
<1>14. ASSUME vault_admin PROVE kept
  <2>1. /\ work # <<>> /\ Call.op = "VaultAdmin" /\ Done /\ VaultUnchanged
        /\ vault' = admin_handover(vault, Call)
    BY <1>14 DEF vault_admin, Running, Call
  <2>2. Call.step \in {"transfer", "accept", "cancel"}
    BY <2>1, RunningCall, CallOf DEF HandoverMsg
  <2>3. /\ vault'.pending = vault.pending /\ vault'.paused = vault.paused
        /\ vault'.liquidity_contract = vault.liquidity_contract
    BY <1>1, <2>1, <2>2 DEF admin_handover, VaultType
  <2>4. QED
    BY <2>1, <2>3 DEF VaultUnchanged, VaultOps, UnboundPaused
<1>15. ASSUME kept PROVE Framed
  BY <1>15 DEF Framed
<1> HIDE DEF kept
<1>16. QED
  BY <1>2, <1>3, <1>4, <1>5, <1>6, <1>7, <1>8, <1>9, <1>10, <1>11, <1>12, <1>13, <1>14, <1>15
     DEF BotVaultStep

LEMMA LiquidityFramed ==
  ASSUME Typed, BotLiquidityStep, ~Abort
  PROVE  Framed
<1>1. liq \in LiquidityType
  BY DEF Typed
<1> DEFINE kept == LiqUnchanged /\ liq'.code = liq.code
           held == liq'.shares = liq.shares /\ liq'.total_supply = liq.total_supply
<1>2. ASSUME kept, Call.op \in SlotOps, Call.op \in Returning \/ Done, Call.op \in LedgerOps \/ held
      PROVE  Framed
  BY <1>2 DEF Framed, LiqUnchanged, Returning, LiqOps, SlotOps, LedgerOps, MoveOps, VaultOps
<1>3. ASSUME kept, Done, Call.op \in LiqOps, liq'.pending = liq.pending, Call.op \in LedgerOps \/ held
      PROVE  Framed
  BY <1>3 DEF Framed, LiqUnchanged
<1>4. ASSUME execute_deposit PROVE Framed
  <2>1. Call.op = "Deposit" /\ LiqUnchanged /\ \E p : liq' = [liq EXCEPT !.pending = p]
    BY <1>4 DEF execute_deposit, Running, Call
  <2>2. QED
    BY <1>1, <1>2, <2>1 DEF LiquidityType, Returning, SlotOps
<1>5. ASSUME complete_deposit PROVE Framed
  BY <1>1, <1>2, <1>5 DEF complete_deposit, mint_shares, LiquidityType, SlotOps, LedgerOps, Running, Call
<1>6. ASSUME execute_withdraw_pro_rata PROVE Framed
  <2>1. /\ Call.op = "Withdraw" /\ LiqUnchanged
        /\ \E p : liq' = [burn_shares(liq, Call.sender, Call.shares) EXCEPT !.pending = p]
    BY <1>6 DEF execute_withdraw_pro_rata, Running, Call
  <2>2. QED
    BY <1>1, <1>2, <2>1 DEF LiquidityType, burn_shares, Returning, SlotOps, LedgerOps
<1>7. ASSUME execute_single_withdraw PROVE Framed
  <2>1. /\ Call.op = "Withdraw" /\ LiqUnchanged /\ \E p : liq' = [liq EXCEPT !.pending = p]
    BY <1>7 DEF execute_single_withdraw, Running, Call
  <2>2. QED
    BY <1>1, <1>2, <2>1 DEF LiquidityType, Returning, SlotOps, LedgerOps
<1>8. ASSUME complete_single_withdraw PROVE Framed
  <2>1. /\ Call.op = "WithdrawReply" /\ LiqUnchanged
        /\ \E p : liq' = [burn_shares(liq, liq.pending.owner, liq.pending.shares) EXCEPT !.pending = p]
    BY <1>8 DEF complete_single_withdraw, Running, Call
  <2>2. QED
    BY <1>1, <1>2, <2>1 DEF LiquidityType, burn_shares, Returning, SlotOps, LedgerOps
<1>9. ASSUME fail_single_withdraw PROVE Framed
  BY <1>1, <1>2, <1>9 DEF fail_single_withdraw, LiquidityType, SlotOps, Running, Call
<1>10. ASSUME complete_authorized_transfer PROVE Framed
  <2>1. /\ Call.op = "TransferReply" /\ LiqUnchanged /\ Done /\ \E p : liq' = [liq EXCEPT !.pending = p]
    BY <1>10 DEF complete_authorized_transfer, Running, Call
  <2>2. QED
    BY <1>1, <1>2, <2>1 DEF LiquidityType, SlotOps
<1>11. ASSUME execute_mint_to PROVE Framed
  BY <1>1, <1>3, <1>11 DEF execute_mint_to, mint_shares, LiquidityType, LedgerOps, LiqOps, Running, Call
<1>12. ASSUME execute_cw20_transfer PROVE Framed
  BY <1>1, <1>3, <1>12 DEF execute_cw20_transfer, move_shares, LiquidityType, LedgerOps, LiqOps, Running, Call
<1>13. ASSUME execute_cw20_burn PROVE Framed
  BY <1>1, <1>3, <1>13 DEF execute_cw20_burn, burn_shares, LiquidityType, LedgerOps, LiqOps, Running, Call
<1>14. ASSUME execute_update_config PROVE Framed
  BY <1>1, <1>3, <1>14 DEF execute_update_config, LiquidityType, LiqOps, Running, Call
<1>15. ASSUME liquidity_admin PROVE Framed
  <2>1. /\ work # <<>> /\ Call.op = "LiquidityAdmin" /\ Done /\ LiqUnchanged
        /\ liq' = admin_handover(liq, Call)
    BY <1>15 DEF liquidity_admin, Running, Call
  <2>2. Call.step \in {"transfer", "accept", "cancel"}
    BY <2>1, RunningCall, CallOf DEF HandoverMsg
  <2>3. /\ liq'.pending = liq.pending /\ liq'.code = liq.code /\ held
    BY <1>1, <2>1, <2>2 DEF admin_handover, LiquidityType
  <2>4. QED
    BY <1>3, <2>1, <2>3 DEF LiqOps
<1>16. QED
  BY <1>4, <1>5, <1>6, <1>7, <1>8, <1>9, <1>10, <1>11, <1>12, <1>13, <1>14, <1>15
     DEF BotLiquidityStep

\* What every handler that does not fail leaves alone.
LEMMA HandlerFramed ==
  ASSUME Typed, TxStep, ~Abort
  PROVE  Framed
BY TokenFramed, ProxyFramed, VaultFramed, LiquidityFramed DEF TxStep

-----------------------------------------------------------------------------
(* The stack after a step. *)

\* A returning handler replaces the running message by those it returns.
LEMMA ReturnStack ==
  ASSUME Typed, SnapshotsCovered, work # <<>>, Call.op # "Commit",
         NEW msgs \in Seq(Message), Return(msgs)
  PROVE  /\ work' \in Seq(Message) /\ work' # <<>>
         /\ Len(work) > 1 /\ Len(work') = Len(msgs) + Len(work) - 1
         /\ \A i \in DOMAIN msgs : i \in DOMAIN work' /\ work'[i] = msgs[i]
         /\ \A i \in DOMAIN work : i > 1 =>
               i + Len(msgs) - 1 \in DOMAIN work' /\ work'[i + Len(msgs) - 1] = work[i]
         /\ \A i \in DOMAIN work' :
               \/ i \in DOMAIN msgs /\ work'[i] = msgs[i]
               \/ /\ i - Len(msgs) + 1 \in DOMAIN work /\ i - Len(msgs) + 1 > 1
                  /\ work'[i] = work[i - Len(msgs) + 1]
         /\ Committed' = Committed /\ TxCall' = TxCall
<1>1. /\ 1 < Len(work) /\ Tail(work) \in Seq(Message)
      /\ Tail(work) = SubSeq(work, 2, Len(work))
  BY MoreToRun
<1>2. work \in Seq(Message)
  BY DEF Typed
<1>3. work' = msgs \o Tail(work)
  BY DEF Return
<1> DEFINE t == Tail(work)
<1>4. Len(t) = Len(work) - 1 /\ \A i \in DOMAIN work : i > 1 => i - 1 \in DOMAIN t /\ t[i - 1] = work[i]
  BY <1>1, <1>2
<1>5. \A i \in DOMAIN t : i + 1 \in DOMAIN work /\ i + 1 > 1 /\ t[i] = work[i + 1]
  BY <1>1, <1>2
<1>6. t \in Seq(Message) /\ Len(t) \in Nat /\ Len(work) \in Nat /\ Len(msgs) \in Nat /\ DOMAIN work = 1..Len(work)
      /\ DOMAIN t = 1..Len(t) /\ DOMAIN msgs = 1..Len(msgs)
  BY <1>1, <1>2
<1>7. /\ DOMAIN work' = 1..(Len(msgs) + Len(t)) /\ Len(work') = Len(msgs) + Len(t)
      /\ \A i \in DOMAIN msgs : work'[i] = msgs[i]
      /\ \A i \in DOMAIN t : work'[Len(msgs) + i] = t[i]
      /\ work' \in Seq(Message)
  BY <1>3, <1>6, ConcatIndex
<1> HIDE DEF t
<1>8. \A i \in DOMAIN msgs : i \in DOMAIN work' /\ work'[i] = msgs[i]
  BY <1>6, <1>7
<1>9. ASSUME NEW i \in DOMAIN work, i > 1
      PROVE  i + Len(msgs) - 1 \in DOMAIN work' /\ work'[i + Len(msgs) - 1] = work[i]
  <2>1. i - 1 \in DOMAIN t /\ t[i - 1] = work[i] /\ i \in Nat
    BY <1>4, <1>6, <1>9
  <2>2. i + Len(msgs) - 1 = Len(msgs) + (i - 1)
    BY <1>6, <2>1
  <2>3. Len(msgs) + (i - 1) \in DOMAIN work'
    BY <1>6, <1>7, <2>1
  <2>4. work'[Len(msgs) + (i - 1)] = t[i - 1]
    BY <1>7, <2>1
  <2>5. QED
    BY <2>1, <2>2, <2>3, <2>4
<1>10. ASSUME NEW i \in DOMAIN work'
       PROVE  \/ i \in DOMAIN msgs /\ work'[i] = msgs[i]
              \/ /\ i - Len(msgs) + 1 \in DOMAIN work /\ i - Len(msgs) + 1 > 1
                 /\ work'[i] = work[i - Len(msgs) + 1]
  <2>1. CASE i <= Len(msgs)
    BY <1>6, <1>7, <2>1
  <2>2. CASE i > Len(msgs)
    <3>1. i - Len(msgs) \in DOMAIN t /\ i = Len(msgs) + (i - Len(msgs))
      BY <1>6, <1>7, <2>2
    <3>2. work'[i] = t[i - Len(msgs)]
      BY <1>7, <3>1
    <3>3. QED
      BY <1>5, <3>1, <3>2
  <2>3. QED
    BY <1>6, <1>7, <2>1, <2>2
<1>11. Len(work') = Len(msgs) + Len(work) - 1 /\ Len(work') \in Nat /\ Len(work') > 0
  BY <1>1, <1>4, <1>6, <1>7
<1>12. work' # <<>>
  BY <1>7, <1>11
<1>13. work'[Len(work')] = work[Len(work)]
  BY <1>1, <1>6, <1>9, <1>11
<1>14. Committed' = Committed /\ TxCall' = TxCall
  BY <1>12, <1>13 DEF Committed, TxCall, Idle
<1>15. QED
  BY <1>1, <1>7, <1>8, <1>9, <1>10, <1>11, <1>12, <1>14

\* A handler that returns nothing uncovers the message behind it.
LEMMA DoneStack ==
  ASSUME Typed, SnapshotsCovered, work # <<>>, Call.op # "Commit", Done
  PROVE  /\ work' \in Seq(Message) /\ work' # <<>>
         /\ Len(work) > 1 /\ Len(work') = Len(work) - 1
         /\ Call' = work[2]
         /\ \A i \in DOMAIN work : i > 1 => i - 1 \in DOMAIN work' /\ work'[i - 1] = work[i]
         /\ \A i \in DOMAIN work' : i + 1 \in DOMAIN work /\ work'[i] = work[i + 1]
         /\ Committed' = Committed /\ TxCall' = TxCall
<1>1. <<>> \in Seq(Message) /\ Return(<<>>) /\ Len(<<>>) = 0 /\ DOMAIN <<>> = {}
  BY DEF Done
<1> DEFINE e == <<>>
<1> HIDE DEF e
<1>2. /\ work' \in Seq(Message) /\ work' # <<>>
      /\ Len(work) > 1 /\ Len(work') = 0 + Len(work) - 1
      /\ \A i \in DOMAIN work : i > 1 =>
            i + 0 - 1 \in DOMAIN work' /\ work'[i + 0 - 1] = work[i]
      /\ \A i \in DOMAIN work' :
            /\ i - 0 + 1 \in DOMAIN work /\ i - 0 + 1 > 1
            /\ work'[i] = work[i - 0 + 1]
      /\ Committed' = Committed /\ TxCall' = TxCall
  <2>1. e \in Seq(Message) /\ Return(e) /\ Len(e) = 0 /\ DOMAIN e = {}
    BY <1>1 DEF e
  <2>2. QED
    BY <2>1, ReturnStack
<1>3. work \in Seq(Message)
  BY DEF Typed
<1>4. Call' = work[2]
  BY <1>2, <1>3 DEF Call
<1>5. QED
  BY <1>2, <1>3, <1>4

\* The states to which a failing step of this transaction can go back.
Saved(s) == {s[i].snap : i \in {j \in DOMAIN s : s[j].op \in {"Commit", "WithdrawReply"}}}

\* An error ends the transaction, or leaves the failure reply of the nearest
\* submessage and what waited behind it.
LEMMA AbortStack ==
  ASSUME Typed, SnapshotsCovered, Abort
  PROVE  \E k \in DOMAIN work :
           /\ k > 1 /\ work[k].op \in {"Commit", "WithdrawReply"}
           /\ Snapshot' = work[k].snap /\ Snapshot' \in Saved(work)
           /\ \A i \in DOMAIN work : i > 1 /\ i < k => work[i].op \notin {"Commit", "WithdrawReply"}
           /\ \/ work' = <<>> /\ work[k].op = "Commit"
              \/ /\ work[k].op = "WithdrawReply" /\ k < Len(work)
                 /\ work' \in Seq(Message) /\ Len(work') = Len(work) - k + 1
                 /\ work' # <<>>
                 /\ Call'.op = "WithdrawFailed" /\ work'[1].op = "WithdrawFailed"
                 /\ \A i \in DOMAIN work : i > k => i - k + 1 \in DOMAIN work' /\ work'[i - k + 1] = work[i]
                 /\ \A i \in DOMAIN work' : i > 1 =>
                       i + k - 1 \in DOMAIN work /\ i + k - 1 > k /\ work'[i] = work[i + k - 1]
                 /\ Committed' = Committed /\ TxCall' = TxCall
<1>1. PICK k \in Checkpoints :
        /\ \A d \in Checkpoints : k <= d
        /\ LET s == work[k].snap
           IN  /\ vault' = s.vault /\ liq' = s.liq /\ proxy' = s.proxy
               /\ bank' = s.bank /\ dex' = s.dex
        /\ work' = IF work[k].op = "Commit" THEN <<>>
                   ELSE <<[op |-> "WithdrawFailed"]>> \o SubSeq(work, k + 1, Len(work))
  BY DEF Abort
<1>2. work \in Seq(Message) /\ k \in 1..Len(work) /\ k > 1 /\ work[k] \in Message
      /\ work[k].op \in {"Commit", "WithdrawReply"} /\ k \in DOMAIN work
      /\ DOMAIN work = 1..Len(work) /\ Len(work) \in Nat
  BY DEF Checkpoints, Typed
<1>3. work[k].snap \in SnapshotType
  BY <1>2, CallOf DEF CommitMsg, WithdrawReplyMsg
<1>4. Snapshot' = work[k].snap
  BY <1>1, <1>3 DEF Snapshot, SnapshotType
<1>5. Snapshot' \in Saved(work)
  BY <1>2, <1>4 DEF Saved
<1>6. \A i \in DOMAIN work : i > 1 /\ i < k => work[i].op \notin {"Commit", "WithdrawReply"}
  <2>1. SUFFICES ASSUME NEW i \in DOMAIN work, i > 1, i < k, work[i].op \in {"Commit", "WithdrawReply"}
                 PROVE  FALSE
    OBVIOUS
  <2>2. i \in Checkpoints
    BY <1>2, <2>1 DEF Checkpoints
  <2>3. QED
    BY <1>1, <1>2, <2>1, <2>2
<1>7. CASE work[k].op = "Commit"
  BY <1>1, <1>2, <1>4, <1>5, <1>6, <1>7
<1>8. CASE work[k].op = "WithdrawReply"
  <2> DEFINE m == <<[op |-> "WithdrawFailed"]>>
             t == SubSeq(work, k + 1, Len(work))
  <2>1. k < Len(work)
    BY <1>2, <1>8 DEF SnapshotsCovered, SnapshotCovered
  <2>2. m \in Seq(Message) /\ t \in Seq(Message) /\ work' = m \o t /\ Len(m) = 1
        /\ m[1].op = "WithdrawFailed" /\ DOMAIN m = {1}
    BY <1>1, <1>2, <1>8, <2>1 DEF Message, ReplyMsg
  <2>3. Len(t) = Len(work) - k /\ \A i \in DOMAIN t : k + i \in DOMAIN work /\ t[i] = work[k + i]
    BY <1>2, <2>1
  <2>4. DOMAIN t = 1..Len(t) /\ Len(t) \in Nat
    BY <2>2
  <2> HIDE DEF m, t
  <2>5. /\ DOMAIN work' = 1..(1 + Len(t)) /\ Len(work') = 1 + Len(t)
        /\ work'[1] = m[1]
        /\ \A i \in DOMAIN t : work'[1 + i] = t[i]
        /\ work' \in Seq(Message)
    <3>0. m \in Seq(Message) /\ t \in Seq(Message) /\ 1 \in DOMAIN m
      BY <2>2
    <3>1. /\ DOMAIN (m \o t) = 1..(Len(m) + Len(t)) /\ (m \o t)[1] = m[1]
          /\ \A i \in DOMAIN t : (m \o t)[Len(m) + i] = t[i]
      BY <3>0, ConcatIndex
    <3>2. \A i \in DOMAIN t : work'[1 + i] = t[i]
      BY <2>2, <3>1
    <3>3. m \o t \in Seq(Message) /\ Len(m \o t) = Len(m) + Len(t)
      BY <2>2, ConcatLen
    <3>4. QED
      BY <2>2, <3>1, <3>2, <3>3
  <2>6. work' # <<>> /\ Len(work') = Len(work) - k + 1 /\ Len(work') \in Nat
    BY <1>2, <2>3, <2>4, <2>5
  <2>7. Call' = m[1]
    BY <2>5, <2>6 DEF Call
  <2>8. ASSUME NEW i \in DOMAIN work, i > k
        PROVE  i - k + 1 \in DOMAIN work' /\ work'[i - k + 1] = work[i]
    <3>1. i - k \in DOMAIN t /\ i = k + (i - k) /\ i - k + 1 = 1 + (i - k)
      BY <1>2, <2>3, <2>4, <2>8
    <3>2. 1 + (i - k) \in DOMAIN work'
      BY <2>4, <2>5, <3>1
    <3>3. work'[1 + (i - k)] = t[i - k] /\ t[i - k] = work[k + (i - k)]
      BY <2>3, <2>5, <3>1
    <3>4. QED
      BY <3>1, <3>2, <3>3
  <2>9. ASSUME NEW i \in DOMAIN work', i > 1
        PROVE  i + k - 1 \in DOMAIN work /\ i + k - 1 > k /\ work'[i] = work[i + k - 1]
    <3>1. i - 1 \in DOMAIN t /\ i = 1 + (i - 1) /\ k + (i - 1) = i + k - 1
      BY <1>2, <2>3, <2>4, <2>5, <2>9
    <3>2. work'[i] = t[i - 1]
      BY <2>5, <3>1
    <3>3. QED
      BY <1>2, <2>3, <2>9, <3>1, <3>2
  <2>10. work'[Len(work')] = work[Len(work)]
    BY <1>2, <2>1, <2>6, <2>8
  <2>11. Committed' = Committed /\ TxCall' = TxCall
    BY <1>2, <2>1, <2>6, <2>10 DEF Committed, TxCall, Idle
  <2>12. QED
    BY <1>2, <1>4, <1>5, <1>6, <1>8, <2>1, <2>2, <2>5, <2>6, <2>7, <2>8, <2>9, <2>11
<1>9. QED
  BY <1>2, <1>7, <1>8

-----------------------------------------------------------------------------
(* What the handlers send. *)

\* Calls that only accounts make; messages that may wait behind others.
EntryOps == {"Deposit", "Withdraw", "Cw20Transfer", "Cw20Burn", "UpdateConfig", "Rebalance",
             "UpdateKeeper", "UpdateThresholds", "UpdateFeeConfig", "MigrateVault",
             "SyncReference", "Pause", "Resume", "RevokeLiquidity", "SetLiquidity",
             "RegisterVault", "RemoveVault", "MigrateProxy", "VaultAdmin",
             "LiquidityAdmin", "ProxyAdmin"}
WaitingOps == {"TransferFrom", "LiquiditySwap", "Finalize", "DepositReply", "TransferTo",
               "TransferReply", "WithdrawReply", "RebalanceReply", "PairReceive", "Commit"}

\* The messages a handler can send when it does not fail.
SwapPart(m) ==
    \/ /\ Call.op = "Send" /\ Call.from = VAULT /\ Call.to = PROXY /\ m.op = "ProxyReceive"
       /\ m.tok = Call.tok /\ m.amt = Call.amt /\ m.sender = VAULT
    \/ /\ Call.op = "Send" /\ Call.from = PROXY /\ Call.to = PAIR /\ m.op = "PairReceive"
       /\ m.hook = Call.hook
    \/ /\ Call.op = "ProxyReceive" /\ m.op = "Send" /\ m.from = PROXY
       /\ m.tok = Call.tok /\ m.amt = Call.amt /\ m.hook.to = VAULT
    \/ /\ Call.op = "LiquiditySwap" /\ m.op = "Send" /\ m.from = VAULT
       /\ m.tok = Call.params.offer_token /\ m.amt = Call.params.amount
    \/ /\ Call.op = "Rebalance" /\ m.op = "Send" /\ m.from = VAULT
       /\ m.tok = vault'.pending.offer_index /\ m.amt = vault'.pending.amount

SlotPart(m) ==
    \/ Call.op = "TransferTo" /\ m.op = "Transfer" /\ m.from = VAULT /\ m.to = Call.to
       /\ m.tok = Call.tok /\ m.amt = Call.amt
    \/ Call.op = "Rebalance" /\ m.op = "RebalanceReply"
    \/ Call.op = "RebalanceReply" /\ m.op = "MintTo"
    \/ Call.op = "Deposit" /\ m.op = "TransferFrom" /\ m.from = Call.sender /\ m.to = VAULT
    \/ Call.op = "Deposit" /\ m.op = "LiquiditySwap" /\ m.sender = LIQ /\ m.params = Call.swap
    \/ Call.op = "Deposit" /\ m.op \in {"Finalize", "DepositReply"}
    \/ Call.op = "Withdraw" /\ Call.payout # None /\ m.op = "LiquiditySwap" /\ m.sender = LIQ
    \/ Call.op = "Withdraw" /\ Call.payout # None /\ m.op = "WithdrawReply" /\ m.snap = Snapshot'
    \/ Call.op = "Withdraw" /\ Call.payout = None /\ m.op = "TransferTo" /\ m.to = Call.to
    \/ Call.op = "WithdrawReply" /\ m.op = "TransferTo" /\ m.to = liq.pending.recipient
    \/ Call.op = "Withdraw" /\ Call.payout = None /\ m.op = "TransferReply"
    \/ Call.op = "WithdrawReply" /\ m.op = "TransferReply"

\* The order of the messages a handler sends.
Ordered(msgs) ==
    /\ \A i \in DOMAIN msgs : i > 1 => msgs[i].op \in WaitingOps
    /\ \A i, j \in DOMAIN msgs :
          j < i /\ msgs[i].op = "LiquiditySwap" => msgs[j].op = "TransferFrom"
    /\ \A i \in DOMAIN msgs : msgs[i].op \in {"DepositReply", "WithdrawReply"} =>
          i - 1 \in DOMAIN msgs /\ msgs[i - 1].op \in {"Finalize", "LiquiditySwap"}

Sent(msgs) ==
    /\ msgs \in Seq(Message) /\ Return(msgs) /\ Ordered(msgs)
    /\ \A i \in DOMAIN msgs : SwapPart(msgs[i]) \/ SlotPart(msgs[i])

LEMMA OneSent ==
  ASSUME NEW m \in Message, Return(<<m>>), SwapPart(m) \/ SlotPart(m),
         m.op \notin {"DepositReply", "WithdrawReply"}
  PROVE  Sent(<<m>>)
<1> DEFINE s == <<m>>
<1>1. s \in Seq(Message) /\ DOMAIN s = {1} /\ s[1] = m
  OBVIOUS
<1> HIDE DEF s
<1>2. Ordered(s)
  BY <1>1 DEF Ordered
<1>3. QED
  BY <1>1, <1>2 DEF Sent, s

LEMMA TwoSent ==
  ASSUME NEW m \in Message, NEW r \in Message, Return(<<m, r>>),
         SwapPart(m) \/ SlotPart(m), SlotPart(r), r.op \in WaitingOps \ {"LiquiditySwap"},
         m.op \notin {"DepositReply", "WithdrawReply"},
         r.op \in {"DepositReply", "WithdrawReply"} => m.op \in {"Finalize", "LiquiditySwap"}
  PROVE  Sent(<<m, r>>)
<1> DEFINE s == <<m, r>>
<1>1. s \in Seq(Message) /\ DOMAIN s = {1, 2} /\ s[1] = m /\ s[2] = r
  OBVIOUS
<1> HIDE DEF s
<1>2. Ordered(s)
  <2>1. \A i \in DOMAIN s : i > 1 => i = 2
    BY <1>1
  <2>2. \A i, j \in DOMAIN s : j < i => i = 2 /\ j = 1
    BY <1>1
  <2>3. 2 - 1 = 1
    OBVIOUS
  <2>4. QED
    BY <1>1, <2>1, <2>2, <2>3 DEF Ordered
<1>3. QED
  BY <1>1, <1>2 DEF Sent, s

LEMMA NoneSent ==
  ASSUME Done
  PROVE  Sent(<<>>)
<1> DEFINE s == <<>>
<1>1. s \in Seq(Message) /\ DOMAIN s = {} /\ Return(s)
  BY DEF Done
<1> HIDE DEF s
<1>2. QED
  BY <1>1 DEF Sent, Ordered, s

LEMMA PairOf ==
  ASSUME NEW a \in Message, NEW b \in Message
  PROVE  LET p == <<a>> \o <<b>>
         IN  Len(p) = 2 /\ DOMAIN p = 1..2 /\ p[1] = a /\ p[2] = b
<1> DEFINE s == <<a>>
           t == <<b>>
<1>1. /\ s \in Seq(Message) /\ Len(s) = 1 /\ s[1] = a
      /\ t \in Seq(Message) /\ Len(t) = 1 /\ t[1] = b
  OBVIOUS
<1> HIDE DEF s, t
<1>2. /\ Len(s \o t) = 2 /\ DOMAIN (s \o t) = 1..2
      /\ (s \o t)[1] = a /\ (s \o t)[1 + 1] = b
  BY <1>1, ConcatIndex
<1>3. QED
  BY <1>2 DEF s, t

\* A deposit's transfers come first, then its swap or finalize, then its reply.
LEMMA DepositSends ==
  ASSUME Typed, Call \in DepositMsg
  PROVE  LET d == deposit_messages(Call)
             n == Len(d)
         IN  /\ d \in Seq(Message) /\ n \in Nat /\ n >= 2 /\ DOMAIN d = 1..n
             /\ d[n].op = "DepositReply"
             /\ d[n - 1].op = IF Call.swap = None THEN "Finalize" ELSE "LiquiditySwap"
             /\ Call.swap # None => d[n - 1].params = Call.swap /\ d[n - 1].sender = LIQ
             /\ \A i \in 1..(n - 2) : /\ d[i].op = "TransferFrom"
                                      /\ d[i].from = Call.sender /\ d[i].to = VAULT
             /\ \A t \in Token : Call.amounts[t] # 0 =>
                   \E i \in 1..(n - 2) : d[i].tok = t /\ d[i].amt = Call.amounts[t]
<1> DEFINE tf(i) == [op |-> "TransferFrom", tok |-> i, from |-> Call.sender,
                     to |-> liq.vault, amt |-> Call.amounts[i]]
           pull(i) == IF Call.amounts[i] = 0 THEN <<>> ELSE <<tf(i)>>
           fin == IF Call.swap = None
                    THEN [op |-> "Finalize", sender |-> LIQ]
                    ELSE [op |-> "LiquiditySwap", sender |-> LIQ, params |-> Call.swap]
           rep == [op |-> "DepositReply"]
           d == deposit_messages(Call)
           p == pull(0) \o pull(1)
           f == <<fin, rep>>
<1>1. d = p \o f
  BY DEF deposit_messages
<1>2. d \in Seq(Message)
  BY DepositMessagesPlain, PlainIsMessage
<1>3. liq.vault = VAULT
  BY DEF Typed, LiquidityType
<1>4. \A i \in Token : /\ tf(i).op = "TransferFrom" /\ tf(i).from = Call.sender
                       /\ tf(i).to = VAULT /\ tf(i).tok = i /\ tf(i).amt = Call.amounts[i]
  BY <1>3
<1>5. /\ fin.op = IF Call.swap = None THEN "Finalize" ELSE "LiquiditySwap"
      /\ Call.swap # None => fin.params = Call.swap /\ fin.sender = LIQ
      /\ rep.op = "DepositReply"
  OBVIOUS
<1>18. (\A i \in Token : tf(i) \in Message) /\ fin \in Message /\ rep \in Message
  <2>1. \A i \in Token : tf(i) \in Message
    BY <1>3 DEF DepositMsg, Amounts, Message, TransferFromMsg, Account
  <2>2. CASE Call.swap = None
    BY <2>1, <2>2 DEF Message, ExecuteMsg, PlainMsg, Account, ReplyMsg
  <2>3. CASE Call.swap # None
    BY <2>1, <2>3 DEF DepositMsg, Message, ExecuteMsg, VaultCall, LiquiditySwapMsg, Account, ReplyMsg
  <2>4. QED
    BY <2>2, <2>3
<1> HIDE DEF tf, fin, rep
<1>6. /\ \E n \in Nat : Len(p) = n /\ DOMAIN p = 1..n
      /\ \A i \in DOMAIN p : \E t \in Token : p[i] = tf(t)
      /\ \A t \in Token : Call.amounts[t] # 0 => \E i \in DOMAIN p : p[i] = tf(t)
  <2>1. CASE Call.amounts[0] = 0 /\ Call.amounts[1] = 0
    <3>1. p = <<>>
      BY <2>1
    <3>2. QED
      BY <2>1, <3>1 DEF Token
  <2>2. CASE Call.amounts[0] = 0 /\ Call.amounts[1] # 0
    <3>1. p = <<tf(1)>>
      BY <2>2
    <3> HIDE DEF p
    <3>2. Len(p) = 1 /\ DOMAIN p = 1..1 /\ p[1] = tf(1)
      BY <3>1
    <3>3. QED
      BY <2>2, <3>2 DEF Token
  <2>3. CASE Call.amounts[0] # 0 /\ Call.amounts[1] = 0
    <3>1. p = <<tf(0)>>
      BY <2>3
    <3> HIDE DEF p
    <3>2. Len(p) = 1 /\ DOMAIN p = 1..1 /\ p[1] = tf(0)
      BY <3>1
    <3>3. QED
      BY <2>3, <3>2 DEF Token
  <2>4. CASE Call.amounts[0] # 0 /\ Call.amounts[1] # 0
    <3>1. p = <<tf(0)>> \o <<tf(1)>>
      BY <2>4
    <3>2. Len(p) = 2 /\ DOMAIN p = 1..2 /\ p[1] = tf(0) /\ p[2] = tf(1)
      <4> HIDE DEF p
      <4>1. tf(0) \in Message /\ tf(1) \in Message
        BY <1>18 DEF Token
      <4>2. QED
        BY <3>1, <4>1, PairOf
    <3> HIDE DEF p
    <3>3. QED
      BY <2>4, <3>2 DEF Token
  <2>5. QED
    BY <2>1, <2>2, <2>3, <2>4
<1>7. PICK k \in Nat : Len(p) = k /\ DOMAIN p = 1..k
  BY <1>6
<1>8. /\ Len(d) = k + 2 /\ DOMAIN d = 1..(k + 2)
      /\ \A i \in 1..k : d[i] = p[i]
      /\ d[k + 1] = fin /\ d[k + 2] = rep
  <2>1. p \in Seq(Message)
    <3>1. pull(0) \in Seq(Message) /\ pull(1) \in Seq(Message)
      BY <1>18 DEF Token
    <3> HIDE DEF pull
    <3>2. QED
      BY <3>1
  <2>2. Len(f) = 2 /\ f[1] = fin /\ f[2] = rep /\ f \in Seq(Message) /\ DOMAIN f = {1, 2}
    BY <1>18
  <2> HIDE DEF p, f, d
  <2>3. Len(d) = k + 2 /\ DOMAIN d = 1..(k + 2)
    <3>1. DOMAIN d = 1..(Len(p) + Len(f))
      BY <1>1, <2>1, <2>2, ConcatIndex
    <3>2. Len(d) \in Nat /\ DOMAIN d = 1..Len(d)
      BY <1>2 DEF d
    <3>3. QED
      BY <1>7, <2>2, <3>1, <3>2
  <2>4. \A i \in DOMAIN p : d[i] = p[i]
    BY <1>1, <2>1, <2>2, ConcatIndex
  <2>5. d[k + 1] = f[1] /\ d[k + 2] = f[2]
    BY <1>1, <1>7, <2>1, <2>2, ConcatIndex
  <2>6. QED
    BY <1>7, <2>2, <2>3, <2>4, <2>5
<1> HIDE DEF p, d
<1>9. k + 2 - 1 = k + 1 /\ k + 2 - 2 = k /\ k + 2 \in Nat /\ k + 2 >= 2
  OBVIOUS
<1> DEFINE n == Len(d)
<1>10. n = k + 2 /\ n - 1 = k + 1 /\ n - 2 = k
  BY <1>8, <1>9
<1>11. d[n - 1] = fin /\ d[n] = rep
  BY <1>8, <1>10
<1>12. \A i \in 1..k : \E t \in Token : d[i] = tf(t)
  BY <1>6, <1>7, <1>8
<1>13. \A t \in Token : Call.amounts[t] # 0 => \E i \in 1..k : d[i] = tf(t)
  BY <1>6, <1>7, <1>8
<1> HIDE DEF n
<1>14. \A i \in 1..(n - 2) : d[i].op = "TransferFrom" /\ d[i].from = Call.sender /\ d[i].to = VAULT
  BY <1>4, <1>10, <1>12
<1>15. \A t \in Token : Call.amounts[t] # 0 =>
          \E i \in 1..(n - 2) : d[i].tok = t /\ d[i].amt = Call.amounts[t]
  BY <1>4, <1>10, <1>13
<1>16. DOMAIN d = 1..n /\ n \in Nat /\ n >= 2
  BY <1>8, <1>9, <1>10
<1>17. QED
  BY <1>2, <1>5, <1>11, <1>14, <1>15, <1>16 DEF n, d

LEMMA ConcatNone ==
  ASSUME NEW S, NEW x \in Seq(S)
  PROVE  x \o <<>> = x /\ <<>> \o x = x
OBVIOUS

LEMMA ConcatTwo ==
  ASSUME NEW S, NEW x \in Seq(S), NEW y \in Seq(S), Len(x) = 1, Len(y) = 1
  PROVE  Len(x \o y) = 2 /\ (x \o y)[1] = x[1] /\ (x \o y)[2] = y[1]
<1>1. x \o y \in Seq(S) /\ Len(x \o y) = Len(x) + Len(y)
  OBVIOUS
<1>2. \A i \in DOMAIN x : (x \o y)[i] = x[i]
  OBVIOUS
<1>3. \A i \in DOMAIN y : (x \o y)[Len(x) + i] = y[i]
  OBVIOUS
<1>4. 1 \in DOMAIN x /\ 1 \in DOMAIN y /\ Len(x) + 1 = 2 /\ Len(x) + Len(y) = 2
  OBVIOUS
<1>5. QED
  BY <1>1, <1>2, <1>3, <1>4

LEMMA LegMessages ==
  ASSUME NEW t \in AuthorizedTransfer
  PROVE  /\ Leg(t) \in Seq(Message) /\ DOMAIN Leg(t) = {1, 2} /\ Len(Leg(t)) = 2
         /\ Leg(t)[1].op = "TransferTo" /\ Leg(t)[1].to = t.recipient
         /\ Leg(t)[1].tok = t.token /\ Leg(t)[1].amt = t.amount
         /\ Leg(t)[2].op = "TransferReply"
<1>1. Leg(t) \in Seq(Message)
  BY LegPlain, PlainIsMessage
<1>2. QED
  BY <1>1 DEF Leg, vault_transfer

LEMMA BothLegs ==
  ASSUME NEW a \in AuthorizedTransfer, NEW b \in AuthorizedTransfer
  PROVE  LET s == Leg(a) \o Leg(b)
         IN  /\ s \in Seq(Message) /\ DOMAIN s = {1, 2, 3, 4} /\ Len(s) = 4
             /\ s[1] = Leg(a)[1] /\ s[2] = Leg(a)[2] /\ s[3] = Leg(b)[1] /\ s[4] = Leg(b)[2]
<1> DEFINE x == Leg(a)
           y == Leg(b)
<1>1. /\ x \in Seq(Message) /\ Len(x) = 2 /\ DOMAIN x = {1, 2}
      /\ y \in Seq(Message) /\ Len(y) = 2 /\ DOMAIN y = {1, 2}
  BY LegMessages
<1> HIDE DEF x, y
<1>2. x \o y \in Seq(Message) /\ DOMAIN (x \o y) = 1..(2 + 2) /\ Len(x \o y) = 2 + 2
  BY <1>1, ConcatIndex
<1>3. (x \o y)[1] = x[1] /\ (x \o y)[2] = x[2] /\ (x \o y)[2 + 1] = y[1] /\ (x \o y)[2 + 2] = y[2]
  BY <1>1, ConcatIndex
<1>4. 1..(2 + 2) = {1, 2, 3, 4} /\ 2 + 1 = 3 /\ 2 + 2 = 4
  OBVIOUS
<1>5. QED
  BY <1>2, <1>3, <1>4 DEF x, y

\* A pro-rata withdrawal pays every nonzero claim once, to the receiver.
LEMMA ProRataSends ==
  ASSUME Typed, Call \in WithdrawMsg \cup WithdrawSingleMsg, withdraw_allowed(Call),
         pro_rata_transfers(Call) # <<>>
  PROVE  LET transfers == pro_rata_transfers(Call)
             msgs == IF Len(transfers) = 1 THEN Leg(transfers[1])
                     ELSE Leg(transfers[1]) \o Leg(transfers[2])
         IN  /\ msgs \in Seq(Message) /\ 1 \in DOMAIN msgs /\ msgs[1].op = "TransferTo"
             /\ \A i \in DOMAIN msgs :
                   \/ msgs[i].op = "TransferTo" /\ msgs[i].to = Call.to
                   \/ msgs[i].op = "TransferReply"
             /\ \A t \in Token : claims(Call)[t] # 0 =>
                   \E i \in DOMAIN msgs : /\ msgs[i].op = "TransferTo" /\ msgs[i].tok = t
                                          /\ msgs[i].to = Call.to /\ msgs[i].amt = claims(Call)[t]
             /\ \A i, j \in DOMAIN msgs :
                   i # j /\ msgs[i].op = "TransferTo" /\ msgs[j].op = "TransferTo" =>
                      msgs[i].tok # msgs[j].tok
<1> DEFINE t(i) == [token |-> i, amount |-> claims(Call)[i], recipient |-> Call.to]
           pay(i) == IF claims(Call)[i] = 0 THEN <<>> ELSE <<t(i)>>
           transfers == pro_rata_transfers(Call)
           msgs == IF Len(transfers) = 1 THEN Leg(transfers[1])
                   ELSE Leg(transfers[1]) \o Leg(transfers[2])
<1>1. transfers = pay(0) \o pay(1)
  BY DEF pro_rata_transfers
<1>2. claims(Call) \in [{0, 1} -> Nat]
  BY ClaimsTyped
<1>3. t(0) \in AuthorizedTransfer /\ t(1) \in AuthorizedTransfer
  BY <1>2 DEF AuthorizedTransfer, Token, WithdrawMsg, WithdrawSingleMsg
<1>4. /\ t(0).token = 0 /\ t(0).amount = claims(Call)[0] /\ t(0).recipient = Call.to
      /\ t(1).token = 1 /\ t(1).amount = claims(Call)[1] /\ t(1).recipient = Call.to
  OBVIOUS
<1>5. transfers # <<>>
  OBVIOUS
<1> HIDE DEF t, transfers
<1>6. ASSUME NEW k \in {0, 1}, claims(Call)[k] # 0, claims(Call)[1 - k] = 0
      PROVE  transfers = <<t(k)>>
  <2> DEFINE x == <<t(k)>>
  <2>4. x \in Seq(AuthorizedTransfer)
    BY <1>3
  <2>5. transfers = x \o <<>> \/ transfers = <<>> \o x
    <3>1. CASE k = 0
      <4>1. pay(0) = <<t(0)>> /\ pay(1) = <<>>
        BY <1>6, <3>1
      <4>2. QED
        BY <1>1, <3>1, <4>1
    <3>2. CASE k = 1
      <4>1. pay(0) = <<>> /\ pay(1) = <<t(1)>>
        BY <1>6, <3>2
      <4>2. QED
        BY <1>1, <3>2, <4>1
    <3>3. QED
      BY <3>1, <3>2
  <2> HIDE DEF x
  <2>6. transfers = x
    BY <2>4, <2>5, ConcatNone
  <2>7. QED
    BY <2>6 DEF x
<1>7. ASSUME NEW k \in {0, 1}, claims(Call)[k] # 0, claims(Call)[1 - k] = 0
      PROVE  /\ msgs \in Seq(Message) /\ DOMAIN msgs = {1, 2}
             /\ msgs[1].op = "TransferTo" /\ msgs[1].to = Call.to /\ msgs[1].tok = k
             /\ msgs[1].amt = claims(Call)[k] /\ msgs[2].op = "TransferReply"
  <2>1. Len(transfers) = 1 /\ transfers[1] = t(k)
    BY <1>6, <1>7
  <2>2. t(k) \in AuthorizedTransfer /\ t(k).token = k /\ t(k).amount = claims(Call)[k]
        /\ t(k).recipient = Call.to
    BY <1>3, <1>4
  <2>3. msgs = Leg(t(k))
    BY <2>1
  <2> HIDE DEF msgs
  <2>4. QED
    BY <2>2, <2>3, LegMessages
<1>8. CASE claims(Call)[0] # 0 /\ claims(Call)[1] # 0
  <2>1. transfers = <<t(0)>> \o <<t(1)>>
    BY <1>1, <1>8
  <2>2. Len(transfers) = 2 /\ transfers[1] = t(0) /\ transfers[2] = t(1)
    <3> DEFINE x == <<t(0)>>
               y == <<t(1)>>
    <3>1. /\ x \in Seq(AuthorizedTransfer) /\ Len(x) = 1 /\ x[1] = t(0)
          /\ y \in Seq(AuthorizedTransfer) /\ Len(y) = 1 /\ y[1] = t(1)
      BY <1>3
    <3> HIDE DEF x, y
    <3>2. Len(x \o y) = 2 /\ (x \o y)[1] = x[1] /\ (x \o y)[2] = y[1]
      BY <3>1, ConcatTwo
    <3>3. QED
      BY <2>1, <3>1, <3>2 DEF x, y
  <2>3. msgs = Leg(t(0)) \o Leg(t(1))
    BY <2>2
  <2> HIDE DEF msgs
  <2>4. /\ msgs \in Seq(Message) /\ DOMAIN msgs = {1, 2, 3, 4}
        /\ msgs[1] = Leg(t(0))[1] /\ msgs[2] = Leg(t(0))[2]
        /\ msgs[3] = Leg(t(1))[1] /\ msgs[4] = Leg(t(1))[2]
    BY <1>3, <2>3, BothLegs
  <2>5. /\ msgs[1].op = "TransferTo" /\ msgs[1].to = Call.to /\ msgs[1].tok = 0
        /\ msgs[1].amt = claims(Call)[0] /\ msgs[2].op = "TransferReply"
        /\ msgs[3].op = "TransferTo" /\ msgs[3].to = Call.to /\ msgs[3].tok = 1
        /\ msgs[3].amt = claims(Call)[1] /\ msgs[4].op = "TransferReply"
    BY <1>3, <1>4, <2>4, LegMessages
  <2>6. \A i, j \in DOMAIN msgs :
           i # j /\ msgs[i].op = "TransferTo" /\ msgs[j].op = "TransferTo" => msgs[i].tok # msgs[j].tok
    <3>1. \A i \in DOMAIN msgs : msgs[i].op = "TransferTo" => i = 1 \/ i = 3
      BY <2>4, <2>5
    <3>2. QED
      BY <2>5, <3>1
  <2>7. /\ \A i \in DOMAIN msgs :
              \/ msgs[i].op = "TransferTo" /\ msgs[i].to = Call.to
              \/ msgs[i].op = "TransferReply"
        /\ \A a \in Token : claims(Call)[a] # 0 =>
              \E i \in DOMAIN msgs : /\ msgs[i].op = "TransferTo" /\ msgs[i].tok = a
                                     /\ msgs[i].to = Call.to /\ msgs[i].amt = claims(Call)[a]
    BY <2>4, <2>5 DEF Token
  <2>8. 1 \in DOMAIN msgs
    BY <2>4
  <2>9. QED
    BY <2>4, <2>5, <2>6, <2>7, <2>8 DEF msgs, transfers
<1>9. ASSUME NEW k \in {0, 1}, claims(Call)[k] # 0, claims(Call)[1 - k] = 0
      PROVE  /\ msgs \in Seq(Message) /\ 1 \in DOMAIN msgs /\ msgs[1].op = "TransferTo"
             /\ \A i \in DOMAIN msgs :
                   \/ msgs[i].op = "TransferTo" /\ msgs[i].to = Call.to
                   \/ msgs[i].op = "TransferReply"
             /\ \A a \in Token : claims(Call)[a] # 0 =>
                   \E i \in DOMAIN msgs : /\ msgs[i].op = "TransferTo" /\ msgs[i].tok = a
                                          /\ msgs[i].to = Call.to /\ msgs[i].amt = claims(Call)[a]
             /\ \A i, j \in DOMAIN msgs :
                   i # j /\ msgs[i].op = "TransferTo" /\ msgs[j].op = "TransferTo" =>
                      msgs[i].tok # msgs[j].tok
  <2>1. /\ msgs \in Seq(Message) /\ DOMAIN msgs = {1, 2}
        /\ msgs[1].op = "TransferTo" /\ msgs[1].to = Call.to /\ msgs[1].tok = k
        /\ msgs[1].amt = claims(Call)[k] /\ msgs[2].op = "TransferReply"
    BY <1>7, <1>9
  <2> HIDE DEF msgs
  <2>2. \A a \in Token : claims(Call)[a] # 0 => a = k
    BY <1>9 DEF Token
  <2>3. QED
    BY <2>1, <2>2
<1>10. CASE claims(Call)[0] # 0 /\ claims(Call)[1] = 0
  <2>1. 0 \in {0, 1} /\ 1 - 0 = 1
    OBVIOUS
  <2>2. QED
    BY <1>9, <1>10, <2>1 DEF msgs, transfers
<1>11. CASE claims(Call)[0] = 0 /\ claims(Call)[1] # 0
  <2>1. 1 \in {0, 1} /\ 1 - 1 = 0
    OBVIOUS
  <2>2. QED
    BY <1>9, <1>11, <2>1 DEF msgs, transfers
<1>12. ~(claims(Call)[0] = 0 /\ claims(Call)[1] = 0)
  BY <1>1, <1>5
<1>13. QED
  BY <1>8, <1>10, <1>11, <1>12

LEMMA SwapSent ==
  ASSUME Typed, TxStep, ~Abort, Call.op \in {"Send", "ProxyReceive", "LiquiditySwap", "TransferTo"}
  PROVE  \E msgs : Sent(msgs) /\ DOMAIN msgs = {1}
<1>1. work # <<>> /\ Call \in Message
  BY HandlerOf, RunningCall
<1>0. ASSUME NEW r \in Message PROVE DOMAIN <<r>> = {1}
  OBVIOUS
<1>2. CASE Call.op = "Send"
  <2> DEFINE r == [op |-> IF Call.to = PROXY THEN "ProxyReceive" ELSE "PairReceive",
                   tok |-> Call.tok, amt |-> Call.amt,
                   sender |-> Call.from, hook |-> Call.hook]
  <2>1. Call \in SendMsg
    BY <1>1, <1>2, CallOf
  <2>2. Return(<<r>>)
    BY <1>2, HandlerOf DEF TokenSend
  <2>3. r \in Message
    BY <2>1 DEF SendMsg, Message, ProxyReceiveMsg, PairReceiveMsg, Account, PROXY, PAIR, VAULT
  <2>4. SwapPart(r) /\ r.op \notin {"DepositReply", "WithdrawReply"}
    BY <1>2, <2>1 DEF SendMsg, SwapPart, PROXY, PAIR, VAULT
  <2> HIDE DEF r
  <2>5. QED
    BY <1>0, <2>2, <2>3, <2>4, OneSent
<1>3. CASE Call.op = "ProxyReceive"
  <2> DEFINE r == [op |-> "Send", tok |-> Call.tok, from |-> PROXY,
                   to |-> PAIR, amt |-> Call.amt, hook |-> pair_hook(Call)]
  <2>1. Call \in ProxyReceiveMsg
    BY <1>1, <1>3, CallOf
  <2>2. Return(<<r>>) /\ proxy_receive_allowed(Call)
    BY <1>3, HandlerOf DEF execute_receive
  <2>3. r \in Message
    BY <2>1 DEF ProxyReceiveMsg, ProxyHook, pair_hook, Message, SendMsg, PairHook
  <2>4. SwapPart(r) /\ r.op \notin {"DepositReply", "WithdrawReply"}
    BY <1>3, <2>2 DEF SwapPart, pair_hook, proxy_receive_allowed
  <2> HIDE DEF r
  <2>5. QED
    BY <1>0, <2>2, <2>3, <2>4, OneSent
<1>4. CASE Call.op = "LiquiditySwap"
  <2> DEFINE r == proxy_swap_message(Call.params)
  <2>1. Call \in LiquiditySwapMsg
    BY <1>1, <1>4, CallOf
  <2>2. Return(<<r>>)
    BY <1>4, HandlerOf DEF execute_liquidity_swap
  <2>3. r \in Message
    BY <2>1, SwapMessageTyped DEF LiquiditySwapMsg
  <2>4. SwapPart(r) /\ r.op \notin {"DepositReply", "WithdrawReply"}
    BY <1>4 DEF SwapPart, proxy_swap_message
  <2> HIDE DEF r
  <2>5. QED
    BY <1>0, <2>2, <2>3, <2>4, OneSent
<1>5. CASE Call.op = "TransferTo"
  <2> DEFINE r == [op |-> "Transfer", tok |-> Call.tok, from |-> VAULT,
                   to |-> Call.to, amt |-> Call.amt]
  <2>1. Call \in TransferToMsg
    BY <1>1, <1>5, CallOf
  <2>2. Return(<<r>>)
    BY <1>5, HandlerOf DEF execute_transfer
  <2>3. r \in Message
    BY <2>1 DEF TransferToMsg, TransferMsg, ExecuteMsg, Message, Account
  <2>4. SlotPart(r) /\ r.op \notin {"DepositReply", "WithdrawReply"}
    BY <1>5 DEF SlotPart
  <2> HIDE DEF r
  <2>5. QED
    BY <1>0, <2>2, <2>3, <2>4, OneSent
<1>6. QED
  BY <1>2, <1>3, <1>4, <1>5

\* The rebalance, step by step: what it needs, what it remembers.
LEMMA RebalanceRuns ==
  ASSUME Typed, TxStep, ~Abort, Call.op = "Rebalance"
  PROVE  /\ \E msgs : Sent(msgs)
         /\ ~vault.paused /\ vault.pending = None /\ ensure_no_liquidity_operation
         /\ vault'.pending # None
         /\ vault'.pending.balances = balances /\ vault'.pending.captured_twap = dex.twap
<1>1. work # <<>> /\ Call \in RebalanceMsg
  BY HandlerOf, RunningCall, CallOf
<1>2. PICK quote \in Returns :
         LET plan == rebalance_plan(quote)
         IN  /\ rebalance_allowed(Call, plan)
             /\ vault' = [vault EXCEPT !.pending =
                     [captured_twap |-> plan.captured_twap,
                      balances |-> balances,
                      pre_deviation_bps |-> plan.allocation_deviation_bps,
                      offer_index |-> plan.offer_index,
                      amount |-> plan.amount,
                      min_return |-> plan.min_return]]
             /\ Return(<<proxy_swap_message(
                              [offer_token |-> plan.offer_index,
                               amount |-> plan.amount,
                               min_return |-> plan.min_return,
                               max_spread |-> vault.risk.max_spread,
                               deadline |-> Call.deadline]),
                            [op |-> "RebalanceReply"]>>)
  BY HandlerOf DEF execute_rebalance
<1> DEFINE plan == rebalance_plan(quote)
           pend == [captured_twap |-> plan.captured_twap, balances |-> balances,
                    pre_deviation_bps |-> plan.allocation_deviation_bps,
                    offer_index |-> plan.offer_index, amount |-> plan.amount,
                    min_return |-> plan.min_return]
           swap == [offer_token |-> plan.offer_index, amount |-> plan.amount,
                    min_return |-> plan.min_return, max_spread |-> vault.risk.max_spread,
                    deadline |-> Call.deadline]
           first == proxy_swap_message(swap)
           reply == [op |-> "RebalanceReply"]
<1>3. ~vault.paused /\ vault.pending = None /\ ensure_no_liquidity_operation
  BY <1>2 DEF rebalance_allowed, assert_not_paused, no_pending_rebalance
<1>4. vault'.pending = pend
  BY <1>2 DEF Typed, VaultType
<1>5. plan.captured_twap = dex.twap
  BY DEF rebalance_plan, rebalance_status
<1>6. /\ plan.offer_index \in Token /\ plan.amount \in Nat \ {0} /\ plan.min_return \in Nat
      /\ plan.captured_twap \in Nat \ {0} /\ plan.allocation_deviation_bps \in 0..BPS
  BY <1>2, PlanTyped DEF rebalance_allowed
<1>7. Return(<<first, reply>>)
  BY <1>2
<1> HIDE DEF plan
<1>8. pend.balances = balances /\ pend.captured_twap = dex.twap
      /\ pend.offer_index = plan.offer_index /\ pend.amount = plan.amount
  BY <1>5
<1>9. swap \in SwapParams
  BY <1>1, <1>6 DEF SwapParams, RebalanceMsg, Typed, VaultType, RiskParams
<1>10. vault'.pending # None
  <2>1. pend \in PendingRebalance
    BY <1>6, BalancesTyped DEF PendingRebalance, pend
  <2>2. QED
    BY <1>4, <2>1, NoneAssumption
<1>11. first \in Message /\ reply \in Message
  BY <1>9, SwapMessageTyped DEF Message, ReplyMsg
<1>12. first.op = "Send" /\ first.from = VAULT /\ first.tok = plan.offer_index /\ first.amt = plan.amount
       /\ reply.op = "RebalanceReply"
  BY DEF proxy_swap_message
<1> HIDE DEF first, reply, pend, swap
<1>13. SwapPart(first) /\ SlotPart(reply)
  BY <1>4, <1>8, <1>12 DEF SwapPart, SlotPart
<1>14. Sent(<<first, reply>>)
  BY <1>7, <1>11, <1>12, <1>13, TwoSent DEF WaitingOps
<1>15. QED
  BY <1>3, <1>4, <1>8, <1>10, <1>14

LEMMA RebalanceReplySent ==
  ASSUME Typed, TxStep, ~Abort, Call.op = "RebalanceReply"
  PROVE  \E msgs : Sent(msgs)
<1>1. PICK answer \in FeeAnswers \cup {QueryFailed} :
         LET pending == vault.pending
             fee == charge_fee(answer, proceeds_value(pending, balances),
                               nav(balances, pending.captured_twap))
         IN  /\ pending # None /\ validate_settlement(pending, balances)
             /\ Return(IF fee.shares = 0 THEN <<>>
                       ELSE <<[op |-> "MintTo", sender |-> VAULT, to |-> vault.fee_collector,
                               amt |-> fee.shares]>>)
  BY HandlerOf DEF complete_rebalance
<1> DEFINE fee == charge_fee(answer, proceeds_value(vault.pending, balances),
                             nav(balances, vault.pending.captured_twap))
           m == [op |-> "MintTo", sender |-> VAULT, to |-> vault.fee_collector, amt |-> fee.shares]
<1>2. (IF fee.shares = 0 THEN <<>> ELSE <<m>>) \in Seq(Plain)
  BY <1>1, SettledFeeTyped
<1> HIDE DEF fee
<1>3. CASE fee.shares = 0
  BY <1>1, <1>3, NoneSent DEF Done, fee
<1>4. CASE fee.shares # 0
  <2>1. m.op = "MintTo"
    OBVIOUS
  <2>2. Return(<<m>>)
    BY <1>1, <1>4 DEF fee
  <2> HIDE DEF m
  <2>3. m \in Plain
    <3>1. <<m>> \in Seq(Plain)
      BY <1>2, <1>4
    <3> DEFINE s == <<m>>
    <3>2. s \in Seq(Plain) /\ 1 \in DOMAIN s /\ s[1] = m
      BY <3>1
    <3> HIDE DEF s
    <3>3. QED
      BY <3>2
  <2>4. m \in Message
    BY <2>3 DEF Plain
  <2>5. SlotPart(m)
    BY <2>1 DEF SlotPart
  <2>6. QED
    BY <2>1, <2>2, <2>4, <2>5, OneSent
<1>5. QED
  BY <1>3, <1>4

LEMMA DepositSent ==
  ASSUME Typed, TxStep, ~Abort, Call.op = "Deposit"
  PROVE  Sent(deposit_messages(Call))
<1> DEFINE d == deposit_messages(Call)
           n == Len(d)
<1>1. Call \in DepositMsg
  BY HandlerOf, RunningCall, CallOf
<1>2. Return(d)
  BY HandlerOf DEF execute_deposit
<1>3. /\ d \in Seq(Message) /\ n \in Nat /\ n >= 2 /\ DOMAIN d = 1..n
      /\ d[n].op = "DepositReply"
      /\ d[n - 1].op = IF Call.swap = None THEN "Finalize" ELSE "LiquiditySwap"
      /\ Call.swap # None => d[n - 1].params = Call.swap /\ d[n - 1].sender = LIQ
      /\ \A i \in 1..(n - 2) : /\ d[i].op = "TransferFrom"
                               /\ d[i].from = Call.sender /\ d[i].to = VAULT
  BY <1>1, DepositSends
<1> HIDE DEF d, n
<1>4. \A i \in DOMAIN d : i = n \/ i = n - 1 \/ i \in 1..(n - 2)
  BY <1>3
<1>5. d[n - 1].op \in {"Finalize", "LiquiditySwap"} /\ n - 1 \in DOMAIN d
  BY <1>3
<1>6. \A i \in DOMAIN d : SlotPart(d[i])
  BY <1>3, <1>4, <1>5 DEF SlotPart
<1>7. Ordered(d)
  <2>1. \A i \in DOMAIN d : i > 1 => d[i].op \in WaitingOps
    BY <1>3, <1>4, <1>5 DEF WaitingOps
  <2>2. \A i \in DOMAIN d : d[i].op = "LiquiditySwap" => i = n - 1
    BY <1>3, <1>4
  <2>3. \A j \in DOMAIN d : j < n - 1 => j \in 1..(n - 2)
    BY <1>3
  <2>4. \A i \in DOMAIN d : d[i].op \in {"DepositReply", "WithdrawReply"} => i = n
    BY <1>3, <1>4, <1>5
  <2>5. QED
    BY <1>3, <1>5, <2>1, <2>2, <2>3, <2>4 DEF Ordered
<1>8. QED
  BY <1>2, <1>3, <1>6, <1>7 DEF Sent, d

\* Messages of payments are in order.
LEMMA PaymentsSent ==
  ASSUME NEW msgs \in Seq(Message), Return(msgs),
         \A i \in DOMAIN msgs : SlotPart(msgs[i]) /\ msgs[i].op \in {"TransferTo", "TransferReply"}
  PROVE  Sent(msgs)
BY DEF Sent, Ordered, WaitingOps

LEMMA ProRataRuns ==
  ASSUME Typed, TxStep, ~Abort, Call.op = "Withdraw", Call.payout = None
  PROVE  /\ withdraw_allowed(Call) /\ \A t \in Token : claims(Call)[t] >= Call.min_assets[t]
         /\ liq'.shares[Call.sender] = liq.shares[Call.sender] - Call.shares
         /\ liq'.total_supply = liq.total_supply - Call.shares
         /\ liq'.pending.kind = "AuthorizedTransfers"
         /\ \E msgs :
              /\ Sent(msgs) /\ 1 \in DOMAIN msgs /\ msgs[1].op = "TransferTo"
              /\ \A i \in DOMAIN msgs : msgs[i].op \in {"TransferTo", "TransferReply"}
              /\ \A t \in Token : claims(Call)[t] # 0 =>
                   \E i \in DOMAIN msgs : /\ msgs[i].op = "TransferTo" /\ msgs[i].tok = t
                                          /\ msgs[i].to = Call.to /\ msgs[i].amt = claims(Call)[t]
              /\ \A i, j \in DOMAIN msgs :
                   i # j /\ msgs[i].op = "TransferTo" /\ msgs[j].op = "TransferTo" =>
                      msgs[i].tok # msgs[j].tok
<1> DEFINE transfers == pro_rata_transfers(Call)
           msgs == IF Len(transfers) = 1 THEN Leg(transfers[1])
                   ELSE Leg(transfers[1]) \o Leg(transfers[2])
           pend == [kind |-> "AuthorizedTransfers", transfers |-> transfers,
                    replies_remaining |-> Len(transfers)]
<1>1. work # <<>> /\ Call \in WithdrawMsg \cup WithdrawSingleMsg
  BY HandlerOf, RunningCall, CallOf
<1>2. execute_withdraw_pro_rata
  BY HandlerOf DEF execute_single_withdraw
<1>3. /\ withdraw_allowed(Call) /\ \A t \in Token : claims(Call)[t] >= Call.min_assets[t]
      /\ transfers # <<>> /\ Return(msgs)
      /\ liq' = [burn_shares(liq, Call.sender, Call.shares) EXCEPT !.pending = pend]
  BY <1>2 DEF execute_withdraw_pro_rata, Leg
<1>4. /\ msgs \in Seq(Message) /\ 1 \in DOMAIN msgs /\ msgs[1].op = "TransferTo"
      /\ \A i \in DOMAIN msgs :
            \/ msgs[i].op = "TransferTo" /\ msgs[i].to = Call.to
            \/ msgs[i].op = "TransferReply"
      /\ \A t \in Token : claims(Call)[t] # 0 =>
            \E i \in DOMAIN msgs : /\ msgs[i].op = "TransferTo" /\ msgs[i].tok = t
                                   /\ msgs[i].to = Call.to /\ msgs[i].amt = claims(Call)[t]
      /\ \A i, j \in DOMAIN msgs :
            i # j /\ msgs[i].op = "TransferTo" /\ msgs[j].op = "TransferTo" =>
               msgs[i].tok # msgs[j].tok
  BY <1>1, <1>3, ProRataSends
<1>5. liq'.pending.kind = "AuthorizedTransfers"
  <2>1. pend.kind = "AuthorizedTransfers"
    OBVIOUS
  <2> HIDE DEF pend
  <2>2. liq'.pending = pend
    BY <1>3 DEF Typed, LiquidityType, burn_shares
  <2>3. QED
    BY <2>1, <2>2
<1> HIDE DEF pend, msgs, transfers
<1>6. liq \in LiquidityType /\ Call.sender \in Account
  BY <1>1 DEF Typed, WithdrawMsg, WithdrawSingleMsg
<1>7. /\ liq'.shares[Call.sender] = liq.shares[Call.sender] - Call.shares
      /\ liq'.total_supply = liq.total_supply - Call.shares
  BY <1>3, <1>6 DEF LiquidityType, burn_shares
<1>8. \A i \in DOMAIN msgs : SlotPart(msgs[i]) /\ msgs[i].op \in {"TransferTo", "TransferReply"}
  BY <1>4 DEF SlotPart
<1>9. Sent(msgs)
  BY <1>3, <1>4, <1>8, PaymentsSent
<1>10. QED
  BY <1>3, <1>4, <1>5, <1>7, <1>8, <1>9

\* The escrow of a single-token withdrawal.
LEMMA EscrowRuns ==
  ASSUME Typed, TxStep, ~Abort, Call.op = "Withdraw", Call.payout # None
  PROVE  /\ Call \in WithdrawSingleMsg /\ withdraw_allowed(Call)
         /\ liq' = [liq EXCEPT !.pending = liq'.pending]
         /\ Snapshot' = [Snapshot EXCEPT !.liq = liq']
         /\ liq'.pending # None /\ liq'.pending.kind = "WithdrawSingle"
         /\ liq'.pending.owner = Call.sender /\ liq'.pending.shares = Call.shares
         /\ liq'.pending.recipient = Call.to /\ liq'.pending.payout_token = Call.payout
         /\ liq'.pending.min_amount = Call.min_assets[Call.payout]
         /\ liq'.pending.pre_payout_balance = bank[Call.payout][VAULT]
         /\ \E msgs : /\ Sent(msgs) /\ Len(msgs) = 2 /\ DOMAIN msgs = {1, 2}
                      /\ msgs[1].op = "LiquiditySwap" /\ msgs[1].sender = LIQ
                      /\ msgs[2].op = "WithdrawReply" /\ msgs[2].snap = Snapshot'
<1> DEFINE pend == [kind |-> "WithdrawSingle", owner |-> Call.sender,
                    shares |-> Call.shares, recipient |-> Call.to,
                    payout_token |-> Call.payout,
                    base_amount |-> claims(Call)[Call.payout],
                    pre_payout_balance |-> balances[Call.payout],
                    min_amount |-> Call.min_assets[Call.payout],
                    swap |-> Call.swap]
           escrowed == [liq EXCEPT !.pending = pend]
           swap == [op |-> "LiquiditySwap", sender |-> LIQ, params |-> Call.swap]
           reply == [op |-> "WithdrawReply", snap |-> [Snapshot EXCEPT !.liq = escrowed]]
<1>1. execute_single_withdraw
  BY HandlerOf DEF execute_withdraw_pro_rata
<1>2. work # <<>> /\ Call \in WithdrawSingleMsg
  BY <1>1, RunningCall, CallOf DEF execute_single_withdraw, Running, Call, WithdrawMsg
<1>3. /\ single_withdraw_allowed(Call) /\ liq' = escrowed
      /\ Return(<<swap, reply>>) /\ LiqUnchanged
  BY <1>1 DEF execute_single_withdraw
<1>4. withdraw_allowed(Call)
  BY <1>3 DEF single_withdraw_allowed
<1>5. pend \in PendingOperation
  <2>1. claims(Call) \in [{0, 1} -> Nat] /\ Call.shares \in Nat \ {0}
    BY <1>2, <1>4, ClaimsTyped
  <2>2. /\ claims(Call)[Call.payout] \in Nat /\ balances[Call.payout] \in Nat
        /\ Call.min_assets[Call.payout] \in Nat
    BY <1>2, <2>1, BalancesTyped DEF WithdrawSingleMsg, Amounts, Token
  <2>3. QED
    BY <1>2, <2>1, <2>2 DEF WithdrawSingleMsg, PendingOperation, PendingWithdrawSingle
<1>6. /\ pend.kind = "WithdrawSingle" /\ pend.owner = Call.sender /\ pend.shares = Call.shares
      /\ pend.recipient = Call.to /\ pend.payout_token = Call.payout
      /\ pend.min_amount = Call.min_assets[Call.payout]
      /\ pend.pre_payout_balance = bank[Call.payout][VAULT]
  BY <1>2 DEF balances, holdings_of, WithdrawSingleMsg
<1> HIDE DEF pend
<1>7. pend # None
  BY <1>5, NoneAssumption
<1>8. escrowed.pending = pend /\ escrowed \in LiquidityType
  BY <1>5, PendingTyped DEF Typed, LiquidityType
<1> HIDE DEF escrowed
<1>9. liq' = [liq EXCEPT !.pending = liq'.pending]
  BY <1>3, <1>8 DEF escrowed
<1>10. Snapshot' = [Snapshot EXCEPT !.liq = liq']
  BY <1>3 DEF LiqUnchanged, Snapshot
<1>11. [Snapshot EXCEPT !.liq = escrowed] \in SnapshotType
  BY <1>8 DEF Snapshot, SnapshotType, Typed
<1>12. swap \in Message /\ reply \in Message
  BY <1>2, <1>11 DEF Message, WithdrawReplyMsg, WithdrawSingleMsg, ExecuteMsg, VaultCall,
                     LiquiditySwapMsg, Account
<1>13. /\ swap.op = "LiquiditySwap" /\ swap.sender = LIQ
       /\ reply.op = "WithdrawReply" /\ reply.snap = Snapshot'
  BY <1>3, <1>10
<1> HIDE DEF swap, reply
<1>14. SlotPart(swap) /\ SlotPart(reply)
  <2>1. Call.op = "Withdraw" /\ Call.payout # None
    OBVIOUS
  <2>2. QED
    BY <1>13, <2>1 DEF SlotPart
<1>15. Sent(<<swap, reply>>)
  BY <1>3, <1>12, <1>13, <1>14, TwoSent DEF WaitingOps
<1> DEFINE s == <<swap, reply>>
<1>16. Len(s) = 2 /\ DOMAIN s = {1, 2} /\ s[1] = swap /\ s[2] = reply
  OBVIOUS
<1>17. Sent(s)
  BY <1>15
<1> HIDE DEF s
<1>18. \E msgs : /\ Sent(msgs) /\ Len(msgs) = 2 /\ DOMAIN msgs = {1, 2}
                 /\ msgs[1].op = "LiquiditySwap" /\ msgs[1].sender = LIQ
                 /\ msgs[2].op = "WithdrawReply" /\ msgs[2].snap = Snapshot'
  BY <1>13, <1>16, <1>17
<1>19. liq'.pending = pend
  BY <1>3, <1>8
<1>20. QED
  BY <1>2, <1>4, <1>6, <1>7, <1>9, <1>10, <1>18, <1>19

\* The swap of the escrow succeeded.
LEMMA WithdrawReplyRuns ==
  ASSUME Typed, TxStep, ~Abort, Call.op = "WithdrawReply"
  PROVE  /\ liq.pending # None /\ liq.pending \in PendingWithdrawSingle
         /\ liq'.shares[liq.pending.owner] = liq.shares[liq.pending.owner] - liq.pending.shares
         /\ liq'.total_supply = liq.total_supply - liq.pending.shares
         /\ liq'.pending.kind = "AuthorizedTransfers"
         /\ \E msgs : /\ Sent(msgs) /\ DOMAIN msgs = {1, 2}
                      /\ msgs[1].op = "TransferTo" /\ msgs[1].to = liq.pending.recipient
                      /\ msgs[1].tok = liq.pending.payout_token
                      /\ msgs[1].amt \in Nat /\ msgs[1].amt >= liq.pending.min_amount
                      /\ msgs[2].op = "TransferReply"
<1> DEFINE p == liq.pending
           t == [token |-> p.payout_token, amount |-> payout_of(p), recipient |-> p.recipient]
           pend == [kind |-> "AuthorizedTransfers", transfers |-> <<t>>, replies_remaining |-> 1]
           burned == burn_shares(liq, p.owner, p.shares)
<1>1. /\ p # None /\ p.kind = "WithdrawSingle" /\ burnable(liq, p.owner, p.shares)
      /\ balances[p.payout_token] >= p.pre_payout_balance
      /\ payout_of(p) >= p.min_amount
      /\ liq' = [burned EXCEPT !.pending = pend]
      /\ Return(Leg(t))
  BY HandlerOf DEF complete_single_withdraw, Leg
<1>2. p \in PendingWithdrawSingle
  BY <1>1, PendingOfKind
<1>3. payout_of(p) \in Nat
  <2>1. /\ balances[p.payout_token] \in Nat /\ p.pre_payout_balance \in Nat
        /\ p.base_amount \in Nat
    BY <1>2, BalancesTyped DEF PendingWithdrawSingle, Amounts
  <2>2. QED
    BY <1>1, <2>1 DEF payout_of
<1>4. t \in AuthorizedTransfer
  BY <1>2, <1>3 DEF AuthorizedTransfer, PendingWithdrawSingle
<1>5. t.token = p.payout_token /\ t.amount = payout_of(p) /\ t.recipient = p.recipient
  OBVIOUS
<1>6. pend.kind = "AuthorizedTransfers"
  OBVIOUS
<1> HIDE DEF t, pend
<1>7. liq \in LiquidityType /\ p.owner \in Account
  BY <1>2 DEF Typed, PendingWithdrawSingle
<1>8. /\ liq'.shares[p.owner] = liq.shares[p.owner] - p.shares
      /\ liq'.total_supply = liq.total_supply - p.shares
      /\ liq'.pending = pend
  BY <1>1, <1>7 DEF LiquidityType, burn_shares
<1> DEFINE s == Leg(t)
<1>9. /\ s \in Seq(Message) /\ DOMAIN s = {1, 2} /\ s[1].op = "TransferTo"
      /\ s[1].to = p.recipient /\ s[1].tok = p.payout_token /\ s[1].amt = payout_of(p)
      /\ s[2].op = "TransferReply"
  BY <1>4, <1>5, LegMessages
<1> HIDE DEF s
<1>10. \A i \in DOMAIN s : SlotPart(s[i]) /\ s[i].op \in {"TransferTo", "TransferReply"}
  BY <1>9 DEF SlotPart
<1>11. Return(s)
  BY <1>1 DEF s
<1>12. Sent(s)
  BY <1>9, <1>10, <1>11, PaymentsSent
<1>13. QED
  BY <1>1, <1>2, <1>3, <1>6, <1>8, <1>9, <1>12

\* Every handler returns messages of these forms.
LEMMA Returned ==
  ASSUME Typed, TxStep, ~Abort
  PROVE  \E msgs : Sent(msgs)
<1>1. CASE Call.op \notin Returning
  <2>1. Done
    BY <1>1, HandlerFramed DEF Framed
  <2>2. QED
    BY <2>1, NoneSent
<1>2. CASE Call.op \in {"Send", "ProxyReceive", "LiquiditySwap", "TransferTo"}
  BY <1>2, SwapSent
<1>3. CASE Call.op = "Rebalance"
  BY <1>3, RebalanceRuns
<1>4. CASE Call.op = "RebalanceReply"
  BY <1>4, RebalanceReplySent
<1>5. CASE Call.op = "Deposit"
  BY <1>5, DepositSent
<1>6. CASE Call.op = "Withdraw" /\ Call.payout = None
  BY <1>6, ProRataRuns
<1>7. CASE Call.op = "Withdraw" /\ Call.payout # None
  BY <1>7, EscrowRuns
<1>8. CASE Call.op = "WithdrawReply"
  BY <1>8, WithdrawReplyRuns
<1>9. QED
  BY <1>1, <1>2, <1>3, <1>4, <1>5, <1>6, <1>7, <1>8 DEF Returning

\* The messages of calls are no checkpoints.
LEMMA CallIsPlain ==
  ASSUME NEW m \in ExecuteMsg
  PROVE  m \in Message /\ m.op \notin {"Commit", "WithdrawReply"}
BY DEF Message, ExecuteMsg, LiquidityCall, VaultCall, DepositMsg, WithdrawMsg,
       WithdrawSingleMsg, ShareTransferMsg, ShareBurnMsg, MintToMsg, UpdateConfigMsg,
       RebalanceMsg, LiquiditySwapMsg, TransferToMsg, UpdateKeeperMsg, UpdateThresholdsMsg,
       UpdateFeeConfigMsg, MigrateVaultMsg, PlainMsg, MigrateProxyMsg, HandoverMsg,
       TransferMsg

\* A transaction starts with its call and the state to go back to.
LEMMA StartStack ==
  ASSUME Typed, work = <<>>, NEW m \in ExecuteMsg, Submit(m)
  PROVE  /\ Snapshot' = Snapshot
         /\ work' # <<>> /\ Len(work') = 2 /\ DOMAIN work' = {1, 2}
         /\ work'[1] = m /\ Call' = m /\ work'[2].op = "Commit"
         /\ work'[2].snap = Snapshot /\ work'[2].call = m
         /\ Committed' = Snapshot /\ Committed = Snapshot /\ TxCall' = m
         /\ Saved(work') = {Snapshot} /\ Saved(work) = {}
<1> DEFINE c == [op |-> "Commit", snap |-> Snapshot, call |-> m]
<1>1. work' = <<m, c>> /\ UNCHANGED storage
  BY DEF Submit, Running
<1>2. c.op = "Commit" /\ c.snap = Snapshot /\ c.call = m
  OBVIOUS
<1> HIDE DEF c
<1>3. work' # <<>> /\ Len(work') = 2 /\ DOMAIN work' = {1, 2} /\ work'[1] = m /\ work'[2] = c
  BY <1>1
<1>4. Snapshot' = Snapshot
  BY <1>1 DEF storage, Snapshot
<1>5. Call' = m /\ Committed' = Snapshot /\ Committed = Snapshot /\ TxCall' = m
  BY <1>1, <1>2, <1>3 DEF Call, Committed, TxCall, Idle
<1>6. Saved(work') = {Snapshot}
  <2>1. m.op \notin {"Commit", "WithdrawReply"}
    BY CallIsPlain
  <2>2. {j \in DOMAIN work' : work'[j].op \in {"Commit", "WithdrawReply"}} = {2}
    BY <1>2, <1>3, <2>1
  <2>3. QED
    BY <1>2, <1>3, <2>2 DEF Saved
<1>7. Saved(work) = {}
  BY DEF Saved
<1>8. QED
  BY <1>2, <1>3, <1>4, <1>5, <1>6, <1>7

\* The pair's callback runs before the pair goes on.
LEMMA HookStack ==
  ASSUME Typed, work # <<>>, NEW m \in ExecuteMsg, Submit(m)
  PROVE  /\ Call.op = "PairReceive" /\ Snapshot' = Snapshot
         /\ work' \in Seq(Message) /\ work' # <<>> /\ Len(work') = Len(work) + 1
         /\ work'[1] = m /\ Call' = m
         /\ \A i \in DOMAIN work : i + 1 \in DOMAIN work' /\ work'[i + 1] = work[i]
         /\ \A i \in DOMAIN work' : i > 1 => i - 1 \in DOMAIN work /\ work'[i] = work[i - 1]
         /\ Committed' = Committed /\ TxCall' = TxCall
         /\ Saved(work') \subseteq Saved(work)
<1> DEFINE h == <<m>>
<1>1. work' = h \o work /\ UNCHANGED storage /\ Call.op = "PairReceive"
  BY DEF Submit, Running, Call
<1>2. m \in Message /\ m.op \notin {"Commit", "WithdrawReply"}
  BY CallIsPlain
<1>3. h \in Seq(Message) /\ Len(h) = 1 /\ h[1] = m /\ DOMAIN h = {1}
  BY <1>2
<1>4. work \in Seq(Message) /\ DOMAIN work = 1..Len(work) /\ Len(work) \in Nat
  BY DEF Typed
<1> HIDE DEF h
<1>5. /\ DOMAIN work' = 1..(1 + Len(work)) /\ work'[1] = m
      /\ \A i \in DOMAIN work : work'[1 + i] = work[i]
      /\ work' \in Seq(Message) /\ Len(work') = Len(work) + 1
  <2> DEFINE w == work
  <2>0. w \in Seq(Message) /\ DOMAIN w = 1..Len(w) /\ Len(w) \in Nat
    BY <1>4
  <2> HIDE DEF w
  <2>1. /\ DOMAIN (h \o w) = 1..(Len(h) + Len(w))
        /\ \A i \in DOMAIN h : (h \o w)[i] = h[i]
        /\ \A i \in DOMAIN w : (h \o w)[Len(h) + i] = w[i]
    BY <1>3, <2>0, ConcatIndex
  <2>2. work' \in Seq(Message)
    BY SubmitTyped DEF Typed
  <2>3. work' = h \o w /\ Len(w) = Len(work) /\ DOMAIN w = DOMAIN work /\ \A i \in DOMAIN w : w[i] = work[i]
    BY <1>1 DEF w
  <2>4. DOMAIN work' = 1..(1 + Len(w)) /\ Len(work') = Len(w) + 1
    BY <1>3, <2>0, <2>1, <2>2, <2>3
  <2>5. work'[1] = m /\ \A i \in DOMAIN w : work'[1 + i] = w[i]
    BY <1>3, <2>1, <2>3
  <2>6. QED
    BY <2>2, <2>3, <2>4, <2>5
<1>6. work' # <<>> /\ Call' = m
  BY <1>4, <1>5 DEF Call
<1>7. \A i \in DOMAIN work : i + 1 \in DOMAIN work' /\ work'[i + 1] = work[i]
  BY <1>4, <1>5
<1>8. \A i \in DOMAIN work' : i > 1 => i - 1 \in DOMAIN work /\ work'[i] = work[i - 1]
  BY <1>4, <1>5
<1>9. Snapshot' = Snapshot
  BY <1>1 DEF storage, Snapshot
<1>10. Committed' = Committed /\ TxCall' = TxCall
  <2>1. Len(work) \in DOMAIN work /\ work'[Len(work')] = work[Len(work)]
    BY <1>4, <1>5, <1>7
  <2>2. QED
    BY <1>6, <2>1 DEF Committed, TxCall, Idle
<1>11. Saved(work') \subseteq Saved(work)
  <2>1. SUFFICES ASSUME NEW i \in DOMAIN work', work'[i].op \in {"Commit", "WithdrawReply"}
                 PROVE  work'[i].snap \in Saved(work)
    BY DEF Saved
  <2>2. i > 1
    BY <1>2, <1>5, <2>1
  <2>3. i - 1 \in DOMAIN work /\ work'[i] = work[i - 1]
    BY <1>8, <2>2
  <2>4. QED
    BY <2>1, <2>3 DEF Saved
<1>12. QED
  BY <1>1, <1>5, <1>6, <1>7, <1>8, <1>9, <1>10, <1>11

\* The end of a transaction.
LEMMA CommitStack ==
  ASSUME Typed, SnapshotsCovered, Commit
  PROVE  /\ Snapshot' = Snapshot /\ work' = <<>> /\ Len(work) = 1
         /\ Saved(work') = {}
<1>1. work # <<>> /\ Call.op = "Commit" /\ work' = <<>> \o Tail(work) /\ UNCHANGED storage
  BY DEF Commit, Running, Call, Done, Return
<1>2. work \in Seq(Message) /\ 1 \in DOMAIN work /\ work[1] = Call /\ work # <<>>
  BY <1>1 DEF Typed, Call
<1>3. Len(work) = 1
  BY <1>1, <1>2 DEF SnapshotsCovered, SnapshotCovered
<1>4. work' = Tail(work)
  BY <1>2 DEF Commit, Done, Return
<1>5. work' = <<>> /\ Snapshot' = Snapshot
  BY <1>1, <1>2, <1>3, <1>4 DEF storage, Snapshot
<1>6. QED
  BY <1>3, <1>5 DEF Saved

\* A handler sends no checkpoint but that of the escrow.
LEMMA HandlerSaved ==
  ASSUME Typed, SnapshotsCovered, TxStep, ~Abort, Call.op # "Commit"
  PROVE  /\ Saved(work') \subseteq Saved(work) \cup {Snapshot'}
         /\ Call.op # "Withdraw" \/ Call.payout = None => Saved(work') \subseteq Saved(work)
<1>1. PICK msgs : Sent(msgs)
  BY Returned
<1>2. work # <<>> /\ msgs \in Seq(Message) /\ Return(msgs)
      /\ \A i \in DOMAIN msgs : SwapPart(msgs[i]) \/ SlotPart(msgs[i])
  BY <1>1, HandlerOf DEF Sent
<1>3. \A i \in DOMAIN work' :
         \/ i \in DOMAIN msgs /\ work'[i] = msgs[i]
         \/ /\ i - Len(msgs) + 1 \in DOMAIN work /\ i - Len(msgs) + 1 > 1
            /\ work'[i] = work[i - Len(msgs) + 1]
  BY <1>2, ReturnStack
<1>4. \A i \in DOMAIN msgs : msgs[i].op # "Commit"
         /\ (msgs[i].op = "WithdrawReply" =>
                Call.op = "Withdraw" /\ Call.payout # None /\ msgs[i].snap = Snapshot')
  BY <1>2 DEF SwapPart, SlotPart
<1>5. ASSUME NEW i \in DOMAIN work', work'[i].op \in {"Commit", "WithdrawReply"}
      PROVE  \/ work'[i].snap \in Saved(work)
             \/ work'[i].snap = Snapshot' /\ Call.op = "Withdraw" /\ Call.payout # None
  <2>1. CASE i \in DOMAIN msgs /\ work'[i] = msgs[i]
    BY <1>4, <1>5, <2>1
  <2>2. CASE /\ i - Len(msgs) + 1 \in DOMAIN work
             /\ work'[i] = work[i - Len(msgs) + 1]
    BY <1>5, <2>2 DEF Saved
  <2>3. QED
    BY <1>3, <2>1, <2>2
<1>6. QED
  BY <1>5 DEF Saved

\* A failing step goes back to a saved state, and keeps only states saved before.
LEMMA AbortSaved ==
  ASSUME Typed, SnapshotsCovered, Abort
  PROVE  Snapshot' \in Saved(work) /\ Saved(work') \subseteq Saved(work)
<1>1. PICK k \in DOMAIN work :
           /\ k > 1 /\ Snapshot' \in Saved(work)
           /\ \/ work' = <<>>
              \/ /\ work' \in Seq(Message) /\ work' # <<>>
                 /\ work'[1].op = "WithdrawFailed"
                 /\ \A i \in DOMAIN work' : i > 1 =>
                       i + k - 1 \in DOMAIN work /\ work'[i] = work[i + k - 1]
  BY AbortStack
<1>2. CASE work' = <<>>
  BY <1>1, <1>2 DEF Saved
<1>3. CASE /\ work' \in Seq(Message) /\ work' # <<>>
           /\ work'[1].op = "WithdrawFailed"
           /\ \A i \in DOMAIN work' : i > 1 =>
                 i + k - 1 \in DOMAIN work /\ work'[i] = work[i + k - 1]
  <2>1. SUFFICES ASSUME NEW i \in DOMAIN work', work'[i].op \in {"Commit", "WithdrawReply"}
                 PROVE  work'[i].snap \in Saved(work)
    BY <1>1 DEF Saved
  <2>2. i > 1
    BY <1>3, <2>1
  <2>3. QED
    BY <1>3, <2>1, <2>2 DEF Saved
<1>4. QED
  BY <1>1, <1>2, <1>3

-----------------------------------------------------------------------------
(* The CW20 ledger. *)

LEMMA AccountsFinite == IsFiniteSet(Account)
<1> DEFINE A == {Admin, Keeper, Collector, VAULT, LIQ, PROXY, PAIR}
<1>1. IsFiniteSet(Users)
  BY ActorAssumption
<1>2. IsFiniteSet(A)
  <2>1. IsFiniteSet({})
    BY FS_EmptySet
  <2>2. IsFiniteSet({} \cup {Admin})
    BY <2>1, FS_AddElement
  <2>3. IsFiniteSet(({} \cup {Admin}) \cup {Keeper})
    BY <2>2, FS_AddElement
  <2>4. IsFiniteSet((({} \cup {Admin}) \cup {Keeper}) \cup {Collector})
    BY <2>3, FS_AddElement
  <2>5. IsFiniteSet(((({} \cup {Admin}) \cup {Keeper}) \cup {Collector}) \cup {VAULT})
    BY <2>4, FS_AddElement
  <2>6. IsFiniteSet((((({} \cup {Admin}) \cup {Keeper}) \cup {Collector}) \cup {VAULT}) \cup {LIQ})
    BY <2>5, FS_AddElement
  <2>7. IsFiniteSet(((((({} \cup {Admin}) \cup {Keeper}) \cup {Collector}) \cup {VAULT}) \cup {LIQ}) \cup {PROXY})
    BY <2>6, FS_AddElement
  <2>8. IsFiniteSet((((((({} \cup {Admin}) \cup {Keeper}) \cup {Collector}) \cup {VAULT}) \cup {LIQ}) \cup {PROXY}) \cup {PAIR})
    BY <2>7, FS_AddElement
  <2>9. A = (((((({} \cup {Admin}) \cup {Keeper}) \cup {Collector}) \cup {VAULT}) \cup {LIQ}) \cup {PROXY}) \cup {PAIR}
    OBVIOUS
  <2>10. QED
    BY <2>8, <2>9
<1>3. Account = Users \cup A
  BY DEF Account
<1> HIDE DEF A
<1>4. QED
  BY <1>1, <1>2, <1>3, FS_Union

\* The shares of all holders are the supply.
Ledger(l) == SumOver(l.shares, Account) = l.total_supply

LEMMA LedgerMint ==
  ASSUME NEW l \in LiquidityType, Ledger(l), NEW a \in Account, NEW n \in Nat
  PROVE  Ledger(mint_shares(l, a, n))
<1> DEFINE k == mint_shares(l, a, n)
           f == l.shares
           g == k.shares
<1>1. k \in LiquidityType
  BY MintTyped
<1>2. /\ \A x \in Account : f[x] \in Nat
      /\ \A x \in Account : g[x] \in Nat
      /\ l.total_supply \in Nat
  BY <1>1 DEF LiquidityType
<1>3. /\ \A x \in Account \ {a} : g[x] = f[x]
      /\ g[a] = f[a] + n /\ k.total_supply = l.total_supply + n
  BY DEF mint_shares, LiquidityType
<1>4. SumOver(f, Account) = l.total_supply
  BY DEF Ledger
<1> HIDE DEF f, g, k
<1>5. SumOver(g, Account) = SumOver(f, Account) - f[a] + g[a]
  BY <1>2, <1>3, AccountsFinite, SumUpdate
<1>6. f[a] \in Nat
  BY <1>2
<1>7. SumOver(g, Account) = k.total_supply
  BY <1>2, <1>3, <1>4, <1>5, <1>6
<1>8. QED
  BY <1>7 DEF Ledger, g, k

LEMMA LedgerBurn ==
  ASSUME NEW l \in LiquidityType, Ledger(l), NEW a \in Account, NEW n \in Nat, burnable(l, a, n)
  PROVE  Ledger(burn_shares(l, a, n))
<1> DEFINE k == burn_shares(l, a, n)
           f == l.shares
           g == k.shares
<1>1. k \in LiquidityType
  BY BurnTyped
<1>2. /\ \A x \in Account : f[x] \in Nat
      /\ \A x \in Account : g[x] \in Nat
      /\ l.total_supply \in Nat
  BY <1>1 DEF LiquidityType
<1>3. /\ \A x \in Account \ {a} : g[x] = f[x]
      /\ g[a] = f[a] - n /\ k.total_supply = l.total_supply - n
  BY DEF burn_shares, LiquidityType
<1>4. SumOver(f, Account) = l.total_supply
  BY DEF Ledger
<1> HIDE DEF f, g, k
<1>5. SumOver(g, Account) = SumOver(f, Account) - f[a] + g[a]
  BY <1>2, <1>3, AccountsFinite, SumUpdate
<1>6. f[a] \in Nat
  BY <1>2
<1>7. SumOver(g, Account) = k.total_supply
  BY <1>2, <1>3, <1>4, <1>5, <1>6
<1>8. QED
  BY <1>7 DEF Ledger, g, k

LEMMA LedgerMove ==
  ASSUME NEW l \in LiquidityType, Ledger(l), NEW a \in Account, NEW b \in Account, NEW n \in Nat,
         n <= l.shares[a]
  PROVE  Ledger(move_shares(l, a, b, n))
<1> DEFINE k == move_shares(l, a, b, n)
           f == l.shares
           g == k.shares
<1>1. k \in LiquidityType
  BY MoveTyped
<1>2. /\ \A x \in Account : f[x] \in Nat
      /\ \A x \in Account : g[x] \in Nat
      /\ l.total_supply \in Nat
  BY <1>1 DEF LiquidityType
<1>3. /\ \A x \in Account \ {a, b} : g[x] = f[x]
      /\ k.total_supply = l.total_supply
  BY DEF move_shares, LiquidityType
<1>4. a # b => g[a] = f[a] - n /\ g[b] = f[b] + n
  BY DEF move_shares, LiquidityType
<1>5. a = b => g[a] = f[a] - n + n
  BY DEF move_shares, LiquidityType
<1>6. SumOver(f, Account) = l.total_supply
  BY DEF Ledger
<1> HIDE DEF f, g, k
<1>7. f[a] \in Nat /\ f[b] \in Nat
  BY <1>2
<1>8. SumOver(g, Account) = SumOver(f, Account)
  <2>1. CASE a # b
    <3>1. g[a] + g[b] = f[a] + f[b]
      BY <1>4, <1>7, <2>1
    <3>2. QED
      BY <1>2, <1>3, <2>1, <3>1, AccountsFinite, SumMoved
  <2>2. CASE a = b
    <3>1. \A x \in Account : f[x] = g[x]
      BY <1>3, <1>5, <1>7, <2>2
    <3>2. QED
      BY <3>1, AccountsFinite, SumSame
  <2>3. QED
    BY <2>1, <2>2
<1>9. SumOver(g, Account) = k.total_supply
  BY <1>3, <1>6, <1>8
<1>10. QED
  BY <1>9 DEF Ledger, g, k

LEMMA LedgerSame ==
  ASSUME NEW l, NEW k, Ledger(l), k.shares = l.shares, k.total_supply = l.total_supply
  PROVE  Ledger(k)
BY DEF Ledger

LEMMA LedgerHandler ==
  ASSUME Typed, TxStep, ~Abort, Ledger(liq)
  PROVE  Ledger(liq')
<1>1. work # <<>> /\ Call \in Message /\ liq \in LiquidityType
  BY HandlerOf, RunningCall DEF Typed
<1>2. CASE Call.op \notin LedgerOps
  <2>1. liq'.shares = liq.shares /\ liq'.total_supply = liq.total_supply
    BY <1>2, HandlerFramed DEF Framed
  <2>2. QED
    BY <2>1, LedgerSame
<1>3. CASE Call.op = "DepositReply"
  <2> DEFINE p == liq.pending
             a == mint_shares(liq, LIQ, locked_shares(p))
             b == mint_shares(a, p.depositor, deposit_shares(p, balances))
  <2>1. complete_deposit_allowed(p, balances) /\ liq' = [b EXCEPT !.pending = None]
    BY <1>3, HandlerOf DEF complete_deposit
  <2>2. p \in PendingDeposit
    BY <2>1, PendingOfKind DEF complete_deposit_allowed
  <2>3. deposit_shares(p, balances) \in Nat /\ locked_shares(p) \in Nat /\ p.depositor \in Account
    <3>1. balances \in [{0, 1} -> Nat]
      BY BalancesTyped DEF Amounts, Token
    <3>2. \A i \in {0, 1} : balances[i] >= p.pre_balances[i]
      BY <2>1 DEF complete_deposit_allowed, Token
    <3>3. p.depositor \in Account
      BY <2>2 DEF PendingDeposit
    <3>4. QED
      BY <2>2, <3>1, <3>2, <3>3, DepositSharesInNat
  <2>4. a \in LiquidityType /\ Ledger(a)
    BY <1>1, <2>3, MintTyped, LedgerMint DEF Account
  <2> HIDE DEF a
  <2>5. b \in LiquidityType /\ Ledger(b)
    BY <2>3, <2>4, MintTyped, LedgerMint
  <2> HIDE DEF b
  <2>6. liq'.shares = b.shares /\ liq'.total_supply = b.total_supply
    BY <2>1, <2>5 DEF LiquidityType
  <2>7. QED
    BY <2>5, <2>6, LedgerSame
<1>4. CASE Call.op = "Withdraw" /\ Call.payout # None
  <2>1. \E p : liq' = [liq EXCEPT !.pending = p]
    BY <1>4, EscrowRuns
  <2>2. liq'.shares = liq.shares /\ liq'.total_supply = liq.total_supply
    BY <1>1, <2>1 DEF LiquidityType
  <2>3. QED
    BY <2>2, LedgerSame
<1>5. CASE Call.op = "Withdraw" /\ Call.payout = None
  <2> DEFINE b == burn_shares(liq, Call.sender, Call.shares)
  <2>1. burnable(liq, Call.sender, Call.shares) /\ \E p : liq' = [b EXCEPT !.pending = p]
    BY <1>5, HandlerOf DEF execute_withdraw_pro_rata, execute_single_withdraw, withdraw_allowed
  <2>2. Call.sender \in Account /\ Call.shares \in Nat
    BY <1>1, <1>5, CallOf DEF WithdrawMsg, WithdrawSingleMsg
  <2>3. b \in LiquidityType /\ Ledger(b)
    BY <1>1, <2>1, <2>2, BurnTyped, LedgerBurn
  <2> HIDE DEF b
  <2>4. liq'.shares = b.shares /\ liq'.total_supply = b.total_supply
    BY <2>1, <2>3 DEF LiquidityType
  <2>5. QED
    BY <2>3, <2>4, LedgerSame
<1>6. CASE Call.op = "WithdrawReply"
  <2> DEFINE p == liq.pending
             b == burn_shares(liq, p.owner, p.shares)
  <2>1. /\ p # None /\ p.kind = "WithdrawSingle" /\ burnable(liq, p.owner, p.shares)
        /\ \E q : liq' = [b EXCEPT !.pending = q]
    BY <1>6, HandlerOf DEF complete_single_withdraw
  <2>2. p.owner \in Account /\ p.shares \in Nat
    BY <2>1, PendingOfKind DEF PendingWithdrawSingle
  <2>3. b \in LiquidityType /\ Ledger(b)
    BY <1>1, <2>1, <2>2, BurnTyped, LedgerBurn
  <2> HIDE DEF b
  <2>4. liq'.shares = b.shares /\ liq'.total_supply = b.total_supply
    BY <2>1, <2>3 DEF LiquidityType
  <2>5. QED
    BY <2>3, <2>4, LedgerSame
<1>7. CASE Call.op = "MintTo"
  <2>1. liq' = mint_shares(liq, Call.to, Call.amt)
    BY <1>7, HandlerOf DEF execute_mint_to
  <2>2. Call.to \in Account /\ Call.amt \in Nat
    BY <1>1, <1>7, CallOf DEF MintToMsg
  <2>3. QED
    BY <1>1, <2>1, <2>2, LedgerMint
<1>8. CASE Call.op = "Cw20Transfer"
  <2>1. liq' = move_shares(liq, Call.sender, Call.to, Call.amt) /\ Call.amt <= liq.shares[Call.sender]
    BY <1>8, HandlerOf DEF execute_cw20_transfer
  <2>2. Call.sender \in Account /\ Call.to \in Account /\ Call.amt \in Nat
    BY <1>1, <1>8, CallOf DEF ShareTransferMsg
  <2>3. QED
    BY <1>1, <2>1, <2>2, LedgerMove
<1>9. CASE Call.op = "Cw20Burn"
  <2>1. liq' = burn_shares(liq, Call.sender, Call.amt) /\ burnable(liq, Call.sender, Call.amt)
    BY <1>9, HandlerOf DEF execute_cw20_burn
  <2>2. Call.sender \in Account /\ Call.amt \in Nat
    BY <1>1, <1>9, CallOf DEF ShareBurnMsg
  <2>3. QED
    BY <1>1, <2>1, <2>2, LedgerBurn
<1>10. QED
  BY <1>2, <1>3, <1>4, <1>5, <1>6, <1>7, <1>8, <1>9 DEF LedgerOps

\* The state and every state to go back to have a balanced ledger.
LedgerKept == Ledger(liq) /\ \A s \in Saved(work) : Ledger(s.liq)

LEMMA NextKinds ==
  ASSUME Next
  PROVE  \/ \E m \in ExecuteMsg : Submit(m) /\ (work # <<>> => m \in HookCalls)
                /\ m \in LpCalls \cup KeeperCalls \cup AdminCalls \cup HookCalls
         \/ TxStep /\ ~Abort /\ Call.op # "Commit"
         \/ Commit
         \/ Abort
         \/ Environment
<1>1. CASE SubmitCall
  BY <1>1, CallsAssumption DEF SubmitCall, Running
<1>2. CASE TxStep
  <2>1. Call.op = "Commit" => Commit
    BY <1>2, HandlerOf
  <2>2. QED
    BY <1>2, <2>1
<1>3. QED
  BY <1>1, <1>2 DEF Next

LEMMA LedgerStep ==
  ASSUME Typed, SnapshotsCovered, LedgerKept, Next
  PROVE  LedgerKept'
<1> USE DEF LedgerKept
<1>1. ASSUME NEW m \in ExecuteMsg, Submit(m), work = <<>> PROVE LedgerKept'
  <2>1. Snapshot' = Snapshot /\ Saved(work') = {Snapshot}
    BY <1>1, StartStack
  <2>2. liq' = liq /\ Snapshot.liq = liq
    BY <2>1 DEF Snapshot
  <2>3. QED
    BY <2>1, <2>2
<1>2. ASSUME NEW m \in ExecuteMsg, Submit(m), work # <<>> PROVE LedgerKept'
  <2>1. Snapshot' = Snapshot /\ Saved(work') \subseteq Saved(work)
    BY <1>2, HookStack
  <2>2. QED
    BY <2>1 DEF Snapshot
<1>3. ASSUME TxStep, ~Abort, Call.op # "Commit" PROVE LedgerKept'
  <2>1. Ledger(liq')
    BY <1>3, LedgerHandler
  <2>2. Saved(work') \subseteq Saved(work) \cup {Snapshot'} /\ Snapshot'.liq = liq'
    BY <1>3, HandlerSaved DEF Snapshot
  <2>3. QED
    BY <2>1, <2>2
<1>4. ASSUME Commit PROVE LedgerKept'
  <2>1. Snapshot' = Snapshot /\ Saved(work') = {}
    BY <1>4, CommitStack
  <2>2. QED
    BY <2>1 DEF Snapshot
<1>5. ASSUME Abort PROVE LedgerKept'
  <2>1. Snapshot' \in Saved(work) /\ Saved(work') \subseteq Saved(work) /\ Snapshot'.liq = liq'
    BY <1>5, AbortSaved DEF Snapshot
  <2>2. QED
    BY <2>1
<1>6. ASSUME Environment PROVE LedgerKept'
  <2>1. work' = <<>> /\ liq'.shares = liq.shares /\ liq'.total_supply = liq.total_supply
    BY <1>6 DEF Environment, MarketMove, PairMigrated, LiquidityMigrated, Typed, LiquidityType
  <2>2. QED
    BY <2>1, LedgerSame DEF Saved
<1>7. QED
  BY <1>1, <1>2, <1>3, <1>4, <1>5, <1>6, NextKinds

LEMMA LedgerInit == Init => LedgerKept
<1> SUFFICES ASSUME Init PROVE LedgerKept
  OBVIOUS
<1> DEFINE f == [a \in Account |-> 0]
<1>1. liq.shares = f /\ liq.total_supply = 0 /\ work = <<>>
  BY DEF Init, liquidity_instantiate
<1>2. \A a \in Account : f[a] = 0
  OBVIOUS
<1> HIDE DEF f
<1>3. SumOver(f, Account) = 0
  BY <1>2, AccountsFinite, SumZero
<1>4. QED
  BY <1>1, <1>3 DEF LedgerKept, Ledger, Saved

LEMMA AlwaysCovered == Spec => [](Typed /\ RepliesFollowSlots)
<1>1. TypeOK <=> Typed
  BY TypedIsTypeOK
<1>2. QED
  BY <1>1, TypeCorrect, RepliesAlwaysFollow, PTL

\* The CW20 ledger: the shares of all holders are the total supply, whatever
\* was minted, burned, moved, escrowed or undone.
THEOREM LedgerBalanced == Spec => []SharesAccounted
<1>1. Init => LedgerKept
  BY LedgerInit
<1>2. Typed /\ RepliesFollowSlots /\ LedgerKept /\ [Next]_vars => LedgerKept'
  <2> SUFFICES ASSUME Typed, RepliesFollowSlots, LedgerKept, [Next]_vars PROVE LedgerKept'
    OBVIOUS
  <2>1. CASE Next
    BY <2>1, LedgerStep DEF RepliesFollowSlots
  <2>2. CASE UNCHANGED vars
    BY <2>2 DEF vars, storage, LedgerKept, Saved
  <2>3. QED
    BY <2>1, <2>2
<1>3. LedgerKept => SharesAccounted
  BY DEF LedgerKept, Ledger, SumOver, SharesAccounted
<1>4. QED
  BY <1>1, <1>2, <1>3, AlwaysCovered, PTL DEF Spec

-----------------------------------------------------------------------------
(* The messages that wait. *)

\* Who sends what, and where a swap pays.
Honest(m) ==
    /\ m.op = "TransferFrom" => m.from \in External /\ m.to = VAULT
    /\ m.op = "Transfer" => m.from \in External \cup {VAULT}
    /\ m.op = "Send" /\ m.from = PROXY => m.hook.to = VAULT
    /\ m.op = "PairReceive" => m.hook.to = VAULT
    /\ m.op = "Deposit" => m.sender \in External

\* Nothing of a transaction but its call has run yet, or the pair calls.
Fresh ==
    \/ Len(work) = 2 /\ Snapshot = work[2].snap /\ work[2].call = work[1]
    \/ Len(work) > 1 /\ work[2].op = "PairReceive"

\* The liquidity contract's own swap.
LiqSwap(m) == m.op = "LiquiditySwap" /\ m.sender = LIQ

Stacked ==
    /\ \A i \in DOMAIN work : i > 1 => work[i].op \in WaitingOps
    /\ \A i \in DOMAIN work : Honest(work[i])
    /\ \A i \in DOMAIN work : LiqSwap(work[i]) =>
          \A j \in DOMAIN work : j < i => work[j].op = "TransferFrom"
    /\ work # <<>> /\ Call.op \in EntryOps => Fresh

LEMMA CallsHonest ==
  ASSUME NEW m \in LpCalls \cup KeeperCalls \cup AdminCalls \cup HookCalls
  PROVE  /\ Honest(m) /\ m \in ExecuteMsg
         /\ m.op \notin {"TransferFrom", "Send", "ProxyReceive", "PairReceive", "DepositReply",
                         "RebalanceReply", "TransferReply", "WithdrawReply", "WithdrawFailed", "Commit"}
         /\ m.op \in {"LiquiditySwap", "TransferTo", "MintTo", "Deposit", "Withdraw", "Finalize"}
               => m.sender \in External
         /\ m.op = "Transfer" => m.from \in External
<1>1. m \in ExecuteMsg
  BY CallsAssumption
<1>2. m.op \notin {"TransferFrom", "Send", "ProxyReceive", "PairReceive", "DepositReply",
                   "RebalanceReply", "TransferReply", "WithdrawReply", "WithdrawFailed", "Commit"}
  BY <1>1
     DEF ExecuteMsg, LiquidityCall, VaultCall, DepositMsg, WithdrawMsg,
         WithdrawSingleMsg, ShareTransferMsg, ShareBurnMsg, MintToMsg, UpdateConfigMsg,
         RebalanceMsg, LiquiditySwapMsg, TransferToMsg, UpdateKeeperMsg, UpdateThresholdsMsg,
         UpdateFeeConfigMsg, MigrateVaultMsg, PlainMsg, MigrateProxyMsg, HandoverMsg,
         TransferMsg
<1>3. /\ m.op = "Transfer" => m.from \in External
      /\ m.op \notin {"Transfer", "MigrateVault", "MigrateProxy"} => m.sender \in External
  BY CallsAssumption
<1>4. QED
  BY <1>1, <1>2, <1>3 DEF Honest

\* Accounts that call are none of the contracts.
LEMMA ExternalIs == External \subseteq Account /\ VAULT \notin External /\ LIQ \notin External
                    /\ PROXY \notin External
BY ActorAssumption DEF External, Account, VAULT, LIQ, PROXY, PAIR

\* What a handler sends is honest if its call was.
LEMMA SentHonest ==
  ASSUME Honest(Call), NEW m, SwapPart(m) \/ SlotPart(m)
  PROVE  Honest(m) /\ m.op \notin EntryOps
<1>1. CASE SwapPart(m)
  BY <1>1 DEF SwapPart, Honest, EntryOps, VAULT, PROXY
<1>2. CASE SlotPart(m)
  BY <1>2 DEF SlotPart, Honest, EntryOps, VAULT, PROXY
<1>3. QED
  BY <1>1, <1>2

LEMMA StackedHandler ==
  ASSUME Typed, SnapshotsCovered, Stacked, TxStep, ~Abort, Call.op # "Commit"
  PROVE  Stacked'
<1>1. PICK msgs : Sent(msgs)
  BY Returned
<1> DEFINE n == Len(msgs)
<1>2. /\ work # <<>> /\ msgs \in Seq(Message) /\ Return(msgs)
      /\ \A i \in DOMAIN msgs : SwapPart(msgs[i]) \/ SlotPart(msgs[i])
      /\ Ordered(msgs) /\ n \in Nat /\ DOMAIN msgs = 1..n
  BY <1>1, HandlerOf DEF Sent
<1>3. /\ work' \in Seq(Message) /\ work' # <<>>
      /\ \A i \in DOMAIN work' :
            \/ i \in DOMAIN msgs /\ work'[i] = msgs[i]
            \/ /\ i - n + 1 \in DOMAIN work /\ i - n + 1 > 1
               /\ work'[i] = work[i - n + 1]
  BY <1>2, ReturnStack
<1>4. Honest(Call) /\ Call = work[1] /\ 1 \in DOMAIN work
  <2>1. Call = work[1] /\ 1 \in DOMAIN work
    BY <1>2 DEF Typed, Call
  <2>2. QED
    BY <2>1 DEF Stacked
<1>5. \A i \in DOMAIN msgs : Honest(msgs[i]) /\ msgs[i].op \notin EntryOps
  BY <1>2, <1>4, SentHonest
<1> HIDE DEF n
<1>6. \A i \in DOMAIN work' : i \in Nat /\ i >= 1
  BY <1>3
<1>7. \A i \in DOMAIN work' : i > 1 => work'[i].op \in WaitingOps
  BY <1>2, <1>3 DEF Stacked, Ordered
<1>8. \A i \in DOMAIN work' : Honest(work'[i])
  BY <1>3, <1>5 DEF Stacked
<1>9. \A i \in DOMAIN work' : LiqSwap(work'[i]) =>
          \A j \in DOMAIN work' : j < i => work'[j].op = "TransferFrom"
  <2>1. CASE Call.op = "TransferFrom"
    <3>1. Done
      BY <2>1, HandlerFramed DEF Framed, Returning
    <3>2. \A i \in DOMAIN work' : i + 1 \in DOMAIN work /\ work'[i] = work[i + 1]
      BY <1>2, <3>1, DoneStack
    <3>3. SUFFICES ASSUME NEW i \in DOMAIN work', LiqSwap(work'[i]), NEW j \in DOMAIN work', j < i
                   PROVE  work'[j].op = "TransferFrom"
      OBVIOUS
    <3>4. j + 1 < i + 1
      BY <1>6, <3>3
    <3>5. QED
      BY <3>2, <3>3, <3>4 DEF Stacked
  <2>2. CASE Call.op # "TransferFrom"
    <3>1. \A i \in DOMAIN work : i > 1 => ~LiqSwap(work[i])
      BY <1>4, <2>2 DEF Stacked
    <3>2. SUFFICES ASSUME NEW i \in DOMAIN work', LiqSwap(work'[i]), NEW j \in DOMAIN work', j < i
                   PROVE  work'[j].op = "TransferFrom"
      OBVIOUS
    <3>3. i \in DOMAIN msgs /\ work'[i] = msgs[i]
      BY <1>3, <3>1, <3>2
    <3>4. j \in DOMAIN msgs /\ work'[j] = msgs[j]
      <4>1. j <= n
        BY <1>2, <1>6, <3>2, <3>3
      <4>2. ~(j - n + 1 > 1)
        BY <1>2, <1>6, <4>1
      <4>3. QED
        BY <1>3, <4>2
    <3>5. QED
      BY <1>2, <3>2, <3>3, <3>4 DEF Ordered, LiqSwap
  <2>3. QED
    BY <2>1, <2>2
<1>10. Call'.op \notin EntryOps
  <2>1. Call' = work'[1] /\ 1 \in DOMAIN work'
    BY <1>3 DEF Call
  <2>2. WaitingOps \cap EntryOps = {}
    BY DEF WaitingOps, EntryOps
  <2>3. QED
    BY <1>3, <1>5, <2>1, <2>2 DEF Stacked
<1>11. QED
  BY <1>7, <1>8, <1>9, <1>10 DEF Stacked

LEMMA StackedStep ==
  ASSUME Typed, SnapshotsCovered, Stacked, Next
  PROVE  Stacked'
<1>1. ASSUME NEW m \in LpCalls \cup KeeperCalls \cup AdminCalls \cup HookCalls, Submit(m), work = <<>>
      PROVE  Stacked'
  <2>1. Honest(m) /\ m \in ExecuteMsg
    BY CallsHonest
  <2>2. /\ Snapshot' = Snapshot /\ work' # <<>> /\ Len(work') = 2 /\ DOMAIN work' = {1, 2}
        /\ work'[1] = m /\ work'[2].op = "Commit"
        /\ work'[2].snap = Snapshot /\ work'[2].call = m
    BY <1>1, <2>1, StartStack
  <2>3. Fresh'
    BY <2>2 DEF Fresh
  <2>4. \A i \in DOMAIN work' : i > 1 => work'[i].op \in WaitingOps
    BY <2>2 DEF WaitingOps
  <2>5. \A i \in DOMAIN work' : Honest(work'[i])
    BY <2>1, <2>2 DEF Honest
  <2>6. \A i \in DOMAIN work' : LiqSwap(work'[i]) => i = 1
    BY <2>2 DEF LiqSwap
  <2>7. \A j \in DOMAIN work' : ~(j < 1)
    BY <2>2
  <2>8. QED
    BY <2>3, <2>4, <2>5, <2>6, <2>7 DEF Stacked
<1>2. ASSUME NEW m \in LpCalls \cup KeeperCalls \cup AdminCalls \cup HookCalls, Submit(m), work # <<>>
      PROVE  Stacked'
  <2>1. Honest(m) /\ m \in ExecuteMsg /\ m.op \notin {"PairReceive"}
    BY CallsHonest
  <2>2. /\ Call.op = "PairReceive" /\ Snapshot' = Snapshot
        /\ work' \in Seq(Message) /\ work' # <<>> /\ Len(work') = Len(work) + 1
        /\ work'[1] = m
        /\ \A i \in DOMAIN work : i + 1 \in DOMAIN work' /\ work'[i + 1] = work[i]
        /\ \A i \in DOMAIN work' : i > 1 => i - 1 \in DOMAIN work /\ work'[i] = work[i - 1]
    BY <1>2, <2>1, HookStack
  <2>3. Call = work[1] /\ 1 \in DOMAIN work /\ Len(work) \in Nat /\ Len(work) > 0
    BY <1>2 DEF Typed, Call
  <2>4. Fresh'
    <3>1. work'[1 + 1] = work[1] /\ 1 + 1 = 2
      BY <2>2, <2>3
    <3>2. Len(work') > 1
      BY <2>2, <2>3
    <3>3. QED
      BY <2>2, <2>3, <3>1, <3>2 DEF Fresh
  <2>5. \A i \in DOMAIN work : work[i].op \in WaitingOps
    <3>1. \A i \in DOMAIN work : i = 1 \/ i > 1
      BY DEF Typed
    <3>2. work[1].op \in WaitingOps
      BY <2>2, <2>3 DEF WaitingOps
    <3>3. QED
      BY <3>1, <3>2 DEF Stacked
  <2>6. \A i \in DOMAIN work' : i = 1 \/ i > 1
    BY <2>2
  <2>7. \A i \in DOMAIN work' : i > 1 => work'[i].op \in WaitingOps
    BY <2>2, <2>5
  <2>8. \A i \in DOMAIN work' : Honest(work'[i])
    BY <2>1, <2>2, <2>6 DEF Stacked
  <2>9. \A i \in DOMAIN work : ~LiqSwap(work[i])
    <3>1. ~LiqSwap(work[1])
      BY <2>2, <2>3 DEF LiqSwap
    <3>2. \A i \in DOMAIN work : i = 1 \/ 1 < i
      BY DEF Typed
    <3>3. QED
      BY <2>2, <2>3, <3>1, <3>2 DEF Stacked
  <2>10. \A i \in DOMAIN work' : LiqSwap(work'[i]) => i = 1
    BY <2>2, <2>6, <2>9
  <2>11. \A j \in DOMAIN work' : ~(j < 1)
    BY <2>2
  <2>12. QED
    BY <2>4, <2>7, <2>8, <2>10, <2>11 DEF Stacked
<1>3. ASSUME TxStep, ~Abort, Call.op # "Commit" PROVE Stacked'
  BY <1>3, StackedHandler
<1>4. ASSUME work' = <<>> PROVE Stacked'
  BY <1>4 DEF Stacked
<1>5. ASSUME Abort PROVE Stacked'
  <2>1. PICK k \in DOMAIN work :
           /\ k > 1 /\ work[k].op \in {"Commit", "WithdrawReply"}
           /\ \/ work' = <<>>
              \/ /\ work' \in Seq(Message) /\ work' # <<>>
                 /\ Call'.op = "WithdrawFailed" /\ work'[1].op = "WithdrawFailed"
                 /\ \A i \in DOMAIN work' : i > 1 =>
                       i + k - 1 \in DOMAIN work /\ i + k - 1 > k /\ work'[i] = work[i + k - 1]
    BY <1>5, AbortStack
  <2>2. CASE work' = <<>>
    BY <1>4, <2>2
  <2>3. CASE /\ work' \in Seq(Message) /\ work' # <<>>
             /\ Call'.op = "WithdrawFailed" /\ work'[1].op = "WithdrawFailed"
             /\ \A i \in DOMAIN work' : i > 1 =>
                   i + k - 1 \in DOMAIN work /\ i + k - 1 > k /\ work'[i] = work[i + k - 1]
    <3>1. \A i \in DOMAIN work' : i = 1 \/ i > 1
      BY <2>3
    <3>2. \A i \in DOMAIN work' : i > 1 => work'[i].op \in WaitingOps
      <4>1. \A i \in Nat : i + k - 1 > k => i + k - 1 > 1
        BY <2>1 DEF Typed
      <4>2. SUFFICES ASSUME NEW i \in DOMAIN work', i > 1 PROVE work'[i].op \in WaitingOps
        OBVIOUS
      <4>3. i + k - 1 \in DOMAIN work /\ work'[i] = work[i + k - 1] /\ i + k - 1 > 1
        BY <2>3, <4>1, <4>2
      <4>4. QED
        BY <4>3 DEF Stacked
    <3>3. \A i \in DOMAIN work' : Honest(work'[i])
      <4>1. Honest(work'[1])
        BY <2>3 DEF Honest
      <4>2. QED
        BY <2>3, <3>1, <4>1 DEF Stacked
    <3>4. \A i \in DOMAIN work' : ~LiqSwap(work'[i])
      <4>1. \A i \in DOMAIN work : i > k => ~LiqSwap(work[i])
        BY <2>1 DEF Stacked, Typed
      <4>2. ~LiqSwap(work'[1])
        BY <2>3 DEF LiqSwap
      <4>3. QED
        BY <2>3, <3>1, <4>1, <4>2
    <3>5. Call'.op \notin EntryOps
      BY <2>3 DEF EntryOps
    <3>6. QED
      BY <3>2, <3>3, <3>4, <3>5 DEF Stacked
  <2>4. QED
    BY <2>1, <2>2, <2>3
<1>6. Commit => work' = <<>>
  BY CommitStack
<1>7. Environment => work' = <<>>
  BY DEF Environment, MarketMove, PairMigrated, LiquidityMigrated
<1>8. QED
  BY <1>1, <1>2, <1>3, <1>4, <1>5, <1>6, <1>7, NextKinds

-----------------------------------------------------------------------------
(* A vault without liquidity contract stays paused, whatever is undone. *)

UnboundKept == UnboundPaused(vault) /\ \A s \in Saved(work) : UnboundPaused(s.vault)

LEMMA UnboundStep ==
  ASSUME Typed, SnapshotsCovered, UnboundKept, Next
  PROVE  UnboundKept'
<1> USE DEF UnboundKept
<1>1. ASSUME NEW m \in ExecuteMsg, Submit(m), work = <<>> PROVE UnboundKept'
  <2>1. Snapshot' = Snapshot /\ Saved(work') = {Snapshot}
    BY <1>1, StartStack
  <2>2. vault' = vault /\ Snapshot.vault = vault
    BY <2>1 DEF Snapshot
  <2>3. QED
    BY <2>1, <2>2
<1>2. ASSUME NEW m \in ExecuteMsg, Submit(m), work # <<>> PROVE UnboundKept'
  <2>1. Snapshot' = Snapshot /\ Saved(work') \subseteq Saved(work)
    BY <1>2, HookStack
  <2>2. QED
    BY <2>1 DEF Snapshot
<1>3. ASSUME TxStep, ~Abort, Call.op # "Commit" PROVE UnboundKept'
  <2>1. UnboundPaused(vault')
    BY <1>3, HandlerFramed DEF Framed
  <2>2. Saved(work') \subseteq Saved(work) \cup {Snapshot'} /\ Snapshot'.vault = vault'
    BY <1>3, HandlerSaved DEF Snapshot
  <2>3. QED
    BY <2>1, <2>2
<1>4. ASSUME Commit PROVE UnboundKept'
  <2>1. Snapshot' = Snapshot /\ Saved(work') = {}
    BY <1>4, CommitStack
  <2>2. QED
    BY <2>1 DEF Snapshot
<1>5. ASSUME Abort PROVE UnboundKept'
  <2>1. Snapshot' \in Saved(work) /\ Saved(work') \subseteq Saved(work) /\ Snapshot'.vault = vault'
    BY <1>5, AbortSaved DEF Snapshot
  <2>2. QED
    BY <2>1
<1>6. ASSUME Environment PROVE UnboundKept'
  <2>1. work' = <<>> /\ vault' = vault
    BY <1>6 DEF Environment, MarketMove, PairMigrated, LiquidityMigrated
  <2>2. QED
    BY <2>1 DEF Saved
<1>7. QED
  BY <1>1, <1>2, <1>3, <1>4, <1>5, <1>6, NextKinds

-----------------------------------------------------------------------------
(* While a swap runs, a slot is occupied. *)

Swapping == {"Send", "ProxyReceive", "PairReceive"}

Occupied(v, l) ==
    v.pending # None \/ (l.pending # None /\ l.pending.kind \in {"Deposit", "WithdrawSingle"})

\* What may wait in front of a running swap.
Watched(v, m) ==
    /\ m.op # "RebalanceReply"
    /\ m.op \in {"DepositReply", "WithdrawReply", "WithdrawFailed"} => v.pending # None
    /\ m.op = "WithdrawReply" => m.snap.vault.pending # None

SwapsWatched ==
    \A i \in DOMAIN work : work[i].op \in Swapping =>
        Occupied(vault, liq) /\ \A j \in DOMAIN work : j < i => Watched(vault, work[j])

\* An operation with a swap is visible to the vault.
LEMMA OperationVisible ==
  ASSUME Typed, liq.pending # None, liq.pending.kind \in {"Deposit", "WithdrawSingle"}
  PROVE  liquidity_authorization # NoAuthorization
<1>1. NoAuthorization.swap = None /\ NoAuthorization.finalize = FALSE
  BY DEF NoAuthorization
<1>2. CASE liq.pending.kind = "Deposit"
  <2>1. liquidity_authorization =
          [NoAuthorization EXCEPT !.swap = liq.pending.swap, !.finalize = liq.pending.swap = None]
    BY <1>2 DEF liquidity_authorization
  <2>2. /\ liquidity_authorization.swap = liq.pending.swap
        /\ liquidity_authorization.finalize = (liq.pending.swap = None)
    BY <2>1 DEF NoAuthorization
  <2>3. QED
    BY <1>1, <2>2
<1>3. CASE liq.pending.kind = "WithdrawSingle"
  <2>1. liquidity_authorization = [NoAuthorization EXCEPT !.swap = liq.pending.swap]
    BY <1>3 DEF liquidity_authorization
  <2>2. liquidity_authorization.swap = liq.pending.swap
    BY <2>1 DEF NoAuthorization
  <2>3. liq.pending.swap # None
    BY <1>3, PendingOfKind, NoneAssumption DEF PendingWithdrawSingle
  <2>4. QED
    BY <1>1, <2>2, <2>3
<1>4. QED
  BY <1>2, <1>3

\* The liquidity contract's swap belongs to a pending operation.
LEMMA SwapAuthorized ==
  ASSUME Typed, NEW p \in SwapParams, liquidity_authorization.swap = p
  PROVE  /\ liq.pending # None /\ liq.pending.kind \in {"Deposit", "WithdrawSingle"}
         /\ liq.pending.swap = p
<1>1. p # None
  BY NoneAssumption
<1>2. NoAuthorization.swap = None
  BY DEF NoAuthorization
<1>3. liq.pending # None
  BY <1>1, <1>2 DEF liquidity_authorization
<1>4. liq.pending \in PendingOperation
  BY <1>3 DEF Typed, LiquidityType
<1>5. liq.pending.kind \in {"Deposit", "WithdrawSingle", "AuthorizedTransfers"}
  BY <1>4 DEF PendingOperation, PendingDeposit, PendingWithdrawSingle, PendingTransfers
<1>6. CASE liq.pending.kind = "AuthorizedTransfers"
  <2>1. liquidity_authorization = [NoAuthorization EXCEPT !.transfers = liq.pending.transfers]
    BY <1>3, <1>6 DEF liquidity_authorization
  <2>2. liquidity_authorization.swap = None
    BY <2>1 DEF NoAuthorization
  <2>3. QED
    BY <1>1, <2>2
<1>7. CASE liq.pending.kind = "Deposit"
  <2>1. liquidity_authorization =
          [NoAuthorization EXCEPT !.swap = liq.pending.swap, !.finalize = liq.pending.swap = None]
    BY <1>3, <1>7 DEF liquidity_authorization
  <2>2. liquidity_authorization.swap = liq.pending.swap
    BY <2>1 DEF NoAuthorization
  <2>3. QED
    BY <1>3, <1>7, <2>2
<1>8. CASE liq.pending.kind = "WithdrawSingle"
  <2>1. liquidity_authorization = [NoAuthorization EXCEPT !.swap = liq.pending.swap]
    BY <1>3, <1>8 DEF liquidity_authorization
  <2>2. liquidity_authorization.swap = liq.pending.swap
    BY <2>1 DEF NoAuthorization
  <2>3. QED
    BY <1>3, <1>8, <2>2
<1>9. QED
  BY <1>5, <1>6, <1>7, <1>8

\* Handlers that run inside a swap leave a slot occupied.
LEMMA StaysOccupied ==
  ASSUME Typed, TxStep, ~Abort, UnboundPaused(vault), Occupied(vault, liq), Watched(vault, Call)
  PROVE  /\ Occupied(vault', liq') /\ (vault.pending # None => vault'.pending # None)
         /\ Call.op # "Rebalance" /\ (Call.op \in {"Deposit", "Withdraw"} => vault.pending # None)
<1>1. Call.op # "Rebalance"
  <2>1. SUFFICES ASSUME Call.op = "Rebalance" PROVE FALSE
    OBVIOUS
  <2>2. ~vault.paused /\ vault.pending = None /\ ensure_no_liquidity_operation
    BY <2>1, RebalanceRuns
  <2>3. vault.liquidity_contract # None
    BY <2>2 DEF UnboundPaused
  <2>4. liquidity_authorization = NoAuthorization
    BY <2>2, <2>3 DEF ensure_no_liquidity_operation
  <2>5. QED
    BY <2>2, <2>4, OperationVisible DEF Occupied
<1>2. vault'.pending = vault.pending
  BY <1>1, HandlerFramed DEF Framed, Watched
<1>3. Call.op \in {"Deposit", "Withdraw"} => liq.pending = None
  <2>1. Call.op = "Deposit" => liq.pending = None
    BY HandlerOf DEF execute_deposit, deposit_allowed, assert_no_pending
  <2>2. Call.op = "Withdraw" => liq.pending = None
    BY HandlerOf DEF execute_withdraw_pro_rata, execute_single_withdraw, single_withdraw_allowed,
                     withdraw_allowed, assert_no_pending
  <2>3. QED
    BY <2>1, <2>2
<1>4. Call.op = "TransferReply" => liq.pending.kind = "AuthorizedTransfers"
  BY HandlerOf DEF complete_authorized_transfer
<1>5. CASE vault.pending # None
  BY <1>1, <1>2, <1>5 DEF Occupied
<1>6. CASE vault.pending = None
  <2>1. Call.op \notin SlotOps
    BY <1>3, <1>4, <1>6 DEF Occupied, Watched, SlotOps
  <2>2. liq'.pending = liq.pending
    BY <2>1, HandlerFramed DEF Framed
  <2>3. QED
    BY <1>1, <1>2, <1>3, <1>6, <2>2 DEF Occupied
<1>7. QED
  BY <1>5, <1>6

\* A handler starts a swap only with a slot occupied.
LEMMA SwapStarted ==
  ASSUME Typed, TxStep, ~Abort, NEW m, m.op \in Swapping, SwapPart(m) \/ SlotPart(m),
         Call.op \in Swapping => Occupied(vault, liq)
  PROVE  Occupied(vault', liq') /\ Call.op \in {"Send", "ProxyReceive", "LiquiditySwap", "Rebalance"}
<1>1. Call.op \in {"Send", "ProxyReceive", "LiquiditySwap", "Rebalance"}
  BY DEF SwapPart, SlotPart, Swapping
<1>2. CASE Call.op \in {"Send", "ProxyReceive"}
  <2>1. vault'.pending = vault.pending /\ liq'.pending = liq.pending
    BY <1>2, HandlerFramed DEF Framed, SlotOps
  <2>2. QED
    BY <1>2, <2>1 DEF Occupied, Swapping
<1>3. CASE Call.op = "LiquiditySwap"
  <2>1. liquidity_authorization.swap = Call.params
    BY <1>3, HandlerOf DEF execute_liquidity_swap
  <2>2. Call.params \in SwapParams
    BY <1>3, HandlerOf, RunningCall, CallOf DEF LiquiditySwapMsg
  <2>3. liq.pending # None /\ liq.pending.kind \in {"Deposit", "WithdrawSingle"}
    BY <2>1, <2>2, SwapAuthorized
  <2>4. liq'.pending = liq.pending
    BY <1>3, HandlerFramed DEF Framed, SlotOps
  <2>5. QED
    BY <1>3, <2>3, <2>4 DEF Occupied
<1>4. CASE Call.op = "Rebalance"
  BY <1>4, RebalanceRuns DEF Occupied
<1>5. QED
  BY <1>1, <1>2, <1>3, <1>4

LEMMA WatchedHandler ==
  ASSUME Typed, SnapshotsCovered, SwapsWatched, UnboundKept, TxStep, ~Abort, Call.op # "Commit"
  PROVE  SwapsWatched'
<1>1. PICK msgs : Sent(msgs)
  BY Returned
<1> DEFINE n == Len(msgs)
<1>2. /\ work # <<>> /\ msgs \in Seq(Message) /\ Return(msgs)
      /\ \A i \in DOMAIN msgs : SwapPart(msgs[i]) \/ SlotPart(msgs[i])
      /\ Ordered(msgs) /\ n \in Nat /\ DOMAIN msgs = 1..n
  BY <1>1, HandlerOf DEF Sent
<1>3. /\ work' \in Seq(Message) /\ work' # <<>>
      /\ \A i \in DOMAIN work' :
            \/ i \in DOMAIN msgs /\ work'[i] = msgs[i]
            \/ /\ i - n + 1 \in DOMAIN work /\ i - n + 1 > 1
               /\ work'[i] = work[i - n + 1]
  BY <1>2, ReturnStack
<1>4. Call = work[1] /\ 1 \in DOMAIN work
  BY <1>2 DEF Typed, Call
<1> HIDE DEF n
<1>5. \A i \in DOMAIN work' : i \in Nat /\ i >= 1
  BY <1>3
<1>6. Call.op \in Swapping => Occupied(vault, liq)
  BY <1>4 DEF SwapsWatched
<1>7. SUFFICES ASSUME NEW i \in DOMAIN work', work'[i].op \in Swapping
               PROVE  Occupied(vault', liq') /\ \A j \in DOMAIN work' : j < i => Watched(vault', work'[j])
  BY DEF SwapsWatched
<1>8. CASE i \in DOMAIN msgs /\ work'[i] = msgs[i]
  <2>1. Occupied(vault', liq') /\ Call.op \in {"Send", "ProxyReceive", "LiquiditySwap", "Rebalance"}
    BY <1>2, <1>6, <1>7, <1>8, SwapStarted
  <2>2. SUFFICES ASSUME NEW j \in DOMAIN work', j < i PROVE Watched(vault', work'[j])
    BY <2>1
  <2>3. j \in DOMAIN msgs /\ work'[j] = msgs[j]
    <3>1. j <= n
      BY <1>2, <1>5, <1>8, <2>2
    <3>2. ~(j - n + 1 > 1)
      BY <1>2, <1>5, <3>1
    <3>3. QED
      BY <1>3, <3>2
  <2>4. CASE Call.op = "Rebalance"
    <3>1. msgs[i].op = "Send"
      BY <1>2, <1>7, <1>8, <2>4 DEF SwapPart, SlotPart, Swapping
    <3>2. i > 1
      BY <1>5, <2>2
    <3>3. QED
      BY <1>2, <1>8, <3>1, <3>2 DEF Ordered, WaitingOps
  <2>5. CASE Call.op # "Rebalance"
    <3>1. msgs[j].op \in Swapping
      BY <1>2, <2>1, <2>3, <2>5 DEF SwapPart, SlotPart, Swapping
    <3>2. QED
      BY <2>3, <3>1 DEF Watched, Swapping
  <2>6. QED
    BY <2>4, <2>5
<1>9. CASE i - n + 1 \in DOMAIN work /\ i - n + 1 > 1 /\ work'[i] = work[i - n + 1]
  <2>1. work[i - n + 1].op \in Swapping
    BY <1>7, <1>9
  <2>2. Occupied(vault, liq) /\ \A j \in DOMAIN work : j < i - n + 1 => Watched(vault, work[j])
    BY <1>9, <2>1 DEF SwapsWatched
  <2>3. Watched(vault, Call)
    BY <1>4, <1>9, <2>2
  <2>4. UnboundPaused(vault)
    BY DEF UnboundKept
  <2>5. /\ Occupied(vault', liq') /\ (vault.pending # None => vault'.pending # None)
        /\ Call.op # "Rebalance" /\ (Call.op \in {"Deposit", "Withdraw"} => vault.pending # None)
    BY <2>2, <2>3, <2>4, StaysOccupied
  <2>6. SUFFICES ASSUME NEW j \in DOMAIN work', j < i PROVE Watched(vault', work'[j])
    BY <2>5
  <2>7. CASE j \in DOMAIN msgs /\ work'[j] = msgs[j]
    <3>1. SwapPart(msgs[j]) \/ SlotPart(msgs[j])
      BY <1>2, <2>7
    <3>2. msgs[j].op # "RebalanceReply"
      BY <2>5, <3>1 DEF SwapPart, SlotPart
    <3>3. msgs[j].op \in {"DepositReply", "WithdrawReply", "WithdrawFailed"}
            => Call.op \in {"Deposit", "Withdraw"}
      BY <3>1 DEF SwapPart, SlotPart
    <3>4. msgs[j].op = "WithdrawReply" => msgs[j].snap = Snapshot'
      BY <3>1 DEF SwapPart, SlotPart
    <3>5. Snapshot'.vault = vault'
      BY DEF Snapshot
    <3>6. QED
      BY <2>5, <2>7, <3>2, <3>3, <3>4, <3>5 DEF Watched
  <2>8. CASE j - n + 1 \in DOMAIN work /\ work'[j] = work[j - n + 1]
    <3>1. j - n + 1 < i - n + 1
      BY <1>2, <1>5, <2>6
    <3>2. Watched(vault, work[j - n + 1])
      BY <2>2, <2>8, <3>1
    <3>3. QED
      BY <2>5, <2>8, <3>2 DEF Watched
  <2>9. QED
    BY <1>3, <2>7, <2>8
<1>10. QED
  BY <1>3, <1>8, <1>9

LEMMA WatchedStep ==
  ASSUME Typed, SnapshotsCovered, SwapsWatched, UnboundKept, Next
  PROVE  SwapsWatched'
<1>1. ASSUME NEW m \in LpCalls \cup KeeperCalls \cup AdminCalls \cup HookCalls, Submit(m), work = <<>>
      PROVE  SwapsWatched'
  <2>1. m.op \notin Swapping /\ m \in ExecuteMsg
    BY CallsHonest DEF Swapping
  <2>2. DOMAIN work' = {1, 2} /\ work'[1] = m /\ work'[2].op = "Commit"
    BY <1>1, <2>1, StartStack
  <2>3. \A i \in DOMAIN work' : work'[i].op \notin Swapping
    BY <2>1, <2>2 DEF Swapping
  <2>4. QED
    BY <2>3 DEF SwapsWatched
<1>2. ASSUME NEW m \in LpCalls \cup KeeperCalls \cup AdminCalls \cup HookCalls, Submit(m), work # <<>>
      PROVE  SwapsWatched'
  <2>1. /\ m.op \notin Swapping /\ m \in ExecuteMsg
        /\ m.op \notin {"RebalanceReply", "DepositReply", "WithdrawReply", "WithdrawFailed"}
    BY CallsHonest DEF Swapping
  <2>2. /\ Call.op = "PairReceive" /\ Snapshot' = Snapshot /\ work' \in Seq(Message)
        /\ work'[1] = m
        /\ \A i \in DOMAIN work' : i > 1 => i - 1 \in DOMAIN work /\ work'[i] = work[i - 1]
    BY <1>2, <2>1, HookStack
  <2>3. vault' = vault /\ liq' = liq
    BY <2>2 DEF Snapshot
  <2>4. \A i \in DOMAIN work' : i \in Nat /\ (i = 1 \/ i > 1)
    BY <2>2
  <2>5. SUFFICES ASSUME NEW i \in DOMAIN work', work'[i].op \in Swapping
                 PROVE  Occupied(vault, liq) /\ \A j \in DOMAIN work' : j < i => Watched(vault, work'[j])
    BY <2>3 DEF SwapsWatched
  <2>6. i > 1 /\ i - 1 \in DOMAIN work /\ work'[i] = work[i - 1]
    BY <2>1, <2>2, <2>4, <2>5
  <2>7. Occupied(vault, liq) /\ \A j \in DOMAIN work : j < i - 1 => Watched(vault, work[j])
    BY <2>5, <2>6 DEF SwapsWatched
  <2>8. SUFFICES ASSUME NEW j \in DOMAIN work', j < i PROVE Watched(vault, work'[j])
    BY <2>7
  <2>9. CASE j = 1
    BY <2>1, <2>2, <2>9 DEF Watched
  <2>10. CASE j > 1
    <3>1. j - 1 < i - 1 /\ j - 1 \in DOMAIN work /\ work'[j] = work[j - 1]
      BY <2>2, <2>4, <2>8, <2>10
    <3>2. QED
      BY <2>7, <3>1
  <2>11. QED
    BY <2>4, <2>9, <2>10
<1>3. ASSUME TxStep, ~Abort, Call.op # "Commit" PROVE SwapsWatched'
  BY <1>3, WatchedHandler
<1>4. ASSUME work' = <<>> PROVE SwapsWatched'
  BY <1>4 DEF SwapsWatched
<1>5. ASSUME Abort PROVE SwapsWatched'
  <2>1. PICK k \in DOMAIN work :
           /\ k > 1 /\ work[k].op \in {"Commit", "WithdrawReply"} /\ Snapshot' = work[k].snap
           /\ \/ work' = <<>>
              \/ /\ work' \in Seq(Message) /\ work[k].op = "WithdrawReply"
                 /\ work'[1].op = "WithdrawFailed"
                 /\ \A i \in DOMAIN work' : i > 1 =>
                       i + k - 1 \in DOMAIN work /\ i + k - 1 > k /\ work'[i] = work[i + k - 1]
    BY <1>5, AbortStack
  <2>2. CASE work' = <<>>
    BY <1>4, <2>2
  <2>3. CASE /\ work' \in Seq(Message) /\ work[k].op = "WithdrawReply"
             /\ work'[1].op = "WithdrawFailed"
             /\ \A i \in DOMAIN work' : i > 1 =>
                   i + k - 1 \in DOMAIN work /\ i + k - 1 > k /\ work'[i] = work[i + k - 1]
    <3>1. \A i \in DOMAIN work' : i \in Nat /\ (i = 1 \/ i > 1)
      BY <2>3
    <3>2. k \in Nat /\ vault' = work[k].snap.vault
      BY <2>1 DEF Typed, Snapshot
    <3>3. SUFFICES ASSUME NEW i \in DOMAIN work', work'[i].op \in Swapping
                   PROVE  Occupied(vault', liq') /\ \A j \in DOMAIN work' : j < i => Watched(vault', work'[j])
      BY DEF SwapsWatched
    <3>4. i > 1 /\ i + k - 1 \in DOMAIN work /\ i + k - 1 > k /\ work'[i] = work[i + k - 1]
      BY <2>3, <3>1, <3>3 DEF Swapping
    <3>5. \A j \in DOMAIN work : j < i + k - 1 => Watched(vault, work[j])
      BY <3>3, <3>4 DEF SwapsWatched
    <3>6. vault'.pending # None
      <4>1. Watched(vault, work[k])
        BY <2>1, <3>4, <3>5
      <4>2. QED
        BY <2>3, <3>2, <4>1 DEF Watched
    <3>7. SUFFICES ASSUME NEW j \in DOMAIN work', j < i PROVE Watched(vault', work'[j])
      BY <3>6 DEF Occupied
    <3>8. CASE j = 1
      BY <2>3, <3>6, <3>8 DEF Watched
    <3>9. CASE j > 1
      <4>1. j + k - 1 < i + k - 1 /\ j + k - 1 \in DOMAIN work /\ work'[j] = work[j + k - 1]
        BY <2>3, <3>1, <3>2, <3>7, <3>9
      <4>2. Watched(vault, work[j + k - 1])
        BY <3>5, <4>1
      <4>3. QED
        BY <3>6, <4>1, <4>2 DEF Watched
    <3>10. QED
      BY <3>1, <3>8, <3>9
  <2>4. QED
    BY <2>1, <2>2, <2>3
<1>6. Commit => work' = <<>>
  BY CommitStack
<1>7. Environment => work' = <<>>
  BY DEF Environment, MarketMove, PairMigrated, LiquidityMigrated
<1>8. QED
  BY <1>1, <1>2, <1>3, <1>4, <1>5, <1>6, <1>7, NextKinds

-----------------------------------------------------------------------------
(* The invariant the custody proofs start from. *)

Guarded == Typed /\ RepliesFollowSlots /\ Stacked /\ UnboundKept /\ SwapsWatched

LEMMA GuardedInit == Init => Guarded
<1> SUFFICES ASSUME Init PROVE Guarded
  OBVIOUS
<1>1. Typed /\ RepliesFollowSlots
  BY InitTyped, InitSettled
<1>2. work = <<>> /\ vault.liquidity_contract = LIQ
  BY DEF Init, vault_instantiate
<1>3. LIQ # None
  BY NoneAssumption DEF Account
<1>4. UnboundPaused(vault)
  BY <1>2, <1>3 DEF UnboundPaused
<1>5. DOMAIN work = {} /\ Saved(work) = {}
  BY <1>2 DEF Saved
<1>6. Stacked /\ SwapsWatched /\ UnboundKept
  BY <1>2, <1>4, <1>5 DEF Stacked, SwapsWatched, UnboundKept
<1>7. QED
  BY <1>1, <1>6 DEF Guarded

LEMMA GuardedStep == Guarded /\ [Next]_vars => Guarded'
<1> SUFFICES ASSUME Guarded, [Next]_vars PROVE Guarded'
  OBVIOUS
<1>1. Typed /\ RepliesFollowSlots /\ SnapshotsCovered
  BY DEF Guarded, RepliesFollowSlots
<1>2. Typed' /\ RepliesFollowSlots'
  BY <1>1, TypedStep, SettledStep
<1>3. CASE Next
  BY <1>1, <1>2, <1>3, StackedStep, UnboundStep, WatchedStep DEF Guarded
<1>4. CASE UNCHANGED vars
  <2>1. work' = work /\ vault' = vault /\ liq' = liq /\ Snapshot' = Snapshot
    BY <1>4 DEF vars, storage, Snapshot
  <2>2. Stacked'
    BY <2>1 DEF Guarded, Stacked, Fresh, Call
  <2>3. UnboundKept' /\ SwapsWatched'
    BY <2>1 DEF Guarded, UnboundKept, SwapsWatched, Saved
  <2>4. QED
    BY <1>2, <2>2, <2>3 DEF Guarded
<1>5. QED
  BY <1>3, <1>4

LEMMA AlwaysGuarded == Spec => []Guarded
BY GuardedInit, GuardedStep, PTL DEF Spec

=============================================================================
