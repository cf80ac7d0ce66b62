------------------------------ MODULE LimitGrid ------------------------------
(***************************************************************************)
(* The limit-grid system: the manager that creates vaults, the first of    *)
(* those vaults followed through its life, the pair its orders rest on and *)
(* the accounts that call.                                                 *)
(***************************************************************************)
EXTENDS GridManager

CONSTANT InitialBank      \* token -> account -> balance

ASSUME BankAssumption == InitialBank \in [Token -> [Account -> Nat]]

vars == <<vault, market, events, manager, registry>>

Init == ManagerInit /\ VaultInit /\ PairInit /\ bank = InitialBank

-----------------------------------------------------------------------------
(* Manager and vault share nothing once the vault is instantiated.  Bound: *)
(* both are governed before the followed vault has its bot, and the bot is *)
(* created in a vault nobody has reconfigured; of the administrator's      *)
(* calls those are counted that do not end what another one began.         *)

Deploying == bot = None

Untouched ==
    /\ instances = <<config>>
    /\ manager.admin = config.admin /\ manager.pending_admin = None
    /\ manager.template.keeper = config.keeper /\ manager.template.fees = config.fees

ManagerFrame ==
    UNCHANGED <<mode, policy, bot, orders, cancelled, shares, fee_cache, market>>

CreateVault(u) == Deploying /\ execute_create_vault(u) /\ ManagerFrame /\ UNCHANGED events
UpdateConfig(k, code, fees) == Deploying /\ Event /\ execute_update_config(k, code, fees) /\ ManagerFrame
ManagerTransferAdmin(a) == Deploying /\ Event /\ manager_transfer_admin(a) /\ ManagerFrame
ManagerAcceptAdmin == Deploying /\ manager_accept_admin /\ ManagerFrame /\ UNCHANGED events

ManagerNext ==
    \/ \E u \in Users : CreateVault(u)
    \/ \E k \in Keepers, code \in VaultCodes, fees \in BOOLEAN : UpdateConfig(k, code, fees)
    \/ \E a \in Admins : ManagerTransferAdmin(a)
    \/ ManagerAcceptAdmin

VaultFrame   == UNCHANGED <<events, manager, registry>>
CountedFrame == Event /\ UNCHANGED <<manager, registry>>

UpdateKeeper(k)      == Deploying /\ execute_update_keeper(k) /\ CountedFrame
TransferAdmin(a)     == Deploying /\ execute_transfer_admin(a) /\ CountedFrame
AcceptAdmin          == Deploying /\ execute_accept_admin /\ VaultFrame
AddAllowed(t)        == Deploying /\ execute_add_allowed_token(t) /\ CountedFrame
RemoveAllowed(t)     == Deploying /\ execute_remove_allowed_token(t) /\ CountedFrame
Quarantine(t)        == execute_quarantine_token(t) /\ CountedFrame
Unquarantine(t)      == execute_unquarantine_token(t) /\ VaultFrame
UpdatePairCode(c)    == execute_update_pair_code(c) /\ CountedFrame
Pause                == execute_pause /\ CountedFrame
Resume               == execute_resume /\ VaultFrame

AdminNext ==
    \/ \E k \in Keepers : UpdateKeeper(k)
    \/ \E a \in Admins : TransferAdmin(a)
    \/ AcceptAdmin
    \/ \E t \in Token : AddAllowed(t)
    \/ \E t \in Token : RemoveAllowed(t)
    \/ \E t \in Token : Quarantine(t)
    \/ \E t \in Token : Unquarantine(t)
    \/ \E c \in PairCodes : UpdatePairCode(c)
    \/ Pause
    \/ Resume

CreateBot(grid, reserves, gas) ==
    Untouched /\ execute_create_bot(grid, reserves, gas) /\ VaultFrame
Receive(t, amount, cut)   == execute_receive(t, amount, cut) /\ VaultFrame
Allocate(cut)             == execute_allocate(cut) /\ VaultFrame
RecoverOrder(o, index)    == execute_recover_order(o, index) /\ VaultFrame
CancelAll                 == execute_cancel_all /\ VaultFrame
SyncBalances              == execute_sync_balances /\ VaultFrame
Withdraw(burned)          == execute_withdraw(burned) /\ VaultFrame
WithdrawGas(amount)       == execute_withdraw_gas(amount) /\ CountedFrame
EnterExit                 == execute_enter_exit /\ VaultFrame
EmergencyCancel           == execute_emergency_cancel /\ VaultFrame
EmergencyWithdraw         == execute_emergency_withdraw /\ VaultFrame

OwnerNext ==
    \/ \E grid \in Grids, reserves \in Pools, gas \in GasAmounts : CreateBot(grid, reserves, gas)
    \/ \E t \in Token, amount \in DepositAmounts, cut \in MakerFees : Receive(t, amount, cut)
    \/ \E cut \in MakerFees : Allocate(cut)
    \/ \E o \in DOMAIN book : \E index \in 0..(MAX_GRID_COUNT - 1) : RecoverOrder(o, index)
    \/ CancelAll
    \/ SyncBalances
    \/ \E burned \in ShareAmounts : Withdraw(burned)
    \/ \E amount \in GasAmounts : WithdrawGas(amount)
    \/ EnterExit
    \/ EmergencyCancel
    \/ EmergencyWithdraw

Reconcile(ids, sender, answer) ==
    execute_reconcile(ids, sender, answer, FALSE) /\ VaultFrame

\* The same while the pair's order query fails.
ReconcileBlind(ids, sender, answer) ==
    execute_reconcile(ids, sender, answer, TRUE) /\ CountedFrame

RedeemShares    == execute_redeem_shares /\ VaultFrame
FundGas(amount) == execute_fund_gas(amount) /\ VaultFrame

\* The registry may be asked only when fees are configured.
AnswersNow == IF config # None /\ config.fees THEN FeeAnswers \cup {None} ELSE {None}
SendersNow == IF config # None THEN {config.keeper, OTHERS} ELSE {}

OthersNext ==
    \/ \E ids \in SUBSET DOMAIN orders, sender \in SendersNow, answer \in AnswersNow :
          Reconcile(ids, sender, answer) \/ ReconcileBlind(ids, sender, answer)
    \/ RedeemShares
    \/ \E amount \in GasAmounts : FundGas(amount)

MarketNext == PairNext /\ UNCHANGED <<vault, manager, registry>>

Next == ManagerNext \/ AdminNext \/ OwnerNext \/ OthersNext \/ MarketNext

Spec == Init /\ [][Next]_vars

-----------------------------------------------------------------------------
(* Types. *)

ConfigType == [owner : Users, admin : Admins, pending_admin : Admins \cup {None},
               keeper : Keepers, fees : BOOLEAN]

BotType == [pair_code_id : PairCodes, lower_price : Nat, upper_price : Nat,
            grid_count : Nat \ {0, 1}, reference_price : Nat \ {0},
            free_balances : [Token -> Nat], total_shares : Nat, gas_credit : Nat,
            active_orders : Nat, pair_batch_limit : Nat]

OrderType   == [rung_index : Nat, token : Token, price : Nat \ {0}, remaining : Nat]
RestingType == [token : Token, price : Nat \ {0}, left : Nat \ {0}, parked : BOOLEAN]

\* Nothing that is there is absent.
ASSUME NoneAssumption == None \notin ConfigType /\ None \notin BotType

OrderIds == 1..(next_order_id - 1)

TypeOK ==
    /\ manager \in [admin : Admins, pending_admin : Admins \cup {None}, template : Template]
    /\ config # None => config \in ConfigType
    /\ mode \in {"Active", "Paused", "Exit"}
    /\ policy \in [enabled : BOOLEAN, allowed : SUBSET Token, quarantined : SUBSET Token]
    /\ bot # None => bot \in BotType /\ config # None
    /\ orders \in [DOMAIN orders -> OrderType] /\ DOMAIN orders \subseteq OrderIds
    /\ book \in [DOMAIN book -> RestingType] /\ DOMAIN book \subseteq OrderIds
    /\ cancelled \subseteq OrderIds
    /\ next_order_id \in Nat \ {0}
    /\ shares \in [Users \cup {Collector} -> Nat]
    /\ pair \in [code_id : PairCodes, batch_limit : BatchLimits]
    /\ bank \in [Token -> [Account -> Nat]]
    /\ events \in Nat

-----------------------------------------------------------------------------
(* Accounting. *)

Tracked == DOMAIN orders
Resting == DOMAIN book

\* The shares of owner and collector are all the shares there are, through
\* deposits, fees, partial exits and the emergency exit.
SharesAccounted ==
    bot # None => bot.total_shares = shares[config.owner] + shares[Collector]

\* What the vault counts as free it holds: whatever page, placement or exit
\* went through or failed, free balances never exceed the custody.
FreeInCustody ==
    bot # None => \A t \in Token : bot.free_balances[t] <= bank[t][GRID]

\* The count that guards withdrawals and new orders is the number of orders
\* the vault tracks, also after refused placements and half-failed pages.
OrdersCounted == bot # None => bot.active_orders = Cardinality(Tracked)

\* No escrow is lost: an order the pair holds for the vault is tracked, or
\* recover_order takes it back (it was never recorded as cancelled and a rung
\* of its side and price exists).
EscrowReachable ==
    \A o \in Resting :
       \/ o \in Tracked
       \/ /\ o \notin cancelled
          /\ \E r \in side_rungs(book[o].token) : rung_price(r) = book[o].price

\* An order leaves the vault's books only when the pair holds it no more; the
\* one exception is a reconciliation in which the pair's order query fails,
\* and that one does not lose a parked refund.
TrackedUntilGone ==
    [][\A o \in (Tracked \ DOMAIN orders') \cap DOMAIN book' :
          events' # events /\ ~book[o].parked]_vars

\* While anybody has shares the keeper's minimum reserve is there.
ReserveBehindShares ==
    bot # None /\ bot.total_shares > 0 => bot.gas_credit >= MINIMUM_GAS_RESERVE

-----------------------------------------------------------------------------
(* Exits and fees. *)

\* An exit pays no more than the burned part of what the vault really holds,
\* so what is left per remaining share does not fall.
NobodyOverpaid ==
    [][bot # None /\ bot' # None /\ bot'.total_shares < bot.total_shares
         => \A t \in Token :
              bank'[t][GRID] * bot.total_shares >= bank[t][GRID] * bot'.total_shares]_vars

\* Custody and live escrow at reference value.
true_value ==
    nav([t \in Token |-> bank[t][GRID]
            + sum_of([o \in DOMAIN book |-> book[o].left],
                     {o \in DOMAIN book : book[o].token = t})], bot.reference_price)

\* The shares a reconciliation mints for the collector are worth at most the
\* fee on what it credited, as long as the vault has not forgotten an order
\* the pair still holds.
FeeNeverOverclaims ==
    [][LET minted   == shares'[Collector] - shares[Collector]
           credited == [t \in Token |-> bank[t][GRID] - bot.free_balances[t]]
           bps      == IF fee_cache' = None THEN UNDISCOUNTED_FEE_BPS ELSE fee_cache'
       IN  bot # None /\ minted > 0 /\ DOMAIN book' \subseteq DOMAIN orders'
             => minted * true_value
                  <= (bot.total_shares + minted)
                        * ((nav(credited, bot.reference_price) * bps) \div BPS)]_vars

\* After enter_exit the owner needs nobody: with the pinned pair code and no
\* executed order among the tracked ones, an owner with shares may cancel or
\* leave, whatever was filled, expired, reported or donated before.
ExitOpenUnlessExecuted ==
    /\ bot # None /\ mode = "Exit"
    /\ assert_pair_code
    /\ Tracked \subseteq Resting
    /\ shares[config.owner] > 0
    => emergency_withdraw_accepted \/ (Tracked # {} /\ emergency_cancel_accepted)

\* docs/GRID_MANAGER_PROTOCOL.md: exit is irreversible and keeps the owner's
\* recovery path available while normal maintenance is disabled.
ExitKeepsRecovery ==
    /\ bot # None /\ mode = "Exit"
    /\ assert_pair_code
    /\ shares[config.owner] > 0
    => emergency_withdraw_accepted \/ (Tracked # {} /\ emergency_cancel_accepted)
=============================================================================
