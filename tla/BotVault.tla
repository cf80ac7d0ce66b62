------------------------------ MODULE BotVault ------------------------------
(***************************************************************************)
(* bot-vault: custody of the two assets, the rebalance trade, the fee on   *)
(* it, and the administrator's switches.                                   *)
(***************************************************************************)
EXTENDS SwapProxy

CONSTANTS
    FeeAnswers      \* effective fees (bps) the fee-registry may answer

ASSUME FeeAnswersAssumption == FeeAnswers \subseteq Nat

\* A query of the fee-registry that failed.
QueryFailed == None

VaultUnchanged == UNCHANGED <<liq, proxy, bank, dex>>

-----------------------------------------------------------------------------
(* Checks. *)

\* Faulty variant (see README, "Mutants"): the code id is not compared.
assert_liquidity_any_code(sender) ==
    /\ vault.liquidity_contract # None
    /\ sender = vault.liquidity_contract

assert_liquidity(sender) ==
    /\ vault.liquidity_contract # None
    /\ sender = vault.liquidity_contract
    /\ liq.code = vault.liquidity_code_id

ensure_no_liquidity_operation ==
    vault.liquidity_contract # None => liquidity_authorization = NoAuthorization

\* Faulty variant (see README, "Mutants"): re-entry is not noticed.
reentrant == TRUE

no_pending_rebalance == vault.pending = None

\* Faulty variant (see README, "Mutants"): the pause is ignored.
never_paused == TRUE

assert_not_paused == ~vault.paused

validate_swap(params) ==
    /\ params.offer_token \in Token
    /\ params.amount # 0
    /\ params.deadline >= NOW
    /\ params.max_spread <= MAX_SPREAD

rebalance_required(price_deviation_bps, allocation_deviation_bps) ==
    \/ price_deviation_bps >= vault.risk.rebalance_threshold_bps
    \/ allocation_deviation_bps > vault.risk.allocation_tolerance_bps

\* Holdings valued at the current TWAP (query_price).
rebalance_status ==
    LET price == dex.twap
        alloc == allocation_deviation(balances, price)
        move  == relative_deviation(price, vault.reference_price)
    IN  [should_rebalance |-> rebalance_required(move, alloc),
         allocation_deviation_bps |-> alloc,
         current_price |-> price]

\* The trade the vault would make; `quote' is the pair's simulated return.
rebalance_plan(quote) ==
    LET status == rebalance_status
        offer  == planned_offer(balances, status.current_price, vault.risk.max_trade_bps)
        fair   == expected_return(offer.amount, offer.index, status.current_price)
    IN  [should_rebalance |-> status.should_rebalance,
         captured_twap |-> status.current_price,
         allocation_deviation_bps |-> status.allocation_deviation_bps,
         offer_index |-> offer.index,
         amount |-> offer.amount,
         min_return |-> Greatest(
            floor_after(fair, vault.risk.max_execution_deviation_bps),
            floor_after(quote, vault.risk.quote_slippage_bps))]

\* Token.Send of the offer to the proxy, with the swap as its hook.
proxy_swap_message(params) ==
    [op |-> "Send", tok |-> params.offer_token, from |-> VAULT,
     to |-> vault.proxy, amt |-> params.amount,
     hook |-> [pair |-> PAIR, min_return |-> params.min_return,
               max_spread |-> params.max_spread, deadline |-> params.deadline]]

-----------------------------------------------------------------------------
(* Entry points of the liquidity contract. *)

execute_liquidity_swap ==
    /\ Running("LiquiditySwap")
    /\ LET allowed == /\ assert_liquidity(Call.sender)
                      /\ assert_not_paused
                      /\ no_pending_rebalance
                      /\ liquidity_authorization.swap = Call.params
                      /\ validate_swap(Call.params)
       IN  \/ allowed /\ Return(<<proxy_swap_message(Call.params)>>) /\ UNCHANGED storage
           \/ ~allowed /\ Abort

\* Faulty variant (see README, "Mutants"): exits gated by the pause.
transfer_allowed_unpaused(m) ==
    /\ ~vault.paused
    /\ assert_liquidity(m.sender)
    /\ no_pending_rebalance
    /\ m.amt # 0
    /\ \E i \in DOMAIN liquidity_authorization.transfers :
         liquidity_authorization.transfers[i] =
            [token |-> m.tok, amount |-> m.amt, recipient |-> m.to]

\* Deliberately not gated by the pause: pro-rata exits stay open.
transfer_allowed(m) ==
    LET granted == liquidity_authorization.transfers
        asked   == [token |-> m.tok, amount |-> m.amt, recipient |-> m.to]
    IN  /\ assert_liquidity(m.sender)
        /\ no_pending_rebalance
        /\ m.tok \in Token
        /\ m.amt # 0
        /\ \E i \in DOMAIN granted : granted[i] = asked

execute_transfer ==
    /\ Running("TransferTo")
    /\ \/ /\ transfer_allowed(Call)
          /\ Return(<<[op |-> "Transfer", tok |-> Call.tok, from |-> VAULT,
                       to |-> Call.to, amt |-> Call.amt]>>)
          /\ UNCHANGED storage
       \/ ~transfer_allowed(Call) /\ Abort

execute_finalize ==
    /\ Running("Finalize")
    /\ LET allowed == /\ assert_liquidity(Call.sender)
                      /\ assert_not_paused
                      /\ no_pending_rebalance
                      /\ liquidity_authorization.finalize
       IN  \/ allowed /\ Done /\ UNCHANGED storage
           \/ ~allowed /\ Abort

-----------------------------------------------------------------------------
(* The keeper. *)

rebalance_allowed(m, plan) ==
    /\ m.sender = vault.keeper
    /\ assert_not_paused
    /\ no_pending_rebalance
    /\ ensure_no_liquidity_operation
    /\ dex.code = vault.pair_code_id
    /\ m.deadline >= NOW
    /\ plan.should_rebalance
    /\ plan.amount # 0
    /\ validate_pool_safety(holdings_of(PAIR), plan.captured_twap,
                            plan.offer_index, plan.amount,
                            vault.risk.max_spot_twap_deviation_bps,
                            vault.risk.max_trade_pool_bps)

\* PENDING_REBALANCE is saved before the swap is dispatched.
execute_rebalance ==
    /\ Running("Rebalance")
    /\ \E quote \in Returns :
         LET plan == rebalance_plan(quote)
         IN  \/ /\ rebalance_allowed(Call, plan)
                /\ vault' = [vault EXCEPT !.pending =
                     [captured_twap |-> plan.captured_twap,
                      balances |-> balances,
                      pre_deviation_bps |-> plan.allocation_deviation_bps,
                      offer_index |-> plan.offer_index,
                      amount |-> plan.amount,
                      min_return |-> plan.min_return]]
                /\ Return(<<proxy_swap_message(
                              [offer_token |-> plan.offer_index,
                               amount |-> plan.amount,
                               min_return |-> plan.min_return,
                               max_spread |-> vault.risk.max_spread,
                               deadline |-> Call.deadline]),
                            [op |-> "RebalanceReply"]>>)
                /\ VaultUnchanged
             \/ ~rebalance_allowed(Call, plan) /\ Abort

\* Faulty variant (see README, "Mutants").
uncapped_fee(answer) == answer

capped_fee(answer) == Least(answer, BPS)

\* Bills the administrator's own tier; an unreachable registry falls back to
\* the last fee seen for that administrator, or to the undiscounted rate.
\* Result: the fee cache after the call and the shares to mint (0 for none).
charge_fee(answer, value_in_token0, pre_fee_nav) ==
    LET user    == vault.admin
        applies == /\ vault.fee_registry
                   /\ vault.fee_collector # None
                   /\ value_in_token0 # 0
                   /\ vault.liquidity_contract # None
        cached  == vault.fee_cache[user]
        fee_bps == CASE answer # QueryFailed -> capped_fee(answer)
                     [] answer = QueryFailed /\ cached # None -> capped_fee(cached)
                     [] OTHER -> UNDISCOUNTED_FEE_BPS
        fee_value == checked_ratio(value_in_token0, fee_bps, BPS)
    IN  IF ~applies
          THEN [cache |-> vault.fee_cache, shares |-> 0]
          ELSE [cache  |-> IF answer = QueryFailed THEN vault.fee_cache
                           ELSE [vault.fee_cache EXCEPT ![user] = fee_bps],
                shares |-> fee_shares_for_value(fee_value, pre_fee_nav, liq.total_supply)]

\* Value of the proceeds in token 0.
proceeds_value(pending, settled) ==
    LET ask == 1 - pending.offer_index
        proceeds == settled[ask] - pending.balances[ask]
    IN  IF ask = 0 THEN proceeds
                   ELSE checked_ratio(proceeds, ONE, pending.captured_twap)

\* A partial rebalance keeps the old reference.
reference_after(pending, deviation) ==
    IF deviation <= vault.risk.allocation_tolerance_bps
      THEN pending.captured_twap ELSE vault.reference_price

\* reply: settles the rebalance once the swap and all it caused succeeded.
complete_rebalance ==
    /\ Running("RebalanceReply")
    /\ LET pending == vault.pending
           settled == balances
           current == allocation_deviation(settled, pending.captured_twap)
           allowed == /\ pending # None
                      /\ validate_settlement(pending, settled)
                      /\ validate_rebalance_outcome(pending.pre_deviation_bps, current,
                                                    vault.risk.allocation_tolerance_bps)
       IN  \/ /\ allowed
              /\ \E answer \in FeeAnswers \cup {QueryFailed} :
                   LET fee == charge_fee(answer, proceeds_value(pending, settled),
                                         nav(settled, pending.captured_twap))
                   IN  /\ vault' = [vault EXCEPT
                             !.pending = None,
                             !.reference_price = reference_after(pending, current),
                             !.fee_cache = fee.cache]
                       /\ Return(IF fee.shares = 0 THEN <<>>
                                 ELSE <<[op |-> "MintTo", sender |-> VAULT,
                                         to |-> vault.fee_collector,
                                         amt |-> fee.shares]>>)
              /\ VaultUnchanged
           \/ ~allowed /\ Abort

\* Adopts the current price when the allocation needs no trade.
execute_sync_reference ==
    /\ Running("SyncReference")
    /\ LET status  == rebalance_status
           allowed == /\ Call.sender = vault.keeper
                      /\ assert_not_paused
                      /\ ensure_no_liquidity_operation
                      /\ status.should_rebalance
                      /\ status.allocation_deviation_bps <= vault.risk.allocation_tolerance_bps
       IN  \/ /\ allowed
              /\ vault' = [vault EXCEPT !.reference_price = status.current_price]
              /\ Done /\ VaultUnchanged
           \/ ~allowed /\ Abort

-----------------------------------------------------------------------------
(* The administrator. *)

execute_set_liquidity ==
    /\ Running("SetLiquidity")
    /\ LET allowed == /\ Call.sender = vault.admin
                      /\ vault.liquidity_contract = None
                      /\ liq.vault = VAULT
                      /\ liq.code = vault.liquidity_code_id
       IN  \/ /\ allowed
              /\ vault' = [vault EXCEPT !.liquidity_contract = LIQ]
              /\ Done /\ VaultUnchanged
           \/ ~allowed /\ Abort

execute_revoke_liquidity ==
    /\ Running("RevokeLiquidity")
    /\ \/ /\ Call.sender = vault.admin
          /\ vault' = [vault EXCEPT !.liquidity_contract = None, !.paused = TRUE]
          /\ Done /\ VaultUnchanged
       \/ Call.sender # vault.admin /\ Abort

execute_pause ==
    /\ Running("Pause")
    /\ LET allowed == Call.sender = vault.admin /\ ~vault.paused
       IN  \/ /\ allowed
              /\ vault' = [vault EXCEPT !.paused = TRUE]
              /\ Done /\ VaultUnchanged
           \/ ~allowed /\ Abort

execute_resume ==
    /\ Running("Resume")
    /\ LET allowed == /\ Call.sender = vault.admin
                      /\ vault.paused
                      /\ vault.liquidity_contract # None
                      /\ liq.code = vault.liquidity_code_id
       IN  \/ /\ allowed
              /\ vault' = [vault EXCEPT !.paused = FALSE]
              /\ Done /\ VaultUnchanged
           \/ ~allowed /\ Abort

execute_update_keeper ==
    /\ Running("UpdateKeeper")
    /\ \/ /\ Call.sender = vault.admin
          /\ vault' = [vault EXCEPT !.keeper = Call.keeper]
          /\ Done /\ VaultUnchanged
       \/ Call.sender # vault.admin /\ Abort

\* A new TWAP window reads the price over that window, which becomes both the
\* price and the reference.
execute_update_thresholds ==
    /\ Running("UpdateThresholds")
    /\ LET allowed == Call.sender = vault.admin /\ validate_risk_controls(Call.risk)
       IN  \/ /\ allowed /\ ~Call.new_window
              /\ vault' = [vault EXCEPT !.risk = Call.risk]
              /\ Done /\ VaultUnchanged
           \/ /\ allowed /\ Call.new_window
              /\ \E m \in Markets :
                   /\ vault' = [vault EXCEPT !.risk = Call.risk,
                                             !.reference_price = m.twap]
                   /\ dex' = [dex EXCEPT !.twap = m.twap]
              /\ Done /\ UNCHANGED <<liq, proxy, bank>>
           \/ ~allowed /\ Abort

execute_update_fee_config ==
    /\ Running("UpdateFeeConfig")
    /\ \/ /\ Call.sender = vault.admin
          /\ vault' = [vault EXCEPT !.fee_registry = Call.registry,
                                    !.fee_collector = Call.collector]
          /\ Done /\ VaultUnchanged
       \/ Call.sender # vault.admin /\ Abort

vault_admin ==
    /\ Running("VaultAdmin")
    /\ \/ /\ admin_handover_allowed(vault, Call)
          /\ vault' = admin_handover(vault, Call)
          /\ Done /\ VaultUnchanged
       \/ ~admin_handover_allowed(vault, Call) /\ Abort

\* Migration drops the liquidity binding and pauses until an explicit rebind.
vault_migrate ==
    /\ Running("MigrateVault")
    /\ LET allowed == Call.liquidity_code_id # 0 /\ no_pending_rebalance
       IN  \/ /\ allowed
              /\ vault' = [vault EXCEPT !.liquidity_contract = None,
                                        !.liquidity_code_id = Call.liquidity_code_id,
                                        !.paused = TRUE,
                                        !.pending_admin = None]
              /\ Done /\ VaultUnchanged
           \/ ~allowed /\ Abort

BotVaultStep ==
    \/ execute_liquidity_swap \/ execute_transfer \/ execute_finalize
    \/ execute_rebalance \/ complete_rebalance \/ execute_sync_reference
    \/ execute_set_liquidity \/ execute_revoke_liquidity
    \/ execute_pause \/ execute_resume \/ execute_update_keeper
    \/ execute_update_thresholds \/ execute_update_fee_config
    \/ vault_admin \/ vault_migrate

=============================================================================
