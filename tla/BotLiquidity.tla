---------------------------- MODULE BotLiquidity ----------------------------
(***************************************************************************)
(* bot-liquidity: the CW20 share token of one vault and the controller of  *)
(* deposits and withdrawals.  At most one operation is pending; it is also *)
(* the authorization the vault checks.                                     *)
(***************************************************************************)
EXTENDS BotVault

LiqUnchanged == UNCHANGED <<vault, proxy, bank, dex>>

assert_no_pending == liq.pending = None

\* Faulty variant (see README, "Mutants"): the total supply is forgotten.
mint_without_supply(l, account, amount) == [l EXCEPT !.shares[account] = @ + amount]

\* cw20-base Mint, Burn and Transfer on the share ledger.
mint_shares(l, account, amount) ==
    [l EXCEPT !.shares[account] = @ + amount, !.total_supply = @ + amount]
burnable(l, account, amount) == amount <= l.shares[account] /\ amount <= l.total_supply
burn_shares(l, account, amount) ==
    [l EXCEPT !.shares[account] = @ - amount, !.total_supply = @ - amount]
move_shares(l, from, to, amount) ==
    LET paid == [l EXCEPT !.shares[from] = @ - amount]
    IN  [paid EXCEPT !.shares[to] = @ + amount]

vault_transfer(transfer) ==
    [op |-> "TransferTo", sender |-> LIQ, tok |-> transfer.token,
     amt |-> transfer.amount, to |-> transfer.recipient]

-----------------------------------------------------------------------------
(* Deposits. *)

\* Faulty variant (see README, "Mutants"): the swap is not limited to the deposit.
unlimited_deposit_swap(m) ==
    m.swap # None => m.swap.amount # 0 /\ m.swap.deadline <= m.deadline

\* A swap may only spend what this deposit brings.
deposit_swap_allowed(m) ==
    m.swap # None =>
        /\ m.swap.offer_token \in Token
        /\ m.swap.amount # 0
        /\ m.swap.amount <= m.amounts[m.swap.offer_token]
        /\ m.swap.deadline <= m.deadline

deposit_allowed(m) ==
    /\ assert_no_pending
    /\ m.amounts[0] # 0 \/ m.amounts[1] # 0
    /\ m.deadline >= NOW
    /\ deposit_swap_allowed(m)

\* Transfers user -> vault, then the vault's swap or finalize, then the reply.
deposit_messages(m) ==
    LET pull(i) == IF m.amounts[i] = 0 THEN <<>>
                   ELSE <<[op |-> "TransferFrom", tok |-> i, from |-> m.sender,
                           to |-> liq.vault, amt |-> m.amounts[i]]>>
        finish == IF m.swap = None
                    THEN [op |-> "Finalize", sender |-> LIQ]
                    ELSE [op |-> "LiquiditySwap", sender |-> LIQ, params |-> m.swap]
    IN  pull(0) \o pull(1) \o <<finish, [op |-> "DepositReply"]>>

execute_deposit ==
    /\ Running("Deposit")
    /\ \/ /\ deposit_allowed(Call)
          /\ liq' = [liq EXCEPT !.pending =
               [kind |-> "Deposit", depositor |-> Call.sender,
                pre_balances |-> balances, pre_supply |-> liq.total_supply,
                price |-> dex.twap, min_shares |-> Call.min_shares,
                swap |-> Call.swap]]
          /\ Return(deposit_messages(Call))
          /\ LiqUnchanged
       \/ ~deposit_allowed(Call) /\ Abort

\* Shares of the first deposit (the rest is locked in the contract), or the
\* proportional contribution to an established vault; 0 stands for the
\* code's refusals.
deposit_shares(pending, post) ==
    LET deposit_value == nav(post, pending.price) - nav(pending.pre_balances, pending.price)
    IN  IF pending.pre_supply = 0
          THEN IF \/ deposit_value < liq.minimum_initial_deposit
                  \/ deposit_value <= LOCKED_INITIAL_SHARES
                 THEN 0
                 ELSE deposit_value - LOCKED_INITIAL_SHARES
          ELSE IF pending.pre_balances[0] = 0 \/ pending.pre_balances[1] = 0
                 THEN 0
                 ELSE proportional_deposit_shares(pending.pre_balances, post, pending.pre_supply)

\* Donations that preceded the first deposit back permanently locked shares.
locked_shares(pending) ==
    IF pending.pre_supply = 0
      THEN nav(pending.pre_balances, pending.price) + LOCKED_INITIAL_SHARES
      ELSE 0

complete_deposit_allowed(pending, post) ==
    /\ pending # None /\ pending.kind = "Deposit"
    /\ \A i \in Token : post[i] >= pending.pre_balances[i]
    /\ rebalance_status.allocation_deviation_bps <= vault.risk.allocation_tolerance_bps
    /\ deposit_shares(pending, post) # 0
    /\ deposit_shares(pending, post) >= pending.min_shares

complete_deposit ==
    /\ Running("DepositReply")
    /\ LET p == liq.pending
       IN  \/ /\ complete_deposit_allowed(p, balances)
              /\ liq' = [mint_shares(mint_shares(liq, LIQ, locked_shares(p)),
                                     p.depositor, deposit_shares(p, balances))
                         EXCEPT !.pending = None]
              /\ Done /\ LiqUnchanged
           \/ ~complete_deposit_allowed(p, balances) /\ Abort

-----------------------------------------------------------------------------
(* Withdrawals. *)

withdraw_allowed(m) ==
    /\ assert_no_pending
    /\ m.shares # 0
    /\ m.deadline >= NOW
    /\ burnable(liq, m.sender, m.shares)

claims(m) == withdrawal_claims(balances, m.shares, liq.total_supply)

\* The nonzero claims, in token order.
pro_rata_transfers(m) ==
    LET pay(i) == IF claims(m)[i] = 0 THEN <<>>
                  ELSE <<[token |-> i, amount |-> claims(m)[i], recipient |-> m.to]>>
    IN  pay(0) \o pay(1)

execute_withdraw_pro_rata ==
    /\ Running("Withdraw") /\ Call.payout = None
    /\ LET allowed == /\ withdraw_allowed(Call)
                      /\ \A i \in Token : claims(Call)[i] >= Call.min_assets[i]
                      /\ pro_rata_transfers(Call) # <<>>
       IN  \/ /\ allowed
              /\ LET transfers == pro_rata_transfers(Call)
                     leg(i) == <<vault_transfer(transfers[i]), [op |-> "TransferReply"]>>
                 IN  /\ liq' = [burn_shares(liq, Call.sender, Call.shares)
                               EXCEPT !.pending =
                                 [kind |-> "AuthorizedTransfers", transfers |-> transfers,
                                  replies_remaining |-> Len(transfers)]]
                     /\ Return(IF Len(transfers) = 1 THEN leg(1) ELSE leg(1) \o leg(2))
              /\ LiqUnchanged
           \/ ~allowed /\ Abort

\* Escrow: nothing is burned until the swap of the unwanted claim succeeded.
single_withdraw_allowed(m) ==
    LET unwanted == 1 - m.payout
    IN  /\ withdraw_allowed(m)
        /\ m.swap.offer_token = unwanted
        /\ m.swap.amount = claims(m)[unwanted]
        /\ m.swap.amount # 0
        /\ m.swap.deadline <= m.deadline

execute_single_withdraw ==
    /\ Running("Withdraw") /\ Call.payout # None
    /\ \/ /\ single_withdraw_allowed(Call)
          /\ LET escrowed == [liq EXCEPT !.pending =
                   [kind |-> "WithdrawSingle", owner |-> Call.sender,
                    shares |-> Call.shares, recipient |-> Call.to,
                    payout_token |-> Call.payout,
                    base_amount |-> claims(Call)[Call.payout],
                    pre_payout_balance |-> balances[Call.payout],
                    min_amount |-> Call.min_assets[Call.payout],
                    swap |-> Call.swap]]
             IN  /\ liq' = escrowed
                 /\ Return(<<[op |-> "LiquiditySwap", sender |-> LIQ, params |-> Call.swap],
                             [op |-> "WithdrawReply",
                              snap |-> [Snapshot EXCEPT !.liq = escrowed]]>>)
          /\ LiqUnchanged
       \/ ~single_withdraw_allowed(Call) /\ Abort

\* Faulty variant (see README, "Mutants"): the pending operation survives.
fail_keeping_pending ==
    Running("WithdrawFailed") /\ Done /\ UNCHANGED storage

\* Faulty variant (see README, "Mutants"): the shares are gone although nothing was paid.
fail_burning_shares ==
    /\ Running("WithdrawFailed")
    /\ liq' = [burn_shares(liq, liq.pending.owner, liq.pending.shares)
                EXCEPT !.pending = None]
    /\ Done /\ LiqUnchanged

\* The swap failed: the chain undid it, the owner keeps the shares.
fail_single_withdraw ==
    /\ Running("WithdrawFailed")
    /\ liq' = [liq EXCEPT !.pending = None]
    /\ Done /\ LiqUnchanged

\* The swap succeeded: burn, and pay the claim plus what the swap brought.
payout_of(p) == p.base_amount + (balances[p.payout_token] - p.pre_payout_balance)

complete_single_withdraw ==
    /\ Running("WithdrawReply")
    /\ LET p == liq.pending
           allowed == /\ p # None /\ p.kind = "WithdrawSingle"
                      /\ balances[p.payout_token] >= p.pre_payout_balance
                      /\ payout_of(p) >= p.min_amount
                      /\ burnable(liq, p.owner, p.shares)
       IN  \/ /\ allowed
              /\ LET transfer == [token |-> p.payout_token, amount |-> payout_of(p),
                                  recipient |-> p.recipient]
                 IN  /\ liq' = [burn_shares(liq, p.owner, p.shares) EXCEPT !.pending =
                                 [kind |-> "AuthorizedTransfers", transfers |-> <<transfer>>,
                                  replies_remaining |-> 1]]
                     /\ Return(<<vault_transfer(transfer), [op |-> "TransferReply"]>>)
              /\ LiqUnchanged
           \/ ~allowed /\ Abort

complete_authorized_transfer ==
    /\ Running("TransferReply")
    /\ LET p == liq.pending
           allowed == /\ p # None /\ p.kind = "AuthorizedTransfers"
                      /\ p.replies_remaining >= 1
       IN  \/ /\ allowed
              /\ liq' = [liq EXCEPT !.pending =
                           IF p.replies_remaining = 1 THEN None
                           ELSE [p EXCEPT !.replies_remaining = @ - 1]]
              /\ Done /\ LiqUnchanged
           \/ ~allowed /\ Abort

-----------------------------------------------------------------------------
(* Other entry points. *)

\* Fee shares.  Not gated by a pending operation.
execute_mint_to ==
    /\ Running("MintTo")
    /\ LET allowed == Call.sender = liq.vault /\ Call.amt # 0
       IN  \/ /\ allowed
              /\ liq' = mint_shares(liq, Call.to, Call.amt)
              /\ Done /\ LiqUnchanged
           \/ ~allowed /\ Abort

\* Transfer, Send and their delegated forms; the allowance ledger is left out.
execute_cw20_transfer ==
    /\ Running("Cw20Transfer")
    /\ LET allowed == assert_no_pending /\ Call.amt <= liq.shares[Call.sender]
       IN  \/ /\ allowed
              /\ liq' = move_shares(liq, Call.sender, Call.to, Call.amt)
              /\ Done /\ LiqUnchanged
           \/ ~allowed /\ Abort

\* Burn and BurnFrom: shares destroyed without a claim.
execute_cw20_burn ==
    /\ Running("Cw20Burn")
    /\ LET allowed == assert_no_pending /\ burnable(liq, Call.sender, Call.amt)
       IN  \/ /\ allowed
              /\ liq' = burn_shares(liq, Call.sender, Call.amt)
              /\ Done /\ LiqUnchanged
           \/ ~allowed /\ Abort

execute_update_config ==
    /\ Running("UpdateConfig")
    /\ LET allowed == /\ Call.sender = liq.admin
                      /\ Call.minimum > LOCKED_INITIAL_SHARES
                      /\ liq.total_supply = 0
       IN  \/ /\ allowed
              /\ liq' = [liq EXCEPT !.minimum_initial_deposit = Call.minimum]
              /\ Done /\ LiqUnchanged
           \/ ~allowed /\ Abort

liquidity_admin ==
    /\ Running("LiquidityAdmin")
    /\ \/ /\ admin_handover_allowed(liq, Call)
          /\ liq' = admin_handover(liq, Call)
          /\ Done /\ LiqUnchanged
       \/ ~admin_handover_allowed(liq, Call) /\ Abort

BotLiquidityStep ==
    \/ execute_deposit \/ complete_deposit
    \/ execute_withdraw_pro_rata \/ execute_single_withdraw
    \/ complete_single_withdraw \/ fail_single_withdraw
    \/ complete_authorized_transfer \/ execute_mint_to
    \/ execute_cw20_transfer \/ execute_cw20_burn
    \/ execute_update_config \/ liquidity_admin

=============================================================================
