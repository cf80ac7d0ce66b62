----------------------------- MODULE SwapProxy -----------------------------
(***************************************************************************)
(* swap-proxy: forwards a registered vault's swap to its pair, naming the  *)
(* vault as the receiver of the proceeds.                                  *)
(***************************************************************************)
EXTENDS Dex

\* RegisterVault checks the vault's own configuration against the pair.  The
\* vault's pair, factory and assets are fixed at instantiation and agree with
\* the pair here; what can differ later is the pair's code and the admin.
\* An existing route is overwritten without a check.
execute_register_vault ==
    /\ Running("RegisterVault")
    /\ LET allowed == /\ Call.sender = proxy.admin
                      /\ vault.pair_code_id # 0
                      /\ dex.code = vault.pair_code_id
                      /\ vault.proxy = PROXY
       IN  \/ /\ allowed
              /\ proxy' = [proxy EXCEPT !.route =
                             [pair |-> PAIR, pair_code_id |-> vault.pair_code_id]]
              /\ Done /\ UNCHANGED <<vault, liq, bank, dex>>
           \/ ~allowed /\ Abort

execute_remove_vault ==
    /\ Running("RemoveVault")
    /\ LET allowed == Call.sender = proxy.admin /\ proxy.route # None
       IN  \/ /\ allowed
              /\ proxy' = [proxy EXCEPT !.route = None]
              /\ Done /\ UNCHANGED <<vault, liq, bank, dex>>
           \/ ~allowed /\ Abort

\* The output goes back to the vault that sent the tokens in.
proxy_receive_allowed(m) ==
    /\ m.amt # 0
    /\ m.sender = VAULT /\ proxy.route # None
    /\ dex.code = proxy.route.pair_code_id
    /\ m.tok \in Token
    /\ m.hook.pair = proxy.route.pair
    /\ m.hook.deadline >= NOW
    /\ m.hook.max_spread <= MAX_SPREAD


\* Faulty variant (see README, "Mutants"): no receiver, so the pair pays its caller.
pair_hook_to_caller(m) == [to |-> PROXY, min_return |-> m.hook.min_return]

pair_hook(m) == [to |-> m.sender, min_return |-> m.hook.min_return]

execute_receive ==
    /\ Running("ProxyReceive")
    /\ \/ /\ proxy_receive_allowed(Call)
          /\ Return(<<[op |-> "Send", tok |-> Call.tok, from |-> PROXY,
                       to |-> PAIR, amt |-> Call.amt, hook |-> pair_hook(Call)]>>)
          /\ UNCHANGED storage
       \/ ~proxy_receive_allowed(Call) /\ Abort

proxy_admin ==
    /\ Running("ProxyAdmin")
    /\ \/ /\ admin_handover_allowed(proxy, Call)
          /\ proxy' = admin_handover(proxy, Call)
          /\ Done /\ UNCHANGED <<vault, liq, bank, dex>>
       \/ ~admin_handover_allowed(proxy, Call) /\ Abort

\* Only a 0.1.x proxy without routes may be migrated in place.
proxy_migrate ==
    /\ Running("MigrateProxy")
    /\ LET allowed == proxy.minor_version = 1 /\ proxy.route = None
       IN  \/ /\ allowed
              /\ proxy' = [proxy EXCEPT !.pending_admin = None, !.minor_version = 2]
              /\ Done /\ UNCHANGED <<vault, liq, bank, dex>>
           \/ ~allowed /\ Abort

SwapProxyStep ==
    \/ execute_register_vault \/ execute_remove_vault \/ execute_receive
    \/ proxy_admin \/ proxy_migrate

=============================================================================
