-------------------------------- MODULE Dex --------------------------------
(***************************************************************************)
(* The code outside the repository that the rebalancer calls: the two      *)
(* asset CW20 tokens (exact transfers, no transfer hooks) and the CL8Y     *)
(* pair, modelled from what the contracts ask of them.  The pair may       *)
(* refuse a swap, may pay any amount of its reserve (the contracts do not  *)
(* trust it to honour min_return), and may call back into the contracts    *)
(* (RebalancerState!Submit).                                               *)
(***************************************************************************)
EXTENDS RebalancerState

CONSTANTS
    Markets,    \* states of the market: records [twap, reserves]
    Returns,    \* amounts a swap may pay or a simulation may quote
    PairCodes,  \* code ids the DEX may migrate the pair to
    LiquidityCodes  \* code ids of later releases of bot-liquidity

ASSUME MarketAssumption ==
    Markets \subseteq [twap : Nat \ {0}, reserves : Amounts]
ASSUME ReturnAssumption == Returns \subseteq Nat
ASSUME CodeAssumption == PairCodes \subseteq Nat /\ LiquidityCodes \subseteq Nat

\* cw20 balance move; a self-transfer changes nothing.
Moved(tok, from, to, amt) ==
    LET paid == [bank EXCEPT ![tok][from] = @ - amt]
    IN  [paid EXCEPT ![tok][to] = @ + amt]

Pay(m) == /\ m.amt <= bank[m.tok][m.from]
          /\ bank' = Moved(m.tok, m.from, m.to, m.amt)
          /\ UNCHANGED <<vault, liq, proxy, dex>>

TokenTransfer ==
    /\ Running("Transfer")
    /\ \/ Pay(Call) /\ Done
       \/ Call.amt > bank[Call.tok][Call.from] /\ Abort

\* The owner may lack the balance, or not have granted the allowance.
TokenTransferFrom ==
    /\ Running("TransferFrom")
    /\ \/ Pay(Call) /\ Done
       \/ Abort

\* Moves the tokens, then calls the receiving contract's Receive.
TokenSend ==
    /\ Running("Send")
    /\ \/ /\ Pay(Call)
          /\ Return(<<[op |-> IF Call.to = PROXY THEN "ProxyReceive"
                                                 ELSE "PairReceive",
                       tok |-> Call.tok, amt |-> Call.amt,
                       sender |-> Call.from, hook |-> Call.hook]>>)
       \/ Call.amt > bank[Call.tok][Call.from] /\ Abort

PairSwap ==
    /\ Running("PairReceive")
    /\ \/ \E r \in Returns :
            /\ r <= bank[1 - Call.tok][PAIR]
            /\ bank' = Moved(1 - Call.tok, PAIR, Call.hook.to, r)
            /\ UNCHANGED <<vault, liq, proxy, dex>>
            /\ Done
       \/ Abort

\* Other traders move the market between transactions.
MarketMove ==
    /\ work = <<>>
    /\ \E m \in Markets :
         /\ dex' = [dex EXCEPT !.twap = m.twap]
         /\ bank' = [i \in Token |-> [bank[i] EXCEPT ![PAIR] = m.reserves[i]]]
    /\ UNCHANGED <<vault, liq, proxy, work, hooks, txs>>

PairMigrated ==
    /\ work = <<>>
    /\ \E code \in PairCodes : dex' = [dex EXCEPT !.code = code]
    /\ UNCHANGED <<vault, liq, proxy, bank, work, hooks, txs>>

\* The chain admin moves bot-liquidity to another release, which keeps its
\* storage.  (This release's own migrate refuses every older version but a
\* 0.2.x below 0.2.0, which never existed.)
LiquidityMigrated ==
    /\ work = <<>>
    /\ \E code \in LiquidityCodes : liq' = [liq EXCEPT !.code = code]
    /\ UNCHANGED <<vault, proxy, bank, dex, work, hooks, txs>>

=============================================================================
