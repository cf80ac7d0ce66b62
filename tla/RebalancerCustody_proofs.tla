---------------------- MODULE RebalancerCustody_proofs ----------------------
(***************************************************************************)
(* What the rebalancer's transactions may take from whom: a rebalance from *)
(* the vault, a deposit from the incumbents, a liquidity contract that is  *)
(* not bound, a paused vault, a fee, a withdrawal.  Each theorem has an    *)
(* inductive invariant of its own beside Guarded, which says what the      *)
(* messages still to run will do to the quantities it is about.            *)
(***************************************************************************)
EXTENDS Rebalancer_proofs

-----------------------------------------------------------------------------
(* How the assets move. *)

LEMMA MovedAt ==
  ASSUME Typed, NEW t \in Token, NEW f \in Account, NEW to \in Account, NEW a \in Nat,
         a <= bank[t][f]
  PROVE  /\ \A u \in Token, x \in Account :
               u # t \/ f = to \/ (x # f /\ x # to) => Moved(t, f, to, a)[u][x] = bank[u][x]
         /\ f # to => /\ Moved(t, f, to, a)[t][f] = bank[t][f] - a
                      /\ Moved(t, f, to, a)[t][to] = bank[t][to] + a
<1> DEFINE b1 == [bank EXCEPT ![t][f] = @ - a]
           b2 == Moved(t, f, to, a)
<1>1. bank \in [Token -> [Account -> Nat]]
  BY DEF Typed
<1>2. b1 \in [Token -> [Account -> Nat]]
  BY <1>1
<1>3. /\ \A u \in Token, x \in Account : u # t \/ x # f => b1[u][x] = bank[u][x]
      /\ b1[t][f] = bank[t][f] - a
  BY <1>1
<1>4. b2 = [b1 EXCEPT ![t][to] = @ + a]
  BY DEF Moved
<1> HIDE DEF b1, b2
<1>5. /\ \A u \in Token, x \in Account : u # t \/ x # to => b2[u][x] = b1[u][x]
      /\ b2[t][to] = b1[t][to] + a
  BY <1>2, <1>4
<1>6. bank[t][f] \in Nat /\ bank[t][to] \in Nat
  BY <1>1
<1>7. \A u \in Token, x \in Account : u # t \/ (x # f /\ x # to) => b2[u][x] = bank[u][x]
  BY <1>3, <1>5
<1>8. f = to => b2[t][f] = bank[t][f]
  BY <1>3, <1>5, <1>6
<1>9. f # to => b2[t][f] = bank[t][f] - a /\ b2[t][to] = bank[t][to] + a
  BY <1>3, <1>5
<1>10. \A u \in Token, x \in Account : u # t \/ f = to \/ (x # f /\ x # to) => b2[u][x] = bank[u][x]
  BY <1>3, <1>5, <1>7, <1>8
<1>11. QED
  BY <1>9, <1>10 DEF b2

\* A handler moves one amount from one account to another, or none.
LEMMA BankMoves ==
  ASSUME Typed, TxStep, ~Abort
  PROVE  \/ bank' = bank /\ Call.op \notin MoveOps
         \/ \E t \in Token, f \in Account, to \in Account, a \in Nat :
              /\ a <= bank[t][f] /\ bank' = Moved(t, f, to, a)
              /\ \/ /\ Call.op \in {"Transfer", "TransferFrom", "Send"}
                    /\ t = Call.tok /\ f = Call.from /\ to = Call.to /\ a = Call.amt
                 \/ /\ Call.op = "PairReceive"
                    /\ t = 1 - Call.tok /\ f = PAIR /\ to = Call.hook.to
<1>1. work # <<>> /\ Call \in Message
  BY HandlerOf, RunningCall
<1>2. CASE Call.op \notin MoveOps
  BY <1>2, HandlerFramed DEF Framed
<1>3. CASE Call.op \in {"Transfer", "TransferFrom", "Send"}
  <2>1. Pay(Call)
    BY <1>3, HandlerOf DEF TokenTransfer, TokenTransferFrom, TokenSend
  <2>2. Call.tok \in Token /\ Call.from \in Account /\ Call.to \in Account /\ Call.amt \in Nat
    <3>1. CASE Call.op = "Transfer"
      BY <1>1, <3>1, CallOf DEF TransferMsg
    <3>2. CASE Call.op = "TransferFrom"
      BY <1>1, <3>2, CallOf DEF TransferFromMsg
    <3>3. CASE Call.op = "Send"
      BY <1>1, <3>3, CallOf DEF SendMsg, Account
    <3>4. QED
      BY <1>3, <3>1, <3>2, <3>3
  <2>3. QED
    BY <1>3, <2>1, <2>2 DEF Pay
<1>4. CASE Call.op = "PairReceive"
  <2>1. PICK r \in Returns : r <= bank[1 - Call.tok][PAIR] /\ bank' = Moved(1 - Call.tok, PAIR, Call.hook.to, r)
    BY <1>4, HandlerOf DEF PairSwap
  <2>2. Call \in PairReceiveMsg
    BY <1>1, <1>4, CallOf
  <2>3. 1 - Call.tok \in Token /\ Call.hook.to \in Account /\ PAIR \in Account /\ r \in Nat
    BY <2>2, ReturnAssumption DEF PairReceiveMsg, PairHook, Token, Account
  <2>4. QED
    BY <1>4, <2>1, <2>3
<1>5. QED
  BY <1>2, <1>3, <1>4 DEF MoveOps

\* The vault loses only what it sends or pays.
LEMMA VaultLoses ==
  ASSUME Typed, TxStep, ~Abort, Honest(Call), NEW i \in Token
  PROVE  /\ bank[i][VAULT] \in Nat /\ bank'[i][VAULT] \in Int
         /\ bank'[i][VAULT] >= bank[i][VAULT]
            \/ (/\ Call.op \in {"Transfer", "Send"} /\ Call.from = VAULT
                /\ Call.tok = i /\ Call.amt \in Nat
                /\ bank'[i][VAULT] >= bank[i][VAULT] - Call.amt)
<1>1. bank \in [Token -> [Account -> Nat]] /\ VAULT \in Account
  BY DEF Typed, Account
<1>2. bank[i][VAULT] \in Nat
  BY <1>1
<1>3. CASE bank' = bank
  BY <1>2, <1>3
<1>4. CASE \E t \in Token, f \in Account, to \in Account, a \in Nat :
              /\ a <= bank[t][f] /\ bank' = Moved(t, f, to, a)
              /\ \/ /\ Call.op \in {"Transfer", "TransferFrom", "Send"}
                    /\ t = Call.tok /\ f = Call.from /\ to = Call.to /\ a = Call.amt
                 \/ /\ Call.op = "PairReceive"
                    /\ t = 1 - Call.tok /\ f = PAIR /\ to = Call.hook.to
  <2>1. PICK t \in Token, f \in Account, to \in Account, a \in Nat :
              /\ a <= bank[t][f] /\ bank' = Moved(t, f, to, a)
              /\ \/ /\ Call.op \in {"Transfer", "TransferFrom", "Send"}
                    /\ t = Call.tok /\ f = Call.from /\ to = Call.to /\ a = Call.amt
                 \/ /\ Call.op = "PairReceive"
                    /\ t = 1 - Call.tok /\ f = PAIR /\ to = Call.hook.to
    BY <1>4
  <2>2. /\ i # t \/ f = to \/ (VAULT # f /\ VAULT # to) => bank'[i][VAULT] = bank[i][VAULT]
        /\ f # to => /\ bank'[t][f] = bank[t][f] - a
                     /\ bank'[t][to] = bank[t][to] + a
    BY <1>1, <2>1, MovedAt
  <2>3. f = VAULT => Call.op \in {"Transfer", "Send"} /\ Call.from = VAULT /\ Call.tok = t /\ Call.amt = a
    BY <2>1, ExternalIs DEF Honest, PAIR, VAULT
  <2>4. CASE i # t \/ f = to \/ (VAULT # f /\ VAULT # to)
    BY <1>2, <2>2, <2>4
  <2>5. CASE i = t /\ f # to /\ f = VAULT
    BY <1>2, <2>2, <2>3, <2>5
  <2>6. CASE i = t /\ f # to /\ to = VAULT
    BY <1>2, <2>2, <2>6
  <2>7. QED
    BY <2>4, <2>5, <2>6
<1>5. QED
  BY <1>3, <1>4, BankMoves

\* What runs after a handler: its first message, or the one that waited.
LEMMA HandlerTop ==
  ASSUME Guarded, TxStep, ~Abort, Call.op # "Commit"
  PROVE  /\ work # <<>> /\ Honest(Call) /\ work' # <<>> /\ Call' = work'[1] /\ 1 \in DOMAIN work'
         /\ \/ SwapPart(Call') \/ SlotPart(Call')
            \/ Done /\ Call' = work[2] /\ 2 \in DOMAIN work /\ Call'.op \in WaitingOps
<1>1. Typed /\ SnapshotsCovered
  BY DEF Guarded, RepliesFollowSlots
<1>2. PICK msgs : Sent(msgs)
  BY <1>1, Returned
<1>3. /\ work # <<>> /\ msgs \in Seq(Message) /\ Return(msgs)
      /\ \A i \in DOMAIN msgs : SwapPart(msgs[i]) \/ SlotPart(msgs[i])
  BY <1>2, HandlerOf DEF Sent
<1>4. /\ work' \in Seq(Message) /\ work' # <<>>
      /\ \A i \in DOMAIN msgs : i \in DOMAIN work' /\ work'[i] = msgs[i]
  BY <1>1, <1>3, ReturnStack
<1>5. Call' = work'[1] /\ 1 \in DOMAIN work'
  BY <1>4 DEF Call
<1>6. Call = work[1] /\ 1 \in DOMAIN work
  BY <1>1, <1>3 DEF Typed, Call
<1>7. Honest(Call)
  BY <1>6 DEF Guarded, Stacked
<1>8. CASE msgs = <<>>
  <2>1. Done
    BY <1>3, <1>8 DEF Done
  <2>2. Len(work) > 1 /\ Call' = work[2]
    BY <1>1, <1>3, <2>1, DoneStack
  <2>3. 2 \in DOMAIN work
    BY <1>1, <2>2 DEF Typed
  <2>4. Call'.op \in WaitingOps
    BY <2>2, <2>3 DEF Guarded, Stacked
  <2>5. QED
    BY <1>3, <1>4, <1>5, <1>7, <2>1, <2>2, <2>3, <2>4
<1>9. CASE msgs # <<>>
  <2>1. 1 \in DOMAIN msgs
    BY <1>3, <1>9
  <2>2. QED
    BY <1>3, <1>4, <1>5, <1>7, <2>1
<1>10. QED
  BY <1>8, <1>9

\* The vault's two ways to let assets go: into a swap, and to a recipient.
VaultSends == work # <<>> /\ Call.op = "Send" /\ Call.from = VAULT
VaultPays  == work # <<>> /\ Call.op = "Transfer" /\ Call.from = VAULT

\* Only three handlers make the vault let go of assets.
LEMMA VaultOut ==
  ASSUME Guarded, Next
  PROVE  /\ VaultPays' => /\ TxStep /\ ~Abort /\ Call.op = "TransferTo" /\ transfer_allowed(Call)
                          /\ Call'.tok = Call.tok /\ Call'.amt = Call.amt /\ Call'.to = Call.to
         /\ VaultSends' =>
              /\ TxStep /\ ~Abort
              /\ \/ /\ Call.op = "LiquiditySwap" /\ Call'.tok = Call.params.offer_token
                    /\ Call'.amt = Call.params.amount
                 \/ /\ Call.op = "Rebalance" /\ Call'.tok = vault'.pending.offer_index
                    /\ Call'.amt = vault'.pending.amount
<1>1. Typed /\ SnapshotsCovered
  BY DEF Guarded, RepliesFollowSlots
<1>2. ASSUME NEW m \in LpCalls \cup KeeperCalls \cup AdminCalls \cup HookCalls, Submit(m)
      PROVE  ~VaultPays' /\ ~VaultSends'
  <2>1. m \in ExecuteMsg /\ m.op # "Send" /\ (m.op = "Transfer" => m.from # VAULT)
    BY CallsHonest, ExternalIs
  <2>2. Call' = m
    BY <1>1, <1>2, <2>1, StartStack, HookStack
  <2>3. QED
    BY <2>1, <2>2 DEF VaultPays, VaultSends
<1>3. ASSUME TxStep, ~Abort, Call.op # "Commit"
      PROVE  /\ VaultPays' => /\ Call.op = "TransferTo" /\ transfer_allowed(Call)
                              /\ Call'.tok = Call.tok /\ Call'.amt = Call.amt /\ Call'.to = Call.to
             /\ VaultSends' =>
                   \/ /\ Call.op = "LiquiditySwap" /\ Call'.tok = Call.params.offer_token
                      /\ Call'.amt = Call.params.amount
                   \/ /\ Call.op = "Rebalance" /\ Call'.tok = vault'.pending.offer_index
                      /\ Call'.amt = vault'.pending.amount
  <2>1. SwapPart(Call') \/ SlotPart(Call') \/ Call'.op \in WaitingOps
    BY <1>3, HandlerTop
  <2>2. /\ VaultPays' => Call'.op = "Transfer" /\ Call'.from = VAULT
        /\ VaultSends' => Call'.op = "Send" /\ Call'.from = VAULT
    BY DEF VaultPays, VaultSends
  <2>3. ASSUME VaultPays'
        PROVE  /\ Call.op = "TransferTo" /\ transfer_allowed(Call)
               /\ Call'.tok = Call.tok /\ Call'.amt = Call.amt /\ Call'.to = Call.to
    <3>1. SlotPart(Call')
      BY <2>1, <2>2, <2>3 DEF WaitingOps, SwapPart
    <3>2. /\ Call.op = "TransferTo"
          /\ Call'.tok = Call.tok /\ Call'.amt = Call.amt /\ Call'.to = Call.to
      BY <2>2, <2>3, <3>1 DEF SlotPart
    <3>3. transfer_allowed(Call)
      BY <1>3, <3>2, HandlerOf DEF execute_transfer
    <3>4. QED
      BY <3>2, <3>3
  <2>4. ASSUME VaultSends'
        PROVE  \/ /\ Call.op = "LiquiditySwap" /\ Call'.tok = Call.params.offer_token
                  /\ Call'.amt = Call.params.amount
               \/ /\ Call.op = "Rebalance" /\ Call'.tok = vault'.pending.offer_index
                  /\ Call'.amt = vault'.pending.amount
    <3>1. SwapPart(Call')
      BY <2>1, <2>2, <2>4 DEF WaitingOps, SlotPart
    <3>2. QED
      BY <2>2, <2>4, <3>1 DEF SwapPart, VAULT, PROXY
  <2>5. QED
    BY <2>3, <2>4
<1>4. work' = <<>> => ~VaultPays' /\ ~VaultSends'
  BY DEF VaultPays, VaultSends
<1>5. Commit => work' = <<>>
  BY <1>1, CommitStack
<1>6. Environment => work' = <<>>
  BY DEF Environment, MarketMove, PairMigrated, LiquidityMigrated
<1>7. Abort => work' = <<>> \/ Call'.op = "WithdrawFailed"
  BY <1>1, AbortStack
<1>8. Call'.op = "WithdrawFailed" => ~VaultPays' /\ ~VaultSends'
  BY DEF VaultPays, VaultSends
<1>9. QED
  BY <1>2, <1>3, <1>4, <1>5, <1>6, <1>7, <1>8, NextKinds

-----------------------------------------------------------------------------
(* What a rebalance draws. *)

\* The vault holds what the rebalance recorded, less its offer once it was sent.
Drawn(v, b, sent) ==
    v.pending # None => \A i \in Token :
        b[i][VAULT] >= v.pending.balances[i]
            - (IF sent /\ i = v.pending.offer_index THEN v.pending.amount ELSE 0)

DrawBounded ==
    /\ Drawn(vault, bank, ~VaultSends)
    /\ VaultSends /\ vault.pending # None =>
          Call.tok = vault.pending.offer_index /\ Call.amt = vault.pending.amount
    /\ VaultPays => vault.pending = None
    /\ \A s \in Saved(work) : Drawn(s.vault, s.bank, TRUE)

\* The pending rebalance and the balances are numbers.
LEMMA DrawnTyped ==
  ASSUME NEW v \in VaultType, NEW b \in [Token -> [Account -> Nat]], v.pending # None,
         NEW i \in Token
  PROVE  v.pending.balances[i] \in Nat /\ v.pending.amount \in Nat /\ b[i][VAULT] \in Nat
<1>1. v.pending \in PendingRebalance
  BY DEF VaultType
<1>2. VAULT \in Account
  BY DEF Account
<1>3. QED
  BY <1>1, <1>2 DEF PendingRebalance, Amounts

LEMMA DrawnWeaker ==
  ASSUME NEW v \in VaultType, NEW b \in [Token -> [Account -> Nat]], Drawn(v, b, FALSE)
  PROVE  Drawn(v, b, TRUE)
<1>1. ASSUME v.pending # None, NEW i \in Token
      PROVE  b[i][VAULT] >= v.pending.balances[i]
                - (IF i = v.pending.offer_index THEN v.pending.amount ELSE 0)
  <2>1. b[i][VAULT] >= v.pending.balances[i] - 0
    BY <1>1 DEF Drawn
  <2>2. v.pending.balances[i] \in Nat /\ v.pending.amount \in Nat /\ b[i][VAULT] \in Nat
    BY <1>1, DrawnTyped
  <2>3. QED
    BY <2>1, <2>2
<1>2. QED
  BY <1>1 DEF Drawn

\* A handler other than the rebalance's own lets go of the offer at most.
LEMMA DrawnHandler ==
  ASSUME Guarded, DrawBounded, TxStep, ~Abort, Call.op # "Commit", vault.pending # None,
         vault'.pending = vault.pending
  PROVE  Drawn(vault', bank', TRUE)
<1>1. Typed /\ Honest(Call) /\ work # <<>>
  BY HandlerTop DEF Guarded
<1>2. SUFFICES ASSUME NEW i \in Token
               PROVE  bank'[i][VAULT] >= vault.pending.balances[i]
                        - (IF i = vault.pending.offer_index THEN vault.pending.amount ELSE 0)
  BY DEF Drawn
<1>3. /\ vault.pending.balances[i] \in Nat /\ vault.pending.amount \in Nat
      /\ bank[i][VAULT] \in Nat
  BY <1>1, DrawnTyped DEF Typed
<1>4. /\ bank'[i][VAULT] \in Int
      /\ bank'[i][VAULT] >= bank[i][VAULT]
            \/ (/\ Call.op \in {"Transfer", "Send"} /\ Call.from = VAULT
                /\ Call.tok = i /\ bank'[i][VAULT] >= bank[i][VAULT] - Call.amt)
  BY <1>1, VaultLoses
<1>5. ~VaultPays
  BY DEF DrawBounded
<1>6. CASE VaultSends
  <2>1. bank[i][VAULT] >= vault.pending.balances[i] - 0
    BY <1>6 DEF DrawBounded, Drawn
  <2>2. Call.tok = vault.pending.offer_index /\ Call.amt = vault.pending.amount
    BY <1>6 DEF DrawBounded
  <2>3. QED
    BY <1>3, <1>4, <2>1, <2>2
<1>7. CASE ~VaultSends
  <2>1. bank[i][VAULT] >= vault.pending.balances[i]
          - (IF i = vault.pending.offer_index THEN vault.pending.amount ELSE 0)
    BY <1>7 DEF DrawBounded, Drawn
  <2>2. bank'[i][VAULT] >= bank[i][VAULT]
    BY <1>1, <1>4, <1>5, <1>7 DEF VaultSends, VaultPays
  <2>3. QED
    BY <1>3, <1>4, <2>1, <2>2
<1>8. QED
  BY <1>6, <1>7

LEMMA DrawStep ==
  ASSUME Guarded, DrawBounded, Next, Typed'
  PROVE  DrawBounded'
<1>1. Typed /\ SnapshotsCovered /\ RepliesFollowSlots
  BY DEF Guarded, RepliesFollowSlots
<1>2. ASSUME NEW m \in ExecuteMsg, Submit(m), ~VaultPays', ~VaultSends' PROVE DrawBounded'
  <2>1. Snapshot' = Snapshot /\ Saved(work') \subseteq Saved(work) \cup {Snapshot}
    BY <1>1, <1>2, StartStack, HookStack
  <2>2. vault' = vault /\ bank' = bank /\ Snapshot.vault = vault /\ Snapshot.bank = bank
    BY <2>1 DEF Snapshot
  <2>3. ~VaultSends
    BY <1>2 DEF Submit, Running, VaultSends, Call
  <2>4. Drawn(vault, bank, TRUE)
    BY <2>3 DEF DrawBounded
  <2>5. Drawn(vault', bank', ~VaultSends')
    BY <1>2, <2>2, <2>4
  <2>6. \A s \in Saved(work') : Drawn(s.vault, s.bank, TRUE)
    BY <2>1, <2>2, <2>4 DEF DrawBounded
  <2>7. QED
    BY <1>2, <2>5, <2>6 DEF DrawBounded
<1>3. ASSUME TxStep, ~Abort, Call.op # "Commit" PROVE DrawBounded'
  <2>1. /\ Drawn(vault', bank', ~VaultSends') /\ Drawn(vault', bank', TRUE)
        /\ VaultSends' /\ vault'.pending # None =>
              Call'.tok = vault'.pending.offer_index /\ Call'.amt = vault'.pending.amount
        /\ VaultPays' => vault'.pending = None
    <3>1. CASE vault'.pending = None
      BY <3>1 DEF Drawn
    <3>2. CASE Call.op = "Rebalance"
      <4>1. bank' = bank
        BY <1>1, <1>3, <3>2, HandlerFramed DEF Framed, MoveOps
      <4>2. vault'.pending.balances = balances
        BY <1>1, <1>3, <3>2, RebalanceRuns
      <4>3. \A i \in Token : bank'[i][VAULT] >= vault'.pending.balances[i] - 0
        <5>1. \A i \in Token : balances[i] = bank'[i][VAULT]
          BY <4>1 DEF balances, holdings_of
        <5>2. \A i \in Token : bank[i][VAULT] \in Nat
          BY <1>1 DEF Typed, Account
        <5>3. QED
          BY <4>1, <4>2, <5>1, <5>2
      <4>4. Drawn(vault', bank', FALSE)
        BY <4>3 DEF Drawn
      <4>5. Drawn(vault', bank', TRUE)
        BY <4>4, DrawnWeaker DEF Typed
      <4>6. Drawn(vault', bank', ~VaultSends')
        BY <4>4, <4>5
      <4>7. QED
        BY <3>2, <4>5, <4>6, VaultOut
    <3>3. CASE Call.op # "Rebalance" /\ vault'.pending # None
      <4>1. Call.op # "RebalanceReply"
        <5>1. Call.op = "RebalanceReply" => vault'.pending = None
          BY <1>1, <1>3, HandlerOf DEF complete_rebalance, Typed, VaultType
        <5>2. QED
          BY <3>3, <5>1
      <4>2. vault'.pending = vault.pending
        BY <1>1, <1>3, <3>3, <4>1, HandlerFramed DEF Framed
      <4>3. Drawn(vault', bank', TRUE)
        BY <1>3, <3>3, <4>2, DrawnHandler
      <4>4. ~VaultPays'
        BY <3>3, <4>2, VaultOut DEF transfer_allowed, no_pending_rebalance
      <4>5. ~VaultSends'
        <5>1. Call.op = "LiquiditySwap" => vault.pending = None
          BY <1>3, HandlerOf DEF execute_liquidity_swap, no_pending_rebalance
        <5>2. QED
          BY <3>3, <4>2, <5>1, VaultOut
      <4>6. QED
        BY <4>3, <4>4, <4>5
    <3>4. QED
      BY <3>1, <3>2, <3>3
  <2>2. Saved(work') \subseteq Saved(work) \cup {Snapshot'}
    BY <1>1, <1>3, HandlerSaved
  <2>3. Snapshot'.vault = vault' /\ Snapshot'.bank = bank'
    BY DEF Snapshot
  <2>4. \A s \in Saved(work') : Drawn(s.vault, s.bank, TRUE)
    BY <2>1, <2>2, <2>3 DEF DrawBounded
  <2>5. QED
    BY <2>1, <2>4 DEF DrawBounded
<1>4. ASSUME work' = <<>>, vault'.pending = None PROVE DrawBounded'
  <2>1. ~VaultPays' /\ ~VaultSends' /\ Saved(work') = {}
    BY <1>4 DEF VaultPays, VaultSends, Saved
  <2>2. QED
    BY <1>4, <2>1 DEF DrawBounded, Drawn
<1>5. ASSUME Abort PROVE DrawBounded'
  <2>1. Snapshot' \in Saved(work) /\ Saved(work') \subseteq Saved(work)
    BY <1>1, <1>5, AbortSaved
  <2>2. Snapshot'.vault = vault' /\ Snapshot'.bank = bank'
    BY DEF Snapshot
  <2>3. Drawn(vault', bank', TRUE) /\ \A s \in Saved(work') : Drawn(s.vault, s.bank, TRUE)
    BY <2>1, <2>2 DEF DrawBounded
  <2>4. work' = <<>> \/ Call'.op = "WithdrawFailed"
    BY <1>1, <1>5, AbortStack
  <2>5. ~VaultPays' /\ ~VaultSends'
    BY <2>4 DEF VaultPays, VaultSends
  <2>6. Drawn(vault', bank', ~VaultSends')
    BY <2>3, <2>5
  <2>7. QED
    BY <2>3, <2>5, <2>6 DEF DrawBounded
<1>6. ASSUME Commit \/ Environment PROVE DrawBounded'
  <2>1. CASE Commit
    <3>1. work' = <<>> /\ Len(work) = 1 /\ Snapshot' = Snapshot
      BY <1>1, <2>1, CommitStack
    <3>2. vault'.pending = vault.pending
      BY <3>1 DEF Snapshot
    <3>3. vault.pending = None
      <4>1. work # <<>> /\ Call.op = "Commit" /\ work[1] = Call
        BY <1>1, <2>1, <3>1 DEF Commit, Running, Call, Typed
      <4>2. \A i \in DOMAIN work : i = 1
        BY <1>1, <3>1 DEF Typed
      <4>3. QED
        BY <1>1, <4>1, <4>2 DEF RepliesFollowSlots, RebalanceCovered, Waits
    <3>4. QED
      BY <1>4, <3>1, <3>2, <3>3
  <2>2. CASE Environment
    <3>1. work' = <<>> /\ work = <<>> /\ vault' = vault
      BY <2>2 DEF Environment, MarketMove, PairMigrated, LiquidityMigrated
    <3>2. vault.pending = None
      BY <1>1, <3>1 DEF RepliesFollowSlots, RebalanceCovered, Waits
    <3>3. QED
      BY <1>4, <3>1, <3>2
  <2>3. QED
    BY <1>6, <2>1, <2>2
<1>7. \A m \in LpCalls \cup KeeperCalls \cup AdminCalls \cup HookCalls :
         Submit(m) => m \in ExecuteMsg /\ ~VaultPays' /\ ~VaultSends'
  <2>1. SUFFICES ASSUME NEW m \in LpCalls \cup KeeperCalls \cup AdminCalls \cup HookCalls, Submit(m)
                 PROVE  m \in ExecuteMsg /\ ~VaultPays' /\ ~VaultSends'
    OBVIOUS
  <2>2. m \in ExecuteMsg /\ m.op # "Send" /\ (m.op = "Transfer" => m.from # VAULT)
    BY CallsHonest, ExternalIs
  <2>3. Call' = m
    BY <1>1, <2>1, <2>2, StartStack, HookStack
  <2>4. QED
    BY <2>2, <2>3 DEF VaultPays, VaultSends
<1>8. QED
  BY <1>2, <1>3, <1>5, <1>6, <1>7, NextKinds

\* While a rebalance is pending nothing but its own offer leaves the vault,
\* whatever the pair calls back.
THEOREM RebalanceDrawIsBounded == Spec => []RebalanceDrawBounded
<1>1. Init => DrawBounded
  <2>1. Init => work = <<>> /\ vault.pending = None
    BY DEF Init, vault_instantiate
  <2>2. QED
    BY <2>1 DEF DrawBounded, Drawn, VaultSends, VaultPays, Saved
<1>2. Guarded /\ Guarded' /\ DrawBounded /\ [Next]_vars => DrawBounded'
  <2> SUFFICES ASSUME Guarded, Guarded', DrawBounded, [Next]_vars PROVE DrawBounded'
    OBVIOUS
  <2>1. CASE Next
    BY <2>1, DrawStep DEF Guarded
  <2>2. CASE UNCHANGED vars
    BY <2>2 DEF vars, storage, DrawBounded, VaultSends, VaultPays, Call, Saved
  <2>3. QED
    BY <2>1, <2>2
<1>3. Guarded /\ DrawBounded => RebalanceDrawBounded
  <2> SUFFICES ASSUME Guarded, DrawBounded PROVE RebalanceDrawBounded
    OBVIOUS
  <2>1. Drawn(vault, bank, TRUE)
    <3>1. Drawn(vault, bank, ~VaultSends)
      BY DEF DrawBounded
    <3>2. CASE VaultSends
      BY <3>1, <3>2, DrawnWeaker DEF Guarded, Typed
    <3>3. CASE ~VaultSends
      BY <3>1, <3>3
    <3>4. QED
      BY <3>2, <3>3
  <2>2. QED
    BY <2>1 DEF Drawn, RebalanceDrawBounded
<1>4. QED
  BY <1>1, <1>2, <1>3, AlwaysGuarded, PTL DEF Spec

-----------------------------------------------------------------------------
(* What a deposit's swap spends. *)

DepositPending(l) == l.pending # None /\ l.pending.kind = "Deposit"

\* The swap at w[i] is paid for by what the deposit brought, or by the
\* transfer in front of it.
Funded(b, pre, w, i) ==
    LET p == w[i].params
        need == pre[p.offer_token] + p.amount
    IN  \/ b[p.offer_token][VAULT] >= need
        \/ \E j \in DOMAIN w : j < i /\ w[j].tok = p.offer_token
              /\ b[p.offer_token][VAULT] + w[j].amt >= need

DepositFunded ==
    DepositPending(liq) =>
        /\ \A i \in Token : bank[i][VAULT] >= liq.pending.pre_balances[i]
        /\ ~VaultPays
        /\ VaultSends => bank[Call.tok][VAULT] >= liq.pending.pre_balances[Call.tok] + Call.amt
        /\ \A i \in DOMAIN work :
              LiqSwap(work[i]) => Funded(bank, liq.pending.pre_balances, work, i)

\* Behind anything but a transfer no swap of the liquidity contract waits.
LEMMA NoSwapWaits ==
  ASSUME Typed, Stacked, work # <<>>, Call.op # "TransferFrom"
  PROVE  \A i \in DOMAIN work : i > 1 => ~LiqSwap(work[i])
<1>1. Call = work[1] /\ 1 \in DOMAIN work
  BY DEF Typed, Call
<1>2. QED
  BY <1>1 DEF Stacked

\* No saved state is in the middle of a deposit.
LEMMA SavedSlots ==
  ASSUME Typed, SnapshotsCovered, NEW s \in Saved(work)
  PROVE  s.liq.pending # None => s.liq.pending.kind = "WithdrawSingle"
<1>1. PICK i \in DOMAIN work : s = work[i].snap /\ work[i].op \in {"Commit", "WithdrawReply"}
  BY DEF Saved
<1>2. SnapshotCovered(i, work)
  BY DEF SnapshotsCovered
<1>3. QED
  BY <1>1, <1>2 DEF SnapshotCovered

\* Only execute_deposit and execute_single_withdraw fill a slot that swaps.
LEMMA SlotStays ==
  ASSUME Typed, TxStep, ~Abort, Call.op \notin {"Deposit", "Withdraw"}, liq'.pending # None,
         liq'.pending.kind \in {"Deposit", "WithdrawSingle"}
  PROVE  liq'.pending = liq.pending
<1>1. Call.op # "DepositReply"
  BY HandlerOf DEF complete_deposit, mint_shares, Typed, LiquidityType
<1>2. Call.op # "WithdrawReply"
  BY WithdrawReplyRuns
<1>3. Call.op # "WithdrawFailed"
  BY HandlerOf DEF fail_single_withdraw, Typed, LiquidityType
<1>4. Call.op # "TransferReply"
  <2>1. SUFFICES ASSUME Call.op = "TransferReply" PROVE FALSE
    OBVIOUS
  <2>2. /\ liq.pending # None /\ liq.pending.kind = "AuthorizedTransfers"
        /\ liq' = [liq EXCEPT !.pending = IF liq.pending.replies_remaining = 1 THEN None
                           ELSE [liq.pending EXCEPT !.replies_remaining = @ - 1]]
    BY <2>1, HandlerOf DEF complete_authorized_transfer
  <2>3. liq.pending \in PendingTransfers
    BY <2>2, PendingOfKind
  <2>4. [liq.pending EXCEPT !.replies_remaining = @ - 1].kind = "AuthorizedTransfers"
    BY <2>3 DEF PendingTransfers
  <2>5. QED
    BY <2>2, <2>4 DEF Typed, LiquidityType
<1>5. Call.op \notin SlotOps
  BY <1>1, <1>2, <1>3, <1>4 DEF SlotOps
<1>6. QED
  BY <1>5, HandlerFramed DEF Framed

LEMMA DepositStays ==
  ASSUME Typed, TxStep, ~Abort, Call.op # "Deposit", DepositPending(liq')
  PROVE  liq'.pending = liq.pending /\ Call.op # "Withdraw"
<1>1. Call.op # "Withdraw"
  BY EscrowRuns, ProRataRuns DEF DepositPending
<1>2. QED
  BY <1>1, SlotStays DEF DepositPending

\* A deposit starts with its transfers in front of its swap.
LEMMA DepositStarts ==
  ASSUME Guarded, TxStep, ~Abort, Call.op = "Deposit"
  PROVE  /\ \A i \in Token : bank'[i][VAULT] >= liq'.pending.pre_balances[i]
         /\ \A i \in DOMAIN work' :
               LiqSwap(work'[i]) => Funded(bank', liq'.pending.pre_balances, work', i)
<1> DEFINE d == deposit_messages(Call)
           n == Len(d)
<1>1. Typed /\ SnapshotsCovered /\ work # <<>> /\ Stacked
  BY HandlerOf DEF Guarded, RepliesFollowSlots
<1>2. Call \in DepositMsg
  BY <1>1, RunningCall, CallOf
<1>3. /\ deposit_allowed(Call) /\ Return(d) /\ bank' = bank
      /\ liq'.pending.pre_balances = balances
  <2>1. /\ deposit_allowed(Call) /\ Return(d) /\ LiqUnchanged
        /\ liq' = [liq EXCEPT !.pending =
               [kind |-> "Deposit", depositor |-> Call.sender,
                pre_balances |-> balances, pre_supply |-> liq.total_supply,
                price |-> dex.twap, min_shares |-> Call.min_shares,
                swap |-> Call.swap]]
    BY HandlerOf DEF execute_deposit
  <2>2. QED
    BY <1>1, <2>1 DEF LiqUnchanged, Typed, LiquidityType
<1>4. /\ d \in Seq(Message) /\ n \in Nat /\ n >= 2 /\ DOMAIN d = 1..n
      /\ d[n].op = "DepositReply"
      /\ d[n - 1].op = IF Call.swap = None THEN "Finalize" ELSE "LiquiditySwap"
      /\ Call.swap # None => d[n - 1].params = Call.swap /\ d[n - 1].sender = LIQ
      /\ \A i \in 1..(n - 2) : d[i].op = "TransferFrom"
      /\ \A t \in Token : Call.amounts[t] # 0 =>
            \E i \in 1..(n - 2) : d[i].tok = t /\ d[i].amt = Call.amounts[t]
  BY <1>1, <1>2, DepositSends
<1> HIDE DEF d, n
<1>5. \A i \in Token : bank[i][VAULT] \in Nat
  BY <1>1 DEF Typed, Account
<1>6. \A i \in Token : balances[i] = bank[i][VAULT]
  BY DEF balances, holdings_of
<1>7. \A i \in Token : bank'[i][VAULT] >= liq'.pending.pre_balances[i]
  BY <1>3, <1>5, <1>6
<1>8. /\ \A i \in DOMAIN d : i \in DOMAIN work' /\ work'[i] = d[i]
      /\ \A i \in DOMAIN work' :
            \/ i \in DOMAIN d /\ work'[i] = d[i]
            \/ /\ i - Len(d) + 1 \in DOMAIN work /\ i - Len(d) + 1 > 1
               /\ work'[i] = work[i - Len(d) + 1]
  BY <1>1, <1>3, <1>4, ReturnStack
<1>9. SUFFICES ASSUME NEW i \in DOMAIN work', LiqSwap(work'[i])
               PROVE  Funded(bank', liq'.pending.pre_balances, work', i)
  BY <1>7
<1>10. i \in DOMAIN d /\ work'[i] = d[i]
  <2>1. \A k \in DOMAIN work : k > 1 => ~LiqSwap(work[k])
    BY <1>1, NoSwapWaits
  <2>2. QED
    BY <1>8, <1>9, <2>1
<1>11. i = n - 1 /\ Call.swap # None
  <2>1. d[i].op = "LiquiditySwap"
    BY <1>9, <1>10 DEF LiqSwap
  <2>2. i \in 1..(n - 2) \/ i = n - 1 \/ i = n
    BY <1>4, <1>10
  <2>3. QED
    BY <1>4, <2>1, <2>2
<1> DEFINE p == Call.swap
<1>12. /\ p.offer_token \in Token /\ p.amount # 0 /\ p.amount <= Call.amounts[p.offer_token]
       /\ p.amount \in Nat /\ Call.amounts[p.offer_token] \in Nat
  <2>1. p \in SwapParams /\ Call.amounts \in Amounts
    BY <1>2, <1>11 DEF DepositMsg
  <2>2. p.offer_token \in Token /\ p.amount # 0 /\ p.amount <= Call.amounts[p.offer_token]
    BY <1>3, <1>11 DEF deposit_allowed, deposit_swap_allowed
  <2>3. QED
    BY <2>1, <2>2 DEF SwapParams, Amounts
<1>13. work'[i].params = p
  BY <1>4, <1>10, <1>11
<1> DEFINE t == p.offer_token
           a == Call.amounts[t]
<1>14. PICK j \in 1..(n - 2) : d[j].tok = t /\ d[j].amt = a
  <2>1. a # 0
    BY <1>12
  <2>2. QED
    BY <1>4, <1>12, <2>1
<1>15. j \in DOMAIN work' /\ j < i /\ work'[j].tok = t /\ work'[j].amt = a
  <2>1. j \in DOMAIN d /\ j < n - 1
    BY <1>4, <1>14
  <2>2. QED
    BY <1>8, <1>11, <1>14, <2>1
<1>16. bank'[t][VAULT] + a >= liq'.pending.pre_balances[t] + p.amount
  <2>1. liq'.pending.pre_balances[t] = bank[t][VAULT] /\ bank'[t][VAULT] = bank[t][VAULT]
        /\ bank[t][VAULT] \in Nat
    BY <1>3, <1>5, <1>6, <1>12
  <2>2. QED
    BY <1>12, <2>1
<1>17. QED
  BY <1>13, <1>15, <1>16 DEF Funded

\* A deposit's swap stays paid for while its transfers run.
LEMMA FundingKept ==
  ASSUME Guarded, DepositFunded, TxStep, ~Abort, Call.op = "TransferFrom", DepositPending(liq),
         liq'.pending = liq.pending, \A t \in Token : bank'[t][VAULT] >= bank[t][VAULT],
         NEW i \in DOMAIN work', LiqSwap(work'[i])
  PROVE  Funded(bank', liq'.pending.pre_balances, work', i)
<1>1. Typed /\ SnapshotsCovered /\ work # <<>> /\ Stacked
  BY HandlerOf DEF Guarded, RepliesFollowSlots
<1>2. Done
  BY <1>1, HandlerFramed DEF Framed, Returning
<1>3. /\ work' \in Seq(Message)
      /\ \A k \in DOMAIN work : k > 1 => k - 1 \in DOMAIN work' /\ work'[k - 1] = work[k]
      /\ \A k \in DOMAIN work' : k + 1 \in DOMAIN work /\ work'[k] = work[k + 1]
  BY <1>1, <1>2, DoneStack
<1>4. work \in Seq(Message) /\ Call = work[1] /\ i \in Nat
  BY <1>1, <1>3 DEF Typed, Call
<1>5. i + 1 \in DOMAIN work /\ work'[i] = work[i + 1] /\ work'[i] \in Message
  BY <1>3
<1> DEFINE p == work[i + 1].params
           t == p.offer_token
           need == liq.pending.pre_balances[t] + p.amount
<1>6. p \in SwapParams /\ t \in Token /\ p.amount \in Nat
  <2>1. work'[i] \in LiquiditySwapMsg
    BY <1>5, CallOf DEF LiqSwap
  <2>2. QED
    BY <1>5, <2>1 DEF LiquiditySwapMsg, SwapParams
<1>7. bank[t][VAULT] \in Nat /\ bank'[t][VAULT] \in Int /\ liq.pending.pre_balances[t] \in Nat
  <2>1. liq.pending \in PendingDeposit
    BY <1>1, PendingOfKind DEF DepositPending
  <2>2. Honest(Call)
    BY <1>1, <1>4 DEF Stacked
  <2>3. bank[t][VAULT] \in Nat /\ bank'[t][VAULT] \in Int
    BY <1>1, <1>6, <2>2, VaultLoses
  <2>4. QED
    BY <1>6, <2>1, <2>3 DEF PendingDeposit, Amounts
<1>8. Funded(bank, liq.pending.pre_balances, work, i + 1)
  BY <1>5 DEF DepositFunded
<1>9. CASE bank[t][VAULT] >= need
  <2>1. bank'[t][VAULT] >= need
    BY <1>6, <1>7, <1>9
  <2>2. QED
    BY <1>5, <2>1 DEF Funded
<1>10. CASE \E j \in DOMAIN work : j < i + 1 /\ work[j].tok = t /\ bank[t][VAULT] + work[j].amt >= need
  <2>1. PICK j \in DOMAIN work : j < i + 1 /\ work[j].tok = t /\ bank[t][VAULT] + work[j].amt >= need
    BY <1>10
  <2>2. work[j].op = "TransferFrom" /\ work[j] \in Message /\ j \in Nat
    BY <1>1, <1>4, <1>5, <2>1 DEF Stacked
  <2>3. work[j] \in TransferFromMsg
    BY <2>2, CallOf
  <2>4. work[j].amt \in Nat
    BY <2>3 DEF TransferFromMsg
  <2>5. CASE j > 1
    <3>1. j - 1 \in DOMAIN work' /\ work'[j - 1] = work[j] /\ j - 1 < i
      BY <1>3, <1>4, <2>1, <2>2, <2>5
    <3>2. bank'[t][VAULT] + work'[j - 1].amt >= need
      <4>1. bank'[t][VAULT] >= bank[t][VAULT]
        BY <1>6
      <4>2. QED
        BY <1>6, <1>7, <2>1, <2>4, <3>1, <4>1
    <3>3. work'[j - 1].tok = t
      BY <2>1, <3>1
    <3>4. QED
      BY <1>5, <3>1, <3>2, <3>3 DEF Funded
  <2>6. CASE j = 1
    <3>1. Call \in TransferFromMsg /\ Call.tok = t /\ bank[t][VAULT] + Call.amt >= need
      BY <1>4, <2>1, <2>3, <2>6
    <3>2. Call.from # VAULT /\ Call.to = VAULT
      BY <1>1, <1>4, ExternalIs, <2>6 DEF Stacked, Honest
    <3>3. Call.amt <= bank[t][Call.from] /\ bank' = Moved(t, Call.from, VAULT, Call.amt)
      BY <3>1, <3>2, HandlerOf DEF TokenTransferFrom, Pay
    <3>4. bank'[t][VAULT] = bank[t][VAULT] + Call.amt
      BY <1>1, <1>6, <3>1, <3>2, <3>3, MovedAt DEF TransferFromMsg, Account
    <3>5. bank'[t][VAULT] >= need
      BY <3>1, <3>4
    <3>6. QED
      BY <1>5, <3>5 DEF Funded
  <2>7. QED
    BY <1>4, <2>2, <2>5, <2>6
<1>11. QED
  BY <1>8, <1>9, <1>10 DEF Funded

LEMMA DepositHandler ==
  ASSUME Guarded, DepositFunded, TxStep, ~Abort, Call.op # "Commit"
  PROVE  DepositFunded'
<1>1. Typed /\ SnapshotsCovered /\ work # <<>> /\ Stacked /\ Honest(Call) /\ UnboundPaused(vault)
  BY HandlerTop DEF Guarded, RepliesFollowSlots, UnboundKept
<1>2. Next
  BY DEF Next
<1>3. SUFFICES ASSUME DepositPending(liq') PROVE DepositFunded'
  BY DEF DepositFunded
<1>4. CASE Call.op = "Deposit"
  <2>1. ~VaultPays' /\ ~VaultSends'
    BY <1>2, <1>4, VaultOut
  <2>2. QED
    BY <1>4, <2>1, DepositStarts DEF DepositFunded
<1>5. CASE Call.op # "Deposit"
  <2>1. liq'.pending = liq.pending /\ Call.op # "Withdraw"
    BY <1>1, <1>3, <1>5, DepositStays
  <2>2. DepositPending(liq) /\ liq.pending \in PendingDeposit
    BY <1>1, <1>3, <2>1, PendingOfKind DEF DepositPending
  <2> DEFINE pre == liq.pending.pre_balances
  <2>3. \A i \in Token : pre[i] \in Nat
    BY <2>2 DEF PendingDeposit, Amounts
  <2>4. \A i \in Token : /\ bank[i][VAULT] \in Nat /\ bank'[i][VAULT] \in Int
                         /\ bank'[i][VAULT] >= bank[i][VAULT]
                            \/ (/\ Call.op = "Send" /\ Call.from = VAULT
                                /\ Call.tok = i /\ Call.amt \in Nat
                                /\ bank'[i][VAULT] >= bank[i][VAULT] - Call.amt)
    <3>1. ~(Call.op = "Transfer" /\ Call.from = VAULT)
      BY <1>1, <2>2 DEF DepositFunded, VaultPays
    <3>2. QED
      BY <1>1, <3>1, VaultLoses
  <2>5. \A i \in Token : bank'[i][VAULT] >= pre[i]
    <3>1. SUFFICES ASSUME NEW i \in Token PROVE bank'[i][VAULT] >= pre[i]
      OBVIOUS
    <3>2. bank[i][VAULT] >= pre[i]
      BY <2>2 DEF DepositFunded
    <3>3. Call.op = "Send" /\ Call.from = VAULT /\ Call.tok = i => bank[i][VAULT] >= pre[i] + Call.amt
      BY <1>1, <2>2 DEF DepositFunded, VaultSends
    <3>4. pre[i] \in Nat
      BY <2>3
    <3> HIDE DEF pre
    <3>5. QED
      BY <2>4, <3>2, <3>3, <3>4
  <2>6. ~VaultPays'
    <3>1. SUFFICES ASSUME VaultPays' PROVE FALSE
      OBVIOUS
    <3>2. transfer_allowed(Call)
      BY <1>2, <3>1, VaultOut
    <3>3. liquidity_authorization.transfers = <<>>
      <4>1. liquidity_authorization =
              [NoAuthorization EXCEPT !.swap = liq.pending.swap, !.finalize = liq.pending.swap = None]
        BY <2>2 DEF liquidity_authorization, DepositPending
      <4>2. QED
        BY <4>1 DEF NoAuthorization
    <3>4. QED
      BY <3>2, <3>3 DEF transfer_allowed
  <2>7. VaultSends' => bank'[Call'.tok][VAULT] >= pre[Call'.tok] + Call'.amt
    <3>1. SUFFICES ASSUME VaultSends' PROVE bank'[Call'.tok][VAULT] >= pre[Call'.tok] + Call'.amt
      OBVIOUS
    <3>2. Call.op # "Rebalance"
      <4>1. SUFFICES ASSUME Call.op = "Rebalance" PROVE FALSE
        OBVIOUS
      <4>2. ~vault.paused /\ ensure_no_liquidity_operation
        BY <1>1, <4>1, RebalanceRuns
      <4>3. liquidity_authorization = NoAuthorization
        BY <1>1, <4>2 DEF UnboundPaused, ensure_no_liquidity_operation
      <4>4. QED
        BY <1>1, <2>2, <4>3, OperationVisible DEF DepositPending
    <3>3. /\ Call.op = "LiquiditySwap" /\ Call'.tok = Call.params.offer_token
          /\ Call'.amt = Call.params.amount
      BY <1>2, <3>1, <3>2, VaultOut
    <3>4. assert_liquidity(Call.sender)
      BY <3>3, HandlerOf DEF execute_liquidity_swap
    <3>5. LiqSwap(Call)
      BY <1>1, <3>3, <3>4 DEF assert_liquidity, LiqSwap, Typed, VaultType
    <3>6. Call = work[1] /\ 1 \in DOMAIN work /\ \A j \in DOMAIN work : ~(j < 1)
      BY <1>1 DEF Typed, Call
    <3>7. Funded(bank, pre, work, 1)
      BY <2>2, <3>5, <3>6 DEF DepositFunded
    <3>8. bank[Call.params.offer_token][VAULT] >= pre[Call.params.offer_token] + Call.params.amount
      BY <3>6, <3>7 DEF Funded
    <3>9. bank' = bank
      BY <1>1, <3>3, HandlerFramed DEF Framed, MoveOps
    <3>10. QED
      BY <3>3, <3>8, <3>9
  <2>8. ASSUME NEW i \in DOMAIN work', LiqSwap(work'[i])
        PROVE  Funded(bank', liq'.pending.pre_balances, work', i)
    <3>1. CASE Call.op = "TransferFrom"
      <4>1. \A t \in Token : bank'[t][VAULT] >= bank[t][VAULT]
        BY <2>4, <3>1
      <4>2. QED
        BY <2>1, <2>2, <2>8, <3>1, <4>1, FundingKept
    <3>2. CASE Call.op # "TransferFrom"
      <4>1. \A k \in DOMAIN work : k > 1 => ~LiqSwap(work[k])
        BY <1>1, <3>2, NoSwapWaits
      <4>2. PICK msgs : Sent(msgs)
        BY <1>1, Returned
      <4>3. /\ msgs \in Seq(Message) /\ Return(msgs)
            /\ \A k \in DOMAIN msgs : SwapPart(msgs[k]) \/ SlotPart(msgs[k])
        BY <4>2 DEF Sent
      <4>4. i \in DOMAIN msgs /\ work'[i] = msgs[i]
        BY <1>1, <2>8, <4>1, <4>3, ReturnStack
      <4>5. Call.op \in {"Deposit", "Withdraw"}
        BY <2>8, <4>3, <4>4 DEF SwapPart, SlotPart, LiqSwap
      <4>6. QED
        BY <1>5, <2>1, <4>5
    <3>3. QED
      BY <3>1, <3>2
  <2>9. QED
    BY <2>1, <2>5, <2>6, <2>7, <2>8 DEF DepositFunded
<1>6. QED
  BY <1>4, <1>5

LEMMA DepositStep ==
  ASSUME Guarded, DepositFunded, Next
  PROVE  DepositFunded'
<1>1. Typed /\ SnapshotsCovered /\ RepliesFollowSlots /\ Stacked
  BY DEF Guarded, RepliesFollowSlots
<1>2. work = <<>> => liq.pending = None
  BY <1>1 DEF RepliesFollowSlots, OperationCovered, Waits
<1>3. liq'.pending = None => DepositFunded'
  BY DEF DepositFunded, DepositPending
<1>4. ASSUME NEW m \in LpCalls \cup KeeperCalls \cup AdminCalls \cup HookCalls, Submit(m)
      PROVE  DepositFunded'
  <2>1. m \in ExecuteMsg /\ ~LiqSwap(m)
    BY CallsHonest, ExternalIs DEF LiqSwap
  <2>2. ~VaultPays' /\ ~VaultSends'
    <3>1. m.op # "Send" /\ (m.op = "Transfer" => m.from # VAULT)
      BY CallsHonest, ExternalIs
    <3>2. Call' = m
      BY <1>1, <1>4, <2>1, StartStack, HookStack
    <3>3. QED
      BY <3>1, <3>2 DEF VaultPays, VaultSends
  <2>3. Snapshot' = Snapshot
    BY <1>1, <1>4, <2>1, StartStack, HookStack
  <2>4. liq' = liq /\ bank' = bank
    BY <2>3 DEF Snapshot
  <2>5. CASE work = <<>>
    BY <1>2, <1>3, <2>4, <2>5
  <2>6. CASE work # <<>>
    <3>1. /\ Call.op = "PairReceive" /\ work' \in Seq(Message) /\ work'[1] = m
          /\ \A i \in DOMAIN work' : i > 1 => i - 1 \in DOMAIN work /\ work'[i] = work[i - 1]
      BY <1>1, <1>4, <2>1, <2>6, HookStack
    <3>2. \A i \in DOMAIN work : ~LiqSwap(work[i])
      <4>1. \A i \in DOMAIN work : i > 1 => ~LiqSwap(work[i])
        BY <1>1, <2>6, <3>1, NoSwapWaits
      <4>2. ~LiqSwap(work[1])
        BY <1>1, <2>6, <3>1 DEF Call, LiqSwap
      <4>3. \A i \in DOMAIN work : i = 1 \/ i > 1
        BY <1>1 DEF Typed
      <4>4. QED
        BY <4>1, <4>2, <4>3
    <3>3. \A i \in DOMAIN work' : i = 1 \/ i > 1
      BY <3>1
    <3>4. \A i \in DOMAIN work' : ~LiqSwap(work'[i])
      BY <2>1, <3>1, <3>2, <3>3
    <3>5. QED
      BY <2>2, <2>4, <3>4 DEF DepositFunded
  <2>7. QED
    BY <2>5, <2>6
<1>5. ASSUME TxStep, ~Abort, Call.op # "Commit" PROVE DepositFunded'
  BY <1>5, DepositHandler
<1>6. ASSUME Commit PROVE DepositFunded'
  <2>1. Snapshot' = Snapshot /\ Len(work) = 1 /\ work # <<>> /\ Call.op = "Commit"
    BY <1>1, <1>6, CommitStack DEF Commit, Running, Call
  <2>2. work[1] = Call /\ \A i \in DOMAIN work : i = 1
    BY <1>1, <2>1 DEF Typed, Call
  <2>3. ~DepositPending(liq)
    BY <1>1, <2>1, <2>2 DEF RepliesFollowSlots, OperationCovered, Waits, DepositPending
  <2>4. liq' = liq
    BY <2>1 DEF Snapshot
  <2>5. QED
    BY <2>3, <2>4 DEF DepositFunded
<1>7. ASSUME Abort PROVE DepositFunded'
  <2>1. Snapshot' \in Saved(work) /\ Snapshot'.liq = liq'
    BY <1>1, <1>7, AbortSaved DEF Snapshot
  <2>2. liq'.pending # None => liq'.pending.kind = "WithdrawSingle"
    <3>1. \A s \in Saved(work) : s.liq.pending # None => s.liq.pending.kind = "WithdrawSingle"
      BY <1>1, SavedSlots
    <3>2. QED
      BY <2>1, <3>1
  <2>3. QED
    BY <2>2 DEF DepositFunded, DepositPending
<1>8. ASSUME Environment PROVE DepositFunded'
  <2>1. work = <<>> /\ liq'.pending = liq.pending
    BY <1>1, <1>8 DEF Environment, MarketMove, PairMigrated, LiquidityMigrated, Typed, LiquidityType
  <2>2. QED
    BY <1>2, <1>3, <2>1
<1>9. QED
  BY <1>4, <1>5, <1>6, <1>7, <1>8, NextKinds

\* A deposit's swap spends only what the deposit brought, whatever the pair
\* calls back before the reply.
THEOREM DepositsSpareIncumbents == Spec => []DepositSparesIncumbents
<1>1. Init => DepositFunded
  BY DEF Init, liquidity_instantiate, DepositFunded, DepositPending
<1>2. Guarded /\ DepositFunded /\ [Next]_vars => DepositFunded'
  <2> SUFFICES ASSUME Guarded, DepositFunded, [Next]_vars PROVE DepositFunded'
    OBVIOUS
  <2>1. CASE Next
    BY <2>1, DepositStep
  <2>2. CASE UNCHANGED vars
    BY <2>2 DEF vars, storage, DepositFunded, VaultSends, VaultPays, Call
  <2>3. QED
    BY <2>1, <2>2
<1>3. DepositFunded => DepositSparesIncumbents
  BY DEF DepositFunded, DepositPending, DepositSparesIncumbents
<1>4. QED
  BY <1>1, <1>2, <1>3, AlwaysGuarded, PTL DEF Spec

-----------------------------------------------------------------------------
(* What passes through the proxy. *)

Calls == LpCalls \cup KeeperCalls \cup AdminCalls \cup HookCalls

\* Nobody asks for assets to be paid to the proxy itself.
ProxyUnpaid == \A m \in Calls : m.op \in {"Transfer", "Withdraw"} => m.to # PROXY

\* A swap on its way through the proxy.
InFlight(m) == m.op = "ProxyReceive" \/ (m.op = "Send" /\ m.from = PROXY)

\* Messages that pay no assets to the proxy.
Passes(m) ==
    /\ m.op \in {"Transfer", "Withdraw"} => m.to # PROXY
    /\ m.op = "TransferTo" /\ m.sender = LIQ => m.to # PROXY

PaysElsewhere(l) ==
    l.pending # None /\ l.pending.kind = "WithdrawSingle" => l.pending.recipient # PROXY

Empty(b) == \A t \in Token : b[t][PROXY] = 0

Carried(t) == IF work # <<>> /\ InFlight(Call) /\ Call.tok = t THEN Call.amt ELSE 0

ProxyFlow ==
    /\ \A t \in Token : bank[t][PROXY] = Carried(t)
    /\ \A i \in DOMAIN work : Passes(work[i])
    /\ PaysElsewhere(liq)
    /\ \A s \in Saved(work) : Empty(s.bank) /\ PaysElsewhere(s.liq)

\* Sending runs on as the receiver's handler, and the proxy forwards at once.
LEMMA SwapGoesOn ==
  ASSUME Guarded, TxStep, ~Abort, Call.op \in {"Send", "ProxyReceive"}
  PROVE  SwapPart(Call')
<1>1. Typed /\ SnapshotsCovered
  BY DEF Guarded, RepliesFollowSlots
<1>2. PICK msgs : Sent(msgs) /\ DOMAIN msgs = {1}
  BY <1>1, SwapSent
<1>3. /\ work # <<>> /\ msgs \in Seq(Message) /\ Return(msgs)
      /\ SwapPart(msgs[1]) \/ SlotPart(msgs[1])
  BY <1>2, HandlerOf DEF Sent
<1>4. work' \in Seq(Message) /\ work' # <<>> /\ work'[1] = msgs[1]
  BY <1>1, <1>2, <1>3, ReturnStack
<1>5. Call' = msgs[1]
  BY <1>4 DEF Call
<1>6. QED
  BY <1>3, <1>5 DEF SlotPart

\* The proxy's balance after a handler.
LEMMA ProxyHandler ==
  ASSUME Guarded, ProxyFlow, TxStep, ~Abort, Call.op # "Commit"
  PROVE  /\ \A t \in Token : bank'[t][PROXY] = Carried(t)'
         /\ Call.op = "Withdraw" => Empty(bank')
<1>1. Typed /\ work # <<>> /\ Honest(Call) /\ work' # <<>> /\ Call \in Message
  BY HandlerTop, RunningCall DEF Guarded
<1>2. bank \in [Token -> [Account -> Nat]] /\ PROXY \in Account
  BY <1>1 DEF Typed, Account
<1>3. \A t \in Token : Carried(t) = IF InFlight(Call) /\ Call.tok = t THEN Call.amt ELSE 0
  BY <1>1 DEF Carried
<1>4. \A t \in Token : Carried(t)' = IF InFlight(Call') /\ Call'.tok = t THEN Call'.amt ELSE 0
  BY <1>1 DEF Carried
<1>5. \A t \in Token : bank[t][PROXY] = IF InFlight(Call) /\ Call.tok = t THEN Call.amt ELSE 0
  BY <1>3 DEF ProxyFlow
<1>6. Call.op \notin {"Send", "ProxyReceive"} => ~InFlight(Call')
  <2>1. SwapPart(Call') \/ SlotPart(Call') \/ Call'.op \in WaitingOps
    BY HandlerTop
  <2>2. QED
    BY <2>1 DEF SwapPart, SlotPart, WaitingOps, InFlight, VAULT, PROXY
<1>7. CASE Call.op \notin MoveOps
  <2>1. bank' = bank
    BY <1>1, <1>7, HandlerFramed DEF Framed
  <2>2. CASE Call.op = "ProxyReceive"
    <3>1. InFlight(Call) /\ InFlight(Call') /\ Call'.tok = Call.tok /\ Call'.amt = Call.amt
      BY <2>2, SwapGoesOn DEF SwapPart, InFlight
    <3>2. QED
      BY <1>4, <1>5, <2>1, <2>2, <3>1
  <2>3. CASE Call.op # "ProxyReceive"
    <3>1. ~InFlight(Call) /\ ~InFlight(Call')
      BY <1>6, <1>7, <2>3 DEF InFlight, MoveOps
    <3>2. QED
      BY <1>4, <1>5, <2>1, <3>1 DEF Empty
  <2>4. QED
    BY <2>2, <2>3
<1>8. CASE Call.op \in MoveOps
  <2>1. PICK t \in Token, f \in Account, to \in Account, a \in Nat :
              /\ a <= bank[t][f] /\ bank' = Moved(t, f, to, a)
              /\ \/ /\ Call.op \in {"Transfer", "TransferFrom", "Send"}
                    /\ t = Call.tok /\ f = Call.from /\ to = Call.to /\ a = Call.amt
                 \/ /\ Call.op = "PairReceive"
                    /\ t = 1 - Call.tok /\ f = PAIR /\ to = Call.hook.to
    BY <1>1, <1>8, BankMoves
  <2>2. \A u \in Token : u # t \/ f = to \/ (PROXY # f /\ PROXY # to) => bank'[u][PROXY] = bank[u][PROXY]
    BY <1>1, <1>2, <2>1, MovedAt
  <2>3. f # to => bank'[t][f] = bank[t][f] - a /\ bank'[t][to] = bank[t][to] + a
    BY <1>1, <2>1, MovedAt
  <2>4. CASE Call.op # "Send"
    <3>1. f # PROXY /\ to # PROXY
      <4>1. CASE Call.op = "Transfer"
        <5>1. f \in External \cup {VAULT} /\ Passes(Call)
          <6>1. Call = work[1] /\ 1 \in DOMAIN work
            BY <1>1 DEF Typed, Call
          <6>2. QED
            BY <1>1, <2>1, <4>1, <6>1 DEF Honest, ProxyFlow
        <5>2. QED
          BY <2>1, <4>1, <5>1, ExternalIs DEF Passes, VAULT, PROXY
      <4>2. CASE Call.op = "TransferFrom"
        BY <1>1, <2>1, <4>2, ExternalIs DEF Honest, VAULT, PROXY
      <4>3. CASE Call.op = "PairReceive"
        BY <1>1, <2>1, <4>3 DEF Honest, VAULT, PROXY, PAIR
      <4>4. QED
        BY <1>8, <2>4, <4>1, <4>2, <4>3 DEF MoveOps
    <3>2. ~InFlight(Call) /\ ~InFlight(Call')
      BY <1>6, <1>8, <2>4 DEF InFlight, MoveOps
    <3>3. QED
      BY <1>4, <1>5, <1>8, <2>2, <3>1, <3>2 DEF MoveOps
  <2>5. CASE Call.op = "Send"
    <3>1. SwapPart(Call') /\ Call \in SendMsg /\ t = Call.tok /\ f = Call.from /\ to = Call.to /\ a = Call.amt
      BY <1>1, <2>1, <2>5, SwapGoesOn, CallOf
    <3>2. CASE Call.from = VAULT
      <4>1. to = PROXY /\ f # to
        BY <3>1, <3>2 DEF SendMsg, VAULT, PROXY, PAIR
      <4>2. ~InFlight(Call)
        BY <2>5, <3>2 DEF InFlight, VAULT, PROXY
      <4>3. InFlight(Call') /\ Call'.tok = t /\ Call'.amt = a
        BY <2>5, <3>1, <3>2 DEF SwapPart, InFlight, VAULT, PROXY
      <4>4. bank[t][PROXY] = 0 /\ bank'[t][PROXY] = a
        BY <1>5, <2>1, <2>3, <4>1, <4>2
      <4>5. \A u \in Token : u # t => bank'[u][PROXY] = 0
        BY <1>5, <2>2, <4>2
      <4>6. QED
        BY <1>4, <2>5, <4>3, <4>4, <4>5
    <3>3. CASE Call.from = PROXY
      <4>1. f = PROXY /\ f # to
        BY <3>1, <3>3 DEF SendMsg, VAULT, PROXY, PAIR
      <4>2. InFlight(Call)
        BY <2>5, <3>3 DEF InFlight
      <4>3. ~InFlight(Call')
        BY <2>5, <3>1, <3>3 DEF SwapPart, InFlight, VAULT, PROXY
      <4>4. bank[t][PROXY] = a /\ bank'[t][PROXY] = 0
        <5>1. bank[t][PROXY] = a
          BY <1>5, <2>1, <3>1, <4>2
        <5>2. bank'[t][PROXY] = a - a
          BY <2>3, <4>1, <5>1
        <5>3. QED
          BY <2>1, <5>1, <5>2
      <4>5. \A u \in Token : u # t => bank'[u][PROXY] = 0
        BY <1>5, <2>2, <3>1
      <4>6. QED
        BY <1>4, <2>5, <4>3, <4>4, <4>5
    <3>4. QED
      BY <3>1, <3>2, <3>3 DEF SendMsg
  <2>6. QED
    BY <2>4, <2>5
<1>9. QED
  BY <1>7, <1>8

\* What a handler sends, and what it leaves pending, pays nothing to the proxy.
LEMMA PassesHandler ==
  ASSUME Guarded, ProxyFlow, TxStep, ~Abort, Call.op # "Commit"
  PROVE  (\A i \in DOMAIN work' : Passes(work'[i])) /\ PaysElsewhere(liq')
<1>1. Typed /\ SnapshotsCovered /\ work # <<>>
  BY HandlerTop DEF Guarded, RepliesFollowSlots
<1>2. PICK msgs : Sent(msgs)
  BY <1>1, Returned
<1>3. /\ msgs \in Seq(Message) /\ Return(msgs)
      /\ \A i \in DOMAIN msgs : SwapPart(msgs[i]) \/ SlotPart(msgs[i])
  BY <1>2 DEF Sent
<1>4. Call = work[1] /\ 1 \in DOMAIN work
  BY <1>1 DEF Typed, Call
<1>5. Passes(Call)
  BY <1>4 DEF ProxyFlow
<1>6. Call.op = "TransferTo" => Call.to # PROXY
  <2>1. SUFFICES ASSUME Call.op = "TransferTo" PROVE Call.to # PROXY
    OBVIOUS
  <2>2. assert_liquidity(Call.sender)
    BY <2>1, HandlerOf DEF execute_transfer, transfer_allowed
  <2>3. Call.sender = LIQ
    BY <1>1, <2>2 DEF assert_liquidity, Typed, VaultType
  <2>4. QED
    BY <1>5, <2>1, <2>3 DEF Passes
<1>7. Call.op = "WithdrawReply" => liq.pending.recipient # PROXY
  BY <1>1, HandlerOf DEF complete_single_withdraw, ProxyFlow, PaysElsewhere
<1>8. \A i \in DOMAIN msgs : Passes(msgs[i])
  BY <1>3, <1>5, <1>6, <1>7 DEF SwapPart, SlotPart, Passes
<1>9. \A i \in DOMAIN work' : Passes(work'[i])
  BY <1>1, <1>3, <1>8, ReturnStack DEF ProxyFlow
<1>10. PaysElsewhere(liq')
  <2>1. SUFFICES ASSUME liq'.pending # None, liq'.pending.kind = "WithdrawSingle"
                 PROVE  liq'.pending.recipient # PROXY
    BY DEF PaysElsewhere
  <2>2. CASE Call.op = "Withdraw"
    <3>1. Call.payout # None
      BY <1>1, <2>1, <2>2, ProRataRuns
    <3>2. liq'.pending.recipient = Call.to
      BY <1>1, <2>2, <3>1, EscrowRuns
    <3>3. QED
      BY <1>5, <2>2, <3>2 DEF Passes
  <2>3. CASE Call.op # "Withdraw"
    <3>1. Call.op # "Deposit"
      <4>1. Call.op = "Deposit" => liq'.pending.kind = "Deposit"
        BY <1>1, HandlerOf DEF execute_deposit, Typed, LiquidityType
      <4>2. QED
        BY <2>1, <4>1
    <3>2. liq'.pending = liq.pending
      BY <1>1, <2>1, <2>3, <3>1, SlotStays
    <3>3. QED
      BY <2>1, <3>2 DEF ProxyFlow, PaysElsewhere
  <2>4. QED
    BY <2>2, <2>3
<1>11. QED
  BY <1>9, <1>10

LEMMA ProxyStep ==
  ASSUME ProxyUnpaid, Guarded, ProxyFlow, Next
  PROVE  ProxyFlow'
<1>1. Typed /\ SnapshotsCovered /\ RepliesFollowSlots
  BY DEF Guarded, RepliesFollowSlots
<1>2. ASSUME NEW m \in Calls, Submit(m) PROVE ProxyFlow'
  <2>1. /\ m \in ExecuteMsg /\ m.op \notin {"Send", "ProxyReceive"}
        /\ m.op = "TransferTo" => m.sender # LIQ
    BY CallsHonest, ExternalIs DEF Calls
  <2>2. Passes(m) /\ ~InFlight(m)
    BY <2>1 DEF Passes, InFlight, ProxyUnpaid
  <2>3. Call' = m /\ Snapshot' = Snapshot /\ Saved(work') \subseteq Saved(work) \cup {Snapshot}
    BY <1>1, <1>2, <2>1, StartStack, HookStack
  <2>4. liq' = liq /\ bank' = bank /\ Snapshot.bank = bank /\ Snapshot.liq = liq
    BY <2>3 DEF Snapshot
  <2>5. \A t \in Token : Carried(t) = 0
    BY <1>2 DEF Submit, Running, Carried, InFlight, Call
  <2>6. \A t \in Token : Carried(t)' = 0
    BY <2>2, <2>3 DEF Carried
  <2>7. Empty(bank)
    BY <2>5 DEF ProxyFlow, Empty
  <2>8. \A i \in DOMAIN work' : Passes(work'[i])
    <3>1. CASE work = <<>>
      <4>1. DOMAIN work' = {1, 2} /\ work'[1] = m /\ work'[2].op = "Commit"
        BY <1>1, <1>2, <2>1, <3>1, StartStack
      <4>2. Passes(work'[2])
        BY <4>1 DEF Passes
      <4>3. QED
        BY <2>2, <4>1, <4>2
    <3>2. CASE work # <<>>
      <4>1. /\ work' \in Seq(Message) /\ work'[1] = m
            /\ \A i \in DOMAIN work' : i > 1 => i - 1 \in DOMAIN work /\ work'[i] = work[i - 1]
        BY <1>1, <1>2, <2>1, <3>2, HookStack
      <4>2. \A i \in DOMAIN work' : i = 1 \/ i > 1
        BY <4>1
      <4>3. QED
        BY <2>2, <4>1, <4>2 DEF ProxyFlow
    <3>3. QED
      BY <3>1, <3>2
  <2>9. \A s \in Saved(work') : Empty(s.bank) /\ PaysElsewhere(s.liq)
    BY <2>3, <2>4, <2>7 DEF ProxyFlow
  <2>10. \A t \in Token : bank'[t][PROXY] = Carried(t)'
    BY <2>4, <2>6, <2>7 DEF Empty
  <2>11. PaysElsewhere(liq')
    BY <2>4 DEF ProxyFlow
  <2>12. QED
    BY <2>8, <2>9, <2>10, <2>11 DEF ProxyFlow
<1>3. ASSUME TxStep, ~Abort, Call.op # "Commit" PROVE ProxyFlow'
  <2>1. /\ \A t \in Token : bank'[t][PROXY] = Carried(t)'
        /\ Call.op = "Withdraw" => Empty(bank')
    BY <1>3, ProxyHandler
  <2>2. (\A i \in DOMAIN work' : Passes(work'[i])) /\ PaysElsewhere(liq')
    BY <1>3, PassesHandler
  <2>3. /\ Saved(work') \subseteq Saved(work) \cup {Snapshot'}
        /\ Call.op # "Withdraw" => Saved(work') \subseteq Saved(work)
    BY <1>1, <1>3, HandlerSaved
  <2>4. Snapshot'.bank = bank' /\ Snapshot'.liq = liq'
    BY DEF Snapshot
  <2>5. \A s \in Saved(work') : Empty(s.bank) /\ PaysElsewhere(s.liq)
    BY <2>1, <2>2, <2>3, <2>4 DEF ProxyFlow
  <2>6. QED
    BY <2>1, <2>2, <2>5 DEF ProxyFlow
<1>4. ASSUME Abort PROVE ProxyFlow'
  <2>1. Snapshot' \in Saved(work) /\ Saved(work') \subseteq Saved(work)
        /\ Snapshot'.bank = bank' /\ Snapshot'.liq = liq'
    BY <1>1, <1>4, AbortSaved DEF Snapshot
  <2>2. Empty(bank') /\ PaysElsewhere(liq')
        /\ \A s \in Saved(work') : Empty(s.bank) /\ PaysElsewhere(s.liq)
    BY <2>1 DEF ProxyFlow
  <2>3. PICK k \in DOMAIN work :
           \/ work' = <<>>
           \/ /\ work' \in Seq(Message) /\ Call'.op = "WithdrawFailed" /\ work'[1].op = "WithdrawFailed"
              /\ \A i \in DOMAIN work' : i > 1 =>
                    i + k - 1 \in DOMAIN work /\ work'[i] = work[i + k - 1]
    BY <1>1, <1>4, AbortStack
  <2>4. \A t \in Token : Carried(t)' = 0
    BY <2>3 DEF Carried, InFlight
  <2>5. \A i \in DOMAIN work' : Passes(work'[i])
    <3>1. CASE work' = <<>>
      BY <3>1
    <3>2. CASE /\ work' \in Seq(Message) /\ work'[1].op = "WithdrawFailed"
               /\ \A i \in DOMAIN work' : i > 1 =>
                    i + k - 1 \in DOMAIN work /\ work'[i] = work[i + k - 1]
      <4>1. \A i \in DOMAIN work' : i = 1 \/ i > 1
        BY <3>2
      <4>2. Passes(work'[1])
        BY <3>2 DEF Passes
      <4>3. QED
        BY <3>2, <4>1, <4>2 DEF ProxyFlow
    <3>3. QED
      BY <2>3, <3>1, <3>2
  <2>6. QED
    BY <2>2, <2>4, <2>5 DEF ProxyFlow, Empty
<1>5. ASSUME work' = <<>>, liq'.pending = liq.pending, \A t \in Token : bank'[t][PROXY] = 0
      PROVE  ProxyFlow'
  BY <1>5 DEF ProxyFlow, Carried, Saved, PaysElsewhere
<1>6. ASSUME Commit PROVE ProxyFlow'
  <2>1. Snapshot' = Snapshot /\ work' = <<>> /\ Call.op = "Commit"
    BY <1>1, <1>6, CommitStack DEF Commit, Running, Call
  <2>2. liq' = liq /\ bank' = bank
    BY <2>1 DEF Snapshot
  <2>3. \A t \in Token : bank[t][PROXY] = 0
    BY <2>1 DEF ProxyFlow, Carried, InFlight
  <2>4. QED
    BY <1>5, <2>1, <2>2, <2>3
<1>7. ASSUME Environment PROVE ProxyFlow'
  <2>1. work = <<>> /\ work' = <<>> /\ liq'.pending = liq.pending
    BY <1>1, <1>7 DEF Environment, MarketMove, PairMigrated, LiquidityMigrated, Typed, LiquidityType
  <2>2. \A t \in Token : bank[t][PROXY] = 0
    BY <2>1 DEF ProxyFlow, Carried
  <2>3. \A t \in Token : bank'[t][PROXY] = bank[t][PROXY]
    <3>1. CASE MarketMove
      <4>1. PICK m \in Markets : bank' = [i \in Token |-> [bank[i] EXCEPT ![PAIR] = m.reserves[i]]]
        BY <3>1 DEF MarketMove
      <4>2. \A i \in Token : bank[i] \in [Account -> Nat]
        BY <1>1 DEF Typed
      <4>3. QED
        BY <4>1, <4>2 DEF PROXY, PAIR, Account
    <3>2. CASE PairMigrated \/ LiquidityMigrated
      BY <3>2 DEF PairMigrated, LiquidityMigrated
    <3>3. QED
      BY <1>7, <3>1, <3>2 DEF Environment
  <2>4. QED
    BY <1>5, <2>1, <2>2, <2>3
<1>8. QED
  BY <1>2, <1>3, <1>4, <1>6, <1>7, NextKinds DEF Calls

\* The proxy forwards exactly what it received and the pair pays the vault:
\* unless somebody pays the proxy on purpose, no swap leaves tokens in it.
THEOREM ProxyIsEmpty ==
  ASSUME ProxyUnpaid
  PROVE  Spec => []ProxyKeepsNothing
<1>1. Init => ProxyFlow
  <2> SUFFICES ASSUME Init PROVE ProxyFlow
    OBVIOUS
  <2>1. work = <<>> /\ liq.pending = None
    BY DEF Init, liquidity_instantiate
  <2>2. \A i \in Token : bank[i][PROXY] = 0
    BY ActorAssumption DEF Init, PROXY, VAULT, PAIR, Account
  <2>3. QED
    BY <2>1, <2>2 DEF ProxyFlow, Carried, PaysElsewhere, Saved
<1>2. Guarded /\ ProxyFlow /\ [Next]_vars => ProxyFlow'
  <2> SUFFICES ASSUME Guarded, ProxyFlow, [Next]_vars PROVE ProxyFlow'
    OBVIOUS
  <2>1. CASE Next
    BY <2>1, ProxyStep
  <2>2. CASE UNCHANGED vars
    BY <2>2 DEF vars, storage, ProxyFlow, Carried, Call, Saved
  <2>3. QED
    BY <2>1, <2>2
<1>3. ProxyFlow => ProxyKeepsNothing
  BY DEF ProxyFlow, Carried, ProxyKeepsNothing, Idle
<1>4. QED
  BY <1>1, <1>2, <1>3, AlwaysGuarded, PTL DEF Spec

\* After a handler: the messages it sent, and those that waited, of the same
\* transaction.
LEMMA HandlerMessages ==
  ASSUME Guarded, TxStep, ~Abort, Call.op # "Commit"
  PROVE  /\ work # <<>> /\ work' # <<>> /\ Call = work[1] /\ 1 \in DOMAIN work
         /\ Committed' = Committed /\ TxCall' = TxCall
         /\ \A i \in DOMAIN work' :
               \/ SwapPart(work'[i]) \/ SlotPart(work'[i])
               \/ \E k \in DOMAIN work : k > 1 /\ work'[i] = work[k]
<1>1. Typed /\ SnapshotsCovered
  BY DEF Guarded, RepliesFollowSlots
<1>2. PICK msgs : Sent(msgs)
  BY <1>1, Returned
<1>3. /\ work # <<>> /\ msgs \in Seq(Message) /\ Return(msgs)
      /\ \A i \in DOMAIN msgs : SwapPart(msgs[i]) \/ SlotPart(msgs[i])
  BY <1>2, HandlerOf DEF Sent
<1>4. /\ work' # <<>> /\ Committed' = Committed /\ TxCall' = TxCall
      /\ \A i \in DOMAIN work' :
            \/ i \in DOMAIN msgs /\ work'[i] = msgs[i]
            \/ /\ i - Len(msgs) + 1 \in DOMAIN work /\ i - Len(msgs) + 1 > 1
               /\ work'[i] = work[i - Len(msgs) + 1]
  BY <1>1, <1>3, ReturnStack
<1>5. Call = work[1] /\ 1 \in DOMAIN work
  BY <1>1, <1>3 DEF Typed, Call
<1>6. \A i \in DOMAIN work' :
               \/ SwapPart(work'[i]) \/ SlotPart(work'[i])
               \/ \E k \in DOMAIN work : k > 1 /\ work'[i] = work[k]
  BY <1>3, <1>4
<1>7. QED
  BY <1>3, <1>4, <1>5, <1>6

\* After a failure: the failure's reply, and messages that waited.
LEMMA AbortMessages ==
  ASSUME Guarded, Abort
  PROVE  /\ Snapshot' \in Saved(work) /\ Saved(work') \subseteq Saved(work)
         /\ \/ work' = <<>>
            \/ /\ work' # <<>> /\ Call'.op = "WithdrawFailed"
               /\ Committed' = Committed /\ TxCall' = TxCall /\ work # <<>>
               /\ \A i \in DOMAIN work' :
                     \/ work'[i].op = "WithdrawFailed"
                     \/ \E k \in DOMAIN work : k > 1 /\ work'[i] = work[k]
<1>1. Typed /\ SnapshotsCovered
  BY DEF Guarded, RepliesFollowSlots
<1>2. Snapshot' \in Saved(work) /\ Saved(work') \subseteq Saved(work)
  BY <1>1, AbortSaved
<1>3. PICK k \in DOMAIN work :
           /\ k > 1
           /\ \/ work' = <<>>
              \/ /\ work' \in Seq(Message) /\ work' # <<>>
                 /\ Call'.op = "WithdrawFailed" /\ work'[1].op = "WithdrawFailed"
                 /\ \A i \in DOMAIN work' : i > 1 =>
                       i + k - 1 \in DOMAIN work /\ i + k - 1 > k /\ work'[i] = work[i + k - 1]
                 /\ Committed' = Committed /\ TxCall' = TxCall
  BY <1>1, AbortStack
<1>4. CASE work' = <<>>
  BY <1>2, <1>4
<1>5. CASE /\ work' \in Seq(Message) /\ work' # <<>>
           /\ Call'.op = "WithdrawFailed" /\ work'[1].op = "WithdrawFailed"
           /\ \A i \in DOMAIN work' : i > 1 =>
                 i + k - 1 \in DOMAIN work /\ i + k - 1 > k /\ work'[i] = work[i + k - 1]
           /\ Committed' = Committed /\ TxCall' = TxCall
  <2>1. \A i \in DOMAIN work' : i \in Nat /\ (i = 1 \/ i > 1)
    BY <1>5
  <2>2. k \in Nat /\ work # <<>>
    BY <1>1, <1>3 DEF Typed
  <2>3. \A i \in DOMAIN work' : i > 1 => i + k - 1 > 1
    BY <1>3, <2>1, <2>2
  <2>4. QED
    BY <1>2, <1>5, <2>1, <2>2, <2>3
<1>6. QED
  BY <1>3, <1>4, <1>5

\* A handler for a call of an account runs first in its transaction, or in a
\* callback of the pair.
LEMMA EntryIsFirst ==
  ASSUME Guarded, work # <<>>, Call.op \in EntryOps
  PROVE  \/ TxCall = Call /\ Committed = Snapshot
         \/ \E i \in DOMAIN work : work[i].op = "PairReceive"
<1>1. work \in Seq(Message) /\ Call = work[1]
  BY DEF Guarded, Typed, Call
<1>2. CASE Len(work) = 2 /\ Snapshot = work[2].snap /\ work[2].call = work[1]
  BY <1>1, <1>2 DEF TxCall, Committed, Idle
<1>3. CASE Len(work) > 1 /\ work[2].op = "PairReceive"
  <2>1. 2 \in DOMAIN work
    BY <1>1, <1>3
  <2>2. QED
    BY <1>3, <2>1
<1>4. QED
  BY <1>2, <1>3 DEF Guarded, Stacked, Fresh

LEMMA SavedTyped ==
  ASSUME Typed, NEW s \in Saved(work)
  PROVE  s \in SnapshotType
<1>1. PICK i \in DOMAIN work : s = work[i].snap /\ work[i].op \in {"Commit", "WithdrawReply"}
  BY DEF Saved
<1>2. work[i] \in Message
  BY DEF Typed
<1>3. QED
  BY <1>1, <1>2, CallOf DEF CommitMsg, WithdrawReplyMsg

\* The state a transaction goes back to has no pending slot.
LEMMA CommittedSettled ==
  ASSUME Guarded, work # <<>>
  PROVE  /\ Committed.vault.pending = None /\ Committed.liq.pending = None
         /\ Committed \in Saved(work)
<1>1. work \in Seq(Message) /\ Len(work) \in DOMAIN work
  BY DEF Guarded, Typed
<1>2. SnapshotCovered(Len(work), work)
  BY <1>1 DEF Guarded, RepliesFollowSlots, SnapshotsCovered
<1>3. work[Len(work)].op = "Commit"
  BY <1>2 DEF SnapshotCovered
<1>4. QED
  BY <1>1, <1>2, <1>3 DEF SnapshotCovered, Committed, Idle, Saved

-----------------------------------------------------------------------------
(* A liquidity contract that is not bound. *)

BindingStale(s) ==
    s.vault.liquidity_contract = None \/ s.liq.code # s.vault.liquidity_code_id

StaleTx == work # <<>> /\ TxCall.op \in LpOperations /\ BindingStale(Committed)

NoLoss(b) == \A i \in Token : b[i][VAULT] >= Committed.bank[i][VAULT]

\* While such a transaction runs the vault keeps its configuration and its
\* assets, and no swap starts.
StaleKept ==
    StaleTx =>
        /\ vault = Committed.vault /\ liq.code = Committed.liq.code /\ NoLoss(bank)
        /\ ~VaultPays
        /\ \A i \in DOMAIN work : work[i].op \notin Swapping
        /\ \A s \in Saved(work) :
             s.vault = Committed.vault /\ s.liq.code = Committed.liq.code /\ NoLoss(s.bank)

LEMMA StaleRefused ==
  ASSUME Typed, vault = Committed.vault, liq.code = Committed.liq.code, BindingStale(Committed),
         NEW sender
  PROVE  ~assert_liquidity(sender)
BY DEF assert_liquidity, BindingStale

LEMMA StaleHandler ==
  ASSUME Guarded, StaleKept, TxStep, ~Abort, Call.op # "Commit"
  PROVE  StaleKept'
<1>1. Typed /\ SnapshotsCovered /\ Honest(Call)
  BY HandlerTop DEF Guarded, RepliesFollowSlots
<1>2. /\ work # <<>> /\ work' # <<>> /\ Call = work[1] /\ 1 \in DOMAIN work
      /\ Committed' = Committed /\ TxCall' = TxCall
      /\ \A i \in DOMAIN work' :
            \/ SwapPart(work'[i]) \/ SlotPart(work'[i])
            \/ \E k \in DOMAIN work : k > 1 /\ work'[i] = work[k]
  BY HandlerMessages
<1>3. SUFFICES ASSUME StaleTx PROVE StaleKept'
  BY <1>2 DEF StaleKept, StaleTx
<1>4. /\ vault = Committed.vault /\ liq.code = Committed.liq.code /\ NoLoss(bank)
      /\ ~VaultPays
      /\ \A i \in DOMAIN work : work[i].op \notin Swapping
      /\ \A s \in Saved(work) :
            s.vault = Committed.vault /\ s.liq.code = Committed.liq.code /\ NoLoss(s.bank)
  BY <1>3 DEF StaleKept
<1>5. ~assert_liquidity(Call.sender)
  BY <1>1, <1>3, <1>4, StaleRefused DEF StaleTx
<1>6. Call.op \notin VaultOps
  <2>1. ASSUME Call.op \in EntryOps PROVE Call.op \in LpOperations
    <3>1. TxCall = Call
      BY <1>2, <1>4, <2>1, EntryIsFirst DEF Swapping
    <3>2. QED
      BY <1>3, <3>1 DEF StaleTx
  <2>2. Call.op # "RebalanceReply"
    <3>1. vault.pending = None
      BY <1>2, <1>4, CommittedSettled
    <3>2. QED
      BY <3>1, HandlerOf DEF complete_rebalance
  <2>3. QED
    BY <2>1, <2>2 DEF VaultOps, EntryOps, LpOperations
<1>7. vault' = vault /\ liq'.code = liq.code
  BY <1>1, <1>6, HandlerFramed DEF Framed
<1>8. \A i \in Token : bank'[i][VAULT] >= Committed.bank[i][VAULT]
  <2>1. SUFFICES ASSUME NEW i \in Token PROVE bank'[i][VAULT] >= Committed.bank[i][VAULT]
    OBVIOUS
  <2>2. bank[i][VAULT] \in Nat /\ bank'[i][VAULT] \in Int /\ bank'[i][VAULT] >= bank[i][VAULT]
    BY <1>1, <1>2, <1>4, VaultLoses DEF VaultPays, Swapping
  <2>3. bank[i][VAULT] >= Committed.bank[i][VAULT] /\ Committed.bank[i][VAULT] \in Nat
    <3>1. Committed \in SnapshotType
      BY <1>1, <1>2, CommittedSettled, SavedTyped
    <3>2. QED
      BY <1>4, <3>1 DEF NoLoss, SnapshotType, Account
  <2>4. QED
    BY <2>2, <2>3
<1>9. ~VaultPays'
  <2>1. Next
    BY DEF Next
  <2>2. VaultPays' => Call.op = "TransferTo" /\ assert_liquidity(Call.sender)
    BY <2>1, VaultOut DEF transfer_allowed
  <2>3. QED
    BY <1>5, <2>2
<1>10. \A i \in DOMAIN work' : work'[i].op \notin Swapping
  <2>1. SUFFICES ASSUME NEW i \in DOMAIN work', work'[i].op \in Swapping PROVE FALSE
    OBVIOUS
  <2>2. SwapPart(work'[i]) \/ SlotPart(work'[i])
    BY <1>2, <1>4, <2>1
  <2>3. Call.op \in {"Send", "ProxyReceive", "LiquiditySwap", "Rebalance"}
    BY <2>1, <2>2 DEF SwapPart, SlotPart, Swapping
  <2>4. Call.op # "LiquiditySwap"
    BY <1>5, HandlerOf DEF execute_liquidity_swap
  <2>5. QED
    BY <1>2, <1>4, <1>6, <2>3, <2>4 DEF VaultOps, Swapping
<1>11. Saved(work') \subseteq Saved(work) \cup {Snapshot'}
  BY <1>1, HandlerSaved
<1>12. Snapshot'.vault = vault' /\ Snapshot'.liq = liq' /\ Snapshot'.bank = bank'
  BY DEF Snapshot
<1>13. QED
  BY <1>2, <1>4, <1>7, <1>8, <1>9, <1>10, <1>11, <1>12 DEF StaleKept, NoLoss

LEMMA StaleStep ==
  ASSUME Guarded, StaleKept, Next
  PROVE  StaleKept'
<1>1. Typed /\ SnapshotsCovered /\ RepliesFollowSlots
  BY DEF Guarded, RepliesFollowSlots
<1>2. ASSUME NEW m \in Calls, Submit(m) PROVE StaleKept'
  <2>1. m \in ExecuteMsg /\ m.op \notin Swapping /\ (m.op = "Transfer" => m.from # VAULT)
    BY CallsHonest, ExternalIs DEF Calls, Swapping
  <2>2. Call' = m /\ Snapshot' = Snapshot
    BY <1>1, <1>2, <2>1, StartStack, HookStack
  <2>3. vault' = vault /\ liq' = liq /\ bank' = bank
        /\ Snapshot.vault = vault /\ Snapshot.liq = liq /\ Snapshot.bank = bank
    BY <2>2 DEF Snapshot
  <2>4. ~VaultPays'
    BY <2>1, <2>2 DEF VaultPays
  <2>5. CASE work = <<>>
    <3>1. /\ DOMAIN work' = {1, 2} /\ work'[1] = m /\ work'[2].op = "Commit"
          /\ Committed' = Snapshot /\ Saved(work') = {Snapshot}
      BY <1>1, <1>2, <2>1, <2>5, StartStack
    <3>2. \A i \in DOMAIN work' : work'[i].op \notin Swapping
      BY <2>1, <3>1 DEF Swapping
    <3>3. \A i \in Token : bank[i][VAULT] >= bank[i][VAULT]
      <4>1. \A i \in Token : bank[i][VAULT] \in Nat
        BY <1>1 DEF Typed, Account
      <4>2. QED
        BY <4>1
    <3>4. QED
      BY <2>3, <2>4, <3>1, <3>2, <3>3 DEF StaleKept, NoLoss
  <2>6. CASE work # <<>>
    <3>1. Call.op = "PairReceive" /\ Committed' = Committed /\ TxCall' = TxCall
      BY <1>1, <1>2, <2>1, <2>6, HookStack
    <3>2. Call = work[1] /\ 1 \in DOMAIN work
      BY <1>1, <2>6 DEF Typed, Call
    <3>3. ~StaleTx
      BY <3>1, <3>2 DEF StaleKept, Swapping
    <3>4. ~StaleTx'
      BY <2>6, <3>1, <3>3 DEF StaleTx
    <3>5. QED
      BY <3>4 DEF StaleKept
  <2>7. QED
    BY <2>5, <2>6
<1>3. ASSUME TxStep, ~Abort, Call.op # "Commit" PROVE StaleKept'
  BY <1>3, StaleHandler
<1>4. ASSUME work' = <<>> PROVE StaleKept'
  BY <1>4 DEF StaleKept, StaleTx
<1>5. ASSUME Abort PROVE StaleKept'
  <2>1. /\ Snapshot' \in Saved(work) /\ Saved(work') \subseteq Saved(work)
        /\ Snapshot'.vault = vault' /\ Snapshot'.liq = liq' /\ Snapshot'.bank = bank'
    BY <1>5, AbortMessages DEF Snapshot
  <2>2. CASE work' # <<>>
    <3>1. /\ Call'.op = "WithdrawFailed" /\ Committed' = Committed /\ TxCall' = TxCall /\ work # <<>>
          /\ \A i \in DOMAIN work' :
                \/ work'[i].op = "WithdrawFailed"
                \/ \E k \in DOMAIN work : k > 1 /\ work'[i] = work[k]
      BY <1>5, <2>2, AbortMessages
    <3>2. SUFFICES ASSUME StaleTx PROVE StaleKept'
      BY <3>1 DEF StaleKept, StaleTx
    <3>3. /\ \A i \in DOMAIN work : work[i].op \notin Swapping
          /\ \A s \in Saved(work) :
               s.vault = Committed.vault /\ s.liq.code = Committed.liq.code /\ NoLoss(s.bank)
      BY <3>2 DEF StaleKept
    <3>4. ~VaultPays'
      BY <3>1 DEF VaultPays
    <3>5. \A i \in DOMAIN work' : work'[i].op \notin Swapping
      BY <3>1, <3>3 DEF Swapping
    <3>6. QED
      BY <2>1, <3>1, <3>3, <3>4, <3>5 DEF StaleKept, NoLoss
  <2>3. QED
    BY <1>4, <2>2
<1>6. Commit => work' = <<>>
  BY <1>1, CommitStack
<1>7. Environment => work' = <<>>
  BY DEF Environment, MarketMove, PairMigrated, LiquidityMigrated
<1>8. QED
  BY <1>2, <1>3, <1>4, <1>5, <1>6, <1>7, NextKinds DEF Calls

\* A liquidity contract that was revoked, or runs code other than the approved
\* one, moves nothing out of the vault.
THEOREM StaleBindingsHaveNoCustody == Spec => []StaleBindingHasNoCustody
<1>1. Init => StaleKept
  BY DEF Init, StaleKept, StaleTx
<1>2. Guarded /\ StaleKept /\ [Next]_vars => StaleKept'
  <2> SUFFICES ASSUME Guarded, StaleKept, [Next]_vars PROVE StaleKept'
    OBVIOUS
  <2>1. CASE Next
    BY <2>1, StaleStep
  <2>2. CASE UNCHANGED vars
    BY <2>2 DEF vars, storage, Snapshot, StaleKept, StaleTx, NoLoss, VaultPays, Call, Saved,
                Committed, TxCall, Idle
  <2>3. QED
    BY <2>1, <2>2
<1>3. StaleKept => StaleBindingHasNoCustody
  BY DEF StaleKept, StaleTx, BindingStale, NoLoss, StaleBindingHasNoCustody, Ending, Running
<1>4. QED
  BY <1>1, <1>2, <1>3, AlwaysGuarded, PTL DEF Spec

-----------------------------------------------------------------------------
(* A paused vault. *)

PausedTx == work # <<>> /\ Committed.vault.paused /\ TxCall.op # "Resume"
ProRata  == TxCall.op = "Withdraw" /\ TxCall.payout = None

PausedState(s) ==
    /\ s.vault.paused /\ s.vault.pending = None
    /\ s.liq.total_supply <= Committed.liq.total_supply
    /\ ProRata \/ NoLoss(s.bank)

\* A reply of the liquidity contract waits right behind what it replies to.
ReplyBehind(w, i) ==
    w[i].op \in {"DepositReply", "WithdrawReply"} =>
        i - 1 \in DOMAIN w /\ w[i - 1].op \in {"Finalize", "LiquiditySwap"}

Paying(l) == l.pending # None /\ l.pending.kind = "AuthorizedTransfers"

\* While a transaction runs on a paused vault no swap, no rebalance and no
\* reply that mints is ever reached, and only a pro-rata exit pays.
PauseKept ==
    PausedTx =>
        /\ PausedState(Snapshot) /\ \A s \in Saved(work) : PausedState(s)
        /\ \A i \in DOMAIN work : /\ work[i].op \notin Swapping \cup {"RebalanceReply"}
                                  /\ ReplyBehind(work, i)
        /\ ~(Call.op = "MintTo" /\ Call.sender = VAULT)
        /\ ProRata \/ (~VaultPays /\ ~Paying(liq))

\* Only a withdrawal, or its reply, authorizes payments.
LEMMA PayingStays ==
  ASSUME Typed, TxStep, ~Abort, Call.op \notin {"Withdraw", "WithdrawReply"}, Paying(liq')
  PROVE  Paying(liq)
<1>1. CASE Call.op \in {"Deposit", "DepositReply", "WithdrawFailed"}
  <2>1. ~Paying(liq')
    <3>1. CASE Call.op = "Deposit"
      BY <3>1, HandlerOf DEF execute_deposit, Typed, LiquidityType, Paying
    <3>2. CASE Call.op = "DepositReply"
      BY <3>2, HandlerOf DEF complete_deposit, mint_shares, Typed, LiquidityType, Paying
    <3>3. CASE Call.op = "WithdrawFailed"
      BY <3>3, HandlerOf DEF fail_single_withdraw, Typed, LiquidityType, Paying
    <3>4. QED
      BY <1>1, <3>1, <3>2, <3>3
  <2>2. QED
    BY <2>1
<1>2. CASE Call.op = "TransferReply"
  BY <1>2, HandlerOf DEF complete_authorized_transfer, Paying
<1>3. CASE Call.op \notin SlotOps
  BY <1>3, HandlerFramed DEF Framed, Paying
<1>4. QED
  BY <1>1, <1>2, <1>3 DEF SlotOps

\* Payments are authorized by nothing else.
LEMMA PaidByPaying ==
  ASSUME Typed, transfer_allowed(Call)
  PROVE  Paying(liq)
<1>1. PICK i \in DOMAIN liquidity_authorization.transfers : TRUE
  BY DEF transfer_allowed
<1>2. NoAuthorization.transfers = <<>> /\ DOMAIN <<>> = {}
  BY DEF NoAuthorization
<1>3. liq.pending # None
  BY <1>1, <1>2 DEF liquidity_authorization
<1>4. liq.pending.kind \in {"Deposit", "WithdrawSingle", "AuthorizedTransfers"}
  BY <1>3 DEF Typed, LiquidityType, PendingOperation, PendingDeposit, PendingWithdrawSingle,
              PendingTransfers
<1>5. CASE liq.pending.kind = "Deposit"
  <2>1. liquidity_authorization =
          [NoAuthorization EXCEPT !.swap = liq.pending.swap, !.finalize = liq.pending.swap = None]
    BY <1>3, <1>5 DEF liquidity_authorization
  <2>2. liquidity_authorization.transfers = <<>>
    BY <2>1 DEF NoAuthorization
  <2>3. QED
    BY <1>1, <1>2, <2>2
<1>6. CASE liq.pending.kind = "WithdrawSingle"
  <2>1. liquidity_authorization = [NoAuthorization EXCEPT !.swap = liq.pending.swap]
    BY <1>3, <1>6 DEF liquidity_authorization
  <2>2. liquidity_authorization.transfers = <<>>
    BY <2>1 DEF NoAuthorization
  <2>3. QED
    BY <1>1, <1>2, <2>2
<1>7. QED
  BY <1>3, <1>4, <1>5, <1>6 DEF Paying

\* Shares are minted only by a deposit's reply and by MintTo of the vault.
LEMMA SupplyNotGrown ==
  ASSUME Typed, TxStep, ~Abort, Call.op # "DepositReply",
         ~(Call.op = "MintTo" /\ Call.sender = VAULT)
  PROVE  liq'.total_supply \in Int /\ liq'.total_supply <= liq.total_supply
<1>1. work # <<>> /\ Call \in Message /\ liq \in LiquidityType /\ liq.total_supply \in Nat
  BY HandlerOf, RunningCall DEF Typed, LiquidityType
<1>2. CASE Call.op \notin LedgerOps
  BY <1>1, <1>2, HandlerFramed DEF Framed
<1>3. CASE Call.op = "Withdraw"
  <2>1. Call.shares \in Nat
    BY <1>1, <1>3, CallOf DEF WithdrawMsg, WithdrawSingleMsg
  <2>2. CASE Call.payout = None
    <3>1. liq'.total_supply = liq.total_supply - Call.shares
      BY <1>3, <2>2, ProRataRuns
    <3>2. QED
      BY <1>1, <2>1, <3>1
  <2>3. CASE Call.payout # None
    <3>1. liq' = [liq EXCEPT !.pending = liq'.pending]
      BY <1>3, <2>3, EscrowRuns
    <3>2. liq'.total_supply = liq.total_supply
      BY <1>1, <3>1 DEF LiquidityType
    <3>3. QED
      BY <1>1, <3>2
  <2>4. QED
    BY <2>2, <2>3
<1>4. CASE Call.op = "WithdrawReply"
  <2>1. liq'.total_supply = liq.total_supply - liq.pending.shares /\ liq.pending.shares \in Nat
    BY <1>4, WithdrawReplyRuns DEF PendingWithdrawSingle
  <2>2. QED
    BY <1>1, <2>1
<1>5. CASE Call.op = "MintTo"
  <2>1. Call.sender = liq.vault
    BY <1>5, HandlerOf DEF execute_mint_to
  <2>2. QED
    BY <1>1, <1>5, <2>1 DEF LiquidityType
<1>6. CASE Call.op = "Cw20Transfer"
  <2>1. liq' = move_shares(liq, Call.sender, Call.to, Call.amt)
    BY <1>6, HandlerOf DEF execute_cw20_transfer
  <2>2. liq'.total_supply = liq.total_supply
    BY <1>1, <2>1 DEF move_shares, LiquidityType
  <2>3. QED
    BY <1>1, <2>2
<1>7. CASE Call.op = "Cw20Burn"
  <2>1. liq' = burn_shares(liq, Call.sender, Call.amt) /\ Call.amt \in Nat
    BY <1>1, <1>7, HandlerOf, CallOf DEF execute_cw20_burn, ShareBurnMsg
  <2>2. liq'.total_supply = liq.total_supply - Call.amt
    BY <1>1, <2>1 DEF burn_shares, LiquidityType
  <2>3. QED
    BY <1>1, <2>1, <2>2
<1>8. QED
  BY <1>2, <1>3, <1>4, <1>5, <1>6, <1>7 DEF LedgerOps

\* What a paused vault refuses.
LEMMA PauseRefuses ==
  ASSUME TxStep, ~Abort, vault.paused
  PROVE  Call.op \notin {"LiquiditySwap", "Finalize", "Rebalance"}
<1>1. Call.op # "LiquiditySwap"
  BY HandlerOf DEF execute_liquidity_swap, assert_not_paused
<1>2. Call.op # "Finalize"
  BY HandlerOf DEF execute_finalize, assert_not_paused
<1>3. Call.op # "Rebalance"
  BY HandlerOf DEF execute_rebalance, rebalance_allowed, assert_not_paused
<1>4. QED
  BY <1>1, <1>2, <1>3

\* Replies stay behind what they reply to.
LEMMA RepliesBehind ==
  ASSUME Guarded, TxStep, ~Abort, Call.op # "Commit", vault.paused,
         \A i \in DOMAIN work : ReplyBehind(work, i)
  PROVE  \A i \in DOMAIN work' : ReplyBehind(work', i)
<1>1. Typed /\ SnapshotsCovered
  BY DEF Guarded, RepliesFollowSlots
<1>2. PICK msgs : Sent(msgs)
  BY <1>1, Returned
<1> DEFINE n == Len(msgs)
<1>3. /\ work # <<>> /\ msgs \in Seq(Message) /\ Return(msgs) /\ Ordered(msgs)
      /\ n \in Nat /\ DOMAIN msgs = 1..n
  BY <1>2, HandlerOf DEF Sent
<1>4. /\ work' \in Seq(Message)
      /\ \A i \in DOMAIN msgs : i \in DOMAIN work' /\ work'[i] = msgs[i]
      /\ \A i \in DOMAIN work : i > 1 =>
            i + n - 1 \in DOMAIN work' /\ work'[i + n - 1] = work[i]
      /\ \A i \in DOMAIN work' :
            \/ i \in DOMAIN msgs /\ work'[i] = msgs[i]
            \/ /\ i - n + 1 \in DOMAIN work /\ i - n + 1 > 1
               /\ work'[i] = work[i - n + 1]
  BY <1>1, <1>3, ReturnStack
<1>5. Call = work[1] /\ \A i \in DOMAIN work : i \in Nat /\ (i = 1 \/ i > 1)
  BY <1>1, <1>3 DEF Typed, Call
<1> HIDE DEF n
<1>6. SUFFICES ASSUME NEW i \in DOMAIN work', work'[i].op \in {"DepositReply", "WithdrawReply"}
               PROVE  i - 1 \in DOMAIN work' /\ work'[i - 1].op \in {"Finalize", "LiquiditySwap"}
  BY DEF ReplyBehind
<1>7. CASE i \in DOMAIN msgs /\ work'[i] = msgs[i]
  <2>1. i - 1 \in DOMAIN msgs /\ msgs[i - 1].op \in {"Finalize", "LiquiditySwap"}
    BY <1>3, <1>6, <1>7 DEF Ordered
  <2>2. QED
    BY <1>4, <2>1
<1>8. CASE i - n + 1 \in DOMAIN work /\ i - n + 1 > 1 /\ work'[i] = work[i - n + 1]
  <2> DEFINE k == i - n + 1
  <2>1. k - 1 \in DOMAIN work /\ work[k - 1].op \in {"Finalize", "LiquiditySwap"}
    BY <1>6, <1>8 DEF ReplyBehind
  <2>2. k - 1 # 1
    BY <1>5, <2>1, PauseRefuses
  <2>3. k - 1 > 1
    BY <1>5, <2>1, <2>2
  <2>4. (k - 1) + n - 1 \in DOMAIN work' /\ work'[(k - 1) + n - 1] = work[k - 1]
    BY <1>4, <2>1, <2>3
  <2>5. (k - 1) + n - 1 = i - 1
    BY <1>3, <1>4
  <2>6. QED
    BY <2>1, <2>4, <2>5
<1>9. QED
  BY <1>4, <1>7, <1>8

LEMMA PauseHandler ==
  ASSUME Guarded, PauseKept, TxStep, ~Abort, Call.op # "Commit"
  PROVE  PauseKept'
<1>1. Typed /\ SnapshotsCovered /\ Honest(Call)
  BY HandlerTop DEF Guarded, RepliesFollowSlots
<1>2. /\ work # <<>> /\ work' # <<>> /\ Call = work[1] /\ 1 \in DOMAIN work
      /\ Committed' = Committed /\ TxCall' = TxCall
      /\ \A i \in DOMAIN work' :
            \/ SwapPart(work'[i]) \/ SlotPart(work'[i])
            \/ \E k \in DOMAIN work : k > 1 /\ work'[i] = work[k]
  BY HandlerMessages
<1>3. SUFFICES ASSUME PausedTx PROVE PauseKept'
  BY <1>2 DEF PauseKept, PausedTx
<1>4. /\ PausedState(Snapshot) /\ \A s \in Saved(work) : PausedState(s)
      /\ \A i \in DOMAIN work : work[i].op \notin Swapping \cup {"RebalanceReply"}
      /\ \A i \in DOMAIN work : ReplyBehind(work, i)
      /\ ~(Call.op = "MintTo" /\ Call.sender = VAULT)
      /\ ProRata \/ (~VaultPays /\ ~Paying(liq))
  BY <1>3 DEF PauseKept
<1>5. /\ vault.paused /\ vault.pending = None
      /\ liq.total_supply <= Committed.liq.total_supply /\ (ProRata \/ NoLoss(bank))
  BY <1>4 DEF PausedState, Snapshot
<1>6. Call.op \in EntryOps => TxCall = Call
  BY <1>2, <1>4, EntryIsFirst DEF Swapping
<1>7. Call.op \notin {"LiquiditySwap", "Finalize", "Rebalance", "RebalanceReply"} \cup Swapping
  BY <1>2, <1>4, <1>5, PauseRefuses
<1>8. Call.op \notin {"DepositReply", "WithdrawReply"}
  <2>1. ~(1 - 1 \in DOMAIN work)
    BY <1>1 DEF Typed
  <2>2. QED
    BY <1>2, <1>4, <2>1 DEF ReplyBehind
<1>9. vault'.paused /\ vault'.pending = None
  <2>1. Call.op # "Resume"
    BY <1>3, <1>6 DEF PausedTx, EntryOps
  <2>2. vault'.pending = vault.pending
    BY <1>1, <1>7, HandlerFramed DEF Framed
  <2>3. vault'.paused
    BY <1>1, <1>5, <2>1, HandlerFramed DEF Framed
  <2>4. QED
    BY <1>5, <2>2, <2>3
<1>10. Committed \in SnapshotType
  BY <1>1, <1>2, CommittedSettled, SavedTyped
<1>11. liq'.total_supply <= Committed.liq.total_supply
  <2>1. liq'.total_supply \in Int /\ liq'.total_supply <= liq.total_supply
    BY <1>1, <1>4, <1>8, SupplyNotGrown
  <2>2. liq.total_supply \in Nat /\ Committed.liq.total_supply \in Nat
    BY <1>1, <1>10 DEF Typed, SnapshotType, LiquidityType
  <2>3. QED
    BY <1>5, <2>1, <2>2
<1>12. ProRata \/ \A i \in Token : bank'[i][VAULT] >= Committed.bank[i][VAULT]
  <2>1. SUFFICES ASSUME ~ProRata, NEW i \in Token PROVE bank'[i][VAULT] >= Committed.bank[i][VAULT]
    OBVIOUS
  <2>2. bank[i][VAULT] \in Nat /\ bank'[i][VAULT] \in Int /\ bank'[i][VAULT] >= bank[i][VAULT]
    BY <1>1, <1>2, <1>4, <1>7, <2>1, VaultLoses DEF VaultPays, Swapping
  <2>3. bank[i][VAULT] >= Committed.bank[i][VAULT] /\ Committed.bank[i][VAULT] \in Nat
    BY <1>5, <1>10, <2>1 DEF NoLoss, SnapshotType, Account
  <2>4. QED
    BY <2>2, <2>3
<1>13. PausedState(Snapshot)'
  <2>1. Snapshot'.vault = vault' /\ Snapshot'.liq = liq' /\ Snapshot'.bank = bank'
    BY DEF Snapshot
  <2>2. ProRata' <=> ProRata
    BY <1>2 DEF ProRata
  <2>3. QED
    BY <1>2, <1>9, <1>11, <1>12, <2>1, <2>2 DEF PausedState, NoLoss
<1>14. \A s \in Saved(work') : PausedState(s)'
  <2>1. Saved(work') \subseteq Saved(work) \cup {Snapshot'}
    BY <1>1, HandlerSaved
  <2>2. \A s \in Saved(work) : PausedState(s)'
    BY <1>2, <1>4 DEF PausedState, NoLoss, ProRata
  <2>3. QED
    BY <1>13, <2>1, <2>2
<1>15. \A i \in DOMAIN work' : work'[i].op \notin Swapping \cup {"RebalanceReply"}
  BY <1>2, <1>4, <1>7 DEF SwapPart, SlotPart, Swapping
<1>16. \A i \in DOMAIN work' : ReplyBehind(work', i)
  BY <1>4, <1>5, RepliesBehind
<1>17. ~(Call'.op = "MintTo" /\ Call'.sender = VAULT)
  <2>1. SwapPart(Call') \/ SlotPart(Call') \/ Call'.op \in WaitingOps
    BY HandlerTop
  <2>2. QED
    BY <1>7, <2>1 DEF SwapPart, SlotPart, WaitingOps
<1>18. ProRata \/ (~VaultPays' /\ ~Paying(liq'))
  <2>1. SUFFICES ASSUME ~ProRata PROVE ~VaultPays' /\ ~Paying(liq')
    OBVIOUS
  <2>2. ~VaultPays'
    <3>1. Next
      BY DEF Next
    <3>2. QED
      BY <1>1, <1>4, <2>1, <3>1, VaultOut, PaidByPaying
  <2>3. ~Paying(liq')
    <3>1. SUFFICES ASSUME Paying(liq') PROVE FALSE
      OBVIOUS
    <3>2. Call.op = "Withdraw"
      BY <1>1, <1>4, <1>8, <2>1, <3>1, PayingStays
    <3>3. Call.payout # None
      BY <1>6, <2>1, <3>2 DEF ProRata, EntryOps
    <3>4. liq'.pending.kind = "WithdrawSingle"
      BY <1>1, <3>2, <3>3, EscrowRuns
    <3>5. QED
      BY <3>1, <3>4 DEF Paying
  <2>4. QED
    BY <2>2, <2>3
<1>19. ProRata' <=> ProRata
  BY <1>2 DEF ProRata
<1>20. QED
  BY <1>13, <1>14, <1>15, <1>16, <1>17, <1>18, <1>19 DEF PauseKept

\* Nothing is pending between transactions.
LEMMA IdleSettled ==
  ASSUME Guarded, work = <<>>
  PROVE  vault.pending = None /\ liq.pending = None
<1>1. \A op : ~Waits(op, work)
  BY DEF Waits
<1>2. vault.pending = None
  BY <1>1 DEF Guarded, RepliesFollowSlots, RebalanceCovered
<1>3. ~\E i, j \in DOMAIN work :
           i < j /\ work[i].op = "TransferReply" /\ work[j].op = "TransferReply"
  OBVIOUS
<1>4. liq.pending = None
  BY <1>1, <1>3 DEF Guarded, RepliesFollowSlots, OperationCovered
<1>5. QED
  BY <1>2, <1>4

LEMMA PauseStarts ==
  ASSUME Guarded, work = <<>>, NEW m \in Calls, Submit(m)
  PROVE  PauseKept'
<1>1. Typed
  BY DEF Guarded
<1>2. /\ m \in ExecuteMsg /\ m.op \notin Swapping
      /\ m.op \notin {"DepositReply", "WithdrawReply", "RebalanceReply"}
      /\ (m.op = "Transfer" => m.from # VAULT) /\ (m.op = "MintTo" => m.sender # VAULT)
  BY CallsHonest, ExternalIs DEF Calls, Swapping
<1>3. /\ Snapshot' = Snapshot /\ work' # <<>> /\ DOMAIN work' = {1, 2}
      /\ work'[1] = m /\ Call' = m /\ work'[2].op = "Commit"
      /\ Committed' = Snapshot /\ Saved(work') = {Snapshot}
  BY <1>1, <1>2, StartStack
<1>4. SUFFICES ASSUME PausedTx' PROVE PauseKept'
  BY DEF PauseKept
<1>5. vault.paused /\ vault.pending = None /\ liq.pending = None
  BY <1>3, <1>4, IdleSettled DEF PausedTx, Snapshot
<1>6. /\ liq.total_supply \in Nat /\ \A i \in Token : bank[i][VAULT] \in Nat
      /\ liq' = liq
  BY <1>1, <1>3 DEF Typed, LiquidityType, Account, Snapshot
<1>7. PausedState(Snapshot)'
  <2>1. Snapshot.vault = vault /\ Snapshot.liq = liq /\ Snapshot.bank = bank
    BY DEF Snapshot
  <2>2. \A i \in Token : bank[i][VAULT] >= bank[i][VAULT]
    BY <1>6
  <2>3. NoLoss(Snapshot.bank)'
    BY <1>3, <2>1, <2>2 DEF NoLoss
  <2>4. liq.total_supply <= liq.total_supply
    BY <1>6
  <2>5. QED
    BY <1>3, <1>5, <2>1, <2>3, <2>4 DEF PausedState
<1>8. \A s \in Saved(work') : PausedState(s)'
  BY <1>3, <1>7
<1>9. \A i \in DOMAIN work' : /\ work'[i].op \notin Swapping \cup {"RebalanceReply"}
                             /\ ReplyBehind(work', i)
  BY <1>2, <1>3 DEF Swapping, ReplyBehind
<1>10. ~VaultPays' /\ ~Paying(liq')
  BY <1>2, <1>3, <1>5, <1>6 DEF VaultPays, Paying
<1>11. QED
  BY <1>2, <1>3, <1>7, <1>8, <1>9, <1>10 DEF PauseKept

LEMMA PauseAbort ==
  ASSUME Guarded, PauseKept, Abort, work' # <<>>
  PROVE  PauseKept'
<1>1. Typed /\ SnapshotsCovered
  BY DEF Guarded, RepliesFollowSlots
<1>2. PICK k \in DOMAIN work :
        /\ k > 1 /\ work[k].op = "WithdrawReply"
        /\ Snapshot' = work[k].snap /\ Snapshot' \in Saved(work)
        /\ work' \in Seq(Message) /\ Call'.op = "WithdrawFailed" /\ work'[1].op = "WithdrawFailed"
        /\ \A i \in DOMAIN work : i > k => i - k + 1 \in DOMAIN work' /\ work'[i - k + 1] = work[i]
        /\ \A i \in DOMAIN work' : i > 1 =>
              i + k - 1 \in DOMAIN work /\ i + k - 1 > k /\ work'[i] = work[i + k - 1]
        /\ Committed' = Committed /\ TxCall' = TxCall
  BY <1>1, AbortStack
<1>3. /\ Saved(work') \subseteq Saved(work) /\ work # <<>>
      /\ Snapshot'.vault = vault' /\ Snapshot'.liq = liq' /\ Snapshot'.bank = bank'
  BY AbortMessages, <1>2 DEF Snapshot
<1>4. SUFFICES ASSUME PausedTx PROVE PauseKept'
  BY <1>2, <1>3 DEF PauseKept, PausedTx
<1>5. /\ \A s \in Saved(work) : PausedState(s)
      /\ \A i \in DOMAIN work : work[i].op \notin Swapping \cup {"RebalanceReply"}
      /\ \A i \in DOMAIN work : ReplyBehind(work, i)
  BY <1>4 DEF PauseKept
<1>6. \A s : PausedState(s) => PausedState(s)'
  BY <1>2 DEF PausedState, NoLoss, ProRata
<1>7. PausedState(Snapshot)' /\ \A s \in Saved(work') : PausedState(s)'
  <2>1. \A s \in Saved(work') : PausedState(s)'
    BY <1>3, <1>5, <1>6
  <2>2. PausedState(Snapshot)'
    <3>1. PICK s \in Saved(work) : Snapshot' = s
      BY <1>2
    <3>2. PausedState(s)'
      BY <1>5, <1>6
    <3>3. QED
      BY <3>1, <3>2 DEF PausedState
  <2>3. QED
    BY <2>1, <2>2
<1>8. /\ work \in Seq(Message) /\ \A i \in DOMAIN work : i \in Nat
      /\ \A i \in DOMAIN work' : i \in Nat /\ (i = 1 \/ i > 1)
  <2>1. work \in Seq(Message) /\ DOMAIN work = 1..Len(work) /\ Len(work) \in Nat
    BY <1>1 DEF Typed
  <2>2. work' \in Seq(Message)
    BY <1>2
  <2>3. DOMAIN work' = 1..Len(work') /\ Len(work') \in Nat
    BY <2>2
  <2>4. QED
    BY <2>1, <2>3
<1>9. \A i \in DOMAIN work' : work'[i].op \notin Swapping \cup {"RebalanceReply"}
  <2>1. SUFFICES ASSUME NEW i \in DOMAIN work'
                 PROVE  work'[i].op \notin Swapping \cup {"RebalanceReply"}
    OBVIOUS
  <2>2. work'[i].op = "WithdrawFailed" \/ \E j \in DOMAIN work : work'[i] = work[j]
    BY <1>2, <1>8
  <2>3. QED
    BY <1>5, <2>2 DEF Swapping
<1>10. \A i \in DOMAIN work' : ReplyBehind(work', i)
  <2>1. SUFFICES ASSUME NEW i \in DOMAIN work', work'[i].op \in {"DepositReply", "WithdrawReply"}
                 PROVE  i - 1 \in DOMAIN work' /\ work'[i - 1].op \in {"Finalize", "LiquiditySwap"}
    BY DEF ReplyBehind
  <2> DEFINE j == i + k - 1
  <2>2. i > 1 /\ j \in DOMAIN work /\ j > k /\ work'[i] = work[j]
    BY <1>2, <1>8, <2>1
  <2>3. j - 1 \in DOMAIN work /\ work[j - 1].op \in {"Finalize", "LiquiditySwap"}
    BY <1>5, <2>1, <2>2 DEF ReplyBehind
  <2>4. j - 1 # k
    BY <1>2, <2>3
  <2>5. j - 1 > k
    BY <1>8, <2>2, <2>4
  <2>6. (j - 1) - k + 1 \in DOMAIN work' /\ work'[(j - 1) - k + 1] = work[j - 1]
    BY <1>2, <2>3, <2>5
  <2>7. (j - 1) - k + 1 = i - 1
    BY <1>8, <1>2
  <2>8. QED
    BY <2>3, <2>6, <2>7
<1>11. ~VaultPays' /\ ~Paying(liq')
  <2>1. liq'.pending # None => liq'.pending.kind = "WithdrawSingle"
    BY <1>1, <1>2, <1>3, SavedSlots
  <2>2. QED
    BY <1>2, <2>1 DEF VaultPays, Paying
<1>12. QED
  BY <1>2, <1>7, <1>9, <1>10, <1>11 DEF PauseKept

LEMMA PauseStep ==
  ASSUME Guarded, PauseKept, Next
  PROVE  PauseKept'
<1>1. Typed /\ SnapshotsCovered
  BY DEF Guarded, RepliesFollowSlots
<1>2. ASSUME NEW m \in Calls, Submit(m) PROVE PauseKept'
  <2>1. CASE work = <<>>
    BY <1>2, <2>1, PauseStarts
  <2>2. CASE work # <<>>
    <3>1. m \in ExecuteMsg
      BY CallsHonest DEF Calls
    <3>2. Call.op = "PairReceive" /\ Committed' = Committed /\ TxCall' = TxCall
      BY <1>1, <1>2, <2>2, <3>1, HookStack
    <3>3. Call = work[1] /\ 1 \in DOMAIN work
      BY <1>1, <2>2 DEF Typed, Call
    <3>4. ~PausedTx
      BY <3>2, <3>3 DEF PauseKept, Swapping
    <3>5. ~PausedTx'
      BY <2>2, <3>2, <3>4 DEF PausedTx
    <3>6. QED
      BY <3>5 DEF PauseKept
  <2>3. QED
    BY <2>1, <2>2
<1>3. ASSUME TxStep, ~Abort, Call.op # "Commit" PROVE PauseKept'
  BY <1>3, PauseHandler
<1>4. ASSUME work' = <<>> PROVE PauseKept'
  BY <1>4 DEF PauseKept, PausedTx
<1>5. ASSUME Abort PROVE PauseKept'
  BY <1>4, <1>5, PauseAbort
<1>6. Commit => work' = <<>>
  BY <1>1, CommitStack
<1>7. Environment => work' = <<>>
  BY DEF Environment, MarketMove, PairMigrated, LiquidityMigrated
<1>8. QED
  BY <1>2, <1>3, <1>4, <1>5, <1>6, <1>7, NextKinds DEF Calls

\* A paused vault mints no shares and pays nothing but pro-rata exits, whatever
\* the transaction calls.
THEOREM PausedVaultHolds == Spec => []PauseHolds
<1>1. Init => PauseKept
  BY DEF Init, PauseKept, PausedTx
<1>2. Guarded /\ PauseKept /\ [Next]_vars => PauseKept'
  <2> SUFFICES ASSUME Guarded, PauseKept, [Next]_vars PROVE PauseKept'
    OBVIOUS
  <2>1. CASE Next
    BY <2>1, PauseStep
  <2>2. CASE UNCHANGED vars
    BY <2>2 DEF vars, storage, Snapshot, PauseKept, PausedTx, PausedState, ProRata, ReplyBehind,
                Paying, NoLoss, VaultPays, Call, Saved, Committed, TxCall, Idle
  <2>3. QED
    BY <2>1, <2>2
<1>3. Guarded /\ PauseKept => PauseHolds
  <2> SUFFICES ASSUME Guarded, PauseKept, Ending, Committed.vault.paused, TxCall.op # "Resume"
               PROVE  /\ liq.total_supply <= Committed.liq.total_supply
                      /\ \A i \in Token : bank[i][VAULT] < Committed.bank[i][VAULT] => ProRata
    BY DEF PauseHolds, ProRata
  <2>1. work # <<>> /\ Typed
    BY DEF Ending, Running, Guarded
  <2>2. liq.total_supply <= Committed.liq.total_supply /\ (ProRata \/ NoLoss(bank))
    BY <2>1 DEF PauseKept, PausedTx, PausedState, Snapshot
  <2>3. Committed \in SnapshotType
    BY <2>1, CommittedSettled, SavedTyped
  <2>4. \A i \in Token : bank[i][VAULT] \in Nat /\ Committed.bank[i][VAULT] \in Nat
    BY <2>1, <2>3 DEF Typed, SnapshotType, Account
  <2>5. QED
    BY <2>2, <2>4 DEF NoLoss
<1>4. QED
  BY <1>1, <1>2, <1>3, AlwaysGuarded, PTL DEF Spec

-----------------------------------------------------------------------------
(* What a fee claims. *)

\* The rate the vault remembers for its administrator.
RateOf(v) == IF v.fee_cache[v.admin] = None THEN UNDISCOUNTED_FEE_BPS
             ELSE Least(v.fee_cache[v.admin], BPS)

\* The shares charged are worth the fee at the rate that is remembered.
LEMMA ChargedFair ==
  ASSUME Typed, NEW answer \in FeeAnswers \cup {QueryFailed}, NEW value \in Nat, NEW worth \in Nat,
         charge_fee(answer, value, worth).shares # 0
  PROVE  LET fee  == charge_fee(answer, value, worth)
             rate == IF fee.cache[vault.admin] = None THEN UNDISCOUNTED_FEE_BPS
                     ELSE Least(fee.cache[vault.admin], BPS)
         IN  /\ fee.shares \in Nat /\ value # 0
             /\ fee.shares * worth
                  <= checked_ratio(value, rate, BPS) * (liq.total_supply + fee.shares)
<1> DEFINE user == vault.admin
           cached == vault.fee_cache[user]
           fee_bps == CASE answer # QueryFailed -> capped_fee(answer)
                        [] answer = QueryFailed /\ cached # None -> capped_fee(cached)
                        [] OTHER -> UNDISCOUNTED_FEE_BPS
           fee_value == checked_ratio(value, fee_bps, BPS)
           minted == fee_shares_for_value(fee_value, worth, liq.total_supply)
           applies == /\ vault.fee_registry
                      /\ vault.fee_collector # None
                      /\ value # 0
                      /\ vault.liquidity_contract # None
           cache == IF answer = QueryFailed THEN vault.fee_cache
                    ELSE [vault.fee_cache EXCEPT ![user] = fee_bps]
           rate == IF cache[user] = None THEN UNDISCOUNTED_FEE_BPS
                   ELSE Least(cache[user], BPS)
<1>1. /\ user \in Account /\ vault.fee_cache \in [Account -> (0..BPS) \cup {None}]
      /\ liq.total_supply \in Nat /\ cached \in (0..BPS) \cup {None}
  BY DEF Typed, VaultType, LiquidityType
<1>2. \A n \in 0..BPS : n \in Nat /\ n # None /\ capped_fee(n) = n /\ Least(n, BPS) = n
  <2>1. \A n \in 0..BPS : n \in Nat /\ n <= BPS
    BY BpsPositive
  <2>2. QED
    BY <2>1, NoneAssumption DEF capped_fee, Least
<1>3. \A n \in Nat : capped_fee(n) \in 0..BPS
  BY BpsPositive DEF capped_fee, Least
<1>4. rate = fee_bps /\ fee_bps \in 0..BPS
  <2>1. CASE answer # QueryFailed
    <3>1. answer \in Nat
      BY <2>1, FeeAnswersAssumption
    <3>2. fee_bps \in 0..BPS
      BY <1>3, <2>1, <3>1
    <3>3. cache[user] = fee_bps
      BY <1>1, <2>1
    <3>4. QED
      BY <1>2, <3>2, <3>3
  <2>2. CASE answer = QueryFailed /\ cached # None
    BY <1>1, <1>2, <2>2
  <2>3. CASE answer = QueryFailed /\ cached = None
    BY <2>3, UndiscountedAssumption
  <2>4. QED
    BY <2>1, <2>2, <2>3
<1>5. charge_fee(answer, value, worth) =
        IF ~applies THEN [cache |-> vault.fee_cache, shares |-> 0]
                    ELSE [cache |-> cache, shares |-> minted]
  BY DEF charge_fee
<1> HIDE DEF fee_bps, cache, minted
<1>6. applies
  BY <1>5
<1>7. /\ charge_fee(answer, value, worth).shares = minted
      /\ charge_fee(answer, value, worth).cache = cache
  BY <1>5, <1>6
<1>8. fee_value \in Nat
  <2>1. PICK f \in Nat : f = fee_bps
    BY <1>2, <1>4
  <2>2. checked_ratio(value, f, BPS) \in Nat
    BY BpsPositive, FloorRatio
  <2>3. QED
    BY <2>1, <2>2
<1> HIDE DEF fee_value
<1>9. minted \in Nat /\ minted * worth <= fee_value * (liq.total_supply + minted)
  <2>1. PICK f \in Nat, s \in Nat : f = fee_value /\ s = liq.total_supply
    BY <1>1, <1>8
  <2>2. LET n == fee_shares_for_value(f, worth, s)
        IN  n \in Nat /\ n * worth <= f * (s + n)
    BY FeeSharesFair
  <2>3. QED
    BY <2>1, <2>2 DEF minted
<1>10. fee_value = checked_ratio(value, rate, BPS)
  BY <1>4 DEF fee_value
<1> HIDE DEF rate
<1>11. minted * worth <= checked_ratio(value, rate, BPS) * (liq.total_supply + minted)
  BY <1>9, <1>10
<1>12. QED
  BY <1>6, <1>7, <1>9, <1>11 DEF rate

\* What a trade brought, in token 0, seen from the balances alone.
Gained(now, old, price) ==
    IF now[0] > old[0] THEN now[0] - old[0] ELSE checked_ratio(now[1] - old[1], ONE, price)

\* A settled trade: its proceeds are the balances' gain.
LEMMA SettledGain ==
  ASSUME Typed, vault.pending # None, validate_settlement(vault.pending, balances)
  PROVE  LET p == vault.pending
             value == proceeds_value(p, balances)
         IN  value \in Nat /\ (value # 0 => value = Gained(balances, p.balances, p.captured_twap))
<1>1. balances \in [{0, 1} -> Nat]
  BY BalancesTyped DEF Amounts, Token
<1>2. vault.pending \in PendingRebalance
  BY DEF Typed, VaultType
<1>3. PICK o \in Token, p \in Nat \ {0}, b \in [{0, 1} -> Nat], m \in Nat, a \in Nat :
          /\ o = vault.pending.offer_index /\ p = vault.pending.captured_twap
          /\ b = vault.pending.balances /\ m = vault.pending.min_return
          /\ a = vault.pending.amount
  BY <1>2 DEF PendingRebalance, Amounts, Token
<1> DEFINE now == balances
           value == proceeds_value(vault.pending, now)
<1>4. /\ now[o] = b[o] - a /\ now[1 - o] >= b[1 - o] + m
      /\ now[0] \in Nat /\ now[1] \in Nat /\ b[0] \in Nat /\ b[1] \in Nat
  BY <1>1, <1>3 DEF validate_settlement
<1>5. value = IF 1 - o = 0 THEN now[1 - o] - b[1 - o]
              ELSE checked_ratio(now[1 - o] - b[1 - o], ONE, p)
  BY <1>3 DEF proceeds_value
<1> HIDE DEF now, value
<1>6. CASE o = 1
  <2>1. value = now[0] - b[0] /\ now[0] >= b[0]
    <3>1. 1 - o = 0
      BY <1>6
    <3>2. value = now[0] - b[0]
      BY <1>5, <3>1
    <3>3. now[0] >= b[0] + m
      BY <1>4, <3>1
    <3>4. now[0] >= b[0]
      BY <1>4, <3>3
    <3>5. QED
      BY <3>2, <3>4
  <2>2. value \in Nat /\ (value # 0 => now[0] > b[0])
    <3>1. now[0] \in Nat /\ b[0] \in Nat
      BY <1>4
    <3>2. \A x, y \in Nat : x >= y => x - y \in Nat /\ (x - y # 0 => x > y)
      OBVIOUS
    <3>3. QED
      BY <2>1, <3>1, <3>2
  <2>3. value # 0 => value = Gained(now, b, p)
    BY <2>1, <2>2 DEF Gained
  <2>4. QED
    BY <1>3, <2>2, <2>3 DEF now, value
<1>7. CASE o = 0
  <2>1. value = checked_ratio(now[1] - b[1], ONE, p) /\ now[1] >= b[1] + m /\ now[0] = b[0] - a
    <3>1. 1 - o = 1 /\ 1 # 0
      BY <1>7
    <3>2. QED
      BY <1>4, <1>5, <1>7, <3>1
  <2>2. ~(now[0] > b[0]) /\ now[1] - b[1] \in Nat
    BY <1>4, <2>1
  <2>3. value \in Nat /\ value = Gained(now, b, p)
    BY <2>1, <2>2, InToken0 DEF Gained
  <2>4. QED
    BY <1>3, <2>3 DEF now, value
<1>8. QED
  BY <1>6, <1>7 DEF Token

\* A pending rebalance recorded the state its transaction started from.
FeeBasis(v) ==
    v.pending # None => /\ v.pending.balances = Holdings(Committed)
                        /\ v.pending.captured_twap = Committed.dex.twap

FeeKept ==
    /\ work # <<>> => FeeBasis(vault) /\ \A s \in Saved(work) : FeeBasis(s.vault)
    /\ FeeNeverOverclaims

\* The fee of a settled rebalance.
LEMMA FeeCharged ==
  ASSUME Guarded, FeeKept, TxStep, ~Abort, Call.op = "RebalanceReply",
         Call'.op = "MintTo", Committed' = Committed
  PROVE  FeeNeverOverclaims'
<1>1. Typed /\ SnapshotsCovered /\ work # <<>> /\ FeeBasis(vault)
  BY HandlerTop DEF Guarded, RepliesFollowSlots, FeeKept
<1> DEFINE p == vault.pending
           value == proceeds_value(p, balances)
           worth == nav(balances, p.captured_twap)
           fee(answer) == charge_fee(answer, value, worth)
           mint(answer) == [op |-> "MintTo", sender |-> VAULT, to |-> vault.fee_collector,
                            amt |-> fee(answer).shares]
<1>2. PICK answer \in FeeAnswers \cup {QueryFailed} :
        /\ p # None /\ validate_settlement(p, balances)
        /\ vault' = [vault EXCEPT
              !.pending = None,
              !.reference_price = reference_after(p, allocation_deviation(balances, p.captured_twap)),
              !.fee_cache = fee(answer).cache]
        /\ Return(IF fee(answer).shares = 0 THEN <<>> ELSE <<mint(answer)>>)
        /\ VaultUnchanged
  BY HandlerOf DEF complete_rebalance
<1>3. value \in Nat
      /\ (value # 0 => value = Gained(balances, p.balances, p.captured_twap))
  BY <1>1, <1>2, SettledGain
<1>4. worth \in Nat
  <2>1. PICK q \in Nat \ {0} : q = p.captured_twap
    BY <1>1, <1>2 DEF Typed, VaultType, PendingRebalance
  <2>2. balances \in [{0, 1} -> Nat]
    BY <1>1, BalancesTyped DEF Amounts, Token
  <2>3. QED
    BY <2>1, <2>2, NavInNat
<1>5. balances' = balances /\ liq' = liq /\ bank' = bank
  BY <1>2 DEF VaultUnchanged, balances, holdings_of
<1>6. p.balances = Holdings(Committed) /\ p.captured_twap = Committed.dex.twap
  BY <1>1, <1>2 DEF FeeBasis
<1>7. vault'.admin = vault.admin /\ vault'.fee_cache = fee(answer).cache
  BY <1>1, <1>2 DEF Typed, VaultType
<1> HIDE DEF fee
<1>8. fee(answer).shares # 0
  <2>1. SUFFICES ASSUME fee(answer).shares = 0 PROVE FALSE
    OBVIOUS
  <2>2. Done
    BY <1>2, <2>1 DEF Done
  <2>3. Call' = work[2] /\ work[2].op = "MintTo" /\ 2 \in DOMAIN work
    BY <1>1, <2>2, DoneStack DEF Typed
  <2>4. QED
    BY <2>3 DEF Guarded, Stacked, WaitingOps
<1>9. Call'.amt = fee(answer).shares
  <2> DEFINE msgs == <<mint(answer)>>
  <2>1. Return(msgs) /\ msgs[1] = mint(answer) /\ 1 \in DOMAIN msgs
    BY <1>2, <1>8
  <2>2. msgs \in Seq(Message)
    BY <1>1, <1>2, <1>8, SettledFeeTyped, PlainIsMessage DEF fee
  <2> HIDE DEF msgs
  <2>3. work'[1] = mint(answer) /\ Call' = work'[1]
    <3>1. work' \in Seq(Message) /\ work' # <<>> /\ work'[1] = msgs[1]
      BY <1>1, <2>1, <2>2, ReturnStack
    <3>2. QED
      BY <2>1, <3>1 DEF Call
  <2>4. QED
    BY <2>3
<1>10. LET rate == IF fee(answer).cache[vault.admin] = None THEN UNDISCOUNTED_FEE_BPS
                   ELSE Least(fee(answer).cache[vault.admin], BPS)
       IN  /\ value # 0
           /\ fee(answer).shares * worth
                <= checked_ratio(value, rate, BPS) * (liq.total_supply + fee(answer).shares)
  <2> HIDE DEF value, worth
  <2>1. QED
    BY <1>1, <1>3, <1>4, <1>8, ChargedFair DEF fee
<1>11. RateOf(vault') = IF fee(answer).cache[vault.admin] = None THEN UNDISCOUNTED_FEE_BPS
                        ELSE Least(fee(answer).cache[vault.admin], BPS)
  BY <1>7 DEF RateOf
<1> DEFINE old == Holdings(Committed)
           price == Committed.dex.twap
<1>12. worth = nav(balances, price) /\ value = Gained(balances, old, price)
  BY <1>3, <1>6, <1>10
<1> HIDE DEF worth, value, old, price
<1>13. Call'.amt * nav(balances, price)
          <= checked_ratio(Gained(balances, old, price), RateOf(vault'), BPS)
               * (liq.total_supply + Call'.amt)
  BY <1>9, <1>10, <1>11, <1>12
<1>14. old' = old /\ price' = price
  BY DEF old, price, Holdings
<1>15. QED
  BY <1>5, <1>13, <1>14 DEF FeeNeverOverclaims, Gained, RateOf, old, price

LEMMA FeeHandler ==
  ASSUME Guarded, FeeKept, TxStep, ~Abort, Call.op # "Commit"
  PROVE  FeeKept'
<1>1. Typed /\ SnapshotsCovered /\ Honest(Call)
  BY HandlerTop DEF Guarded, RepliesFollowSlots
<1>2. /\ work # <<>> /\ work' # <<>> /\ Call = work[1] /\ 1 \in DOMAIN work
      /\ Committed' = Committed /\ TxCall' = TxCall
  BY HandlerMessages
<1>3. FeeBasis(vault) /\ \A s \in Saved(work) : FeeBasis(s.vault)
  BY <1>2 DEF FeeKept
<1>4. \A v : FeeBasis(v) => FeeBasis(v)'
  BY <1>2 DEF FeeBasis, Holdings
<1>5. FeeBasis(vault')
  <2>1. CASE Call.op = "Rebalance"
    <3>1. Committed = Snapshot
      <4>1. SUFFICES ASSUME NEW i \in DOMAIN work, work[i].op = "PairReceive" PROVE FALSE
        BY <1>2, <2>1, EntryIsFirst DEF EntryOps
      <4>2. i # 1
        BY <1>2, <2>1, <4>1
      <4>3. 1 < i
        BY <1>1, <4>2 DEF Typed
      <4>4. Occupied(vault, liq) /\ Watched(vault, Call)
        BY <1>2, <4>1, <4>3 DEF Guarded, SwapsWatched, Swapping
      <4>5. QED
        BY <1>1, <2>1, <4>4, StaysOccupied DEF Guarded, UnboundKept
    <3>2. vault'.pending.balances = balances /\ vault'.pending.captured_twap = dex.twap
      BY <1>1, <2>1, RebalanceRuns
    <3>3. balances = Holdings(Committed) /\ dex.twap = Committed.dex.twap
      BY <3>1 DEF Snapshot, Holdings, balances, holdings_of
    <3>4. QED
      BY <3>2, <3>3 DEF FeeBasis
  <2>2. CASE Call.op = "RebalanceReply"
    <3>1. vault'.pending = None
      BY <1>1, <2>2, HandlerOf DEF complete_rebalance, Typed, VaultType
    <3>2. QED
      BY <3>1 DEF FeeBasis
  <2>3. CASE Call.op \notin {"Rebalance", "RebalanceReply"}
    <3>1. vault'.pending = vault.pending
      BY <1>1, <2>3, HandlerFramed DEF Framed
    <3>2. QED
      BY <1>3, <3>1 DEF FeeBasis
  <2>4. QED
    BY <2>1, <2>2, <2>3
<1>6. FeeBasis(vault)'
  BY <1>2, <1>5 DEF FeeBasis, Holdings
<1>7. \A s \in Saved(work') : FeeBasis(s.vault)'
  <2>1. Saved(work') \subseteq Saved(work) \cup {Snapshot'}
    BY <1>1, HandlerSaved
  <2>2. Snapshot'.vault = vault'
    BY DEF Snapshot
  <2>3. \A s \in Saved(work) : FeeBasis(s.vault)'
    BY <1>3, <1>4
  <2>4. \A s \in Saved(work') : s \in Saved(work) \/ s.vault = vault'
    BY <2>1, <2>2
  <2>5. QED
    BY <1>6, <2>3, <2>4 DEF FeeBasis
<1>8. FeeNeverOverclaims'
  <2>1. SUFFICES ASSUME Call'.op = "MintTo" PROVE FeeNeverOverclaims'
    BY DEF FeeNeverOverclaims, Running, Call
  <2>2. Call.op = "RebalanceReply"
    BY <2>1, HandlerTop DEF SwapPart, SlotPart, WaitingOps
  <2>3. QED
    BY <1>2, <2>1, <2>2, FeeCharged
<1>9. QED
  BY <1>6, <1>7, <1>8 DEF FeeKept

LEMMA FeeStep ==
  ASSUME Guarded, FeeKept, Next
  PROVE  FeeKept'
<1>1. Typed /\ SnapshotsCovered
  BY DEF Guarded, RepliesFollowSlots
<1>2. ASSUME NEW m \in Calls, Submit(m) PROVE FeeKept'
  <2>1. m \in ExecuteMsg /\ (m.op = "MintTo" => m.sender # VAULT)
    BY CallsHonest, ExternalIs DEF Calls
  <2>2. Call' = m /\ vault' = vault
    BY <1>1, <1>2, <2>1, StartStack, HookStack DEF Snapshot
  <2>3. FeeNeverOverclaims'
    BY <2>1, <2>2 DEF FeeNeverOverclaims, Running, Call
  <2>4. CASE work = <<>>
    <3>1. vault.pending = None /\ Saved(work') = {Snapshot} /\ Snapshot.vault = vault
      BY <1>1, <1>2, <2>1, <2>4, StartStack, IdleSettled DEF Snapshot
    <3>2. QED
      BY <2>2, <2>3, <3>1 DEF FeeKept, FeeBasis
  <2>5. CASE work # <<>>
    <3>1. Committed' = Committed /\ Saved(work') \subseteq Saved(work)
      BY <1>1, <1>2, <2>1, <2>5, HookStack
    <3>2. QED
      BY <2>2, <2>3, <2>5, <3>1 DEF FeeKept, FeeBasis, Holdings
  <2>6. QED
    BY <2>4, <2>5
<1>3. ASSUME TxStep, ~Abort, Call.op # "Commit" PROVE FeeKept'
  BY <1>3, FeeHandler
<1>4. ASSUME work' = <<>> PROVE FeeKept'
  BY <1>4 DEF FeeKept, FeeNeverOverclaims, Running
<1>5. ASSUME Abort, work' # <<>> PROVE FeeKept'
  <2>1. /\ Snapshot' \in Saved(work) /\ Saved(work') \subseteq Saved(work)
        /\ Call'.op = "WithdrawFailed" /\ Committed' = Committed /\ work # <<>>
    BY <1>5, AbortMessages
  <2>2. \A s \in Saved(work) : FeeBasis(s.vault)
    BY <2>1 DEF FeeKept
  <2>3. FeeBasis(vault')
    BY <2>1, <2>2 DEF Snapshot
  <2>4. FeeNeverOverclaims'
    BY <2>1 DEF FeeNeverOverclaims, Running, Call
  <2>5. QED
    BY <2>1, <2>2, <2>3, <2>4 DEF FeeKept, FeeBasis, Holdings
<1>6. Commit => work' = <<>>
  BY <1>1, CommitStack
<1>7. Environment => work' = <<>>
  BY DEF Environment, MarketMove, PairMigrated, LiquidityMigrated
<1>8. QED
  BY <1>2, <1>3, <1>4, <1>5, <1>6, <1>7, NextKinds DEF Calls

\* The fee shares about to be minted are worth, after the mint, no more than
\* the fee on what the trade brought since the transaction began, at the price
\* it found, whatever the pair called back in between.
THEOREM FeesNeverOverclaim == Spec => []FeeNeverOverclaims
<1>1. Init => FeeKept
  BY DEF Init, FeeKept, FeeNeverOverclaims, Running
<1>2. Guarded /\ FeeKept /\ [Next]_vars => FeeKept'
  <2> SUFFICES ASSUME Guarded, FeeKept, [Next]_vars PROVE FeeKept'
    OBVIOUS
  <2>1. CASE Next
    BY <2>1, FeeStep
  <2>2. CASE UNCHANGED vars
    <3>1. work' = work /\ liq' = liq /\ vault' = vault /\ bank' = bank /\ Snapshot' = Snapshot
      BY <2>2 DEF vars, storage, Snapshot
    <3>2. Call' = Call /\ Committed' = Committed /\ Saved(work)' = Saved(work)
      BY <3>1 DEF Call, Committed, Idle, Saved
    <3>3. balances' = balances
      BY <3>1 DEF balances, holdings_of
    <3>4. FeeNeverOverclaims' <=> FeeNeverOverclaims
      BY <3>1, <3>2, <3>3 DEF FeeNeverOverclaims, Running, Call, Holdings
    <3>5. QED
      BY <3>1, <3>2, <3>4 DEF FeeKept, FeeBasis, Holdings
  <2>3. QED
    BY <2>1, <2>2
<1>3. FeeKept => FeeNeverOverclaims
  BY DEF FeeKept
<1>4. QED
  BY <1>1, <1>2, <1>3, AlwaysGuarded, PTL DEF Spec

-----------------------------------------------------------------------------
(* Withdrawals: all or nothing. *)

\* While a withdrawal's swap runs the pair may call anything back, but no other
\* account spends its asset tokens.
HooksSpendOwn == \A m \in HookCalls : m.op = "Transfer" => m.from = PAIR

WithdrawTx == work # <<>> /\ TxCall.op = "Withdraw" /\ TxCall.to \notin {VAULT, PROXY, PAIR}

\* The operation that escrows the withdrawal, and the state its swap's failure
\* goes back to.
Escrow(p) ==
    /\ p # None /\ p.kind = "WithdrawSingle" /\ TxCall.payout # None
    /\ p.owner = TxCall.sender /\ p.shares = TxCall.shares /\ p.recipient = TxCall.to
    /\ p.payout_token = TxCall.payout /\ p.min_amount = TxCall.min_assets[TxCall.payout]

Escrowed(s) ==
    /\ Escrow(s.liq.pending) /\ s.liq = [Committed.liq EXCEPT !.pending = s.liq.pending]
    /\ s.vault = Committed.vault /\ s.proxy = Committed.proxy
    /\ s.bank = Committed.bank /\ s.dex = Committed.dex

SameShares(l) ==
    l.shares = Committed.liq.shares /\ l.total_supply = Committed.liq.total_supply

Richer(b) == \A i \in Token : b[i][TxCall.to] >= Committed.bank[i][TxCall.to]

\* Messages that run in front of the swap's reply.
SwapOnly(m) ==
    /\ m.op \notin {"WithdrawReply", "WithdrawFailed", "TransferFrom"}
    /\ m.op = "Transfer" => m.from = PAIR
    /\ m.op = "MintTo" => m.sender # VAULT

\* The token is paid, or a payment waits that brings it to the minimum.
Pays(m) == m.op \in {"Transfer", "TransferTo"}

Due(b, w, i) ==
    LET goal == Committed.bank[i][TxCall.to] + TxCall.min_assets[i]
    IN  \/ b[i][TxCall.to] >= goal
        \/ \E j \in DOMAIN w : /\ Pays(w[j]) /\ w[j].tok = i /\ w[j].to = TxCall.to
                               /\ b[i][TxCall.to] + w[j].amt >= goal

\* The phases of a withdrawal.
Asked  == Len(work) = 2 /\ Call = TxCall /\ Snapshot = Committed

SwapRuns ==
    LET n == Len(work)
    IN  /\ Escrow(liq.pending) /\ SameShares(liq) /\ vault.pending = None /\ Richer(bank)
        /\ n > 1 /\ work[n - 1].op = "WithdrawReply" /\ Escrowed(work[n - 1].snap)
        /\ \A i \in 1..(n - 2) : SwapOnly(work[i])

SwapFailed == Len(work) = 2 /\ Call.op = "WithdrawFailed" /\ Escrowed(Snapshot)

Burned ==
    /\ liq.total_supply = Committed.liq.total_supply - TxCall.shares
    /\ liq.shares[TxCall.sender] = Committed.liq.shares[TxCall.sender] - TxCall.shares
    /\ \A i \in Token : TxCall.payout \in {None, i} => Due(bank, work, i)
    /\ \A i \in DOMAIN work : /\ work[i].op \in {"Transfer", "TransferTo", "TransferReply", "Commit"}
                              /\ work[i].op = "Transfer" => work[i].from = VAULT

Undone == Len(work) = 1 /\ Snapshot = Committed

WithdrawPhases == WithdrawTx => Asked \/ SwapRuns \/ SwapFailed \/ Burned \/ Undone

\* The withdrawal the transaction was asked for.
LEMMA TxCallIs ==
  ASSUME Guarded, WithdrawTx
  PROVE  /\ TxCall \in WithdrawMsg \cup WithdrawSingleMsg /\ Committed \in SnapshotType
         /\ TxCall.sender \in Account /\ TxCall.to \in Account /\ TxCall.shares \in Nat
         /\ TxCall.min_assets \in [Token -> Nat] /\ TxCall.payout \in Token \cup {None}
         /\ (TxCall.payout = None <=> TxCall \in WithdrawMsg)
         /\ Committed.liq.pending = None /\ Committed.vault.pending = None
<1>1. Typed /\ SnapshotsCovered /\ work # <<>>
  BY DEF Guarded, RepliesFollowSlots, WithdrawTx
<1>2. /\ Len(work) \in DOMAIN work /\ work[Len(work)] \in Message
      /\ work[Len(work)].op = "Commit"
  BY <1>1 DEF Typed, SnapshotsCovered, SnapshotCovered
<1>3. TxCall \in ExecuteMsg
  BY <1>2, CallOf DEF TxCall, CommitMsg
<1>4. TxCall \in WithdrawMsg \cup WithdrawSingleMsg
  BY <1>3, CallOf DEF WithdrawTx, Message
<1>5. \A t \in Token : t # None
  BY NoneAssumption DEF Token
<1>6. /\ TxCall.sender \in Account /\ TxCall.to \in Account /\ TxCall.shares \in Nat
      /\ TxCall.min_assets \in [Token -> Nat] /\ TxCall.payout \in Token \cup {None}
      /\ (TxCall.payout = None <=> TxCall \in WithdrawMsg)
  BY <1>4, <1>5 DEF WithdrawMsg, WithdrawSingleMsg, Amounts
<1>7. Committed \in SnapshotType
  BY <1>1, CommittedSettled, SavedTyped
<1>8. QED
  BY <1>1, <1>4, <1>6, <1>7, CommittedSettled

\* In the middle of an escrow no handler of the liquidity contract's slot or
\* ledger, no payment and no rebalance succeeds.
LEMMA EscrowRefuses ==
  ASSUME Guarded, TxStep, ~Abort, liq.pending # None, liq.pending.kind = "WithdrawSingle",
         vault.pending = None, SwapOnly(Call)
  PROVE  Call.op \notin SlotOps \cup LedgerOps \cup {"Rebalance", "RebalanceReply", "TransferTo"}
<1>1. Typed /\ UnboundPaused(vault)
  BY DEF Guarded, UnboundKept
<1>2. Call.op \notin {"WithdrawReply", "WithdrawFailed"}
  BY DEF SwapOnly
<1>3. Call.op # "Deposit"
  BY HandlerOf DEF execute_deposit, deposit_allowed, assert_no_pending
<1>4. Call.op # "Withdraw"
  BY HandlerOf DEF execute_withdraw_pro_rata, execute_single_withdraw, single_withdraw_allowed,
                   withdraw_allowed, assert_no_pending
<1>5. Call.op # "DepositReply"
  BY HandlerOf DEF complete_deposit, complete_deposit_allowed
<1>6. Call.op # "TransferReply"
  BY HandlerOf DEF complete_authorized_transfer
<1>7. Call.op # "MintTo"
  <2>1. Call.op = "MintTo" => Call.sender = liq.vault
    BY HandlerOf DEF execute_mint_to
  <2>2. QED
    BY <1>1, <2>1 DEF SwapOnly, Typed, LiquidityType
<1>8. Call.op \notin {"Cw20Transfer", "Cw20Burn"}
  BY HandlerOf DEF execute_cw20_transfer, execute_cw20_burn, assert_no_pending
<1>9. Call.op # "Rebalance"
  <2>1. Occupied(vault, liq) /\ (Call.op = "Rebalance" => Watched(vault, Call))
    BY DEF Occupied, Watched
  <2>2. QED
    BY <1>1, <2>1, StaysOccupied
<1>10. Call.op # "RebalanceReply"
  BY HandlerOf DEF complete_rebalance
<1>11. Call.op # "TransferTo"
  <2>1. Call.op = "TransferTo" => transfer_allowed(Call)
    BY HandlerOf DEF execute_transfer
  <2>2. QED
    BY <1>1, <2>1, PaidByPaying DEF Paying
<1>12. QED
  BY <1>2, <1>3, <1>4, <1>5, <1>6, <1>7, <1>8, <1>9, <1>10, <1>11 DEF SlotOps, LedgerOps

\* What a handler leaves of the recipient's balance.
LEMMA RecipientKeeps ==
  ASSUME Guarded, WithdrawTx, TxStep, ~Abort, Call.op # "TransferFrom",
         Call.op = "Transfer" => Call.from \in {VAULT, PAIR}, NEW i \in Token
  PROVE  bank[i][TxCall.to] \in Nat /\ bank'[i][TxCall.to] \in Int
         /\ bank'[i][TxCall.to] >= bank[i][TxCall.to]
<1>1. Typed /\ work # <<>>
  BY DEF Guarded, WithdrawTx
<1> DEFINE r == TxCall.to
<1>2. r \in Account /\ r \notin {VAULT, PROXY, PAIR}
  BY TxCallIs DEF WithdrawTx
<1> HIDE DEF r
<1>3. bank[i][r] \in Nat
  BY <1>1, <1>2 DEF Typed
<1>4. CASE bank' = bank
  BY <1>3, <1>4 DEF r
<1>5. ASSUME NEW t \in Token, NEW f \in Account, NEW to \in Account, NEW a \in Nat,
             a <= bank[t][f], bank' = Moved(t, f, to, a), f \in {VAULT, PROXY, PAIR}
      PROVE  bank'[i][r] \in Int /\ bank'[i][r] >= bank[i][r]
  <2>1. f # r
    BY <1>2, <1>5
  <2>2. CASE t = i /\ to = r
    <3>1. bank'[i][r] = bank[i][r] + a
      BY <1>1, <1>5, <2>1, <2>2, MovedAt
    <3>2. QED
      BY <1>3, <3>1
  <2>3. CASE ~(t = i /\ to = r)
    <3>1. bank'[i][r] = bank[i][r]
      BY <1>1, <1>2, <1>5, <2>1, <2>3, MovedAt
    <3>2. QED
      BY <1>3, <3>1
  <2>4. QED
    BY <2>2, <2>3
<1>6. Call.op = "Send" => Call.from \in {VAULT, PROXY}
  BY <1>1, RunningCall, CallOf DEF SendMsg
<1>7. QED
  BY <1>1, <1>3, <1>4, <1>5, <1>6, BankMoves DEF r

\* The swap goes on as long as its reply waits and nothing else is reached.
LEMMA SwapRunsOn ==
  ASSUME SwapRuns, Committed' = Committed, TxCall' = TxCall,
         liq'.pending = liq.pending, liq'.shares = liq.shares,
         liq'.total_supply = liq.total_supply, vault'.pending = vault.pending,
         \A i \in Token : bank'[i][TxCall.to] >= Committed.bank[i][TxCall.to],
         Len(work') > 1, work'[Len(work') - 1] = work[Len(work) - 1],
         \A i \in 1..(Len(work') - 2) : SwapOnly(work'[i])
  PROVE  SwapRuns'
<1>1. Escrow(liq.pending)'
  BY DEF SwapRuns, Escrow
<1>2. SameShares(liq)' /\ Richer(bank)' /\ vault'.pending = None
  BY DEF SwapRuns, SameShares, Richer
<1>3. \A s : Escrowed(s) => Escrowed(s)'
  BY DEF Escrowed, Escrow
<1>4. work'[Len(work') - 1].op = "WithdrawReply"
  BY DEF SwapRuns
<1>5. Escrowed(work[Len(work) - 1].snap)
  BY DEF SwapRuns
<1> DEFINE s == work[Len(work) - 1].snap
<1>6. work'[Len(work') - 1].snap = s /\ Escrowed(s)
  BY <1>5
<1>7. PICK t : t = s
  OBVIOUS
<1>8. Escrowed(t)' /\ work'[Len(work') - 1].snap = t
  BY <1>3, <1>6, <1>7
<1>9. Escrowed(work[Len(work) - 1].snap)'
  BY <1>8 DEF Escrowed, Escrow
<1>10. \A i \in 1..(Len(work') - 2) : SwapOnly(work[i])'
  BY DEF SwapOnly
<1>11. QED
  BY <1>1, <1>2, <1>4, <1>9, <1>10 DEF SwapRuns

LEMMA SwapHandler ==
  ASSUME Guarded, WithdrawTx, SwapRuns, Len(work) > 2, TxStep, ~Abort, Call.op # "Commit"
  PROVE  SwapRuns'
<1>1. Typed /\ SnapshotsCovered /\ work # <<>>
  BY DEF Guarded, RepliesFollowSlots, WithdrawTx
<1> DEFINE n == Len(work)
<1>2. n \in Nat /\ n > 2 /\ DOMAIN work = 1..n /\ Call = work[1] /\ work \in Seq(Message)
  BY <1>1 DEF Typed, Call
<1>3. /\ liq.pending # None /\ liq.pending.kind = "WithdrawSingle" /\ vault.pending = None
      /\ \A i \in 1..(n - 2) : SwapOnly(work[i])
      /\ \A i \in Token : bank[i][TxCall.to] >= Committed.bank[i][TxCall.to]
  BY DEF SwapRuns, Escrow, Richer
<1>4. SwapOnly(Call)
  BY <1>2, <1>3
<1>5. Call.op \notin SlotOps \cup LedgerOps \cup {"Rebalance", "RebalanceReply", "TransferTo"}
  BY <1>3, <1>4, EscrowRefuses
<1>6. Committed' = Committed /\ TxCall' = TxCall
  BY HandlerMessages
<1>7. /\ liq'.pending = liq.pending /\ liq'.shares = liq.shares
      /\ liq'.total_supply = liq.total_supply /\ vault'.pending = vault.pending
  BY <1>1, <1>5, HandlerFramed DEF Framed
<1>8. \A i \in Token : bank'[i][TxCall.to] >= Committed.bank[i][TxCall.to]
  <2>1. SUFFICES ASSUME NEW i \in Token PROVE bank'[i][TxCall.to] >= Committed.bank[i][TxCall.to]
    OBVIOUS
  <2>2. bank[i][TxCall.to] \in Nat /\ bank'[i][TxCall.to] \in Int
        /\ bank'[i][TxCall.to] >= bank[i][TxCall.to]
    BY <1>4, RecipientKeeps DEF SwapOnly
  <2>3. bank[i][TxCall.to] >= Committed.bank[i][TxCall.to] /\ Committed.bank[i][TxCall.to] \in Nat
    BY <1>3, TxCallIs DEF SnapshotType
  <2>4. QED
    BY <2>2, <2>3
<1>9. PICK msgs : Sent(msgs)
  BY <1>1, Returned
<1> DEFINE d == Len(msgs)
<1>10. msgs \in Seq(Message) /\ Return(msgs) /\ d \in Nat /\ DOMAIN msgs = 1..d
  BY <1>9 DEF Sent
<1>11. \A i \in DOMAIN msgs : SwapOnly(msgs[i])
  <2>1. SUFFICES ASSUME NEW i \in DOMAIN msgs PROVE SwapOnly(msgs[i])
    OBVIOUS
  <2>2. SwapPart(msgs[i])
    BY <1>5, <1>9 DEF Sent, SlotPart, SlotOps
  <2>3. QED
    BY <2>2 DEF SwapPart, SwapOnly
<1>12. /\ work' \in Seq(Message) /\ Len(work') = d + n - 1
       /\ \A i \in DOMAIN work : i > 1 => work'[i + d - 1] = work[i]
       /\ \A i \in DOMAIN work' :
            \/ i \in DOMAIN msgs /\ work'[i] = msgs[i]
            \/ i - d + 1 \in DOMAIN work /\ i - d + 1 > 1 /\ work'[i] = work[i - d + 1]
  BY <1>1, <1>10, ReturnStack
<1> HIDE DEF d
<1>13. work'[Len(work') - 1] = work[n - 1] /\ Len(work') > 1
  <2>1. n - 1 \in DOMAIN work /\ n - 1 > 1 /\ (n - 1) + d - 1 = Len(work') - 1
    BY <1>2, <1>10, <1>12
  <2>2. work'[(n - 1) + d - 1] = work[n - 1]
    BY <1>12, <2>1
  <2>3. Len(work') > 1
    BY <1>2, <1>10, <1>12
  <2>4. QED
    BY <2>1, <2>2, <2>3
<1>14. \A i \in 1..(Len(work') - 2) : SwapOnly(work'[i])
  <2>1. SUFFICES ASSUME NEW i \in 1..(Len(work') - 2) PROVE SwapOnly(work'[i])
    OBVIOUS
  <2>2. i \in DOMAIN work' /\ i \in Nat /\ i <= d + n - 3
    BY <1>2, <1>10, <1>12
  <2>3. CASE i \in DOMAIN msgs /\ work'[i] = msgs[i]
    BY <1>11, <2>3
  <2>4. CASE i - d + 1 \in DOMAIN work /\ i - d + 1 > 1 /\ work'[i] = work[i - d + 1]
    <3>1. i - d + 1 \in 1..(n - 2)
      BY <1>2, <1>10, <2>2, <2>4
    <3>2. QED
      BY <1>3, <2>4, <3>1
  <2>5. QED
    BY <1>12, <2>2, <2>3, <2>4
<1> HIDE DEF n
<1>15. QED
  BY <1>6, <1>7, <1>8, <1>13, <1>14, SwapRunsOn DEF n

\* The pair's callbacks change nothing of that.
LEMMA SwapHook ==
  ASSUME HooksSpendOwn, Guarded, WithdrawTx, SwapRuns, NEW m \in HookCalls, Submit(m)
  PROVE  SwapRuns'
<1>1. Typed /\ SnapshotsCovered /\ work # <<>>
  BY DEF Guarded, RepliesFollowSlots, WithdrawTx
<1> DEFINE n == Len(work)
<1>2. /\ m \in ExecuteMsg /\ SwapOnly(m)
  BY CallsHonest, ExternalIs DEF HooksSpendOwn, SwapOnly
<1>3. /\ Call.op = "PairReceive" /\ Snapshot' = Snapshot
      /\ work' \in Seq(Message) /\ Len(work') = n + 1 /\ work'[1] = m
      /\ \A i \in DOMAIN work : i + 1 \in DOMAIN work' /\ work'[i + 1] = work[i]
      /\ \A i \in DOMAIN work' : i > 1 => i - 1 \in DOMAIN work /\ work'[i] = work[i - 1]
      /\ Committed' = Committed /\ TxCall' = TxCall
  BY <1>1, <1>2, HookStack
<1>4. n \in Nat /\ DOMAIN work = 1..n /\ n > 1 /\ \A i \in 1..(n - 2) : SwapOnly(work[i])
  BY <1>1 DEF Typed, SwapRuns
<1>5. vault' = vault /\ liq' = liq /\ bank' = bank
  BY <1>3 DEF Snapshot
<1>6. \A i \in Token : bank[i][TxCall.to] >= Committed.bank[i][TxCall.to]
  BY DEF SwapRuns, Richer
<1>7. Len(work') > 1 /\ work'[Len(work') - 1] = work[n - 1]
  <2>1. n - 1 \in DOMAIN work /\ (n - 1) + 1 = Len(work') - 1
    BY <1>3, <1>4
  <2>2. work'[(n - 1) + 1] = work[n - 1]
    BY <1>3, <2>1
  <2>3. Len(work') > 1
    BY <1>3, <1>4
  <2>4. QED
    BY <2>1, <2>2, <2>3
<1>8. \A i \in 1..(Len(work') - 2) : SwapOnly(work'[i])
  <2>1. SUFFICES ASSUME NEW i \in 1..(Len(work') - 2) PROVE SwapOnly(work'[i])
    OBVIOUS
  <2>2. i \in DOMAIN work' /\ i \in Nat /\ (i = 1 \/ (i > 1 /\ i - 1 \in 1..(n - 2)))
    BY <1>3, <1>4
  <2>3. CASE i = 1
    BY <1>2, <1>3, <2>3
  <2>4. CASE i > 1 /\ i - 1 \in 1..(n - 2)
    BY <1>3, <1>4, <2>2, <2>4
  <2>5. QED
    BY <2>2, <2>3, <2>4
<1> HIDE DEF n
<1>9. QED
  BY <1>3, <1>5, <1>6, <1>7, <1>8, SwapRunsOn DEF n

\* A failing swap goes back to the escrow.
LEMMA SwapFails ==
  ASSUME Guarded, WithdrawTx, SwapRuns, Abort
  PROVE  work' = <<>> \/ SwapFailed'
<1>1. Typed /\ SnapshotsCovered /\ work # <<>>
  BY DEF Guarded, RepliesFollowSlots, WithdrawTx
<1> DEFINE n == Len(work)
<1>2. PICK k \in DOMAIN work :
        /\ k > 1 /\ Snapshot' = work[k].snap
        /\ \A i \in DOMAIN work : i > 1 /\ i < k => work[i].op \notin {"Commit", "WithdrawReply"}
        /\ \/ work' = <<>>
           \/ /\ work[k].op = "WithdrawReply" /\ k < n
              /\ work' # <<>> /\ work' \in Seq(Message) /\ Len(work') = n - k + 1
              /\ Call'.op = "WithdrawFailed" /\ work'[1].op = "WithdrawFailed"
              /\ Committed' = Committed /\ TxCall' = TxCall
  BY <1>1, AbortStack
<1>3. CASE work' = <<>>
  BY <1>3
<1>4. CASE /\ work[k].op = "WithdrawReply" /\ k < n
           /\ work' # <<>> /\ work' \in Seq(Message) /\ Len(work') = n - k + 1
           /\ Call'.op = "WithdrawFailed" /\ work'[1].op = "WithdrawFailed"
           /\ Committed' = Committed /\ TxCall' = TxCall
  <2>1. n \in Nat /\ DOMAIN work = 1..n /\ k \in Nat
    BY <1>1 DEF Typed
  <2>2. k = n - 1
    <3>1. ~(k \in 1..(n - 2))
      BY <1>4 DEF SwapRuns, SwapOnly
    <3>2. QED
      BY <1>2, <1>4, <2>1, <3>1
  <2>3. Escrowed(work[k].snap) /\ Len(work') = 2
    BY <1>4, <2>1, <2>2 DEF SwapRuns
  <2>4. PICK s : s = work[k].snap
    OBVIOUS
  <2>5. Escrowed(s) /\ Snapshot' = s
    BY <1>2, <2>3, <2>4
  <2>6. Escrowed(s)'
    BY <1>4, <2>5 DEF Escrowed, Escrow
  <2>7. Escrowed(Snapshot)'
    BY <2>5, <2>6 DEF Escrowed, Escrow
  <2>8. QED
    BY <1>4, <2>3, <2>7 DEF SwapFailed
<1>5. QED
  BY <1>2, <1>3, <1>4

\* A single-token withdrawal starts with the escrow.
LEMMA EscrowStarts ==
  ASSUME Guarded, WithdrawTx, Asked, TxStep, ~Abort, TxCall.payout # None
  PROVE  SwapRuns'
<1>1. Typed /\ SnapshotsCovered /\ work # <<>> /\ Call.op = "Withdraw" /\ Call.payout # None
  BY DEF Guarded, RepliesFollowSlots, WithdrawTx, Asked
<1>2. /\ liq' = [liq EXCEPT !.pending = liq'.pending] /\ Snapshot' = [Snapshot EXCEPT !.liq = liq']
      /\ liq'.pending # None /\ liq'.pending.kind = "WithdrawSingle"
      /\ liq'.pending.owner = Call.sender /\ liq'.pending.shares = Call.shares
      /\ liq'.pending.recipient = Call.to /\ liq'.pending.payout_token = Call.payout
      /\ liq'.pending.min_amount = Call.min_assets[Call.payout]
  BY <1>1, EscrowRuns
<1>3. PICK msgs : /\ Sent(msgs) /\ Len(msgs) = 2 /\ DOMAIN msgs = {1, 2}
                  /\ msgs[1].op = "LiquiditySwap"
                  /\ msgs[2].op = "WithdrawReply" /\ msgs[2].snap = Snapshot'
  BY <1>1, EscrowRuns
<1>4. Committed' = Committed /\ TxCall' = TxCall
  BY <1>1, HandlerMessages
<1>5. /\ work' \in Seq(Message) /\ Len(work') = 3
      /\ work'[1].op = "LiquiditySwap"
      /\ work'[2].op = "WithdrawReply" /\ work'[2].snap = Snapshot'
  <2>1. msgs \in Seq(Message) /\ Return(msgs)
    BY <1>3 DEF Sent
  <2>2. /\ work' \in Seq(Message) /\ Len(work') = Len(msgs) + Len(work) - 1
        /\ \A i \in DOMAIN msgs : work'[i] = msgs[i]
    BY <1>1, <2>1, ReturnStack
  <2>3. Len(work') = 3
    BY <1>3, <2>2 DEF Asked
  <2>4. QED
    BY <1>3, <2>2, <2>3
<1>6. Call = TxCall /\ vault = Committed.vault /\ liq = Committed.liq /\ bank = Committed.bank
      /\ proxy = Committed.proxy /\ dex = Committed.dex
  BY DEF Asked, Snapshot
<1>7. /\ Snapshot'.vault = vault' /\ Snapshot'.liq = liq' /\ Snapshot'.bank = bank'
      /\ Snapshot'.proxy = proxy' /\ Snapshot'.dex = dex'
      /\ Snapshot'.vault = vault /\ Snapshot'.bank = bank
      /\ Snapshot'.proxy = proxy /\ Snapshot'.dex = dex
  <2>1. /\ Snapshot'.vault = vault' /\ Snapshot'.liq = liq' /\ Snapshot'.bank = bank'
        /\ Snapshot'.proxy = proxy' /\ Snapshot'.dex = dex'
    BY DEF Snapshot
  <2>2. /\ [Snapshot EXCEPT !.liq = liq'].vault = vault
        /\ [Snapshot EXCEPT !.liq = liq'].bank = bank
        /\ [Snapshot EXCEPT !.liq = liq'].proxy = proxy
        /\ [Snapshot EXCEPT !.liq = liq'].dex = dex
    BY DEF Snapshot
  <2>3. QED
    BY <1>2, <2>1, <2>2
<1>8. Escrow(liq.pending)'
  BY <1>1, <1>2, <1>4, <1>6 DEF Escrow
<1>9. SameShares(liq)' /\ vault'.pending = None
  <2>1. liq'.shares = liq.shares /\ liq'.total_supply = liq.total_supply
    BY <1>1, <1>2 DEF Typed, LiquidityType
  <2>2. QED
    BY <1>4, <1>6, <1>7, <2>1, TxCallIs DEF SameShares
<1>10. Richer(bank)'
  <2>1. \A i \in Token : bank[i][TxCall.to] \in Nat
    BY <1>1, TxCallIs DEF Typed
  <2>2. \A i \in Token : bank[i][TxCall.to] >= bank[i][TxCall.to]
    BY <2>1
  <2>3. QED
    BY <1>4, <1>6, <1>7, <2>2 DEF Richer
<1>11. Escrowed(Snapshot)'
  BY <1>2, <1>4, <1>6, <1>7, <1>8 DEF Escrowed, Escrow
<1>12. Escrowed(work[2].snap)'
  BY <1>5, <1>11 DEF Escrowed, Escrow
<1>13. \A i \in 1..(Len(work') - 2) : SwapOnly(work[i])'
  <2>1. 1..(Len(work') - 2) = {1}
    BY <1>5
  <2>2. QED
    BY <1>5, <2>1 DEF SwapOnly
<1>14. Len(work') > 1 /\ Len(work') - 1 = 2
  BY <1>5
<1>15. QED
  BY <1>5, <1>8, <1>9, <1>10, <1>12, <1>13, <1>14 DEF SwapRuns

\* A pro-rata withdrawal burns at once and sends its payments.
LEMMA ProRataStarts ==
  ASSUME Guarded, WithdrawTx, Asked, TxStep, ~Abort, TxCall.payout = None
  PROVE  Burned'
<1>1. Typed /\ SnapshotsCovered /\ work # <<>> /\ Call.op = "Withdraw" /\ Call.payout = None
  BY DEF Guarded, RepliesFollowSlots, WithdrawTx, Asked
<1>2. /\ withdraw_allowed(Call) /\ \A t \in Token : claims(Call)[t] >= Call.min_assets[t]
      /\ liq'.shares[Call.sender] = liq.shares[Call.sender] - Call.shares
      /\ liq'.total_supply = liq.total_supply - Call.shares
  BY <1>1, ProRataRuns
<1>3. PICK msgs :
        /\ Sent(msgs)
        /\ \A i \in DOMAIN msgs : msgs[i].op \in {"TransferTo", "TransferReply"}
        /\ \A t \in Token : claims(Call)[t] # 0 =>
             \E i \in DOMAIN msgs : /\ msgs[i].op = "TransferTo" /\ msgs[i].tok = t
                                    /\ msgs[i].to = Call.to /\ msgs[i].amt = claims(Call)[t]
  BY <1>1, ProRataRuns
<1>4. Committed' = Committed /\ TxCall' = TxCall
  BY <1>1, HandlerMessages
<1>5. Call = TxCall /\ liq = Committed.liq /\ bank = Committed.bank
  BY DEF Asked, Snapshot
<1>6. bank' = bank
  BY <1>1, HandlerFramed DEF Framed, MoveOps
<1>7. msgs \in Seq(Message) /\ Return(msgs)
  BY <1>3 DEF Sent
<1>8. /\ \A i \in DOMAIN msgs : i \in DOMAIN work' /\ work'[i] = msgs[i]
      /\ \A i \in DOMAIN work' :
           \/ i \in DOMAIN msgs /\ work'[i] = msgs[i]
           \/ \E k \in DOMAIN work : k > 1 /\ work'[i] = work[k]
  BY <1>1, <1>7, ReturnStack
<1>9. \A k \in DOMAIN work : k > 1 => work[k].op = "Commit"
  <2>1. DOMAIN work = 1..2
    BY <1>1 DEF Asked, Typed
  <2>2. work[2].op = "Commit"
    BY <1>1, <2>1 DEF Asked, SnapshotsCovered, SnapshotCovered
  <2>3. QED
    BY <2>1, <2>2
<1>10. \A i \in DOMAIN work' : work'[i].op \in {"TransferTo", "TransferReply", "Commit"}
  BY <1>3, <1>8, <1>9
<1>11. ASSUME NEW t \in Token PROVE Due(bank, work, t)'
  <2>1. claims(Call)[t] \in Nat /\ Call.min_assets[t] \in Nat /\ bank[t][TxCall.to] \in Nat
    <3>1. Call \in WithdrawMsg \cup WithdrawSingleMsg
      BY <1>1, RunningCall, CallOf
    <3>2. claims(Call) \in [{0, 1} -> Nat]
      BY <1>1, <1>2, <3>1, ClaimsTyped
    <3>3. TxCall.to \in Account /\ TxCall.min_assets \in [Token -> Nat]
      BY TxCallIs
    <3>4. bank[t] \in [Account -> Nat]
      BY <1>1 DEF Typed
    <3>5. QED
      BY <1>5, <3>2, <3>3, <3>4 DEF Token
  <2>2. claims(Call)[t] >= Call.min_assets[t]
    BY <1>2
  <2>3. CASE claims(Call)[t] = 0
    <3>1. bank[t][TxCall.to] >= bank[t][TxCall.to] + Call.min_assets[t]
      BY <2>1, <2>2, <2>3
    <3>2. QED
      BY <1>4, <1>5, <1>6, <3>1 DEF Due
  <2>4. CASE claims(Call)[t] # 0
    <3>1. PICK i \in DOMAIN msgs : /\ msgs[i].op = "TransferTo" /\ msgs[i].tok = t
                                   /\ msgs[i].to = Call.to /\ msgs[i].amt = claims(Call)[t]
      BY <1>3, <2>4
    <3>2. i \in DOMAIN work' /\ work'[i] = msgs[i]
      BY <1>8
    <3>3. bank[t][TxCall.to] + claims(Call)[t] >= bank[t][TxCall.to] + Call.min_assets[t]
      BY <2>1, <2>2
    <3>4. QED
      BY <1>4, <1>5, <1>6, <3>1, <3>2, <3>3 DEF Due, Pays
  <2>5. QED
    BY <2>3, <2>4
<1>12. QED
  BY <1>2, <1>4, <1>5, <1>10, <1>11 DEF Burned, Due, Pays

\* The reply of a swap that succeeded burns and pays.
LEMMA SwapReplies ==
  ASSUME Guarded, WithdrawTx, SwapRuns, Len(work) = 2, TxStep, ~Abort
  PROVE  Burned'
<1>1. Typed /\ SnapshotsCovered /\ work # <<>> /\ DOMAIN work = 1..2
  BY DEF Guarded, RepliesFollowSlots, WithdrawTx, Typed
<1>2. Call.op = "WithdrawReply" /\ Call = work[1]
  BY <1>1 DEF SwapRuns, Call, Typed
<1>3. /\ liq'.shares[liq.pending.owner] = liq.shares[liq.pending.owner] - liq.pending.shares
      /\ liq'.total_supply = liq.total_supply - liq.pending.shares
  BY <1>1, <1>2, WithdrawReplyRuns
<1>4. PICK msgs : /\ Sent(msgs) /\ DOMAIN msgs = {1, 2}
                  /\ msgs[1].op = "TransferTo" /\ msgs[1].to = liq.pending.recipient
                  /\ msgs[1].tok = liq.pending.payout_token
                  /\ msgs[1].amt \in Nat /\ msgs[1].amt >= liq.pending.min_amount
                  /\ msgs[2].op = "TransferReply"
  BY <1>1, <1>2, WithdrawReplyRuns
<1>5. Committed' = Committed /\ TxCall' = TxCall
  BY <1>2, HandlerMessages
<1>6. /\ TxCall.payout # None /\ liq.pending.owner = TxCall.sender
      /\ liq.pending.shares = TxCall.shares /\ liq.pending.recipient = TxCall.to
      /\ liq.pending.payout_token = TxCall.payout
      /\ liq.pending.min_amount = TxCall.min_assets[TxCall.payout]
      /\ liq.shares = Committed.liq.shares /\ liq.total_supply = Committed.liq.total_supply
      /\ \A i \in Token : bank[i][TxCall.to] >= Committed.bank[i][TxCall.to]
  BY DEF SwapRuns, Escrow, SameShares, Richer
<1>7. bank' = bank
  BY <1>1, <1>2, HandlerFramed DEF Framed, MoveOps
<1>8. msgs \in Seq(Message) /\ Return(msgs)
  BY <1>4 DEF Sent
<1>9. /\ \A i \in DOMAIN msgs : i \in DOMAIN work' /\ work'[i] = msgs[i]
      /\ \A i \in DOMAIN work' :
           \/ i \in DOMAIN msgs /\ work'[i] = msgs[i]
           \/ \E k \in DOMAIN work : k > 1 /\ work'[i] = work[k]
  BY <1>1, <1>2, <1>8, ReturnStack
<1>10. \A k \in DOMAIN work : k > 1 => work[k].op = "Commit"
  <2>1. work[2].op = "Commit"
    BY <1>1 DEF SnapshotsCovered, SnapshotCovered
  <2>2. QED
    BY <1>1, <2>1
<1>11. \A i \in DOMAIN work' : work'[i].op \in {"TransferTo", "TransferReply", "Commit"}
  BY <1>4, <1>9, <1>10
<1>12. ASSUME NEW t \in Token, t = TxCall.payout PROVE Due(bank, work, t)'
  <2>1. TxCall.min_assets[t] \in Nat /\ bank[t][TxCall.to] \in Nat
        /\ Committed.bank[t][TxCall.to] \in Nat
    <3>1. /\ TxCall.to \in Account /\ TxCall.min_assets \in [Token -> Nat]
          /\ Committed.bank \in [Token -> [Account -> Nat]]
      BY TxCallIs DEF SnapshotType
    <3>2. bank[t] \in [Account -> Nat] /\ Committed.bank[t] \in [Account -> Nat]
      BY <1>1, <3>1 DEF Typed
    <3>3. QED
      BY <3>1, <3>2
  <2>2. msgs[1].amt \in Nat /\ msgs[1].amt >= TxCall.min_assets[t]
        /\ bank[t][TxCall.to] >= Committed.bank[t][TxCall.to]
    BY <1>4, <1>6, <1>12
  <2>3. bank[t][TxCall.to] + msgs[1].amt >= Committed.bank[t][TxCall.to] + TxCall.min_assets[t]
    BY <2>1, <2>2
  <2>4. 1 \in DOMAIN work' /\ work'[1] = msgs[1]
    BY <1>4, <1>9
  <2>5. QED
    BY <1>4, <1>5, <1>6, <1>7, <1>12, <2>3, <2>4 DEF Due, Pays
<1>13. QED
  BY <1>3, <1>5, <1>6, <1>11, <1>12 DEF Burned, Due, Pays

\* The failure's reply restores the state the withdrawal started from.
LEMMA FailureUndone ==
  ASSUME Guarded, WithdrawTx, SwapFailed, TxStep, ~Abort
  PROVE  Undone'
<1>1. Typed /\ SnapshotsCovered /\ work # <<>> /\ Call.op = "WithdrawFailed"
  BY DEF Guarded, RepliesFollowSlots, WithdrawTx, SwapFailed
<1>2. liq' = [liq EXCEPT !.pending = None] /\ Done /\ LiqUnchanged
  BY <1>1, HandlerOf DEF fail_single_withdraw
<1>3. Len(work') = 1
  <2>1. Len(work') = Len(work) - 1
    BY <1>1, <1>2, DoneStack
  <2>2. QED
    BY <2>1 DEF SwapFailed
<1>4. Committed' = Committed
  BY <1>1, HandlerMessages
<1>5. /\ liq = [Committed.liq EXCEPT !.pending = liq.pending]
      /\ vault = Committed.vault /\ proxy = Committed.proxy
      /\ bank = Committed.bank /\ dex = Committed.dex
  BY DEF SwapFailed, Escrowed, Snapshot
<1>6. Committed \in SnapshotType /\ Committed.liq.pending = None
  BY TxCallIs
<1>7. liq' = Committed.liq
  <2>1. Committed.liq \in LiquidityType
    BY <1>6 DEF SnapshotType
  <2>2. QED
    BY <1>2, <1>5, <1>6, <2>1 DEF LiquidityType
<1>8. /\ vault' = Committed.vault /\ proxy' = Committed.proxy
      /\ bank' = Committed.bank /\ dex' = Committed.dex
  BY <1>2, <1>5 DEF LiqUnchanged
<1>9. Snapshot' = Committed
  BY <1>6, <1>7, <1>8 DEF Snapshot, SnapshotType
<1>10. QED
  BY <1>3, <1>4, <1>9 DEF Undone

\* A payment that is due stays due until it is made.
LEMMA DueKept ==
  ASSUME Guarded, WithdrawTx, Burned, TxStep, ~Abort, Call.op # "Commit",
         NEW t \in Token, Due(bank, work, t)
  PROVE  Due(bank, work, t)'
<1>1. Typed /\ SnapshotsCovered
  BY DEF Guarded, RepliesFollowSlots
<1>2. /\ work # <<>> /\ Call = work[1] /\ 1 \in DOMAIN work
      /\ Committed' = Committed /\ TxCall' = TxCall
  BY HandlerMessages
<1>3. /\ Call.op \in {"Transfer", "TransferTo", "TransferReply"}
      /\ Call.op = "Transfer" => Call.from = VAULT
  BY <1>2 DEF Burned
<1> DEFINE r == TxCall.to
           goal == Committed.bank[t][r] + TxCall.min_assets[t]
<1>4. /\ r \in Account /\ r # VAULT /\ goal \in Nat
      /\ bank[t][r] \in Nat /\ bank'[t][r] \in Int /\ bank'[t][r] >= bank[t][r]
  <2>1. r \in Account /\ r # VAULT /\ TxCall.min_assets \in [Token -> Nat]
        /\ Committed.bank \in [Token -> [Account -> Nat]]
    BY TxCallIs DEF WithdrawTx, SnapshotType
  <2>2. Committed.bank[t] \in [Account -> Nat]
    BY <2>1
  <2>3. goal \in Nat
    BY <2>1, <2>2
  <2>4. QED
    BY <1>3, <2>1, <2>3, RecipientKeeps
<1> HIDE DEF r, goal
<1>5. SUFFICES \/ bank'[t][r] >= goal
               \/ \E j \in DOMAIN work' : /\ Pays(work'[j]) /\ work'[j].tok = t /\ work'[j].to = r
                                          /\ bank'[t][r] + work'[j].amt >= goal
  BY <1>2 DEF Due, Pays, r, goal
<1>6. CASE bank[t][r] >= goal
  BY <1>4, <1>6
<1>7. ASSUME NEW j \in DOMAIN work, Pays(work[j]), work[j].tok = t, work[j].to = r,
             bank[t][r] + work[j].amt >= goal
      PROVE  \/ bank'[t][r] >= goal
             \/ \E i \in DOMAIN work' : /\ Pays(work'[i]) /\ work'[i].tok = t /\ work'[i].to = r
                                        /\ bank'[t][r] + work'[i].amt >= goal
  <2>1. work[j].amt \in Nat
    <3>1. work[j] \in TransferMsg \cup TransferToMsg
      BY <1>1, <1>7, CallOf DEF Pays, Typed
    <3>2. QED
      BY <3>1 DEF TransferMsg, TransferToMsg
  <2>2. bank'[t][r] + work[j].amt >= goal
    BY <1>4, <1>7, <2>1
  <2>3. CASE j # 1
    <3>1. PICK msgs : Sent(msgs)
      BY <1>1, Returned
    <3>2. msgs \in Seq(Message) /\ Return(msgs)
      BY <3>1 DEF Sent
    <3>3. j > 1
      BY <1>1, <2>3 DEF Typed
    <3>4. \E i \in DOMAIN work' : work'[i] = work[j]
      BY <1>1, <1>2, <3>2, <3>3, ReturnStack
    <3>5. QED
      BY <1>7, <2>2, <3>4
  <2>4. CASE j = 1 /\ Call.op = "Transfer"
    <3>1. Call = work[j] /\ Call \in TransferMsg
      BY <1>1, <1>2, <2>4, RunningCall, CallOf
    <3>2. Call.amt <= bank[t][VAULT] /\ bank' = Moved(t, VAULT, r, Call.amt)
      BY <1>3, <1>7, <2>4, <3>1, HandlerOf DEF TokenTransfer, Pay
    <3>3. bank'[t][r] = bank[t][r] + Call.amt
      BY <1>1, <1>4, <2>1, <3>1, <3>2, MovedAt DEF Account
    <3>4. QED
      BY <1>7, <3>1, <3>3
  <2>5. CASE j = 1 /\ Call.op = "TransferTo"
    <3>1. PICK msgs : Sent(msgs) /\ DOMAIN msgs = {1}
      BY <1>1, <2>5, SwapSent
    <3>2. msgs \in Seq(Message) /\ Return(msgs) /\ (SwapPart(msgs[1]) \/ SlotPart(msgs[1]))
      BY <3>1 DEF Sent
    <3>3. /\ msgs[1].op = "Transfer" /\ msgs[1].to = Call.to
          /\ msgs[1].tok = Call.tok /\ msgs[1].amt = Call.amt
      BY <2>5, <3>2 DEF SwapPart, SlotPart
    <3>4. 1 \in DOMAIN work' /\ work'[1] = msgs[1]
      BY <1>1, <1>2, <3>1, <3>2, ReturnStack
    <3>5. QED
      BY <1>2, <1>7, <2>2, <2>5, <3>3, <3>4 DEF Pays
  <2>6. QED
    BY <1>2, <1>7, <2>3, <2>4, <2>5 DEF Pays
<1>8. QED
  BY <1>6, <1>7 DEF Due, r, goal

LEMMA BurnedHandler ==
  ASSUME Guarded, WithdrawTx, Burned, TxStep, ~Abort, Call.op # "Commit"
  PROVE  Burned'
<1>1. Typed
  BY DEF Guarded
<1>2. /\ work # <<>> /\ Call = work[1] /\ 1 \in DOMAIN work
      /\ Committed' = Committed /\ TxCall' = TxCall
      /\ \A i \in DOMAIN work' :
            \/ SwapPart(work'[i]) \/ SlotPart(work'[i])
            \/ \E k \in DOMAIN work : k > 1 /\ work'[i] = work[k]
  BY HandlerMessages
<1>3. Call.op \in {"Transfer", "TransferTo", "TransferReply"}
  BY <1>2 DEF Burned
<1>4. liq'.shares = liq.shares /\ liq'.total_supply = liq.total_supply
  BY <1>1, <1>3, HandlerFramed DEF Framed, LedgerOps
<1>5. \A i \in DOMAIN work' :
         /\ work'[i].op \in {"Transfer", "TransferTo", "TransferReply", "Commit"}
         /\ work'[i].op = "Transfer" => work'[i].from = VAULT
  BY <1>2, <1>3 DEF Burned, SwapPart, SlotPart
<1>6. \A t \in Token : TxCall.payout \in {None, t} => Due(bank, work, t)'
  BY DueKept DEF Burned
<1>7. QED
  BY <1>2, <1>4, <1>5, <1>6 DEF Burned, Due, Pays

LEMMA WithdrawHandler ==
  ASSUME Guarded, WithdrawPhases, TxStep, ~Abort, Call.op # "Commit"
  PROVE  WithdrawPhases'
<1>1. /\ work # <<>> /\ work' # <<>> /\ Call = work[1] /\ 1 \in DOMAIN work
      /\ TxCall' = TxCall
  BY HandlerMessages
<1>2. SUFFICES ASSUME WithdrawTx PROVE WithdrawPhases'
  BY <1>1 DEF WithdrawPhases, WithdrawTx
<1>3. CASE Asked
  BY <1>2, <1>3, EscrowStarts, ProRataStarts DEF WithdrawPhases
<1>4. CASE SwapRuns
  <2>1. Len(work) = 2 \/ Len(work) > 2
    <3>1. Len(work) \in Nat
      BY DEF Guarded, Typed
    <3>2. Len(work) > 1
      BY <1>4 DEF SwapRuns
    <3>3. \A n \in Nat : n > 1 => n = 2 \/ n > 2
      OBVIOUS
    <3>4. QED
      BY <3>1, <3>2, <3>3
  <2>2. QED
    BY <1>2, <1>4, <2>1, SwapHandler, SwapReplies DEF WithdrawPhases
<1>5. CASE SwapFailed
  BY <1>2, <1>5, FailureUndone DEF WithdrawPhases
<1>6. CASE Burned
  BY <1>2, <1>6, BurnedHandler DEF WithdrawPhases
<1>7. ~Undone
  BY <1>1 DEF Undone, Guarded, RepliesFollowSlots, SnapshotsCovered, SnapshotCovered
<1>8. QED
  BY <1>2, <1>3, <1>4, <1>5, <1>6, <1>7 DEF WithdrawPhases

LEMMA WithdrawStep ==
  ASSUME HooksSpendOwn, Guarded, WithdrawPhases, Next
  PROVE  WithdrawPhases'
<1>1. Typed /\ SnapshotsCovered
  BY DEF Guarded, RepliesFollowSlots
<1>2. ASSUME NEW m \in Calls, Submit(m), work # <<>> => m \in HookCalls PROVE WithdrawPhases'
  <2>1. m \in ExecuteMsg
    BY CallsHonest DEF Calls
  <2>2. CASE work = <<>>
    <3>1. Len(work') = 2 /\ Call' = m /\ TxCall' = m /\ Snapshot' = Snapshot /\ Committed' = Snapshot
      BY <1>1, <1>2, <2>1, <2>2, StartStack
    <3>2. QED
      BY <3>1 DEF WithdrawPhases, Asked
  <2>3. CASE work # <<>>
    <3>1. Call.op = "PairReceive" /\ TxCall' = TxCall
      BY <1>1, <1>2, <2>1, <2>3, HookStack
    <3>2. SUFFICES ASSUME WithdrawTx PROVE WithdrawPhases'
      BY <2>3, <3>1 DEF WithdrawPhases, WithdrawTx
    <3>3. Call = work[1] /\ 1 \in DOMAIN work
      BY <1>1, <2>3 DEF Typed, Call
    <3>4. ~Asked /\ ~SwapFailed
      BY <3>1, <3>2 DEF Asked, SwapFailed, WithdrawTx
    <3>5. ~Burned
      BY <3>1, <3>3 DEF Burned
    <3>6. ~Undone
      BY <1>1, <3>1, <3>3 DEF Undone, SnapshotsCovered, SnapshotCovered
    <3>7. SwapRuns
      BY <3>2, <3>4, <3>5, <3>6 DEF WithdrawPhases
    <3>8. SwapRuns'
      BY <1>2, <2>3, <3>2, <3>7, SwapHook
    <3>9. QED
      BY <3>8 DEF WithdrawPhases
  <2>4. QED
    BY <2>2, <2>3
<1>3. ASSUME TxStep, ~Abort, Call.op # "Commit" PROVE WithdrawPhases'
  BY <1>3, WithdrawHandler
<1>4. ASSUME work' = <<>> PROVE WithdrawPhases'
  BY <1>4 DEF WithdrawPhases, WithdrawTx
<1>5. ASSUME Abort, work' # <<>> PROVE WithdrawPhases'
  <2>1. PICK k \in DOMAIN work : /\ k > 1 /\ work[k].op = "WithdrawReply" /\ k < Len(work)
                                 /\ TxCall' = TxCall
    BY <1>1, <1>5, AbortStack
  <2>2. SUFFICES ASSUME WithdrawTx PROVE WithdrawPhases'
    BY <2>1 DEF WithdrawPhases, WithdrawTx
  <2>3. ~Asked /\ ~SwapFailed /\ ~Undone
    <3>1. Len(work) \in Nat /\ k \in Nat
      BY <1>1, <2>1 DEF Typed
    <3>2. Len(work) > 2
      BY <2>1, <3>1
    <3>3. \A n \in Nat : n > 2 => n # 2 /\ n # 1
      OBVIOUS
    <3>4. Len(work) # 2 /\ Len(work) # 1
      BY <3>1, <3>2, <3>3
    <3>5. QED
      BY <3>4 DEF Asked, SwapFailed, Undone
  <2>4. ~Burned
    BY <2>1 DEF Burned
  <2>5. SwapRuns
    BY <2>2, <2>3, <2>4 DEF WithdrawPhases
  <2>6. QED
    BY <1>5, <2>2, <2>5, SwapFails DEF WithdrawPhases
<1>6. Commit => work' = <<>>
  BY <1>1, CommitStack
<1>7. Environment => work' = <<>>
  BY DEF Environment, MarketMove, PairMigrated, LiquidityMigrated
<1>8. QED
  BY <1>2, <1>3, <1>4, <1>5, <1>6, <1>7, NextKinds DEF Calls

\* A withdrawal burns exactly the shares it was asked to and pays at least its
\* minimum, or (single-token swap failed) changes nothing at all, whatever the
\* pair calls back.
THEOREM WithdrawalsAreAtomic ==
  ASSUME HooksSpendOwn
  PROVE  Spec => []WithdrawalAllOrNothing
<1>1. Init => WithdrawPhases
  BY DEF Init, WithdrawPhases, WithdrawTx
<1>2. Guarded /\ WithdrawPhases /\ [Next]_vars => WithdrawPhases'
  <2> SUFFICES ASSUME Guarded, WithdrawPhases, [Next]_vars PROVE WithdrawPhases'
    OBVIOUS
  <2>1. CASE Next
    BY <2>1, WithdrawStep
  <2>2. CASE UNCHANGED vars
    <3>1. work' = work /\ liq' = liq /\ vault' = vault /\ bank' = bank /\ Snapshot' = Snapshot
      BY <2>2 DEF vars, storage, Snapshot
    <3>2. Call' = Call /\ TxCall' = TxCall /\ Committed' = Committed
      BY <3>1 DEF Call, TxCall, Committed, Idle
    <3>3. WithdrawTx' <=> WithdrawTx
      BY <3>1, <3>2 DEF WithdrawTx
    <3>4. (Asked' <=> Asked) /\ (Undone' <=> Undone)
      BY <3>1, <3>2 DEF Asked, Undone
    <3>5. SwapFailed' <=> SwapFailed
      BY <3>1, <3>2 DEF SwapFailed, Escrowed, Escrow
    <3>6. SwapRuns' <=> SwapRuns
      BY <3>1, <3>2 DEF SwapRuns, Escrowed, Escrow, SameShares, Richer, SwapOnly
    <3>7. Burned' <=> Burned
      BY <3>1, <3>2 DEF Burned, Due, Pays
    <3>8. QED
      BY <3>3, <3>4, <3>5, <3>6, <3>7 DEF WithdrawPhases
  <2>3. QED
    BY <2>1, <2>2
<1>3. Guarded /\ WithdrawPhases => WithdrawalAllOrNothing
  <2> SUFFICES ASSUME Guarded, WithdrawTx, Call.op = "Commit",
                      Asked \/ SwapRuns \/ SwapFailed \/ Burned \/ Undone
               PROVE  \/ Snapshot = Committed
                      \/ /\ liq.total_supply = Committed.liq.total_supply - TxCall.shares
                         /\ liq.shares[TxCall.sender]
                              = Committed.liq.shares[TxCall.sender] - TxCall.shares
                         /\ \A i \in Token : TxCall.payout \in {None, i} =>
                              bank[i][TxCall.to]
                                >= Committed.bank[i][TxCall.to] + TxCall.min_assets[i]
    BY DEF WithdrawalAllOrNothing, WithdrawPhases, WithdrawTx, Ending, Running, Call
  <2>1. Typed /\ SnapshotsCovered /\ work # <<>>
    BY DEF Guarded, RepliesFollowSlots, WithdrawTx
  <2>2. Call = work[1] /\ Len(work) = 1 /\ DOMAIN work = 1..Len(work)
    <3>1. /\ work \in Seq(Message) /\ DOMAIN work = 1..Len(work) /\ Len(work) \in Nat
          /\ Len(work) # 0
      BY <2>1 DEF Typed
    <3>2. Call = work[1] /\ 1 \in DOMAIN work
      BY <2>1, <3>1 DEF Call
    <3>3. 1 = Len(work)
      BY <2>1, <3>2 DEF SnapshotsCovered, SnapshotCovered
    <3>4. QED
      BY <3>1, <3>2, <3>3
  <2>3. ~SwapRuns /\ ~Asked /\ ~SwapFailed
    BY <2>2 DEF SwapRuns, Asked, SwapFailed
  <2>4. CASE Burned
    <3>1. \A i \in Token : TxCall.payout \in {None, i} => Due(bank, work, i)
      BY <2>4 DEF Burned
    <3>2. \A j \in DOMAIN work : ~Pays(work[j])
      <4>1. \A j \in 1..1 : j = 1
        OBVIOUS
      <4>2. QED
        BY <2>2, <4>1 DEF Pays
    <3>3. QED
      BY <2>4, <3>1, <3>2 DEF Burned, Due
  <2>5. QED
    BY <2>3, <2>4 DEF Undone
<1>4. QED
  BY <1>1, <1>2, <1>3, AlwaysGuarded, PTL DEF Spec

=============================================================================
