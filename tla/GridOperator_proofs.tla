------------------------ MODULE GridOperator_proofs ------------------------
(***************************************************************************)
(* What is proved of the grid operator, for every number of orders, fills, *)
(* faults, failures and blocks, every batch size and finality depth: it    *)
(* sends nothing twice, takes nothing off the queue that the chain did not *)
(* reconcile, loses no fill and freezes none twice.                        *)
(*                                                                         *)
(* That nothing is on its way when a transaction is sent is known only     *)
(* from the state of the latest batch (LatestOK) and from where the        *)
(* process is (StageOK); that the queue holds every fill, only from how    *)
(* the vault's records and the scan move (ChainOK, IndexOK).               *)
(***************************************************************************)
EXTENDS GridOperator, TLAPS

-----------------------------------------------------------------------------
(* The inductive invariant. *)

\* The database has its four tables, and what TypeOK says without the process.
DbOK ==
    /\ db = [scanned |-> db.scanned, active |-> db.active,
             events |-> db.events, batches |-> db.batches]
    /\ chain \in ChainType /\ faults \in 0..MaxFaults
    /\ DOMAIN db.events \subseteq chain.fills
    /\ \A e \in DOMAIN db.events : db.events[e] \in {None} \cup DOMAIN db.batches
    /\ db.active \subseteq Orders /\ db.scanned \in 0..chain.tip
    /\ db.batches \in Seq(Batch)
    /\ \A b \in DOMAIN db.batches : db.batches[b].failures <= MAX_FAILURES

Places == {"down", "discover", "round", "scan", "process", "mark", "send",
           "answer", "refused", "poll", "refresh"}

\* The process is somewhere in the code and scans only what is there.
OpOK ==
    /\ op \in [pc : Places, batch : Nat, reply : {"none", "ok", "lost", "refused"}, stop : Nat]
    /\ op.stop <= chain.tip /\ op.batch <= Len(db.batches)

\* The vault has at least what the pair has left; a fill it has not accounted
\* for is one of a tracked order, whose record is too high.
ChainOK ==
    /\ \A f \in chain.fills : chain.placed[f.order] \in 1..f.height /\ f.height <= chain.tip
    /\ \A o \in Orders :
         /\ chain.covered[o] <= chain.tip /\ chain.placed[o] <= chain.tip
         /\ chain.left[o] <= chain.seen[o]
         /\ o \in chain.tracked => chain.placed[o] > 0
    /\ \A f \in chain.fills :
         (f.order \in chain.tracked => chain.left[f.order] = chain.seen[f.order])
            => f.height <= chain.covered[f.order]

\* The indexer knows every tracked order whose placement it has scanned.
IndexOK == \A o \in chain.tracked \ db.active : chain.placed[o] > db.scanned

Latest == Len(db.batches)
last   == db.batches[Latest]

\* Every batch but the latest is confirmed, and its events are accounted for.
BatchOK ==
    \A b \in DOMAIN db.batches :
       /\ db.batches[b].events \subseteq DOMAIN db.events
       /\ \A e \in db.batches[b].events : e.order \in db.batches[b].items
       /\ db.batches[b].state # "intervention" => db.batches[b].failures < MAX_FAILURES
       /\ db.batches[b].state # "confirmed" => b = Latest
       /\ db.batches[b].backoff => db.batches[b].state = "ready"
       /\ db.batches[b].state = "confirmed" =>
             \A e \in db.batches[b].events : db.events[e] # None

\* A transaction runs after the fills its batch was frozen for.
TxOK ==
    \A i \in DOMAIN chain.txs :
       /\ chain.txs[i].batch \in DOMAIN db.batches
       /\ chain.txs[i].status # "pending" =>
             \A e \in db.batches[chain.txs[i].batch].events : e.height <= chain.txs[i].height

NothingOpen   == \A i \in DOMAIN chain.txs : chain.txs[i].status # "pending"
NotReconciled == \A i \in DOMAIN chain.txs :
                    chain.txs[i].batch = Latest => chain.txs[i].status # "ok"

\* The last transaction is one of the latest batch.
Sent == /\ Len(chain.txs) > 0
        /\ chain.txs[Len(chain.txs)].batch = Latest
        /\ chain.txs[Len(chain.txs)].orders = last.items

\* A batch that may be signed has nothing on the chain that is open or done;
\* one that is polled knows its transaction.
LatestOK ==
    Latest > 0 =>
      /\ last.state \in {"ready", "signed", "intervention", "confirmed"} => NothingOpen
      /\ last.state \in {"ready", "signed", "intervention"} =>
            last.attempt \notin {"broadcast", "timeout"} /\ NotReconciled
      /\ last.state \in {"broadcast", "timeout"} =>
            /\ last.attempt \in {"broadcast", "timeout"}
            /\ last.tx = Len(chain.txs) /\ Sent

\* What the process relies on between two database transactions.
StageOK ==
    op.pc \in {"process", "mark", "send", "answer", "refused", "poll"} =>
      /\ Latest > 0 /\ op.batch = Latest /\ last.state # "confirmed"
      /\ op.pc = "mark" => last.state = "signed"
      /\ op.pc \in {"send", "answer", "refused"} => last.state = "broadcasting"
      /\ op.pc \in {"send", "refused"} \/ (op.pc = "answer" /\ op.reply = "refused")
            => NothingOpen /\ NotReconciled
      /\ op.pc = "answer" /\ op.reply = "ok" => Sent
      /\ op.pc = "poll" => last.state \in {"broadcast", "timeout"}

IInv == /\ DbOK /\ OpOK /\ ChainOK /\ IndexOK /\ BatchOK /\ TxOK /\ LatestOK /\ StageOK
        /\ NeverSentTwice /\ ReconciledOnChain /\ NoFillLost /\ FrozenOnce

LEMMA InitIInv == Init => IInv
<1> SUFFICES ASSUME Init PROVE IInv
  OBVIOUS
<1> USE GridChainAssumption, GridKeeperAssumption DEF Init, ChainInit, DbInit, Down
<1>1. chain \in ChainType /\ faults \in 0..MaxFaults
  BY DEF ChainType, Fill, Tx
<1>2. DOMAIN db.events = {} /\ db.batches = << >> /\ chain.fills = {} /\ chain.txs = << >>
  OBVIOUS
<1>3. DbOK
  BY <1>1 DEF DbOK
<1>4. OpOK
  BY DEF OpOK, Places
<1>5. ChainOK /\ IndexOK /\ NoFillLost
  BY <1>1, <1>2 DEF ChainOK, IndexOK, NoFillLost, ChainType
<1>6. BatchOK /\ TxOK /\ LatestOK /\ StageOK
  BY <1>2 DEF BatchOK, TxOK, LatestOK, StageOK, Latest
<1>7. NeverSentTwice /\ ReconciledOnChain /\ FrozenOnce
  BY <1>2 DEF NeverSentTwice, ReconciledOnChain, FrozenOnce
<1>8. QED
  BY <1>3, <1>4, <1>5, <1>6, <1>7 DEF IInv

-----------------------------------------------------------------------------
(* Blocks. *)

\* What a block may do to transactions: those it executes had been open.
Settles ==
    /\ Len(chain'.txs) = Len(chain.txs)
    /\ \A i \in DOMAIN chain.txs :
         /\ chain'.txs[i].batch = chain.txs[i].batch
         /\ chain'.txs[i].orders = chain.txs[i].orders
         /\ \/ chain'.txs[i] = chain.txs[i]
            \/ /\ chain.txs[i].status = "pending" /\ chain'.txs[i].status # "pending"
               /\ chain'.txs[i].height > chain.tip

\* What a block may do to the rest: history grows, new fills and placements
\* are its own, and whoever untracks an order accounts for its fills.
Grows ==
    /\ chain' \in ChainType /\ faults' \in 0..MaxFaults
    /\ chain.tip <= chain'.tip /\ ChainOK'
    /\ chain.fills \subseteq chain'.fills
    /\ \A f \in chain'.fills \ chain.fills : f.height > chain.tip
    /\ \A o \in Orders : chain.covered[o] <= chain'.covered[o]
    /\ \A o \in chain'.tracked :
         \/ chain'.placed[o] > chain.tip
         \/ o \in chain.tracked /\ chain'.placed[o] = chain.placed[o]
    /\ Settles

LEMMA BlockStep ==
  ASSUME IInv, Grows, UNCHANGED <<db, op>>
  PROVE  IInv'
<1> USE DEF IInv
<1>1. chain \in ChainType /\ chain' \in ChainType /\ db.batches \in Seq(Batch)
  BY DEF DbOK, Grows
<1>2. /\ chain.tip \in Nat /\ chain'.tip \in Nat /\ chain.txs \in Seq(Tx) /\ chain'.txs \in Seq(Tx)
      /\ chain.covered \in [Orders -> Nat] /\ chain'.covered \in [Orders -> Nat]
      /\ chain'.placed \in [Orders -> Nat] /\ chain'.tracked \subseteq Orders
      /\ chain.fills \subseteq Fill /\ chain'.fills \subseteq Fill
  BY <1>1 DEF ChainType
<1>3. DOMAIN chain'.txs = DOMAIN chain.txs /\ Len(chain'.txs) = Len(chain.txs)
  BY <1>2 DEF Grows, Settles
<1>a. \A i \in DOMAIN chain.txs :
        chain.txs[i].height \in Nat /\ chain'.txs[i].height \in Nat
  <2>1. \A i \in DOMAIN chain.txs : chain.txs[i] \in Tx /\ chain'.txs[i] \in Tx
    BY <1>2, <1>3
  <2>2. QED
    BY <2>1 DEF Tx
<1>4. DbOK'
  BY <1>2 DEF DbOK, Grows
<1>5. OpOK'
  BY <1>2 DEF OpOK, Grows
<1>6. ChainOK'
  BY DEF Grows
<1>7. IndexOK'
  <2> SUFFICES ASSUME NEW o \in chain'.tracked \ db.active
               PROVE  chain'.placed[o] > db.scanned
    BY DEF IndexOK
  <2>1. chain'.placed[o] \in Nat /\ db.scanned \in Nat /\ db.scanned <= chain.tip
    BY <1>2 DEF DbOK
  <2>2. \/ chain'.placed[o] > chain.tip
        \/ o \in chain.tracked /\ chain'.placed[o] = chain.placed[o]
    BY DEF Grows
  <2>3. o \in chain.tracked => chain.placed[o] > db.scanned
    BY DEF IndexOK
  <2>4. QED
    BY <1>2, <2>1, <2>2, <2>3
<1>8. NoFillLost'
  <2> SUFFICES ASSUME NEW f \in chain'.fills, f.height <= db.scanned, f \notin DOMAIN db.events
               PROVE  f.height <= chain'.covered[f.order]
    BY DEF NoFillLost
  <2>1. f.order \in Orders /\ f.height \in Nat
    BY <1>2 DEF Fill
  <2>2. f \in chain.fills
    BY <1>2, <2>1 DEF Grows, DbOK
  <2>3. QED
    BY <1>2, <2>1, <2>2 DEF Grows, NoFillLost
<1>9. BatchOK' /\ FrozenOnce'
  BY DEF BatchOK, FrozenOnce, Latest
<1>10. TxOK'
  <2> SUFFICES ASSUME NEW i \in DOMAIN chain.txs, chain'.txs[i].status # "pending",
                      NEW e \in db.batches[chain.txs[i].batch].events
               PROVE  /\ chain'.txs[i].batch \in DOMAIN db.batches
                      /\ e.height <= chain'.txs[i].height
    BY <1>3 DEF TxOK, Grows, Settles
  <2>1. chain.txs[i].batch \in DOMAIN db.batches /\ chain'.txs[i].batch = chain.txs[i].batch
    BY DEF TxOK, Grows, Settles
  <2>2. e \in chain.fills /\ e.height \in Nat /\ e.height <= chain.tip
    BY <1>2, <2>1 DEF BatchOK, DbOK, ChainOK, Fill
  <2>3. chain.txs[i].height \in Nat /\ chain'.txs[i].height \in Nat
    BY <1>a
  <2>4. QED
    BY <1>2, <2>1, <2>2, <2>3 DEF TxOK, Grows, Settles
<1>11. NothingOpen => NothingOpen'
  BY <1>3 DEF NothingOpen, Grows, Settles
<1>12. NothingOpen /\ NotReconciled => NotReconciled'
  BY <1>3 DEF NothingOpen, NotReconciled, Grows, Settles, Latest
<1>13. Sent => Sent'
  BY <1>2, <1>3 DEF Sent, Grows, Settles, Latest, last
<1>14. LatestOK'
  BY <1>3, <1>11, <1>12, <1>13 DEF LatestOK, Latest, last
<1>15. StageOK'
  BY <1>3, <1>11, <1>12, <1>13 DEF StageOK, Latest, last
<1>16. NeverSentTwice'
  BY <1>3 DEF NeverSentTwice, Grows, Settles
<1>17. ReconciledOnChain'
  <2> SUFFICES ASSUME NEW e \in DOMAIN db.events, db.events[e] # None
               PROVE  \E i \in DOMAIN chain'.txs :
                        /\ chain'.txs[i].batch = db.events[e] /\ chain'.txs[i].status = "ok"
                        /\ e.order \in chain'.txs[i].orders /\ e.height <= chain'.txs[i].height
                        /\ chain'.txs[i].height + Depth <= chain'.tip
    BY DEF ReconciledOnChain
  <2>1. PICK i \in DOMAIN chain.txs :
          /\ chain.txs[i].batch = db.events[e] /\ chain.txs[i].status = "ok"
          /\ e.order \in chain.txs[i].orders /\ e.height <= chain.txs[i].height
          /\ chain.txs[i].height + Depth <= chain.tip
    BY DEF ReconciledOnChain
  <2>2. chain'.txs[i] = chain.txs[i]
    BY <2>1 DEF Grows, Settles
  <2>3. chain.txs[i].height \in Nat
    BY <1>a
  <2>4. chain.txs[i].height + Depth <= chain'.tip
    BY <1>2, <2>1, <2>3, GridChainAssumption DEF Grows
  <2>5. QED
    BY <1>3, <2>1, <2>2, <2>4
<1>18. QED
  BY <1>4, <1>5, <1>6, <1>7, <1>8, <1>9, <1>10, <1>14, <1>15, <1>16, <1>17

LEMMA ChainFields ==
  ASSUME IInv
  PROVE  /\ chain \in ChainType
         /\ chain.tip \in Nat /\ next_height \in Nat /\ next_height = chain.tip + 1
         /\ chain.placed \in [Orders -> Nat] /\ chain.tracked \subseteq Orders
         /\ chain.seen \in [Orders -> 0..Size] /\ chain.left \in [Orders -> 0..Size]
         /\ chain.parked \subseteq Orders /\ chain.credit \in BOOLEAN
         /\ chain.covered \in [Orders -> Nat] /\ chain.fills \subseteq Fill
         /\ chain.txs \in Seq(Tx)
         /\ \A f \in chain.fills : f.order \in Orders /\ f.height \in Nat
<1>1. chain \in ChainType
  BY DEF IInv, DbOK
<1>2. /\ chain.tip \in Nat /\ chain.placed \in [Orders -> Nat] /\ chain.tracked \subseteq Orders
      /\ chain.seen \in [Orders -> 0..Size] /\ chain.left \in [Orders -> 0..Size]
      /\ chain.parked \subseteq Orders /\ chain.credit \in BOOLEAN
      /\ chain.covered \in [Orders -> Nat] /\ chain.fills \subseteq Fill
      /\ chain.txs \in Seq(Tx)
  BY <1>1 DEF ChainType
<1>3. \A f \in chain.fills : f.order \in Orders /\ f.height \in Nat
  BY <1>2 DEF Fill
<1>4. next_height \in Nat /\ next_height = chain.tip + 1
  BY <1>2 DEF next_height
<1>5. QED
  BY <1>1, <1>2, <1>3, <1>4

LEMMA FaultsBounded ==
  ASSUME IInv, Fault \/ UNCHANGED faults
  PROVE  faults' \in 0..MaxFaults
BY GridChainAssumption DEF IInv, DbOK, Fault

LEMMA SameTxs ==
  ASSUME IInv, chain'.txs = chain.txs
  PROVE  Settles
BY DEF Settles

LEMMA PlaceGrows ==
  ASSUME IInv, NEW o \in Orders, Place(o)
  PROVE  Grows
<1>1. chain' = [chain EXCEPT !.tip = next_height, !.placed[o] = next_height,
                             !.tracked = @ \cup {o}]
      /\ chain.placed[o] = 0 /\ UNCHANGED faults
  BY DEF Place
<1>2. chain' \in ChainType
  BY <1>1, ChainFields DEF ChainType
<1>3. /\ chain'.tip = chain.tip + 1 /\ chain'.tracked = chain.tracked \cup {o}
      /\ chain'.placed = [chain.placed EXCEPT ![o] = chain.tip + 1]
      /\ chain'.seen = chain.seen /\ chain'.left = chain.left
      /\ chain'.covered = chain.covered /\ chain'.fills = chain.fills /\ chain'.txs = chain.txs
  BY <1>1, ChainFields DEF ChainType
<1>4. \A f \in chain.fills : f.order # o
  BY <1>1, ChainFields DEF IInv, ChainOK
<1>5. ChainOK'
  <2>1. ASSUME NEW f \in chain'.fills
        PROVE  chain'.placed[f.order] \in 1..f.height /\ f.height <= chain'.tip
    <3>1. chain'.placed[f.order] = chain.placed[f.order] /\ f.height \in Nat
      BY <1>3, <1>4, ChainFields
    <3>2. chain.placed[f.order] \in 1..f.height /\ f.height <= chain.tip
      BY <1>3 DEF IInv, ChainOK
    <3>3. QED
      BY <1>3, <3>1, <3>2, ChainFields
  <2>2. ASSUME NEW p \in Orders
        PROVE  /\ chain'.covered[p] <= chain'.tip /\ chain'.placed[p] <= chain'.tip
               /\ chain'.left[p] <= chain'.seen[p]
               /\ p \in chain'.tracked => chain'.placed[p] > 0
    <3>1. /\ chain.covered[p] <= chain.tip /\ chain.placed[p] <= chain.tip
          /\ chain.left[p] <= chain.seen[p]
          /\ p \in chain.tracked => chain.placed[p] > 0
      BY DEF IInv, ChainOK
    <3>2. chain'.placed[p] = IF p = o THEN chain.tip + 1 ELSE chain.placed[p]
      BY <1>3, ChainFields
    <3>3. chain.covered[p] \in Nat /\ chain.placed[p] \in Nat
      BY ChainFields
    <3>4. QED
      BY <1>3, <3>1, <3>2, <3>3, ChainFields
  <2>3. \A f \in chain'.fills :
          (f.order \in chain'.tracked => chain'.left[f.order] = chain'.seen[f.order])
             => f.height <= chain'.covered[f.order]
    BY <1>3, <1>4, ChainFields DEF IInv, ChainOK
  <2>4. QED
    BY <2>1, <2>2, <2>3 DEF ChainOK
<1>6. \A p \in chain'.tracked :
        \/ chain'.placed[p] > chain.tip
        \/ p \in chain.tracked /\ chain'.placed[p] = chain.placed[p]
  BY <1>3, ChainFields
<1>7. \A p \in Orders : chain.covered[p] <= chain'.covered[p]
  BY <1>3, ChainFields
<1>8. QED
  BY <1>1, <1>2, <1>3, <1>5, <1>6, <1>7, ChainFields, FaultsBounded, SameTxs DEF Grows

LEMMA FillGrows ==
  ASSUME IInv, NEW o \in Orders, FillOrder(o)
  PROVE  Grows
<1> DEFINE new == [order |-> o, height |-> next_height]
<1>1. /\ chain' = [chain EXCEPT !.tip = next_height, !.left[o] = @ - 1, !.credit = TRUE,
                                !.fills = @ \cup {new}]
      /\ chain.placed[o] > 0 /\ o \in chain.tracked /\ chain.left[o] > 0 /\ UNCHANGED faults
  BY DEF FillOrder
<1>2. new \in Fill /\ new.order = o /\ new.height = chain.tip + 1
  BY ChainFields DEF Fill
<1>3. chain.left[o] - 1 \in 0..Size /\ Size \in Nat
  <2>1. chain.left[o] \in 0..Size /\ chain.left[o] > 0 /\ Size \in Nat
    BY <1>1, ChainFields, GridChainAssumption
  <2>2. QED
    BY <2>1
<1> HIDE DEF new
<1>4. chain' \in ChainType
  BY <1>1, <1>2, <1>3, ChainFields DEF ChainType
<1>5. /\ chain'.tip = chain.tip + 1 /\ chain'.tracked = chain.tracked
      /\ chain'.placed = chain.placed /\ chain'.seen = chain.seen
      /\ chain'.left = [chain.left EXCEPT ![o] = chain.left[o] - 1]
      /\ chain'.covered = chain.covered /\ chain'.txs = chain.txs
      /\ chain'.fills = chain.fills \cup {new}
  BY <1>1, ChainFields DEF ChainType
<1>6. ChainOK'
  <2>1. \A f \in chain'.fills : chain'.placed[f.order] \in 1..f.height /\ f.height <= chain'.tip
    <3>1. /\ \A p \in Orders : chain.placed[p] \in Nat /\ chain.placed[p] <= chain.tip
          /\ \A f \in chain.fills : /\ chain.placed[f.order] \in 1..f.height
                                    /\ f.height <= chain.tip /\ f.height \in Nat
      BY ChainFields DEF IInv, ChainOK, Fill
    <3>2. \A f \in chain'.fills : f \in chain.fills \/ f = new
      BY <1>5
    <3>3. chain'.tip = chain.tip + 1 /\ chain'.placed = chain.placed /\ chain.tip \in Nat
      BY <1>5, ChainFields
    <3>4. new.order = o /\ new.height = chain.tip + 1 /\ chain.placed[o] > 0
      BY <1>1, <1>2
    <3>5. QED
      BY <3>1, <3>2, <3>3, <3>4
  <2>2. ASSUME NEW p \in Orders
        PROVE  /\ chain'.covered[p] <= chain'.tip /\ chain'.placed[p] <= chain'.tip
               /\ chain'.left[p] <= chain'.seen[p]
               /\ p \in chain'.tracked => chain'.placed[p] > 0
    <3>1. /\ chain.covered[p] <= chain.tip /\ chain.placed[p] <= chain.tip
          /\ chain.left[p] <= chain.seen[p]
          /\ p \in chain.tracked => chain.placed[p] > 0
      BY DEF IInv, ChainOK
    <3>2. chain'.left[p] = IF p = o THEN chain.left[o] - 1 ELSE chain.left[p]
      BY <1>5, ChainFields
    <3>3. /\ chain.covered[p] \in Nat /\ chain.placed[p] \in Nat
          /\ chain.left[p] \in Int /\ chain.seen[p] \in Int
      BY ChainFields
    <3>4. /\ chain'.tip = chain.tip + 1 /\ chain.tip \in Nat
          /\ chain'.covered = chain.covered /\ chain'.placed = chain.placed
          /\ chain'.tracked = chain.tracked /\ chain'.seen = chain.seen
      BY <1>5, ChainFields
    <3>5. QED
      BY <3>1, <3>2, <3>3, <3>4
  <2>3. chain'.left[o] # chain'.seen[o]
    BY <1>1, <1>5, ChainFields DEF IInv, ChainOK
  <2>4. \A f \in chain'.fills :
          (f.order \in chain'.tracked => chain'.left[f.order] = chain'.seen[f.order])
             => f.height <= chain'.covered[f.order]
    BY <1>1, <1>2, <1>5, <2>3, ChainFields DEF IInv, ChainOK
  <2>5. QED
    BY <2>1, <2>2, <2>4 DEF ChainOK
<1>7. \A p \in Orders : chain.covered[p] <= chain'.covered[p]
  BY <1>5, ChainFields
<1>8. \A f \in chain'.fills \ chain.fills : f.height > chain.tip
  BY <1>2, <1>5, ChainFields
<1>9. QED
  BY <1>1, <1>4, <1>5, <1>6, <1>7, <1>8, ChainFields, FaultsBounded, SameTxs DEF Grows

\* A block without fills and placements that records more, or less, as tracked.
LEMMA QuietGrows ==
  ASSUME IInv, chain' \in ChainType, Fault \/ UNCHANGED faults, Settles,
         chain'.tip = chain.tip + 1, chain'.placed = chain.placed, chain'.fills = chain.fills,
         chain'.tracked \subseteq chain.tracked,
         \A o \in Orders : chain.covered[o] <= chain'.covered[o]
                             /\ chain'.covered[o] <= chain.tip + 1,
         \A o \in Orders : chain'.left[o] <= chain'.seen[o],
         \A o \in Orders :
            \/ chain'.covered[o] = chain.tip + 1
            \/ o \in chain.tracked /\ chain.left[o] # chain.seen[o]
                 => o \in chain'.tracked /\ chain'.left[o] # chain'.seen[o]
  PROVE  Grows
<1>1. chain'.covered \in [Orders -> Nat] /\ chain'.seen \in [Orders -> 0..Size]
      /\ chain'.left \in [Orders -> 0..Size]
  BY DEF ChainType
<1>2. \A f \in chain'.fills : chain'.placed[f.order] \in 1..f.height /\ f.height <= chain'.tip
  BY ChainFields DEF IInv, ChainOK
<1>3. \A o \in Orders :
        /\ chain'.covered[o] <= chain'.tip /\ chain'.placed[o] <= chain'.tip
        /\ o \in chain'.tracked => chain'.placed[o] > 0
  BY <1>1, ChainFields DEF IInv, ChainOK
<1>4. ASSUME NEW f \in chain'.fills,
             f.order \in chain'.tracked => chain'.left[f.order] = chain'.seen[f.order]
      PROVE  f.height <= chain'.covered[f.order]
  <2>1. f.order \in Orders /\ f.height \in Nat /\ f.height <= chain.tip
    BY ChainFields DEF IInv, ChainOK
  <2>2. CASE chain'.covered[f.order] = chain.tip + 1
    BY <2>1, <2>2, ChainFields
  <2>3. CASE chain'.covered[f.order] # chain.tip + 1
    <3>1. f.order \in chain.tracked => chain.left[f.order] = chain.seen[f.order]
      BY <1>4, <2>1, <2>3
    <3>2. f.height <= chain.covered[f.order]
      BY <3>1 DEF IInv, ChainOK
    <3>3. QED
      BY <1>1, <2>1, <3>2, ChainFields
  <2>4. QED
    BY <2>2, <2>3
<1>5. ChainOK'
  BY <1>2, <1>3, <1>4 DEF ChainOK
<1>6. QED
  BY <1>5, ChainFields, FaultsBounded DEF Grows

LEMMA ExpireGrows ==
  ASSUME IInv, NEW o \in Orders, Expire(o)
  PROVE  Grows
<1>1. chain' = [chain EXCEPT !.tip = next_height, !.parked = @ \cup {o}] /\ UNCHANGED faults
  BY DEF Expire
<1>2. chain' \in ChainType
  BY <1>1, ChainFields DEF ChainType
<1>3. /\ chain'.tip = chain.tip + 1 /\ chain'.tracked = chain.tracked
      /\ chain'.placed = chain.placed /\ chain'.seen = chain.seen /\ chain'.left = chain.left
      /\ chain'.covered = chain.covered /\ chain'.fills = chain.fills /\ chain'.txs = chain.txs
  BY <1>1, ChainFields DEF ChainType
<1>4. \A p \in Orders : /\ chain'.covered[p] \in Nat /\ chain'.covered[p] <= chain.tip
                        /\ chain'.left[p] <= chain'.seen[p]
  BY <1>3, ChainFields DEF IInv, ChainOK
<1>5. \A p \in Orders : chain.covered[p] <= chain'.covered[p]
                          /\ chain'.covered[p] <= chain.tip + 1
  BY <1>3, <1>4, ChainFields
<1>6. QED
  BY <1>1, <1>2, <1>3, <1>4, <1>5, SameTxs, QuietGrows

LEMMA EmptyGrows ==
  ASSUME IInv, EmptyBlock
  PROVE  Grows
<1>1. chain' = [chain EXCEPT !.tip = next_height] /\ UNCHANGED faults
  BY DEF EmptyBlock
<1>2. chain' \in ChainType
  BY <1>1, ChainFields DEF ChainType
<1>3. /\ chain'.tip = chain.tip + 1 /\ chain'.tracked = chain.tracked
      /\ chain'.placed = chain.placed /\ chain'.seen = chain.seen /\ chain'.left = chain.left
      /\ chain'.covered = chain.covered /\ chain'.fills = chain.fills /\ chain'.txs = chain.txs
  BY <1>1, ChainFields DEF ChainType
<1>4. \A p \in Orders : /\ chain'.covered[p] \in Nat /\ chain'.covered[p] <= chain.tip
                        /\ chain'.left[p] <= chain'.seen[p]
  BY <1>3, ChainFields DEF IInv, ChainOK
<1>5. \A p \in Orders : chain.covered[p] <= chain'.covered[p]
                          /\ chain'.covered[p] <= chain.tip + 1
  BY <1>3, <1>4, ChainFields
<1>6. QED
  BY <1>1, <1>2, <1>3, <1>4, <1>5, SameTxs, QuietGrows

LEMMA CancelGrows ==
  ASSUME IInv, CancelAll
  PROVE  Grows
<1> DEFINE none_left == [o \in Orders |-> IF o \in chain.tracked THEN 0 ELSE chain.left[o]]
<1>1. /\ chain' = [chain EXCEPT !.tip = next_height, !.tracked = {}, !.left = none_left]
      /\ \A o \in chain.tracked : chain.left[o] = chain.seen[o] /\ UNCHANGED faults
      /\ UNCHANGED faults
  BY DEF CancelAll
<1>2. none_left \in [Orders -> 0..Size]
  BY ChainFields, GridChainAssumption
<1>3. \A p \in Orders : none_left[p] \in {0, chain.left[p]}
  OBVIOUS
<1> HIDE DEF none_left
<1>4. chain' \in ChainType
  BY <1>1, <1>2, ChainFields DEF ChainType
<1>5. /\ chain'.tip = chain.tip + 1 /\ chain'.tracked = {}
      /\ chain'.placed = chain.placed /\ chain'.seen = chain.seen /\ chain'.left = none_left
      /\ chain'.covered = chain.covered /\ chain'.fills = chain.fills /\ chain'.txs = chain.txs
  BY <1>1, ChainFields DEF ChainType
<1>6. \A p \in Orders : /\ chain'.covered[p] \in Nat /\ chain'.covered[p] <= chain.tip
                        /\ chain.left[p] <= chain.seen[p] /\ chain.seen[p] \in Nat
  BY <1>5, ChainFields, GridChainAssumption DEF IInv, ChainOK
<1>7. \A p \in Orders : chain.covered[p] <= chain'.covered[p]
                          /\ chain'.covered[p] <= chain.tip + 1
  BY <1>5, <1>6, ChainFields
<1>8. \A p \in Orders : chain'.left[p] <= chain'.seen[p]
  BY <1>3, <1>5, <1>6
<1>9. QED
  BY <1>1, <1>4, <1>5, <1>7, <1>8, SameTxs, QuietGrows

LEMMA ChainUpdated ==
  ASSUME chain \in ChainType, NEW seen \in [Orders -> 0..Size], NEW tracked \in SUBSET Orders,
         NEW parked \in SUBSET Orders, NEW covered \in [Orders -> Nat], NEW tip \in Nat,
         NEW txs \in Seq(Tx)
  PROVE  [chain EXCEPT !.seen = seen, !.tracked = tracked, !.parked = parked, !.credit = FALSE,
                       !.covered = covered, !.tip = tip, !.txs = txs] \in ChainType
BY DEF ChainType

\* A reconciliation in the next block, with its transactions already settled.
LEMMA ReconcileGrows ==
  ASSUME IInv, NEW named \in SUBSET Orders, NEW kept \in SUBSET named,
         NEW txs \in Seq(Tx),
         chain' = [reconciled(named, kept, next_height) EXCEPT !.tip = next_height, !.txs = txs],
         Settles, Fault \/ UNCHANGED faults
  PROVE  Grows
<1> DEFINE done    == named \ kept
           seen    == [o \in Orders |-> IF o \in done THEN chain.left[o] ELSE chain.seen[o]]
           tracked == {o \in chain.tracked :
                         o \in done => chain.left[o] > 0 /\ o \notin chain.parked}
           parked  == chain.parked \ done
           covered == [o \in Orders |-> IF o \in named THEN next_height ELSE chain.covered[o]]
           new     == [chain EXCEPT !.seen = seen, !.tracked = tracked, !.parked = parked,
                                    !.credit = FALSE, !.covered = covered,
                                    !.tip = next_height, !.txs = txs]
<1>1. chain' = new
  BY ChainFields DEF reconciled, ChainType
<1>2. /\ seen \in [Orders -> 0..Size] /\ tracked \subseteq chain.tracked
      /\ covered \in [Orders -> Nat]
      /\ parked \in SUBSET Orders /\ tracked \in SUBSET Orders
  BY ChainFields
<1>3. \A p \in Orders : /\ seen[p] = IF p \in done THEN chain.left[p] ELSE chain.seen[p]
                        /\ covered[p] = IF p \in named THEN chain.tip + 1 ELSE chain.covered[p]
                        /\ p \in chain.tracked \ done => p \in tracked
  BY ChainFields
<1>4. done \subseteq named
  OBVIOUS
<1> HIDE DEF seen, tracked, parked, covered, done
<1>5. chain' \in ChainType
  <2>1. new \in ChainType
    BY <1>2, ChainFields, ChainUpdated
  <2> HIDE DEF new
  <2>2. QED
    BY <1>1, <2>1
<1>6. /\ chain'.tip = chain.tip + 1 /\ chain'.tracked = tracked
      /\ chain'.placed = chain.placed /\ chain'.seen = seen /\ chain'.left = chain.left
      /\ chain'.covered = covered /\ chain'.fills = chain.fills
  BY <1>1, ChainFields DEF ChainType
<1>7. \A p \in Orders : /\ chain.covered[p] \in Nat /\ chain.covered[p] <= chain.tip
                        /\ chain.left[p] <= chain.seen[p] /\ chain.left[p] \in Int
  BY ChainFields DEF IInv, ChainOK
<1>8. \A p \in Orders : chain.covered[p] <= chain'.covered[p]
                          /\ chain'.covered[p] <= chain.tip + 1
  BY <1>3, <1>6, <1>7, ChainFields
<1>9. \A p \in Orders : chain'.left[p] <= chain'.seen[p]
  BY <1>3, <1>6, <1>7
<1>10. \A p \in Orders :
         \/ chain'.covered[p] = chain.tip + 1
         \/ p \in chain.tracked /\ chain.left[p] # chain.seen[p]
              => p \in chain'.tracked /\ chain'.left[p] # chain'.seen[p]
  BY <1>3, <1>4, <1>6
<1>11. QED
  BY <1>2, <1>5, <1>6, <1>8, <1>9, <1>10, QuietGrows

LEMMA OthersGrows ==
  ASSUME IInv, NEW named \in SUBSET Orders, OthersReconcile(named)
  PROVE  Grows
<1> DEFINE c == reconciled(named, {}, next_height)
<1>1. chain' = [c EXCEPT !.tip = next_height] /\ UNCHANGED faults
  BY DEF OthersReconcile
<1>2. c \in ChainType /\ c.txs = chain.txs
  <2>1. [o \in Orders |-> IF o \in named \ {} THEN chain.left[o] ELSE chain.seen[o]]
          \in [Orders -> 0..Size]
    BY ChainFields
  <2>2. [o \in Orders |-> IF o \in named THEN next_height ELSE chain.covered[o]]
          \in [Orders -> Nat]
    BY ChainFields
  <2>3. QED
    BY <2>1, <2>2, ChainFields DEF reconciled, ChainType
<1> HIDE DEF c
<1>3. chain' = [c EXCEPT !.tip = next_height, !.txs = chain.txs] /\ chain'.txs = chain.txs
  BY <1>1, <1>2 DEF ChainType
<1>4. Settles /\ {} \in SUBSET named /\ chain.txs \in Seq(Tx)
  BY <1>3, ChainFields, SameTxs
<1>5. chain' = [reconciled(named, {}, next_height) EXCEPT !.tip = next_height, !.txs = chain.txs]
  BY <1>3 DEF c
<1>6. QED
  BY <1>1, <1>4, <1>5, ReconcileGrows

LEMMA IncludeGrows ==
  ASSUME IInv, NEW i \in 1..Len(chain.txs), Include(i)
  PROVE  Grows
<1> DEFINE tx == chain.txs[i]
           settled(status) == [chain.txs EXCEPT ![i] = [tx EXCEPT !.status = status,
                                                                  !.height = next_height]]
           closed(c, status) == [c EXCEPT !.tip = next_height, !.txs = settled(status)]
<1>1. tx \in Tx /\ tx.status = "pending" /\ tx.orders \subseteq Orders
  <2>1. tx \in Tx
    BY ChainFields
  <2>2. QED
    BY <2>1 DEF Include, Tx
<1>2. ASSUME NEW status \in {"ok", "reverted", "failed"}
      PROVE  /\ settled(status) \in Seq(Tx)
             /\ Len(settled(status)) = Len(chain.txs)
             /\ \A j \in DOMAIN chain.txs :
                  settled(status)[j] = IF j = i THEN [tx EXCEPT !.status = status,
                                                                !.height = next_height]
                                       ELSE chain.txs[j]
  <2>1. [tx EXCEPT !.status = status, !.height = next_height] \in Tx
    BY <1>1, ChainFields DEF Tx
  <2>2. QED
    BY <2>1, ChainFields
<1>3. ASSUME NEW status \in {"ok", "reverted", "failed"}, chain'.txs = settled(status)
      PROVE  Settles
  <2>1. LET new == [tx EXCEPT !.status = status, !.height = next_height]
        IN  /\ new.batch = tx.batch /\ new.orders = tx.orders
            /\ new.status # "pending" /\ new.height > chain.tip
    BY <1>1, ChainFields DEF Tx
  <2>2. QED
    BY <1>1, <1>2, <1>3, <2>1, ChainFields DEF Settles
<1>5. ASSUME NEW kept \in SUBSET tx.orders
      PROVE  /\ reconciled(tx.orders, kept, next_height) \in ChainType
             /\ reconciled(tx.orders, kept, next_height).txs = chain.txs
  <2>1. [o \in Orders |-> IF o \in tx.orders \ kept THEN chain.left[o] ELSE chain.seen[o]]
          \in [Orders -> 0..Size]
    BY ChainFields
  <2>2. [o \in Orders |-> IF o \in tx.orders THEN next_height ELSE chain.covered[o]]
          \in [Orders -> Nat]
    BY ChainFields
  <2>3. QED
    BY <2>1, <2>2, ChainFields DEF reconciled, ChainType
<1>6. Fault \/ UNCHANGED faults
  BY DEF Include, FaultIf
<1>7. ASSUME NEW kept \in SUBSET tx.orders, NEW status \in {"ok", "reverted", "failed"},
             chain' = closed(reconciled(tx.orders, kept, next_height), status)
      PROVE  Grows
  <2>1. chain' = [reconciled(tx.orders, kept, next_height)
                    EXCEPT !.tip = next_height, !.txs = settled(status)]
    BY <1>7
  <2>2. chain'.txs = settled(status)
    BY <1>5, <2>1 DEF ChainType
  <2>3. settled(status) \in Seq(Tx) /\ Settles
    BY <1>2, <1>3, <2>2
  <2> HIDE DEF settled, closed
  <2>4. QED
    BY <1>1, <1>6, <2>1, <2>3, ReconcileGrows
<1>8. CASE chain' = closed(chain, "failed")
  <2>1. chain' = [chain EXCEPT !.tip = next_height, !.txs = settled("failed")]
    BY <1>8
  <2>2. settled("failed") \in Seq(Tx)
    BY <1>2
  <2> HIDE DEF closed
  <2>3. chain' \in ChainType
    BY <2>1, <2>2, ChainFields DEF ChainType
  <2>4. /\ chain'.tip = chain.tip + 1 /\ chain'.tracked = chain.tracked
        /\ chain'.placed = chain.placed /\ chain'.seen = chain.seen /\ chain'.left = chain.left
        /\ chain'.covered = chain.covered /\ chain'.fills = chain.fills
        /\ chain'.txs = settled("failed")
    BY <2>1, ChainFields DEF ChainType
  <2>5. Settles
    BY <1>3, <2>4
  <2> HIDE DEF settled
  <2>6. \A p \in Orders : /\ chain'.covered[p] \in Nat /\ chain'.covered[p] <= chain.tip
                          /\ chain'.left[p] <= chain'.seen[p]
    BY <2>4, ChainFields DEF IInv, ChainOK
  <2>7. \A p \in Orders : chain.covered[p] <= chain'.covered[p]
                            /\ chain'.covered[p] <= chain.tip + 1
    BY <2>4, <2>6, ChainFields
  <2>8. QED
    BY <1>6, <2>3, <2>4, <2>5, <2>6, <2>7, QuietGrows
<1>9. \/ chain' = closed(chain, "failed")
      \/ \E kept \in SUBSET tx.orders, status \in {"ok", "reverted"} :
            chain' = closed(reconciled(tx.orders, kept, next_height), status)
  BY DEF Include
<1>10. QED
  BY <1>7, <1>8, <1>9

LEMMA ChainKeeps ==
  ASSUME IInv, ChainNext, UNCHANGED <<db, op>>
  PROVE  IInv'
<1>1. Grows
  BY PlaceGrows, FillGrows, ExpireGrows, OthersGrows, IncludeGrows, CancelGrows, EmptyGrows
     DEF ChainNext
<1>2. QED
  BY <1>1, BlockStep

-----------------------------------------------------------------------------
(* Steps of the process. *)

LEMMA DbFields ==
  ASSUME IInv
  PROVE  /\ db = [scanned |-> db.scanned, active |-> db.active,
                  events |-> db.events, batches |-> db.batches]
         /\ db.scanned \in Nat /\ db.scanned <= chain.tip /\ db.active \subseteq Orders
         /\ db.batches \in Seq(Batch) /\ Latest \in Nat /\ DOMAIN db.batches = 1..Latest
         /\ \A b \in DOMAIN db.batches : db.batches[b] \in Batch
         /\ Latest > 0 => last \in Batch /\ Latest \in DOMAIN db.batches
         /\ DOMAIN db.events \subseteq chain.fills
         /\ \A e \in DOMAIN db.events : db.events[e] \in {None} \cup (1..Latest)
         /\ \A b \in DOMAIN db.batches : db.batches[b].failures <= MAX_FAILURES
<1>1. DbOK /\ chain.tip \in Nat
  BY ChainFields DEF IInv
<1>2. db.batches \in Seq(Batch)
  BY <1>1 DEF DbOK
<1>3. Latest \in Nat /\ DOMAIN db.batches = 1..Latest
  BY <1>2 DEF Latest
<1>4. \A b \in DOMAIN db.batches : db.batches[b] \in Batch
  BY <1>2
<1>5. QED
  BY <1>1, <1>2, <1>3, <1>4 DEF DbOK, last

\* The process goes elsewhere; chain and database stay.
LEMMA OpStep ==
  ASSUME IInv, UNCHANGED <<chain, db>>, Fault \/ UNCHANGED faults, OpOK', StageOK'
  PROVE  IInv'
<1>1. faults' \in 0..MaxFaults
  BY FaultsBounded
<1>2. QED
  BY <1>1 DEF IInv, DbOK, ChainOK, IndexOK, BatchOK, TxOK, LatestOK, NeverSentTwice, Latest, last,
     ReconciledOnChain, NoFillLost, FrozenOnce, NothingOpen, NotReconciled, Sent

\* Nothing of the batches changes, and the indexer stays ahead of the vault.
LEMMA IndexStep ==
  ASSUME IInv, UNCHANGED <<chain, faults>>, OpOK', StageOK', DbOK', IndexOK', NoFillLost',
         db'.batches = db.batches,
         \A e \in DOMAIN db.events : e \in DOMAIN db'.events /\ db'.events[e] = db.events[e],
         \A e \in DOMAIN db'.events \ DOMAIN db.events : db'.events[e] = None
  PROVE  IInv'
<1>1. BatchOK'
  BY DEF IInv, BatchOK, Latest
<1>2. ReconciledOnChain'
  BY DEF IInv, ReconciledOnChain
<1>3. QED
  BY <1>1, <1>2 DEF IInv, ChainOK, TxOK, LatestOK, NeverSentTwice, FrozenOnce,
     NothingOpen, NotReconciled, Sent, Latest, last

\* One database transaction on the latest batch.
LEMMA UpdateStep ==
  ASSUME IInv, UNCHANGED chain, Fault \/ UNCHANGED faults, Latest > 0, last.state # "confirmed",
         NEW new \in Batch, new.items = last.items, new.events = last.events,
         new.state # "confirmed", new.failures <= MAX_FAILURES,
         new.state # "intervention" => new.failures < MAX_FAILURES,
         new.backoff => new.state = "ready",
         db' = [db EXCEPT !.batches[Latest] = new],
         OpOK',
         (Latest' = Latest /\ last' = new) => LatestOK' /\ StageOK'
  PROVE  IInv'
<1>1. /\ db'.batches = [db.batches EXCEPT ![Latest] = new]
      /\ db'.scanned = db.scanned /\ db'.active = db.active /\ db'.events = db.events
      /\ db' = [scanned |-> db'.scanned, active |-> db'.active,
                events |-> db'.events, batches |-> db'.batches]
  BY DbFields
<1>2. /\ db'.batches \in Seq(Batch) /\ Len(db'.batches) = Latest
      /\ DOMAIN db'.batches = DOMAIN db.batches
      /\ \A b \in DOMAIN db.batches :
           db'.batches[b] = IF b = Latest THEN new ELSE db.batches[b]
  BY <1>1, DbFields
<1>3. Latest' = Latest /\ last' = new /\ Latest \in DOMAIN db.batches
  BY <1>2, DbFields DEF Latest, last
<1>4. DbOK'
  BY <1>1, <1>2, FaultsBounded DEF IInv, DbOK
<1>5. \A b \in DOMAIN db.batches : /\ db'.batches[b].items = db.batches[b].items
                                   /\ db'.batches[b].events = db.batches[b].events
  BY <1>2 DEF last
<1>6. BatchOK'
  BY <1>1, <1>2, <1>3, <1>5 DEF IInv, BatchOK, last
<1>7. TxOK'
  BY <1>2, <1>5 DEF IInv, TxOK
<1>8. FrozenOnce'
  BY <1>2, <1>5 DEF IInv, FrozenOnce
<1>9. ReconciledOnChain' /\ NoFillLost' /\ IndexOK' /\ ChainOK' /\ NeverSentTwice'
  BY <1>1 DEF IInv, ReconciledOnChain, NoFillLost, IndexOK, ChainOK, NeverSentTwice
<1>10. QED
  BY <1>3, <1>4, <1>6, <1>7, <1>8, <1>9 DEF IInv

LEMMA OpMoves ==
  ASSUME IInv, UNCHANGED <<chain, db>> \/ (chain'.tip = chain.tip /\ Latest' = Latest),
         NEW pc \in Places, Goto(pc)
  PROVE  OpOK' /\ op'.pc = pc /\ op'.batch = op.batch /\ op'.reply = op.reply
<1>1. op' = [op EXCEPT !.pc = pc] /\ chain'.tip = chain.tip /\ Len(db'.batches) = Len(db.batches)
  BY DEF Goto, Latest
<1>2. QED
  BY <1>1 DEF IInv, OpOK

LEMMA RoundBegins ==
  ASSUME IInv, chain'.tip = chain.tip, Latest' \in Nat, op' = Down \/ NextRound
  PROVE  OpOK' /\ StageOK'
<1>1. /\ op'.pc \in {"down", "round"} /\ op'.batch = 0 /\ op'.stop = 0 /\ op'.reply = "none"
      /\ op' = [pc |-> op'.pc, batch |-> 0, reply |-> "none", stop |-> 0]
  BY DEF NextRound, Down
<1>2. OpOK'
  BY <1>1, ChainFields DEF OpOK, Places, Latest
<1>3. QED
  BY <1>1, <1>2 DEF StageOK

LEMMA StageFree ==
  ASSUME op'.pc \in {"down", "discover", "round", "scan", "refresh"}
  PROVE  StageOK'
BY DEF StageOK

\* Going elsewhere without a look at the database.
LEMMA MovesKeep ==
  ASSUME IInv,
         \/ Start \/ Idle \/ LeaveAlone \/ Crash
         \/ StartScan
  PROVE  IInv'
<1>1. CASE Start
  <2>1. Goto("discover") /\ UNCHANGED <<chain, faults, db>>
    BY <1>1 DEF Start
  <2>2. OpOK' /\ op'.pc = "discover"
    BY <2>1, OpMoves DEF Places
  <2>3. QED
    BY <2>1, <2>2, StageFree, OpStep
<1>2. CASE Idle \/ LeaveAlone \/ Crash
  <2>1. (op' = Down \/ NextRound) /\ UNCHANGED <<chain, db>> /\ (Fault \/ UNCHANGED faults)
    BY <1>2 DEF Idle, LeaveAlone, Crash
  <2>2. Latest' \in Nat
    BY <2>1, DbFields DEF Latest
  <2>3. QED
    BY <2>1, <2>2, RoundBegins, OpStep
<1>3. CASE StartScan
  <2>1. op' = [op EXCEPT !.pc = "scan", !.stop = finalized] /\ UNCHANGED <<chain, faults, db>>
    BY <1>3 DEF StartScan, scan_target
  <2>2. finalized \in Nat /\ finalized <= chain.tip
    BY ChainFields, GridChainAssumption DEF finalized
  <2>3. OpOK' /\ op'.pc = "scan"
    BY <2>1, <2>2 DEF IInv, OpOK, Places
  <2>4. QED
    BY <2>1, <2>3, StageFree, OpStep
<1>4. QED
  BY <1>1, <1>2, <1>3

\* discover and refresh_orders take the vault's present orders.
LEMMA RefreshKeeps ==
  ASSUME IInv, Discover \/ Refresh
  PROVE  IInv'
<1>1. /\ db' = [db EXCEPT !.active = chain.tracked] /\ UNCHANGED <<chain, faults>>
      /\ NextRound \/ Goto("round")
  BY DEF Discover, Refresh, refresh_orders
<1>2. /\ db'.active = chain.tracked /\ db'.scanned = db.scanned /\ db'.events = db.events
      /\ db'.batches = db.batches
      /\ db' = [scanned |-> db'.scanned, active |-> db'.active,
                events |-> db'.events, batches |-> db'.batches]
  BY <1>1, DbFields
<1>3. DbOK'
  BY <1>1, <1>2, ChainFields DEF IInv, DbOK
<1>4. IndexOK' /\ NoFillLost'
  BY <1>1, <1>2 DEF IInv, IndexOK, NoFillLost
<1>5. Latest' = Latest /\ Latest \in Nat /\ chain'.tip = chain.tip
  BY <1>1, <1>2, DbFields DEF Latest
<1>6. OpOK' /\ StageOK'
  <2>1. CASE NextRound
    BY <1>5, <2>1, RoundBegins
  <2>2. CASE Goto("round")
    <3>1. OpOK' /\ op'.pc = "round"
      BY <1>5, <2>2, OpMoves DEF Places
    <3>2. QED
      BY <3>1, StageFree
  <2>3. QED
    BY <1>1, <2>1, <2>2
<1>7. QED
  BY <1>1, <1>2, <1>3, <1>4, <1>6, IndexStep

LEMMA ScanKeeps ==
  ASSUME IInv, ScanHeight
  PROVE  IInv'
<1> DEFINE height == db.scanned + 1
           active == db.active \cup {o \in Orders : chain.placed[o] = height}
           found  == {f \in chain.fills : f.height = height /\ f.order \in active}
           events == with_events(db.events, found)
<1>1. /\ db.scanned < op.stop /\ UNCHANGED <<chain, faults, op>> /\ op.pc = "scan"
      /\ db' = [db EXCEPT !.scanned = height, !.active = active, !.events = events]
  BY DEF ScanHeight, scan_height
<1>2. height \in Nat /\ height <= chain.tip /\ active \subseteq Orders
  BY <1>1, ChainFields, DbFields DEF IInv, OpOK
<1>3. /\ DOMAIN events = DOMAIN db.events \cup found
      /\ \A e \in DOMAIN db.events : events[e] = db.events[e]
      /\ \A e \in DOMAIN events \ DOMAIN db.events : events[e] = None
  BY DEF with_events
<1>4. found \subseteq chain.fills
  OBVIOUS
<1>5. \A o \in Orders : o \notin active => o \notin db.active /\ chain.placed[o] # height
  OBVIOUS
<1>6. \A f \in chain.fills : f.height = height /\ f.order \in active => f \in found
  OBVIOUS
<1> HIDE DEF height, active, found, events
<1>7. /\ db'.scanned = height /\ db'.active = active /\ db'.events = events
      /\ db'.batches = db.batches
      /\ db' = [scanned |-> db'.scanned, active |-> db'.active,
                events |-> db'.events, batches |-> db'.batches]
  BY <1>1, DbFields
<1>8. DbOK'
  BY <1>1, <1>2, <1>3, <1>4, <1>7, ChainFields DEF IInv, DbOK
<1>9. height = db.scanned + 1
  BY DEF height
<1>10. IndexOK'
  <2> SUFFICES ASSUME NEW o \in chain.tracked, o \notin active
               PROVE  chain.placed[o] > height
    BY <1>1, <1>7 DEF IndexOK
  <2>1. o \in Orders /\ chain.placed[o] \in Nat
    BY ChainFields
  <2>2. chain.placed[o] > db.scanned /\ chain.placed[o] # height
    BY <1>5, <2>1 DEF IInv, IndexOK
  <2>3. QED
    BY <1>9, <2>1, <2>2, DbFields
<1>11. NoFillLost'
  <2> SUFFICES ASSUME NEW f \in chain.fills, f.height <= height, f \notin DOMAIN events
               PROVE  f.height <= chain.covered[f.order]
    BY <1>1, <1>7 DEF NoFillLost
  <2>1. f.order \in Orders /\ f.height \in Nat /\ f \notin DOMAIN db.events /\ f \notin found
    BY <1>3, ChainFields
  <2>2. CASE f.height <= db.scanned
    BY <2>1, <2>2 DEF IInv, NoFillLost
  <2>3. CASE f.height = height
    <3>1. f.order \notin active
      BY <1>6, <2>1, <2>3
    <3>2. chain.placed[f.order] \in 1..f.height
      BY DEF IInv, ChainOK
    <3>3. f.order \notin chain.tracked
      BY <1>1, <1>7, <1>10, <2>1, <2>3, <3>1, <3>2, ChainFields DEF IndexOK
    <3>4. QED
      BY <3>3 DEF IInv, ChainOK
  <2>4. QED
    BY <1>9, <2>1, <2>2, <2>3, DbFields
<1>12. OpOK' /\ StageOK'
  BY <1>1, <1>7 DEF IInv, OpOK, StageOK
<1>13. QED
  BY <1>1, <1>3, <1>7, <1>8, <1>10, <1>11, <1>12, IndexStep

-----------------------------------------------------------------------------
(* keep_once: a batch is resumed, or frozen of events no other batch has. *)

LEMMA ActiveIsLatest ==
  ASSUME IInv, NEW b \in DOMAIN db.batches
  PROVE  b \in ActiveBatches <=> db.batches[b].state # "confirmed"
<1>1. db.batches[b] \in Batch
  BY DbFields
<1>2. QED
  BY <1>1 DEF Batch, ActiveBatches, ACTIVE_BATCH_STATES

LEMMA ResumeKeeps ==
  ASSUME IInv, Resume
  PROVE  IInv'
<1>1. /\ ActiveBatches # {} /\ UNCHANGED <<chain, faults, db>>
      /\ op' = [Down EXCEPT !.pc = "process", !.batch = Min(ActiveBatches)]
  BY DEF Resume
<1>2. \A b \in ActiveBatches : b = Latest /\ last.state # "confirmed" /\ Latest \in DOMAIN db.batches
  <2> SUFFICES ASSUME NEW b \in ActiveBatches
               PROVE  b = Latest /\ last.state # "confirmed" /\ Latest \in DOMAIN db.batches
    OBVIOUS
  <2>1. b \in DOMAIN db.batches
    BY DEF ActiveBatches
  <2>2. QED
    BY <2>1, ActiveIsLatest DEF IInv, BatchOK, last
<1>3. ActiveBatches = {Latest} /\ last.state # "confirmed" /\ Latest > 0 /\ Latest \in Nat
  BY <1>1, <1>2, DbFields
<1>4. Min({Latest}) = Latest
  BY <1>3 DEF Min
<1>5. /\ op'.pc = "process" /\ op'.batch = Latest
      /\ op' = [pc |-> "process", batch |-> Latest, reply |-> "none", stop |-> 0]
  BY <1>1, <1>3, <1>4 DEF Down
<1>6. Latest' = Latest /\ last' = last
  BY <1>1 DEF Latest, last
<1>7. OpOK'
  <2>1. chain'.tip \in Nat /\ Len(db'.batches) = Latest
    BY <1>1, ChainFields DEF Latest
  <2>2. QED
    BY <1>3, <1>5, <2>1 DEF OpOK, Places
<1>8. StageOK'
  BY <1>3, <1>5, <1>6 DEF StageOK
<1>9. QED
  BY <1>1, <1>7, <1>8, OpStep

LEMMA FreezeKeeps ==
  ASSUME IInv, Freeze
  PROVE  IInv'
<1> DEFINE items == next_items
           new   == frozen_batch(items)
<1>1. /\ ActiveBatches = {} /\ UNCHANGED <<chain, faults>>
      /\ db' = [db EXCEPT !.batches = Append(db.batches, new)]
      /\ op' = [Down EXCEPT !.pc = "process", !.batch = Latest + 1]
  BY DEF Freeze, Latest
<1>2. \A b \in DOMAIN db.batches : db.batches[b].state = "confirmed"
  BY <1>1, ActiveIsLatest
<1>3. items \subseteq Orders
  BY DEF next_items, waiting_orders
<1> HIDE DEF items
<1>4. /\ new \in Batch /\ new.state = "ready" /\ new.items = items /\ new.failures = 0
      /\ new.attempt = "none" /\ new.backoff = FALSE
      /\ new.events = {e \in Unreconciled : e.order \in items}
  <2>1. {e \in Unreconciled : e.order \in items} \subseteq Fill
    BY ChainFields, DbFields DEF Unreconciled
  <2>2. QED
    BY <1>3, <2>1 DEF frozen_batch, Batch
<1> HIDE DEF new
<1>5. /\ db'.batches = Append(db.batches, new)
      /\ db'.scanned = db.scanned /\ db'.active = db.active /\ db'.events = db.events
      /\ db' = [scanned |-> db'.scanned, active |-> db'.active,
                events |-> db'.events, batches |-> db'.batches]
  BY <1>1, DbFields
<1>6. /\ db'.batches \in Seq(Batch) /\ Latest' = Latest + 1 /\ last' = new
      /\ DOMAIN db'.batches = 1..(Latest + 1)
      /\ \A b \in DOMAIN db.batches : db'.batches[b] = db.batches[b]
      /\ db'.batches[Latest + 1] = new
  BY <1>4, <1>5, DbFields DEF Latest, last
<1>7. /\ Latest \in Nat /\ DOMAIN db.batches = 1..Latest
      /\ \A b \in DOMAIN db'.batches : b \in DOMAIN db.batches \/ b = Latest + 1
  BY <1>6, DbFields
<1>8. new.events \subseteq DOMAIN db.events /\ \A e \in new.events : db.events[e] = None
  BY <1>4 DEF Unreconciled
<1>9. DbOK'
  BY <1>1, <1>4, <1>5, <1>6, <1>7, GridKeeperAssumption DEF IInv, DbOK
<1>10. OpOK'
  <2>1. op' = [pc |-> "process", batch |-> Latest + 1, reply |-> "none", stop |-> 0]
    BY <1>1 DEF Down
  <2>2. Latest + 1 \in Nat /\ Len(db'.batches) = Latest + 1 /\ chain'.tip \in Nat
    BY <1>1, <1>6, <1>7, ChainFields DEF Latest
  <2>3. QED
    BY <2>1, <2>2 DEF OpOK, Places
<1>11. BatchOK'
  <2> SUFFICES ASSUME NEW b \in DOMAIN db'.batches
               PROVE  /\ db'.batches[b].events \subseteq DOMAIN db.events
                      /\ \A e \in db'.batches[b].events : e.order \in db'.batches[b].items
                      /\ db'.batches[b].state # "intervention"
                            => db'.batches[b].failures < MAX_FAILURES
                      /\ db'.batches[b].state # "confirmed" => b = Latest + 1
                      /\ db'.batches[b].backoff => db'.batches[b].state = "ready"
                      /\ db'.batches[b].state = "confirmed" =>
                            \A e \in db'.batches[b].events : db.events[e] # None
    BY <1>5, <1>6 DEF BatchOK
  <2>1. CASE b \in DOMAIN db.batches
    BY <1>2, <1>6, <2>1 DEF IInv, BatchOK
  <2>2. CASE b = Latest + 1
    BY <1>4, <1>6, <1>8, <2>2, GridKeeperAssumption
  <2>3. QED
    BY <1>7, <2>1, <2>2
<1>12. \A i \in DOMAIN chain.txs : chain.txs[i].batch \in 1..Latest
  BY <1>7 DEF IInv, TxOK
<1>13. TxOK'
  BY <1>1, <1>6, <1>7, <1>12 DEF IInv, TxOK
<1>14. NothingOpen' /\ NotReconciled'
  <2>1. CASE Latest = 0
    BY <1>1, <1>12, <2>1 DEF NothingOpen, NotReconciled
  <2>2. CASE Latest > 0
    <3>1. NothingOpen
      BY <1>2, <2>2, DbFields DEF IInv, LatestOK, last
    <3>2. QED
      BY <1>1, <1>6, <1>7, <1>12, <3>1 DEF NothingOpen, NotReconciled
  <2>3. QED
    BY <1>7, <2>1, <2>2
<1>15. LatestOK'
  BY <1>4, <1>6, <1>14 DEF LatestOK
<1>16. StageOK'
  <2>1. op'.pc = "process" /\ op'.batch = Latest + 1
    BY <1>1 DEF Down
  <2>2. QED
    BY <1>4, <1>6, <1>7, <2>1 DEF StageOK
<1>17. FrozenOnce'
  <2>1. \A b \in DOMAIN db.batches : db.batches[b].events \cap new.events = {}
    BY <1>2, <1>8 DEF IInv, BatchOK
  <2>2. QED
    BY <1>6, <1>7, <2>1 DEF IInv, FrozenOnce
<1>18. ReconciledOnChain' /\ NoFillLost' /\ IndexOK' /\ ChainOK' /\ NeverSentTwice'
  BY <1>1, <1>5 DEF IInv, ReconciledOnChain, NoFillLost, IndexOK, ChainOK, NeverSentTwice
<1>19. QED
  BY <1>9, <1>10, <1>11, <1>13, <1>15, <1>16, <1>17, <1>18 DEF IInv

-----------------------------------------------------------------------------
(* process_batch. *)

\* The batch at hand is the latest and not confirmed.
LEMMA AtHand ==
  ASSUME IInv, op.pc \in {"process", "mark", "send", "answer", "refused", "poll"}
  PROVE  /\ Latest > 0 /\ op.batch = Latest /\ batch = last /\ last.state # "confirmed"
         /\ last \in Batch /\ Latest \in DOMAIN db.batches /\ Latest \in Nat
         /\ last.failures <= MAX_FAILURES /\ last.failures \in Nat
         /\ last.state # "intervention" => last.failures < MAX_FAILURES
         /\ last.backoff => last.state = "ready"
         /\ \A new : Update(new) <=> db' = [db EXCEPT !.batches[Latest] = new]
<1>1. Latest > 0 /\ op.batch = Latest /\ last.state # "confirmed"
  BY DEF IInv, StageOK
<1>2. last \in Batch /\ Latest \in DOMAIN db.batches /\ Latest \in Nat
  BY <1>1, DbFields
<1>3. last.failures \in Nat
  BY <1>2 DEF Batch
<1>4. /\ last.state # "intervention" => last.failures < MAX_FAILURES
      /\ last.backoff => last.state = "ready"
      /\ last.failures <= MAX_FAILURES
  BY <1>2, DbFields DEF IInv, BatchOK, last
<1>5. batch = last /\ \A new : Update(new) <=> db' = [db EXCEPT !.batches[Latest] = new]
  BY <1>1 DEF batch, last, Update
<1>6. QED
  BY <1>1, <1>2, <1>3, <1>4, <1>5

\* A batch that may be signed is ready or signed, and nothing of it is open.
LEMMA MayBeSigned ==
  ASSUME IInv, op.pc = "process", due, ~polled
  PROVE  last.state \in {"ready", "signed"} /\ ~last.backoff /\ NothingOpen /\ NotReconciled
<1>1. /\ batch = last /\ Latest > 0 /\ last.state # "confirmed" /\ last \in Batch
      /\ last.backoff => last.state = "ready"
  BY AtHand
<1>2. last.state \in {"ready", "signed", "broadcast", "timeout"} /\ ~backing_off
  BY <1>1 DEF due, Batch
<1>3. last.state \notin {"broadcast", "timeout"}
  <2> SUFFICES ASSUME last.state \in {"broadcast", "timeout"}
               PROVE  FALSE
    OBVIOUS
  <2>1. last.attempt \in {"broadcast", "timeout"} /\ last.tx = Len(chain.txs) /\ Sent
    BY <1>1 DEF IInv, LatestOK
  <2>2. last.tx # 0
    BY <2>1, ChainFields DEF Sent
  <2>3. QED
    BY <1>1, <2>1, <2>2 DEF polled
<1>4. last.backoff \in BOOLEAN
  BY <1>1 DEF Batch
<1>5. QED
  BY <1>1, <1>2, <1>3, <1>4 DEF IInv, LatestOK, backing_off

\* What the chain says of a batch is not changed by the database.
LEMMA SameChain ==
  ASSUME UNCHANGED chain, Latest' = Latest
  PROVE  /\ NothingOpen' <=> NothingOpen
         /\ NotReconciled' <=> NotReconciled
         /\ last'.items = last.items => (Sent' <=> Sent)
BY DEF NothingOpen, NotReconciled, Sent

LEMMA PollAgainKeeps ==
  ASSUME IInv, PollAgain
  PROVE  IInv'
<1>1. /\ op.pc = "process" /\ due /\ polled /\ Goto("poll") /\ UNCHANGED <<chain, faults, db>>
  BY DEF PollAgain
<1>2. OpOK' /\ op'.pc = "poll" /\ op'.batch = op.batch
  BY <1>1, OpMoves DEF Places
<1>3. batch = last /\ Latest > 0 /\ op.batch = Latest /\ last \in Batch /\ last.state # "confirmed"
  BY <1>1, AtHand
<1>4. last.state \in {"ready", "signed", "broadcast", "timeout"}
  BY <1>1, <1>3 DEF due, Batch
<1>5. last.state \in {"broadcast", "timeout"}
  BY <1>1, <1>3, <1>4 DEF IInv, LatestOK, polled
<1>6. Latest' = Latest /\ last' = last
  BY <1>1 DEF Latest, last
<1>7. StageOK'
  BY <1>2, <1>3, <1>5, <1>6 DEF StageOK
<1>8. QED
  BY <1>1, <1>2, <1>7, OpStep

LEMMA SignKeeps ==
  ASSUME IInv, Sign
  PROVE  IInv'
<1> DEFINE new == signed(last)
<1>1. op.pc = "process" /\ due /\ ~polled /\ Goto("mark") /\ UNCHANGED <<chain, faults>>
      /\ Update(signed(batch))
  BY DEF Sign
<1>2. /\ Latest > 0 /\ op.batch = Latest /\ batch = last /\ last.state # "confirmed"
      /\ last \in Batch /\ last.failures <= MAX_FAILURES
      /\ last.state # "intervention" => last.failures < MAX_FAILURES
      /\ db' = [db EXCEPT !.batches[Latest] = new]
  BY <1>1, AtHand
<1>3. last.state \in {"ready", "signed"} /\ ~last.backoff /\ NothingOpen /\ NotReconciled
  BY <1>1, MayBeSigned
<1>4. /\ new \in Batch /\ new.items = last.items /\ new.events = last.events
      /\ new.state = "signed" /\ new.attempt = "signed" /\ new.failures = last.failures
      /\ new.backoff = last.backoff
  BY <1>2 DEF signed, Batch
<1> HIDE DEF new
<1>5. Latest' = Latest
  BY <1>2, DbFields DEF Latest
<1>6. OpOK' /\ op'.pc = "mark" /\ op'.batch = op.batch
  BY <1>1, <1>5, OpMoves DEF Places
<1>7. NothingOpen' /\ NotReconciled'
  BY <1>1, <1>3, <1>5, SameChain
<1>8. last' = new => LatestOK' /\ StageOK'
  BY <1>2, <1>4, <1>5, <1>6, <1>7 DEF LatestOK, StageOK
<1>9. QED
  BY <1>1, <1>2, <1>3, <1>4, <1>6, <1>8, UpdateStep

LEMMA SignFailsKeeps ==
  ASSUME IInv, SignFails
  PROVE  IInv'
<1> DEFINE new == sign_failed(last)
<1>1. op.pc = "process" /\ due /\ ~polled /\ NextRound /\ UNCHANGED chain
      /\ (Fault \/ UNCHANGED faults) /\ Update(sign_failed(batch))
  BY DEF SignFails, FaultIf
<1>2. /\ Latest > 0 /\ op.batch = Latest /\ batch = last /\ last.state # "confirmed"
      /\ last \in Batch /\ last.failures <= MAX_FAILURES /\ Latest \in Nat
      /\ last.state # "intervention" => last.failures < MAX_FAILURES
      /\ db' = [db EXCEPT !.batches[Latest] = new]
  BY <1>1, AtHand
<1>3. last.state \in {"ready", "signed"} /\ ~last.backoff /\ NothingOpen /\ NotReconciled
  BY <1>1, MayBeSigned
<1>4. /\ new \in Batch /\ new.items = last.items /\ new.events = last.events
      /\ new.state = last.state /\ new.attempt = last.attempt /\ new.failures = last.failures
      /\ new.backoff = last.backoff
  BY <1>2 DEF sign_failed, Batch
<1> HIDE DEF new
<1>5. Latest' = Latest
  BY <1>2, DbFields DEF Latest
<1>6. OpOK' /\ StageOK'
  BY <1>1, <1>2, <1>5, RoundBegins
<1>7. NothingOpen' /\ NotReconciled'
  BY <1>1, <1>3, <1>5, SameChain
<1>8. last' = new => LatestOK'
  BY <1>2, <1>3, <1>4, <1>5, <1>7 DEF IInv, LatestOK
<1>9. QED
  BY <1>1, <1>2, <1>3, <1>4, <1>6, <1>8, UpdateStep

LEMMA MarkKeeps ==
  ASSUME IInv, Mark
  PROVE  IInv'
<1> DEFINE new == marked(last)
<1>1. op.pc = "mark" /\ Goto("send") /\ UNCHANGED <<chain, faults>> /\ Update(marked(batch))
  BY DEF Mark
<1>2. /\ Latest > 0 /\ op.batch = Latest /\ batch = last /\ last.state # "confirmed"
      /\ last \in Batch /\ last.failures <= MAX_FAILURES
      /\ last.state # "intervention" => last.failures < MAX_FAILURES
      /\ last.backoff => last.state = "ready"
      /\ db' = [db EXCEPT !.batches[Latest] = new]
  BY <1>1, AtHand
<1>3. last.state = "signed" /\ NothingOpen /\ NotReconciled
  BY <1>1, <1>2 DEF IInv, LatestOK, StageOK
<1>4. /\ new \in Batch /\ new.items = last.items /\ new.events = last.events
      /\ new.state = "broadcasting" /\ new.failures = last.failures
      /\ new.backoff = last.backoff
  BY <1>2 DEF marked, Batch
<1> HIDE DEF new
<1>5. Latest' = Latest
  BY <1>2, DbFields DEF Latest
<1>6. OpOK' /\ op'.pc = "send" /\ op'.batch = op.batch
  BY <1>1, <1>5, OpMoves DEF Places
<1>7. NothingOpen' /\ NotReconciled'
  BY <1>1, <1>3, <1>5, SameChain
<1>8. last' = new => LatestOK' /\ StageOK'
  BY <1>2, <1>4, <1>5, <1>6, <1>7 DEF LatestOK, StageOK
<1>9. ~new.backoff
  BY <1>2, <1>3, <1>4
<1>10. QED
  BY <1>1, <1>2, <1>3, <1>4, <1>6, <1>8, <1>9, UpdateStep

\* Whatever the node does with the call, nothing was open when it was made.
LEMMA SendKeeps ==
  ASSUME IInv, Send
  PROVE  IInv'
<1> DEFINE tx == [batch |-> Latest, orders |-> last.items, height |-> 0, status |-> "pending"]
<1>1. op.pc = "send" /\ UNCHANGED db /\ (Fault \/ UNCHANGED faults)
  BY DEF Send, FaultIf
<1>2. /\ Latest > 0 /\ op.batch = Latest /\ batch = last /\ last.state # "confirmed"
      /\ last \in Batch /\ Latest \in DOMAIN db.batches /\ Latest \in Nat
  BY <1>1, AtHand
<1>3. last.state = "broadcasting" /\ NothingOpen /\ NotReconciled
  BY <1>1 DEF IInv, StageOK
<1>4. Latest' = Latest /\ last' = last
  BY <1>1 DEF Latest, last
<1>5. ASSUME NEW reply \in {"ok", "refused", "lost"},
             op' = [op EXCEPT !.pc = "answer", !.reply = reply], chain'.tip = chain.tip
      PROVE  OpOK' /\ op'.pc = "answer" /\ op'.batch = Latest /\ op'.reply = reply
  BY <1>1, <1>2, <1>5 DEF IInv, OpOK, Places
<1>6. ASSUME UNCHANGED chain, NEW reply \in {"refused", "lost"},
             op' = [op EXCEPT !.pc = "answer", !.reply = reply]
      PROVE  IInv'
  <2>1. NothingOpen' /\ NotReconciled'
    BY <1>3, <1>4, <1>6, SameChain
  <2>2. OpOK' /\ op'.pc = "answer" /\ op'.batch = Latest /\ op'.reply = reply
    BY <1>5, <1>6
  <2>3. StageOK'
    BY <1>2, <1>3, <1>4, <1>6, <2>1, <2>2 DEF StageOK
  <2>4. QED
    BY <1>1, <1>6, <2>2, <2>3, OpStep
<1>7. ASSUME chain' = [chain EXCEPT !.txs = Append(chain.txs, tx)], NEW reply \in {"ok", "lost"},
             op' = [op EXCEPT !.pc = "answer", !.reply = reply]
      PROVE  IInv'
  <2>1. tx \in Tx /\ tx.batch = Latest /\ tx.orders = last.items /\ tx.status = "pending"
    BY <1>2 DEF Tx, Batch
  <2> HIDE DEF tx
  <2> DEFINE txs == Append(chain.txs, tx)
  <2>a. txs \in Seq(Tx) /\ chain \in ChainType
    BY <2>1, ChainFields DEF ChainType
  <2>b. chain' = [chain EXCEPT !.txs = txs]
    BY <1>7
  <2>c. txs = Append(chain.txs, tx)
    OBVIOUS
  <2> HIDE DEF txs
  <2>d. /\ chain'.txs = txs /\ chain' \in ChainType
        /\ chain'.tip = chain.tip /\ chain'.placed = chain.placed
        /\ chain'.tracked = chain.tracked /\ chain'.seen = chain.seen
        /\ chain'.left = chain.left /\ chain'.covered = chain.covered
        /\ chain'.fills = chain.fills
    BY <2>a, <2>b DEF ChainType
  <2>2. /\ chain'.txs = Append(chain.txs, tx) /\ chain' \in ChainType
        /\ chain'.tip = chain.tip /\ chain'.placed = chain.placed
        /\ chain'.tracked = chain.tracked /\ chain'.seen = chain.seen
        /\ chain'.left = chain.left /\ chain'.covered = chain.covered
        /\ chain'.fills = chain.fills
    BY <2>c, <2>d
  <2>3. /\ Len(chain'.txs) = Len(chain.txs) + 1 /\ Len(chain.txs) \in Nat
        /\ DOMAIN chain.txs = 1..Len(chain.txs)
        /\ DOMAIN chain'.txs = 1..(Len(chain.txs) + 1)
        /\ \A i \in DOMAIN chain.txs : chain'.txs[i] = chain.txs[i]
        /\ chain'.txs[Len(chain.txs) + 1] = tx
    BY <2>1, <2>2, ChainFields
  <2>4. \A i \in DOMAIN chain'.txs :
          \/ i \in DOMAIN chain.txs /\ chain'.txs[i] = chain.txs[i]
          \/ i = Len(chain.txs) + 1 /\ chain'.txs[i] = tx
    BY <2>3
  <2>5. DbOK'
    BY <1>1, <2>2, FaultsBounded DEF IInv, DbOK
  <2>6. ChainOK' /\ IndexOK' /\ NoFillLost'
    BY <1>1, <2>2 DEF IInv, ChainOK, IndexOK, NoFillLost
  <2>7. BatchOK' /\ FrozenOnce'
    BY <1>1, <1>4 DEF IInv, BatchOK, FrozenOnce
  <2>8. TxOK'
    BY <1>1, <1>2, <2>1, <2>4 DEF IInv, TxOK
  <2>9. NeverSentTwice'
    <3> SUFFICES ASSUME NEW i \in DOMAIN chain'.txs, NEW j \in DOMAIN chain'.txs, i < j
                 PROVE  /\ chain'.txs[i].status # "pending"
                        /\ chain'.txs[i].batch = chain'.txs[j].batch => chain'.txs[i].status # "ok"
      BY DEF NeverSentTwice
    <3>1. i \in DOMAIN chain.txs /\ chain'.txs[i] = chain.txs[i]
      BY <2>3
    <3>2. CASE j \in DOMAIN chain.txs
      BY <2>3, <3>1, <3>2 DEF IInv, NeverSentTwice
    <3>3. CASE j = Len(chain.txs) + 1
      BY <1>3, <2>1, <2>3, <3>1, <3>3 DEF NothingOpen, NotReconciled
    <3>4. QED
      BY <2>4, <3>2, <3>3
  <2>10. ReconciledOnChain'
    BY <1>1, <2>2, <2>3 DEF IInv, ReconciledOnChain
  <2>11. LatestOK'
    BY <1>3, <1>4 DEF LatestOK
  <2>12. Sent'
    BY <1>4, <2>1, <2>3 DEF Sent
  <2>13. OpOK' /\ op'.pc = "answer" /\ op'.batch = Latest /\ op'.reply = reply
    BY <1>5, <1>7, <2>2
  <2>14. StageOK'
    BY <1>2, <1>3, <1>4, <1>7, <2>12, <2>13 DEF StageOK
  <2>15. QED
    BY <2>5, <2>6, <2>7, <2>8, <2>9, <2>10, <2>11, <2>13, <2>14 DEF IInv
<1>8. \/ /\ chain' = [chain EXCEPT !.txs = Append(chain.txs, tx)]
         /\ \E reply \in {"ok", "lost"} : op' = [op EXCEPT !.pc = "answer", !.reply = reply]
      \/ /\ UNCHANGED chain
         /\ \E reply \in {"refused", "lost"} : op' = [op EXCEPT !.pc = "answer", !.reply = reply]
  BY <1>2 DEF Send
<1>9. QED
  BY <1>6, <1>7, <1>8

LEMMA AnswerOkKeeps ==
  ASSUME IInv, AnswerOk
  PROVE  IInv'
<1> DEFINE new == answered(last, Len(chain.txs))
<1>1. /\ op.pc = "answer" /\ op.reply = "ok" /\ Goto("poll") /\ UNCHANGED <<chain, faults>>
      /\ Update(answered(batch, Len(chain.txs)))
  BY DEF AnswerOk
<1>2. /\ Latest > 0 /\ op.batch = Latest /\ batch = last /\ last.state # "confirmed"
      /\ last \in Batch /\ last.failures <= MAX_FAILURES
      /\ last.state # "intervention" => last.failures < MAX_FAILURES
      /\ last.backoff => last.state = "ready"
      /\ db' = [db EXCEPT !.batches[Latest] = new]
  BY <1>1, AtHand
<1>3. last.state = "broadcasting" /\ Sent
  BY <1>1 DEF IInv, StageOK
<1>4. /\ new \in Batch /\ new.items = last.items /\ new.events = last.events
      /\ new.state = "broadcast" /\ new.attempt = "broadcast" /\ new.tx = Len(chain.txs)
      /\ new.failures = last.failures /\ new.backoff = last.backoff
  <2>1. Len(chain.txs) \in Nat
    BY ChainFields
  <2>2. QED
    BY <1>2, <1>3, <2>1 DEF answered, Batch
<1> HIDE DEF new
<1>5. Latest' = Latest
  BY <1>2, DbFields DEF Latest
<1>6. OpOK' /\ op'.pc = "poll" /\ op'.batch = op.batch
  BY <1>1, <1>5, OpMoves DEF Places
<1>7. last' = new => Sent'
  BY <1>1, <1>3, <1>4, <1>5, SameChain
<1>8. last' = new => LatestOK' /\ StageOK'
  BY <1>1, <1>2, <1>4, <1>5, <1>6, <1>7 DEF LatestOK, StageOK
<1>9. QED
  BY <1>1, <1>2, <1>3, <1>4, <1>6, <1>8, UpdateStep

\* A broadcast nobody knows the outcome of, after a lost answer or a restart.
LEMMA UnknownKeeps ==
  ASSUME IInv, AnswerLost \/ FindRestarted
  PROVE  IInv'
<1> DEFINE new == answer_lost(last)
<1>1. /\ op.pc \in {"answer", "process"} /\ NextRound /\ UNCHANGED <<chain, faults>>
      /\ Update(answer_lost(batch))
  BY DEF AnswerLost, FindRestarted, restarted, answer_lost
<1>2. /\ Latest > 0 /\ op.batch = Latest /\ batch = last /\ last.state # "confirmed"
      /\ last \in Batch /\ last.failures <= MAX_FAILURES /\ Latest \in Nat
      /\ last.state # "intervention" => last.failures < MAX_FAILURES
      /\ last.backoff => last.state = "ready"
      /\ db' = [db EXCEPT !.batches[Latest] = new]
  BY <1>1, AtHand
<1>3. last.state = "broadcasting"
  BY <1>2 DEF AnswerLost, FindRestarted, IInv, StageOK
<1>4. /\ new \in Batch /\ new.items = last.items /\ new.events = last.events
      /\ new.state = "unknown" /\ new.failures = last.failures /\ new.backoff = last.backoff
  BY <1>2 DEF answer_lost, Batch
<1> HIDE DEF new
<1>5. Latest' = Latest
  BY <1>2, DbFields DEF Latest
<1>6. OpOK' /\ StageOK'
  BY <1>1, <1>2, <1>5, RoundBegins
<1>7. last' = new => LatestOK'
  BY <1>4 DEF LatestOK
<1>8. QED
  BY <1>1, <1>2, <1>3, <1>4, <1>6, <1>7, UpdateStep

LEMMA AnswerRefusedKeeps ==
  ASSUME IInv, AnswerRefused
  PROVE  IInv'
<1>1. /\ op.pc = "answer" /\ op.reply = "refused" /\ Goto("refused")
      /\ UNCHANGED <<chain, faults, db>>
  BY DEF AnswerRefused
<1>2. OpOK' /\ op'.pc = "refused" /\ op'.batch = op.batch
  BY <1>1, OpMoves DEF Places
<1>3. StageOK'
  BY <1>1, <1>2 DEF IInv, StageOK, Latest, last, NothingOpen, NotReconciled
<1>4. QED
  BY <1>1, <1>2, <1>3, OpStep

\* A failure is recorded when nothing of the batch is open or done.
LEMMA FailureKeeps ==
  ASSUME IInv, UNCHANGED <<chain, faults>>, NextRound,
         op.pc \in {"refused", "poll"}, last.state \in {"broadcasting", "broadcast", "timeout"},
         NEW reason \in {"check_failed", "deliver_failed", "page_reverted"},
         Update(record_failure(batch, reason)), NothingOpen, NotReconciled
  PROVE  IInv'
<1> DEFINE new == record_failure(last, reason)
<1>1. /\ Latest > 0 /\ op.batch = Latest /\ batch = last /\ last.state # "confirmed"
      /\ last \in Batch /\ last.failures \in Nat /\ Latest \in Nat
      /\ last.state # "intervention" => last.failures < MAX_FAILURES
      /\ db' = [db EXCEPT !.batches[Latest] = new]
  BY AtHand
<1>2. /\ new \in Batch /\ new.items = last.items /\ new.events = last.events
      /\ new.state \in {"ready", "intervention"} /\ new.attempt = reason
      /\ new.failures <= MAX_FAILURES
      /\ new.state # "intervention" => new.failures < MAX_FAILURES
      /\ new.backoff => new.state = "ready"
  <2> DEFINE failures == last.failures + 1
             given_up == failures >= MAX_FAILURES
  <2>1. failures \in Nat /\ failures <= MAX_FAILURES /\ given_up \in BOOLEAN
    BY <1>1, GridKeeperAssumption
  <2>2. new = [last EXCEPT !.state = IF given_up THEN "intervention" ELSE "ready",
                           !.attempt = reason, !.error = reason, !.failures = failures,
                           !.backoff = ~given_up]
    BY DEF record_failure
  <2>3. ~given_up => failures < MAX_FAILURES
    BY <2>1, GridKeeperAssumption
  <2> HIDE DEF new, failures, given_up
  <2>4. CASE given_up
    BY <1>1, <2>1, <2>2, <2>4 DEF Batch
  <2>5. CASE ~given_up
    BY <1>1, <2>1, <2>2, <2>3, <2>5 DEF Batch
  <2>6. QED
    BY <2>4, <2>5
<1> HIDE DEF new
<1>3. Latest' = Latest
  BY <1>1, DbFields DEF Latest
<1>4. OpOK' /\ StageOK'
  BY <1>1, <1>3, RoundBegins
<1>5. NothingOpen' /\ NotReconciled'
  BY <1>3, SameChain
<1>6. last' = new => LatestOK'
  BY <1>2, <1>5 DEF LatestOK
<1>7. QED
  BY <1>1, <1>2, <1>4, <1>6, UpdateStep


LEMMA RecordRefusedKeeps ==
  ASSUME IInv, RecordRefused
  PROVE  IInv'
<1>1. /\ op.pc = "refused" /\ NextRound /\ UNCHANGED <<chain, faults>>
      /\ Update(record_failure(batch, "check_failed"))
  BY DEF RecordRefused
<1>2. last.state = "broadcasting" /\ NothingOpen /\ NotReconciled
  BY <1>1 DEF IInv, StageOK
<1>3. QED
  BY <1>1, <1>2, FailureKeeps

\* The transaction that is polled is the last one, and of the latest batch.
LEMMA Polled ==
  ASSUME IInv, op.pc = "poll"
  PROVE  /\ last.state \in {"broadcast", "timeout"} /\ batch = last
         /\ last.tx = Len(chain.txs) /\ Sent /\ last.tx \in DOMAIN chain.txs
         /\ chain.txs[last.tx].status # "pending" => NothingOpen
         /\ chain.txs[last.tx].status \notin {"pending", "ok"} => NotReconciled
<1>1. last.state \in {"broadcast", "timeout"} /\ batch = last /\ Latest > 0
  BY AtHand DEF IInv, StageOK
<1>2. last.tx = Len(chain.txs) /\ Sent
  BY <1>1 DEF IInv, LatestOK
<1>3. /\ Len(chain.txs) \in Nat /\ DOMAIN chain.txs = 1..Len(chain.txs)
      /\ Len(chain.txs) > 0 /\ chain.txs[Len(chain.txs)].batch = Latest
  BY <1>2, ChainFields DEF Sent
<1>4. \A i \in DOMAIN chain.txs : i # Len(chain.txs) =>
        /\ chain.txs[i].status # "pending"
        /\ chain.txs[i].batch = Latest => chain.txs[i].status # "ok"
  BY <1>3 DEF IInv, NeverSentTwice
<1>5. QED
  BY <1>1, <1>2, <1>3, <1>4 DEF NothingOpen, NotReconciled

LEMMA PollFailsKeeps ==
  ASSUME IInv, PollFails
  PROVE  IInv'
<1>1. op.pc = "poll" /\ NextRound /\ UNCHANGED <<chain, faults>>
  BY DEF PollFails
<1>2. batch = last /\ last.state \in {"broadcast", "timeout"}
  BY <1>1, Polled
<1>3. /\ chain.txs[last.tx].status \in {"reverted", "failed"}
      /\ \/ Update(record_failure(batch, "page_reverted"))
         \/ Update(record_failure(batch, "deliver_failed"))
  BY <1>2 DEF PollFails
<1>4. NothingOpen /\ NotReconciled
  BY <1>1, <1>3, Polled
<1>5. QED
  BY <1>1, <1>2, <1>3, <1>4, FailureKeeps

LEMMA PollTimesOutKeeps ==
  ASSUME IInv, PollTimesOut
  PROVE  IInv'
<1> DEFINE new == timed_out(last)
<1>1. op.pc = "poll" /\ NextRound /\ UNCHANGED <<chain, faults>> /\ Update(timed_out(batch))
  BY DEF PollTimesOut
<1>2. /\ Latest > 0 /\ op.batch = Latest /\ batch = last /\ last.state # "confirmed"
      /\ last \in Batch /\ last.failures <= MAX_FAILURES /\ Latest \in Nat
      /\ last.state # "intervention" => last.failures < MAX_FAILURES
      /\ last.backoff => last.state = "ready"
      /\ db' = [db EXCEPT !.batches[Latest] = new]
  BY <1>1, AtHand
<1>3. last.state \in {"broadcast", "timeout"} /\ last.tx = Len(chain.txs) /\ Sent
  BY <1>1, Polled
<1>4. /\ new \in Batch /\ new.items = last.items /\ new.events = last.events
      /\ new.state = "timeout" /\ new.attempt = "timeout" /\ new.tx = last.tx
      /\ new.failures = last.failures /\ new.backoff = last.backoff
  BY <1>2 DEF timed_out, Batch
<1> HIDE DEF new
<1>5. Latest' = Latest
  BY <1>2, DbFields DEF Latest
<1>6. OpOK' /\ StageOK'
  BY <1>1, <1>2, <1>5, RoundBegins
<1>7. last' = new => Sent'
  BY <1>1, <1>3, <1>4, <1>5, SameChain
<1>8. last' = new => LatestOK'
  BY <1>1, <1>3, <1>4, <1>7 DEF LatestOK
<1>9. QED
  BY <1>1, <1>2, <1>3, <1>4, <1>6, <1>8, UpdateStep

\* Everything the batch was frozen for is taken off the queue, and nothing
\* the transaction did not reconcile.
LEMMA PollConfirmsKeeps ==
  ASSUME IInv, PollConfirms
  PROVE  IInv'
<1> DEFINE tx  == chain.txs[Len(chain.txs)]
           new == [last EXCEPT !.state = "confirmed", !.attempt = "confirmed", !.error = "none"]
<1>1. /\ op.pc = "poll" /\ observed(batch.tx) /\ chain.txs[batch.tx].status = "ok"
      /\ db' = confirmed(op.batch) /\ Goto("refresh") /\ UNCHANGED <<chain, faults>>
  BY DEF PollConfirms
<1>2. /\ Latest > 0 /\ op.batch = Latest /\ batch = last /\ last.state # "confirmed"
      /\ last \in Batch /\ last.failures < MAX_FAILURES /\ ~last.backoff
      /\ Latest \in DOMAIN db.batches /\ Latest \in Nat /\ Latest # None
      /\ last.tx = Len(chain.txs) /\ Sent /\ NothingOpen
  <2>1. Latest \in Nat /\ last.state \in {"broadcast", "timeout"} /\ batch = last
    BY <1>1, AtHand, Polled
  <2>2. QED
    BY <1>1, <2>1, AtHand, Polled, GridChainAssumption
<1>3. /\ tx.batch = Latest /\ tx.orders = last.items /\ tx.status = "ok"
      /\ tx.height + Depth <= chain.tip /\ tx.height \in Nat
      /\ tx \in {chain.txs[i] : i \in DOMAIN chain.txs} /\ Len(chain.txs) \in DOMAIN chain.txs
  <2>1. Len(chain.txs) \in DOMAIN chain.txs /\ tx \in Tx
    BY <1>1, <1>2, ChainFields DEF Sent
  <2>2. tx.height \in Nat /\ tx.status = "ok" /\ chain.tip >= tx.height + Depth
    BY <1>1, <1>2, <2>1 DEF observed, Tx
  <2>3. QED
    BY <1>2, <2>1, <2>2, ChainFields, GridChainAssumption DEF Sent
<1> HIDE DEF tx
<1>4. /\ db' = [db EXCEPT
                  !.events = [e \in DOMAIN db.events |->
                      IF db.events[e] = None /\ covered_by(e, last.items, tx.height)
                      THEN Latest ELSE db.events[e]],
                  !.batches[Latest] = new]
  BY <1>1, <1>2 DEF confirmed, last, tx
<1>5. /\ new \in Batch /\ new.items = last.items /\ new.events = last.events
      /\ new.state = "confirmed" /\ new.failures = last.failures /\ new.backoff = last.backoff
  BY <1>2 DEF Batch
<1> HIDE DEF new
<1>6. /\ db'.scanned = db.scanned /\ db'.active = db.active
      /\ DOMAIN db'.events = DOMAIN db.events
      /\ \A e \in DOMAIN db.events :
           db'.events[e] = IF db.events[e] = None /\ covered_by(e, last.items, tx.height)
                           THEN Latest ELSE db.events[e]
      /\ db'.batches = [db.batches EXCEPT ![Latest] = new]
      /\ db' = [scanned |-> db'.scanned, active |-> db'.active,
                events |-> db'.events, batches |-> db'.batches]
  BY <1>4, DbFields
<1>7. /\ db'.batches \in Seq(Batch) /\ Len(db'.batches) = Latest
      /\ DOMAIN db'.batches = DOMAIN db.batches
      /\ \A b \in DOMAIN db.batches :
           db'.batches[b] = IF b = Latest THEN new ELSE db.batches[b]
  <2>1. new \in Batch /\ Latest > 0 /\ db'.batches = [db.batches EXCEPT ![Latest] = new]
    BY <1>2, <1>5, <1>6
  <2>2. QED
    BY <2>1, DbFields
<1>8. Latest' = Latest /\ last' = new
  BY <1>2, <1>7 DEF Latest, last
<1>9. \A b \in DOMAIN db.batches : /\ db'.batches[b].items = db.batches[b].items
                                   /\ db'.batches[b].events = db.batches[b].events
  BY <1>5, <1>7 DEF last
<1>10. \A e \in DOMAIN db.events :
         /\ db.events[e] # None => db'.events[e] = db.events[e]
         /\ covered_by(e, last.items, tx.height) => db'.events[e] # None
         /\ db'.events[e] # None => \/ db'.events[e] = db.events[e]
                                    \/ /\ db'.events[e] = Latest
                                       /\ covered_by(e, last.items, tx.height)
  BY <1>2, <1>6
<1>11. DbOK'
  <2>1. \A e \in DOMAIN db'.events : db'.events[e] \in {None} \cup DOMAIN db'.batches
    BY <1>2, <1>6, <1>7 DEF IInv, DbOK
  <2>2. \A b \in DOMAIN db'.batches : db'.batches[b].failures <= MAX_FAILURES
    BY <1>2, <1>5, <1>7 DEF IInv, DbOK, last
  <2>3. QED
    BY <1>1, <1>6, <1>7, <2>1, <2>2 DEF IInv, DbOK
<1>12. BatchOK'
  <2>1. \A e \in last.events : e \in DOMAIN db.events /\ covered_by(e, last.items, tx.height)
    BY <1>2, <1>3 DEF IInv, BatchOK, TxOK, covered_by, last, tx
  <2>2. \A e \in new.events : db'.events[e] # None
    BY <1>5, <1>10, <2>1
  <2> SUFFICES ASSUME NEW b \in DOMAIN db.batches
               PROVE
       /\ db'.batches[b].events \subseteq DOMAIN db'.events
       /\ \A e \in db'.batches[b].events : e.order \in db'.batches[b].items
       /\ db'.batches[b].state # "intervention" => db'.batches[b].failures < MAX_FAILURES
       /\ db'.batches[b].state # "confirmed" => b = Latest'
       /\ db'.batches[b].backoff => db'.batches[b].state = "ready"
       /\ db'.batches[b].state = "confirmed" =>
             \A e \in db'.batches[b].events : db'.events[e] # None
    BY <1>7 DEF BatchOK
  <2>3. /\ db'.batches[b].events \subseteq DOMAIN db'.events
        /\ \A e \in db'.batches[b].events : e.order \in db'.batches[b].items
    BY <1>6, <1>9 DEF IInv, BatchOK
  <2>4. CASE b = Latest
    BY <1>2, <1>5, <1>7, <2>2, <2>3, <2>4
  <2>5. CASE b # Latest
    <3>1. db'.batches[b] = db.batches[b]
      BY <1>7, <2>5
    <3>2. \A e \in db.batches[b].events : e \in DOMAIN db.events /\ db.events[e] # None
      BY <2>5 DEF IInv, BatchOK
    <3>3. \A e \in db.batches[b].events : db'.events[e] # None
      BY <1>10, <3>2
    <3>4. QED
      BY <2>3, <2>5, <3>1, <3>3 DEF IInv, BatchOK
  <2>6. QED
    BY <2>4, <2>5
<1>13. TxOK' /\ FrozenOnce'
  <2>1. DOMAIN db'.batches = DOMAIN db.batches /\ UNCHANGED chain
    BY <1>1, <1>7
  <2>2. TxOK'
    BY <1>9, <2>1 DEF IInv, TxOK
  <2>3. FrozenOnce'
    BY <1>9, <2>1 DEF IInv, FrozenOnce
  <2>4. QED
    BY <2>2, <2>3
<1>14. ReconciledOnChain'
  <2> SUFFICES ASSUME NEW e \in DOMAIN db.events, db'.events[e] # None
               PROVE  \E t \in {chain.txs[i] : i \in DOMAIN chain.txs} :
                        /\ t.batch = db'.events[e] /\ t.status = "ok" /\ e.order \in t.orders
                        /\ e.height <= t.height /\ t.height + Depth <= chain.tip
    BY <1>1, <1>6 DEF ReconciledOnChain
  <2>1. CASE db'.events[e] = db.events[e]
    BY <2>1 DEF IInv, ReconciledOnChain
  <2>2. CASE db'.events[e] = Latest /\ covered_by(e, last.items, tx.height)
    BY <1>3, <2>2 DEF covered_by
  <2>3. QED
    BY <1>10, <2>1, <2>2
<1>15. NoFillLost' /\ IndexOK' /\ ChainOK' /\ NeverSentTwice'
  BY <1>1, <1>6 DEF IInv, NoFillLost, IndexOK, ChainOK, NeverSentTwice
<1>16. LatestOK'
  BY <1>1, <1>2, <1>5, <1>8, SameChain DEF LatestOK
<1>17. OpOK' /\ op'.pc = "refresh"
  BY <1>1, <1>8, OpMoves DEF Places
<1>18. QED
  BY <1>11, <1>12, <1>13, <1>14, <1>15, <1>16, <1>17, StageFree DEF IInv

LEMMA ClearInterventionKeeps ==
  ASSUME IInv, ClearIntervention
  PROVE  IInv'
<1> DEFINE new == intervention_cleared(last)
<1>1. PICK b \in DOMAIN db.batches :
        /\ db.batches[b].state = "intervention"
        /\ db' = [db EXCEPT !.batches[b] = intervention_cleared(db.batches[b])]
  BY DEF ClearIntervention
<1>2. op' = Down /\ UNCHANGED <<chain, faults>>
  BY DEF ClearIntervention
<1>3. b = Latest /\ last.state = "intervention" /\ Latest > 0 /\ Latest \in Nat
  BY <1>1, DbFields DEF IInv, BatchOK, last
<1>4. last \in Batch /\ db' = [db EXCEPT !.batches[Latest] = new]
  BY <1>1, <1>3, DbFields DEF last
<1>5. /\ new \in Batch /\ new.items = last.items /\ new.events = last.events
      /\ new.state = "ready" /\ new.attempt = last.attempt
      /\ new.failures = 0 /\ new.backoff = FALSE
  BY <1>4 DEF intervention_cleared, Batch
<1>6. 0 <= MAX_FAILURES /\ 0 < MAX_FAILURES
  BY GridKeeperAssumption
<1> HIDE DEF new
<1>7. Latest' = Latest
  BY <1>4, DbFields DEF Latest
<1>8. OpOK' /\ StageOK'
  BY <1>2, <1>3, <1>7, RoundBegins
<1>9. NothingOpen' /\ NotReconciled' /\ last.attempt \notin {"broadcast", "timeout"}
  BY <1>2, <1>3, <1>7, SameChain DEF IInv, LatestOK
<1>10. last' = new => LatestOK'
  BY <1>5, <1>9 DEF LatestOK
<1>11. QED
  BY <1>2, <1>3, <1>4, <1>5, <1>6, <1>8, <1>10, UpdateStep

LEMMA BackoffEndsKeeps ==
  ASSUME IInv, BackoffEnds
  PROVE  IInv'
<1> DEFINE new == [last EXCEPT !.backoff = FALSE]
<1>1. PICK b \in DOMAIN db.batches :
        /\ db.batches[b].backoff
        /\ db' = [db EXCEPT !.batches[b] = [db.batches[b] EXCEPT !.backoff = FALSE]]
  BY DEF BackoffEnds
<1>2. UNCHANGED <<chain, faults, op>>
  BY DEF BackoffEnds
<1>3. b = Latest /\ last.state = "ready" /\ Latest > 0 /\ Latest \in Nat
  BY <1>1, DbFields DEF IInv, BatchOK, last
<1>4. /\ last \in Batch /\ db' = [db EXCEPT !.batches[Latest] = new]
      /\ last.failures <= MAX_FAILURES /\ last.failures < MAX_FAILURES
  BY <1>1, <1>3, DbFields DEF IInv, BatchOK, last
<1>5. /\ new \in Batch /\ new.items = last.items /\ new.events = last.events
      /\ new.state = last.state /\ new.attempt = last.attempt /\ new.tx = last.tx
      /\ new.failures = last.failures /\ new.backoff = FALSE
  BY <1>4 DEF Batch
<1> HIDE DEF new
<1>6. Latest' = Latest
  BY <1>4, DbFields DEF Latest
<1>7. OpOK'
  BY <1>2, <1>6 DEF IInv, OpOK, Latest
<1>8. last' = new => /\ NothingOpen' <=> NothingOpen
                     /\ NotReconciled' <=> NotReconciled
                     /\ Sent' <=> Sent
  BY <1>2, <1>5, <1>6, SameChain
<1>9. last' = new => LatestOK'
  BY <1>2, <1>3, <1>5, <1>6, <1>8 DEF IInv, LatestOK
<1>10. last' = new => StageOK'
  BY <1>2, <1>3, <1>5, <1>6, <1>8 DEF IInv, StageOK
<1>11. QED
  BY <1>2, <1>3, <1>4, <1>5, <1>7, <1>9, <1>10, UpdateStep

-----------------------------------------------------------------------------

LEMMA StepKeeps ==
  ASSUME IInv, [Next]_vars
  PROVE  IInv'
<1>1. CASE RunStep
  <2>1. CASE Start \/ Idle \/ LeaveAlone \/ StartScan
    BY <2>1, MovesKeep
  <2>2. CASE Discover \/ Refresh
    BY <2>2, RefreshKeeps
  <2>3. CASE ScanHeight \/ Resume \/ Freeze
    BY <2>3, ScanKeeps, ResumeKeeps, FreezeKeeps
  <2>4. CASE FindRestarted \/ AnswerLost
    BY <2>4, UnknownKeeps
  <2>5. CASE PollAgain \/ Sign \/ SignFails \/ Mark \/ Send
    BY <2>5, PollAgainKeeps, SignKeeps, SignFailsKeeps, MarkKeeps, SendKeeps
  <2>6. CASE AnswerOk \/ AnswerRefused \/ RecordRefused
    BY <2>6, AnswerOkKeeps, AnswerRefusedKeeps, RecordRefusedKeeps
  <2>7. CASE PollConfirms \/ PollFails \/ PollTimesOut
    BY <2>7, PollConfirmsKeeps, PollFailsKeeps, PollTimesOutKeeps
  <2>8. QED
    BY <1>1, <2>1, <2>2, <2>3, <2>4, <2>5, <2>6, <2>7 DEF RunStep
<1>2. CASE Crash
  BY <1>2, MovesKeep
<1>3. CASE ClearIntervention \/ BackoffEnds
  BY <1>3, ClearInterventionKeeps, BackoffEndsKeeps
<1>4. CASE ChainNext /\ UNCHANGED <<db, op>>
  BY <1>4, ChainKeeps
<1>5. CASE UNCHANGED vars
  <2>1. OpOK' /\ StageOK'
    BY <1>5 DEF vars, IInv, OpOK, StageOK, Latest, last, NothingOpen, NotReconciled, Sent
  <2>2. QED
    BY <1>5, <2>1, OpStep DEF vars
<1>6. QED
  BY <1>1, <1>2, <1>3, <1>4, <1>5 DEF Next

LEMMA Always == Spec => []IInv
<1>1. IInv /\ [Next]_vars => IInv'
  BY StepKeeps
<1>2. QED
  BY InitIInv, <1>1, PTL DEF Spec

\* The database and the process stay within their types: an event belongs to
\* a batch there is, and no batch fails more often than MAX_FAILURES times.
THEOREM OperatorTypeCorrect == Spec => []TypeOK
<1>1. IInv => TypeOK
  <2> SUFFICES ASSUME IInv PROVE TypeOK
    OBVIOUS
  <2>1. op.batch \in 0..Len(db.batches)
    BY DbFields DEF IInv, OpOK, Latest
  <2>2. QED
    BY <2>1 DEF IInv, DbOK, TypeOK
<1>2. QED
  BY Always, <1>1, PTL

\* process_batch broadcasts nothing while an earlier transaction may still be
\* included, and no batch that was reconciled, wherever the process dies and
\* whatever answer is lost.
THEOREM OperatorNeverSendsTwice == Spec => []NeverSentTwice
<1>1. IInv => NeverSentTwice
  BY DEF IInv
<1>2. QED
  BY Always, <1>1, PTL

\* What _confirm takes off the queue was reconciled by a final transaction of
\* its batch that ran after the fill.
THEOREM OperatorTakesOnlyReconciled == Spec => []ReconciledOnChain
<1>1. IInv => ReconciledOnChain
  BY DEF IInv
<1>2. QED
  BY Always, <1>1, PTL

\* _scan_height queues every fill up to the scanned height that nobody else's
\* reconcile had accounted for on the chain.
THEOREM OperatorLosesNoFill == Spec => []NoFillLost
<1>1. IInv => NoFillLost
  BY DEF IInv
<1>2. QED
  BY Always, <1>1, PTL

\* freeze_batch puts no event into two batches.
THEOREM OperatorFreezesOnce == Spec => []FrozenOnce
<1>1. IInv => FrozenOnce
  BY DEF IInv
<1>2. QED
  BY Always, <1>1, PTL

=============================================================================
