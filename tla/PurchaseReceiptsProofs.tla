------------------------ MODULE PurchaseReceiptsProofs ------------------------
(* Proofs about PurchaseReceipts, for any requests, products, keys, workloads *)
(* and opening rows.                                                          *)
EXTENDS PurchaseReceipts, SumLemmas

(***************************************************************************)
(* The inductive invariant.  Place says where a request can be in its      *)
(* operation, Lock what it has written there, Copies what its copies still *)
(* say about the rows they were read from, Ahead what a confirmation or a  *)
(* cancellation has read before.  Entered and Totals are about the rows.     *)
(***************************************************************************)
PastInsert == {"markReceipt", "markOrder", "recheck", "claim", "commit"}
PastCount == PastInsert \cup {"insert"}
PastLevels == PastCount \cup {"count"}
PastLines == PastLevels \cup {"level", "write", "line"}
PastOrder == PastLines \cup {"lines"}
PastReceipt == PastOrder \cup {"order"}

Route(op) ==
  CASE op = "createOrder" -> {"count", "insert", "commit"}
    [] op = "confirm" -> {"order", "markOrder", "commit"}
    [] op = "cancel" -> {"order", "lines", "markOrder", "commit"}
    [] op = "createReceipt" -> {"order", "lines", "count", "insert", "commit"}
    [] op = "finalize" -> InFlight
    [] op = "pay" -> {"lookup", "order", "count", "insert", "recheck", "claim", "commit"}

Place(q) ==
  /\ pc[q] \in Route(cmd[q].op) \cup Finished
  /\ q \in DOMAIN orders \cup DOMAIN receipts => pc[q] = "done"
  /\ cmd[q].op = "createReceipt" /\ pc[q] \in PastCount => Lines(cmd[q].qty) # {}

\* A line of the receipt of q that still fits what q has read.
Fits(q, p) ==
  p \in Lines(saw[q].receipt.qty) /\ saw[q].receipt.qty[p] <= Remaining(q, p)

Lock(q) ==
  /\ pc[q] \in Finished \cup {"lookup", "receipt", "order", "lines"} => held[q] = {}
  /\ \A p \in Products : LevelRow(p) \in held[q] =>
       /\ cmd[q].op = "finalize" /\ Fits(q, p)
       /\ (pc[q] = "line" /\ p = cur[q]) \/ LineRow(OrderOf(q), p) \in held[q]
  /\ \A o \in Ids : \A p \in Products : LineRow(o, p) \in held[q] =>
       o = OrderOf(q) /\ LevelRow(p) \in held[q]
  /\ pc[q] = "write" => Fits(q, cur[q])
  /\ pc[q] = "line" => LevelRow(cur[q]) \in held[q]
  /\ cmd[q].op = "finalize" /\ pc[q] \in PastLevels => Left(q) = {}
  /\ \A o \in Ids : OrderRow(o) \in held[q] =>
       o = OrderOf(q) /\ cmd[q].op \in {"finalize", "confirm", "cancel"}
  /\ cmd[q].op \in {"finalize", "confirm", "cancel"} /\ pc[q] \in {"recheck", "claim", "commit"} =>
       OrderRow(OrderOf(q)) \in held[q]
  /\ \A g \in Ids : ReceiptRow(g) \in held[q] => g = cmd[q].receipt /\ cmd[q].op = "finalize"

\* The number of a journal is the next one, and nobody else can have it.
Serial(q) ==
  cmd[q].op \in {"finalize", "pay"} =>
    /\ pc[q] = "insert" => num[q] \in 1..Cardinality(journals) + 1
    /\ pc[q] \in PastInsert => /\ num[q] = Cardinality(journals) + 1
                               /\ Number("journal", num[q]) \in held[q]

Copies(q) ==
  /\ saw[q].at <= Cardinality(journals)
  /\ cmd[q].op = "finalize" /\ pc[q] \in PastReceipt =>
       /\ cmd[q].receipt \in DOMAIN receipts
       /\ saw[q].receipt.order = receipts[cmd[q].receipt].order
       /\ saw[q].receipt.qty = receipts[cmd[q].receipt].qty
  /\ cmd[q].op # "createOrder" /\ pc[q] \in PastOrder =>
       /\ OrderOf(q) \in DOMAIN orders
       /\ saw[q].order.ordered = orders[OrderOf(q)].ordered
       /\ cmd[q].op = "pay" => Liabilities(OrderOf(q)) # {}
       /\ cmd[q].op = "createReceipt" => orders[OrderOf(q)].status # "draft"
  /\ cmd[q].op = "finalize" /\ pc[q] \in PastOrder =>
       /\ saw[q].order.status \in {"partial", "received"} => Liabilities(OrderOf(q)) # {}
       /\ saw[q].order.status = "received" /\ InSequence(OrderOf(q)) =>
            StatusFor(OrderOf(q)) = "received"
  /\ cmd[q].op = "finalize" /\ pc[q] \in PastLines
       /\ (\A j \in Liabilities(OrderOf(q)) : j.no <= saw[q].at) =>
       saw[q].received = received[OrderOf(q)]

Before(q) == \A j \in Liabilities(cmd[q].order) : saw[q].at < j.no
Ahead(q) ==
  /\ cmd[q].op = "confirm" /\ pc[q] \in PastOrder \cup {"done"} => Before(q)
  /\ cmd[q].op = "cancel" /\ pc[q] \in PastLines \cup {"done"} /\ InSequence(cmd[q].order) =>
       Before(q)

Own(q) == Place(q) /\ Lock(q) /\ Serial(q) /\ Copies(q) /\ Ahead(q)

Exclusive == \A r, q \in Requests : r # q => held[r] \cap held[q] = {}

Entered ==
  /\ IsFiniteSet(journals)
  /\ {j.no : j \in journals} = 1..Cardinality(journals)
  /\ \A i, j \in journals : i.no = j.no => i = j
  /\ \A g \in DOMAIN receipts :
       /\ receipts[g].order \in DOMAIN orders /\ orders[receipts[g].order].status # "draft"
       /\ Lines(receipts[g].qty) # {}
  /\ \A j \in journals : j.what = "liability" =>
       j.receipt \in DOMAIN receipts /\ receipts[j.receipt].order = j.order
  /\ \A o \in DOMAIN orders :
       orders[o].status \in {"partial", "received"} => Liabilities(o) # {}

TotalOf(o) ==
  InSequence(o) => \A p \in Products : received[o][p] = Stocked(o, p)
StatusOf(o) ==
  InSequence(o) /\ Liabilities(o) # {} =>
    \/ orders[o].status = StatusFor(o)
    \/ \E r \in Requests : LateMark(o, r) /\ orders[o].status = NewStatus(r)
Totals == \A o \in DOMAIN orders : TotalOf(o) /\ StatusOf(o)

Inv ==
  /\ TypeOK /\ held = [q \in Requests |-> held[q]]
  /\ NeverOverReceived /\ ReceiptIsPosted /\ Entered /\ Totals /\ Exclusive
  /\ \A q \in Requests : Own(q)

-----------------------------------------------------------------------------
(* Facts about the operators *)

\* Locked rows and values of different kinds, or of different names, differ.
LEMMA RowsDiffer ==
  \A a, b, c, d :
    /\ LevelRow(a) # LineRow(b, c) /\ LevelRow(a) # OrderRow(b) /\ LevelRow(a) # ReceiptRow(b)
    /\ LevelRow(a) # Number(b, c) /\ LevelRow(a) # KeyValue(b)
    /\ LineRow(a, b) # OrderRow(c) /\ LineRow(a, b) # ReceiptRow(c)
    /\ LineRow(a, b) # Number(c, d) /\ LineRow(a, b) # KeyValue(c)
    /\ OrderRow(a) # ReceiptRow(b) /\ OrderRow(a) # Number(b, c) /\ OrderRow(a) # KeyValue(b)
    /\ ReceiptRow(a) # Number(b, c) /\ ReceiptRow(a) # KeyValue(b) /\ Number(a, b) # KeyValue(c)
    /\ (LevelRow(a) = LevelRow(b) => a = b)
    /\ (LineRow(a, b) = LineRow(c, d) => a = c /\ b = d)
    /\ (OrderRow(a) = OrderRow(b) => a = b) /\ (ReceiptRow(a) = ReceiptRow(b) => a = b)
    /\ (Number(a, b) = Number(c, d) => a = c /\ b = d)
  BY DEF LevelRow, LineRow, OrderRow, ReceiptRow, Number, KeyValue

\* The next number follows every number there is.
LEMMA NextNumber ==
  ASSUME Entered
  PROVE  /\ Cardinality(journals) \in Nat
         /\ Cardinality(Numbers("journal")) = Cardinality(journals)
         /\ Numbers("journal") = 1..Cardinality(journals)
         /\ \A j \in journals : j.no \in Nat /\ j.no >= 1 /\ j.no <= Cardinality(journals)
<1>1. Cardinality(journals) \in Nat
  BY FS_CardinalityType DEF Entered
<1>2. Numbers("journal") = 1..Cardinality(journals)
  BY DEF Numbers, Entered
<1>3. Cardinality(1..Cardinality(journals)) = Cardinality(journals)
  BY <1>1, FS_Interval
<1>4. \A j \in journals : j.no \in 1..Cardinality(journals)
  BY DEF Entered
<1>. QED  BY <1>1, <1>2, <1>3, <1>4

\* Receipts that nobody has overlapped have had only such before them.
LEMMA LiabilitiesType ==
  ASSUME TypeOK, Entered, NEW o
  PROVE  /\ Liabilities(o) \subseteq journals /\ IsFiniteSet(Liabilities(o))
         /\ \A j \in Liabilities(o) : /\ j.receipt \in DOMAIN receipts
                                      /\ \A p \in Products : receipts[j.receipt].qty[p] \in Nat
<1>1. Liabilities(o) \subseteq journals
  BY DEF Liabilities
<1>2. IsFiniteSet(Liabilities(o))
  BY <1>1, FS_Subset DEF Entered
<1>3. \A j \in Liabilities(o) : j.receipt \in DOMAIN receipts
  BY DEF Liabilities, Entered
<1>4. \A g \in DOMAIN receipts : \A p \in Products : receipts[g].qty[p] \in Nat
  BY DEF TypeOK, Receipt, Quantities
<1>. QED  BY <1>1, <1>2, <1>3, <1>4

-----------------------------------------------------------------------------
(* Initially *)

LEMMA InitInv == Init => Inv
<1> SUFFICES ASSUME Init PROVE Inv
  OBVIOUS
<1> USE DEF Init
<1>1. cmd \in [Requests -> Command]
  BY WorkloadsAssumption
<1>2. \A r \in Requests :
        pc[r] \in Route(cmd[r].op) /\ pc[r] \in {"lookup", "receipt", "order", "count"}
                          /\ (pc[r] = "count" => cmd[r].op = "createOrder")
  BY <1>1 DEF Start, Command, Keyed, Route, InFlight, Ops
<1>3. TypeOK
  <2>1. ASSUME NEW r \in Requests
        PROVE  Unread \in [receipt: Receipt, order: Order, received: Quantities, at: Nat]
    <3>1. (CHOOSE o \in Ids : TRUE) \in Ids
      BY DEF Ids
    <3>. QED  BY <3>1 DEF Unread, Receipt, Order, Quantities, None, Statuses
  <2>2. (CHOOSE p \in Products : TRUE) \in Products
    BY NamesAssumption
  <2>3. DOMAIN orders \subseteq Ids /\ \A o \in DOMAIN orders : orders[o] \in Order
    BY OpeningAssumption DEF Ids
  <2>4. DOMAIN receipts \subseteq Ids /\ \A g \in DOMAIN receipts : receipts[g] \in Receipt
    BY OpeningAssumption DEF Ids
  <2>5. /\ received \in [DOMAIN orders -> Quantities] /\ onhand \in Quantities
        /\ journals \in SUBSET Journal
    BY OpeningAssumption
  <2>6. keyRow \in [Keys -> Requests \cup {Nobody, Elsewhere}]
    OBVIOUS
  <2>7. pc \in [Requests -> InFlight \cup Finished]
    BY <1>2 DEF InFlight
  <2>8. saw \in [Requests -> [receipt: Receipt, order: Order, received: Quantities, at: Nat]]
    BY <2>1
  <2>9. /\ level \in [Requests -> Quantities] /\ cur \in [Requests -> Products]
        /\ num \in [Requests -> Nat]
    BY <2>2 DEF None, Quantities
  <2>10. \A r \in Requests : held[r] = {}
    OBVIOUS
  <2> HIDE DEF Init
  <2>. QED  BY <1>1, <2>3, <2>4, <2>5, <2>6, <2>7, <2>8, <2>9, <2>10 DEF TypeOK
<1>4. \A o : Liabilities(o) = OpeningLiabilities(o)
  BY DEF Liabilities, OpeningLiabilities
<1>5. NeverOverReceived
  BY PastAssumption DEF NeverOverReceived
<1>6. \A g \in DOMAIN receipts :
        /\ receipts[g].order \in DOMAIN orders /\ orders[receipts[g].order].status # "draft"
        /\ \E p \in Products : receipts[g].qty[p] > 0
        /\ receipts[g].status = "finalized" =>
             \E j \in OpeningLiabilities(receipts[g].order) : j.receipt = g
  BY PastAssumption
<1>7. \A j \in journals :
        /\ j.what = "payment" => \E i \in OpeningLiabilities(j.order) : i.no < j.no
        /\ j.what = "liability" => /\ j.receipt \in DOMAIN receipts
                                   /\ receipts[j.receipt].order = j.order
                                   /\ j.moved = Lines(receipts[j.receipt].qty)
  BY PastAssumption DEF Lines
<1>8. ReceiptIsPosted
  BY <1>4, <1>6, <1>7 DEF ReceiptIsPosted, OpeningLiabilities
<1>9. \A o \in DOMAIN orders :
        /\ \A p \in Products : received[o][p] = Stocked(o, p)
        /\ OpeningLiabilities(o) = {} => orders[o].status \notin {"partial", "received"}
        /\ OpeningLiabilities(o) # {} => orders[o].status = StatusFor(o)
  BY <1>4, PastAssumption DEF Stocked, StatusFor
<1>10. Entered
  BY <1>4, <1>6, <1>7, <1>9, OpeningAssumption, PastAssumption DEF Entered, Lines
<1>11. Totals
  BY <1>4, <1>9 DEF Totals, TotalOf, StatusOf
<1>12. Exclusive /\ held = [q \in Requests |-> held[q]]
  BY DEF Exclusive
<1>13. ASSUME NEW q \in Requests PROVE Own(q)
  <2>1. q \notin DOMAIN orders /\ q \notin DOMAIN receipts
    BY OpeningAssumption, NamesAssumption
  <2>2. Place(q)
    BY <1>2, <2>1 DEF Place, PastCount, PastInsert
  <2>3. Lock(q)
    BY <1>2 DEF Lock, PastLevels, PastCount, PastInsert, Finished
  <2>4. Serial(q)
    BY <1>2 DEF Serial, PastInsert
  <2>5. saw[q].at = 0 /\ Cardinality(journals) \in Nat
    BY <1>10, NextNumber DEF Unread
  <2>6. /\ pc[q] \notin PastOrder \/ cmd[q].op = "createOrder"
        /\ pc[q] \notin PastLines \/ cmd[q].op = "createOrder"
        /\ pc[q] = "done" => FALSE
        /\ cmd[q].op = "finalize" => pc[q] \notin PastReceipt
    BY <1>1, <1>2
       DEF PastReceipt, PastOrder, PastLines, PastLevels, PastCount, PastInsert, Start, Keyed
  <2>7. Copies(q)
    BY <2>5, <2>6 DEF Copies, PastReceipt, PastOrder
  <2>8. Ahead(q)
    BY <2>6 DEF Ahead
  <2>. QED  BY <2>2, <2>3, <2>4, <2>7, <2>8 DEF Own
<1>. QED  BY <1>3, <1>5, <1>8, <1>10, <1>11, <1>12, <1>13 DEF Inv

-----------------------------------------------------------------------------
(* Steps of one request before its commit *)

SawType == [receipt: Receipt, order: Order, received: Quantities, at: Nat]

\* A step that leaves the database and a request alone keeps what is known of it.
LEMMA Frame ==
  ASSUME NEW q \in Requests, Own(q), UNCHANGED <<db, cmd>>,
         pc'[q] = pc[q], saw'[q] = saw[q], cur'[q] = cur[q], num'[q] = num[q], held'[q] = held[q]
  PROVE  Own(q)'
<1>1. /\ UNCHANGED <<orders, received, receipts, journals, cmd>>
      /\ OrderOf(q)' = OrderOf(q) /\ \A o : Liabilities(o)' = Liabilities(o)
      /\ \A o : InSequence(o)' = InSequence(o) /\ StatusFor(o)' = StatusFor(o)
  BY DEF db, OrderOf, Liabilities, InSequence, StatusFor
<1>2. Place(q)'
  BY <1>1 DEF Own, Place, Lines
<1>3. Lock(q)'
  BY <1>1 DEF Own, Lock, Fits, Remaining, Left, Moved, Lines
<1>4. Serial(q)'
  BY <1>1 DEF Own, Serial
<1>5. Copies(q)'
  BY <1>1 DEF Own, Copies
<1>6. Ahead(q)'
  BY <1>1 DEF Own, Ahead, Before
<1>. QED  BY <1>2, <1>3, <1>4, <1>5, <1>6 DEF Own

\* Request r goes to a label and then holds h; it may have read something.
Steps(r, label, h) ==
  /\ UNCHANGED <<db, cmd>>
  /\ pc' = [pc EXCEPT ![r] = label] /\ held' = [held EXCEPT ![r] = h]
  /\ saw' \in [Requests -> SawType] /\ level' \in [Requests -> Quantities]
  /\ cur' \in [Requests -> Products] /\ num' \in [Requests -> Nat]
  /\ \A q \in Requests \ {r} : saw'[q] = saw[q] /\ cur'[q] = cur[q] /\ num'[q] = num[q]

LEMMA Types ==
  ASSUME Inv
  PROVE  /\ pc \in [Requests -> InFlight \cup Finished] /\ cmd \in [Requests -> Command]
         /\ saw \in [Requests -> SawType] /\ level \in [Requests -> Quantities]
         /\ cur \in [Requests -> Products] /\ num \in [Requests -> Nat]
         /\ held = [q \in Requests |-> held[q]]
         /\ \A q \in Requests : pc[q] \in Finished => held[q] = {}
  BY DEF Inv, TypeOK, SawType

LEMMA StepFacts ==
  ASSUME Inv, NEW r \in Requests, NEW label, NEW h, Steps(r, label, h)
  PROVE  /\ pc'[r] = label /\ held'[r] = h
         /\ UNCHANGED <<orders, received, receipts, onhand, journals, keyRow, cmd>>
         /\ \A o : /\ Liabilities(o)' = Liabilities(o) /\ InSequence(o)' = InSequence(o)
                   /\ StatusFor(o)' = StatusFor(o)
<1>1. UNCHANGED <<orders, received, receipts, onhand, journals, keyRow, cmd>>
  BY DEF Steps, db
<1>2. pc'[r] = label /\ held'[r] = h
  BY Types DEF Steps
<1>. QED  BY <1>1, <1>2 DEF Liabilities, InSequence, StatusFor

\* A step of one request that locks what nobody holds, leaves the database
\* alone and does not finish with a commit: it is enough to look at what is
\* known of the request itself.
LEMMA OwnStep ==
  ASSUME Inv, NEW r \in Requests, pc[r] \in InFlight,
         NEW label \in (InFlight \cup Finished) \ {"done"}, NEW h, Steps(r, label, h),
         label \in Finished => h = {},
         \A b \in Requests \ {r} : h \cap held[b] = {},
         Own(r)'
  PROVE  Inv'
<1>0. /\ pc \in [Requests -> InFlight \cup Finished] /\ cmd \in [Requests -> Command]
      /\ held = [q \in Requests |-> held[q]]
      /\ \A q \in Requests : pc[q] \in Finished => held[q] = {}
  BY Types
<1>1. /\ UNCHANGED <<orders, received, receipts, onhand, journals, keyRow, cmd>>
      /\ pc[r] # "done" /\ label # "done"
  BY StepFacts DEF InFlight
<1>2. \A q \in Requests \ {r} :
        /\ pc'[q] = pc[q] /\ saw'[q] = saw[q] /\ cur'[q] = cur[q]
        /\ num'[q] = num[q] /\ held'[q] = held[q]
  BY <1>0 DEF Steps
<1>3. pc'[r] = label /\ held'[r] = h
  BY StepFacts
<1>4. TypeOK'
  <2>1. /\ pc' \in [Requests -> InFlight \cup Finished] /\ cmd' \in [Requests -> Command]
        /\ saw' \in [Requests -> SawType] /\ level' \in [Requests -> Quantities]
        /\ cur' \in [Requests -> Products] /\ num' \in [Requests -> Nat]
    BY <1>0, <1>1 DEF Steps
  <2>2. \A q \in Requests : pc'[q] \in Finished => held'[q] = {}
    BY <1>0, <1>2, <1>3
  <2>. QED  BY <1>1, <2>1, <2>2 DEF Inv, TypeOK, SawType
<1>5. held' = [q \in Requests |-> held'[q]]
  BY <1>0 DEF Steps
<1>6. NeverOverReceived' /\ ReceiptIsPosted' /\ Entered'
  BY <1>1 DEF Inv, NeverOverReceived, ReceiptIsPosted, Entered, Liabilities, Lines
<1>7. Totals'
  <2>1. \A o : /\ InSequence(o)' = InSequence(o) /\ StatusFor(o)' = StatusFor(o)
               /\ Liabilities(o)' = Liabilities(o)
               /\ \A p : Stocked(o, p)' = Stocked(o, p)
    BY <1>1 DEF InSequence, StatusFor, Liabilities, Stocked
  <2>2. ASSUME NEW o, NEW z \in Requests, LateMark(o, z)
        PROVE  LateMark(o, z)' /\ NewStatus(z)' = NewStatus(z)
    <3>1. z # r /\ cmd[z].op \in {"confirm", "cancel"}
      BY <1>1, <2>2 DEF LateMark
    <3>2. LateMark(o, z)'
      BY <1>1, <1>2, <2>1, <2>2, <3>1 DEF LateMark
    <3>3. NewStatus(z)' = NewStatus(z)
      BY <1>1, <3>1 DEF NewStatus
    <3>. QED  BY <3>2, <3>3
  <2>. QED  BY <1>1, <2>1, <2>2 DEF Inv, Totals, TotalOf, StatusOf
<1>8. Exclusive'
  BY <1>0, <1>2, <1>3 DEF Inv, Exclusive, Steps
<1>9. ASSUME NEW q \in Requests PROVE Own(q)'
  <2>1. CASE q # r
    BY <1>1, <1>2, <2>1, Frame DEF Inv, db
  <2>. QED  BY <2>1
<1>. QED  BY <1>4, <1>5, <1>6, <1>7, <1>8, <1>9 DEF Inv

\* A request that ends without a commit.
LEMMA EndStep ==
  ASSUME Inv, NEW r \in Requests, NEW outcome \in Finished \ {"done"}, pc[r] \in InFlight,
         Goto(r, outcome), Release(r), UNCHANGED <<db, cmd, copies>>
  PROVE  Inv'
<1>1. Steps(r, outcome, {})
  BY Types DEF Steps, Goto, Release, copies
<1>2. /\ pc'[r] = outcome /\ held'[r] = {} /\ outcome \in Finished /\ outcome # "done"
      /\ UNCHANGED <<orders, received, receipts, journals, cmd>>
      /\ saw'[r] = saw[r] /\ pc[r] # "done"
  BY <1>1, StepFacts DEF copies, InFlight
<1>3. Own(r)'
  <2>1. /\ outcome \notin PastReceipt /\ outcome \notin PastOrder /\ outcome \notin PastLines
        /\ outcome \notin PastLevels /\ outcome \notin PastCount /\ outcome \notin PastInsert
        /\ outcome \notin {"write", "line", "recheck", "claim", "commit", "insert"}
    BY DEF Finished, PastReceipt, PastOrder, PastLines, PastLevels, PastCount, PastInsert
  <2>2. Place(r)'
    BY <1>2, <2>1 DEF Inv, Own, Place
  <2>3. Lock(r)'
    BY <1>2, <2>1 DEF Lock
  <2>4. Serial(r)'
    BY <1>2, <2>1 DEF Serial
  <2>5. Copies(r)'
    BY <1>2, <2>1 DEF Inv, Own, Copies
  <2>6. Ahead(r)'
    BY <1>2, <2>1 DEF Ahead
  <2>. QED  BY <2>2, <2>3, <2>4, <2>5, <2>6 DEF Own
<1>. QED  BY <1>1, <1>3, OwnStep

Ends(r) ==
  \/ Replay(r) \/ RejectReceipt(r) \/ RejectOrder(r) \/ RejectLines(r) \/ RejectOver(r)
  \/ RejectEmpty(r) \/ InsertClash(r) \/ ClaimClash(r) \/ RejectExcessive(r)
  \/ DeadlockVictim(r) \/ Crash(r)

LEMMA EndsStep == ASSUME Inv, NEW r \in Requests, Ends(r) PROVE Inv'
<1>1. \E outcome \in Finished \ {"done"} :
        Goto(r, outcome) /\ Release(r) /\ UNCHANGED <<db, cmd, copies>>
  BY DEF Ends, Replay, RejectReceipt, RejectOrder, RejectLines, RejectOver, RejectEmpty,
         InsertClash, ClaimClash, RejectExcessive, DeadlockVictim, Crash, Rollback, Finished
<1>2. pc[r] \in InFlight
  <2>1. Wants(r) # {} => pc[r] \in InFlight
    BY DEF Wants, InFlight
  <2>2. DeadlockVictim(r) => Wants(r) # {}
    BY DEF DeadlockVictim, InDeadlock, Waits, WaitsFor
  <2>. QED
    BY <2>1, <2>2
       DEF Ends, Replay, RejectReceipt, RejectOrder, RejectLines, RejectOver, RejectEmpty,
           InsertClash, ClaimClash, RejectExcessive, Crash, InFlight
<1>. QED  BY <1>1, <1>2, EndStep

\* A request that goes on, and locks W.
LEMMA MoveStep ==
  ASSUME Inv, NEW r \in Requests, pc[r] \in InFlight, NEW label \in InFlight, NEW W,
         Steps(r, label, held[r] \cup W), \A b \in Requests \ {r} : W \cap held[b] = {}, Own(r)'
  PROVE  Inv'
<1>1. \A b \in Requests \ {r} : (held[r] \cup W) \cap held[b] = {}
  BY DEF Inv, Exclusive
<1>2. label \notin Finished
  BY DEF InFlight, Finished
<1> DEFINE h == held[r] \cup W
<1>3. Steps(r, label, h) /\ \A b \in Requests \ {r} : h \cap held[b] = {}
  BY <1>1
<1>4. label \in (InFlight \cup Finished) \ {"done"}
  BY DEF InFlight
<1> HIDE DEF h
<1>. QED  BY <1>2, <1>3, <1>4, OwnStep

LEMMA ReadStep ==
  ASSUME Inv, NEW r \in Requests, pc[r] \in InFlight, NEW label \in InFlight,
         Steps(r, label, held[r]), Own(r)'
  PROVE  Inv'
<1>1. Steps(r, label, held[r] \cup {})
  OBVIOUS
<1>. QED  BY <1>1, MoveStep

LEMMA ProceedStep == ASSUME Inv, NEW r \in Requests, Proceed(r) PROVE Inv'
<1> DEFINE label == Start(cmd[r].op)
<1>1. pc[r] = "lookup" /\ Steps(r, label, held[r]) /\ UNCHANGED copies
  BY Types DEF Proceed, Goto, Steps, copies
<1>2. cmd[r].op \in {"finalize", "pay"} /\ label \in {"receipt", "order"}
      /\ (label = "order" <=> cmd[r].op = "pay")
  BY <1>1, Types DEF Inv, Own, Place, Route, Command, Ops, Start, Finished
<1> HIDE DEF label
<1>3. /\ pc'[r] = label /\ saw'[r] = saw[r] /\ num'[r] = num[r] /\ held'[r] = held[r]
      /\ UNCHANGED <<orders, received, receipts, journals, cmd>>
  BY <1>1, StepFacts DEF copies
<1>4. Place(r)'
  BY <1>1, <1>2, <1>3
     DEF Inv, Own, Place, Route, InFlight, Finished, PastCount, PastInsert
<1>5. Lock(r)'
  BY <1>1, <1>2, <1>3 DEF Inv, Own, Lock, PastLevels, PastCount, PastInsert
<1>6. Serial(r)'
  BY <1>2, <1>3 DEF Serial, PastInsert
<1>7. Copies(r)'
  BY <1>2, <1>3
     DEF Inv, Own, Copies, PastReceipt, PastOrder, PastLines, PastLevels, PastCount, PastInsert
<1>8. Ahead(r)'
  BY <1>2, <1>3 DEF Ahead
<1>9. Own(r)' /\ pc[r] \in InFlight /\ label \in InFlight
  BY <1>1, <1>2, <1>4, <1>5, <1>6, <1>7, <1>8 DEF Own, InFlight
<1>. QED  BY <1>1, <1>9, ReadStep

LEMMA LoadReceiptStep == ASSUME Inv, NEW r \in Requests, LoadReceipt(r) PROVE Inv'
<1> DEFINE g == cmd[r].receipt
<1>1. /\ pc[r] = "receipt" /\ g \in DOMAIN receipts /\ cmd[r].op = "finalize"
      /\ receipts[g] \in Receipt /\ saw[r] \in SawType
      /\ saw' = [saw EXCEPT ![r].receipt = receipts[g]]
      /\ pc' = [pc EXCEPT ![r] = "order"] /\ UNCHANGED <<db, cmd, level, cur, num, held>>
  BY Types DEF LoadReceipt, IsDraft, Goto, Inv, TypeOK, Own, Place, Route, Finished, Command, Ops
<1>2. /\ saw'[r] = [saw[r] EXCEPT !.receipt = receipts[g]] /\ saw'[r] \in SawType
      /\ \A q \in Requests \ {r} : saw'[q] = saw[q]
  BY <1>1, Types DEF SawType
<1>3. Steps(r, "order", held[r])
  <2>1. saw' \in [Requests -> SawType]
    BY <1>1, <1>2, Types
  <2>. QED  BY <1>1, <1>2, <2>1, Types DEF Steps
<1>4. /\ pc'[r] = "order" /\ num'[r] = num[r] /\ held'[r] = held[r] /\ held[r] = {}
      /\ UNCHANGED <<orders, received, receipts, journals, cmd>>
      /\ saw'[r].receipt = receipts[g] /\ saw'[r].at = saw[r].at
  BY <1>1, <1>2, <1>3, StepFacts DEF Inv, Own, Lock, SawType
<1>5. Place(r)'
  BY <1>1, <1>4 DEF Inv, Own, Place, Route, InFlight, PastCount, PastInsert
<1>6. Lock(r)'
  BY <1>4 DEF Lock, PastLevels, PastCount, PastInsert
<1>7. Serial(r)'
  BY <1>4 DEF Serial, PastInsert
<1>8. Copies(r)'
  BY <1>1, <1>4
     DEF Inv, Own, Copies, PastOrder, PastLines, PastLevels, PastCount, PastInsert
<1>9. Ahead(r)'
  BY <1>1, <1>4 DEF Ahead
<1>10. Own(r)' /\ pc[r] \in InFlight /\ "order" \in InFlight
  BY <1>1, <1>5, <1>6, <1>7, <1>8, <1>9 DEF Own, InFlight
<1>. QED  BY <1>3, <1>10, ReadStep

\* An order in draft has no receipts, so no liabilities.
LEMMA DraftHasNone ==
  ASSUME Entered, NEW o, orders[o].status = "draft"
  PROVE  Liabilities(o) = {}
  BY DEF Entered, Liabilities

\* An order without overlapping receipts that shows "received" is.
LEMMA ReceivedIsFull ==
  ASSUME Inv, NEW o \in DOMAIN orders, orders[o].status = "received", InSequence(o)
  PROVE  StatusFor(o) = "received"
<1>1. Liabilities(o) # {}
  BY DEF Inv, Entered
<1>2. \A z \in Requests : LateMark(o, z) => NewStatus(z) \in {"confirmed", "cancelled"}
  BY DEF LateMark, NewStatus
<1>. QED  BY <1>1, <1>2 DEF Inv, Totals, StatusOf

LEMMA LoadOrderStep == ASSUME Inv, NEW r \in Requests, LoadOrder(r) PROVE Inv'
<1>o. PICK o : o = OrderOf(r)
  OBVIOUS
<1> DEFINE label == AfterOrder(cmd[r].op)
           s == [saw[r] EXCEPT !.order = orders[o], !.at = Cardinality(journals)]
<1>0. /\ o \in DOMAIN orders /\ orders[o] \in Order /\ saw[r] \in SawType /\ cmd[r].op \in Ops
      /\ Cardinality(journals) \in Nat
  BY <1>o, Types, NextNumber DEF LoadOrder, Acceptable, Inv, TypeOK, Command
<1>1. /\ pc[r] = "order" /\ orders[o].status \in Accepts(cmd[r].op)
      /\ saw' = [saw EXCEPT ![r].order = orders[o], ![r].at = Cardinality(journals)]
      /\ pc' = [pc EXCEPT ![r] = label] /\ UNCHANGED <<db, cmd, level, cur, num, held>>
  BY <1>o DEF LoadOrder, Acceptable, Goto
<1>2. /\ cmd[r].op \in {"confirm", "cancel", "createReceipt", "finalize", "pay"}
      /\ label \in {"markOrder", "count", "lines"}
      /\ label = "markOrder" <=> cmd[r].op = "confirm"
      /\ label = "count" <=> cmd[r].op = "pay"
  BY <1>0, <1>1 DEF Inv, Own, Place, Route, Finished, Ops, AfterOrder
<1>3. saw'[r] = s /\ s \in SawType /\ \A q \in Requests \ {r} : saw'[q] = saw[q]
  BY <1>0, <1>1, Types DEF SawType
<1> HIDE DEF label
<1>4. Steps(r, label, held[r])
  <2>1. saw' \in [Requests -> SawType]
    BY <1>1, <1>3, Types
  <2> HIDE DEF s
  <2>. QED  BY <1>1, <1>3, <2>1, Types DEF Steps
<1>5. /\ pc'[r] = label /\ num'[r] = num[r] /\ held'[r] = held[r] /\ held[r] = {}
      /\ UNCHANGED <<orders, received, receipts, journals, cmd>>
      /\ saw'[r].receipt = saw[r].receipt /\ saw'[r].at = Cardinality(journals)
      /\ saw'[r].order = orders[o] /\ OrderOf(r)' = o
      /\ \A x : Liabilities(x)' = Liabilities(x) /\ InSequence(x)' = InSequence(x)
      /\ StatusFor(o)' = StatusFor(o)
  <2>1. /\ pc'[r] = label /\ UNCHANGED <<orders, received, receipts, journals, cmd>>
        /\ \A x : Liabilities(x)' = Liabilities(x) /\ InSequence(x)' = InSequence(x)
        /\ \A x : StatusFor(x)' = StatusFor(x)
    BY <1>4, StepFacts
  <2>2. num'[r] = num[r] /\ held'[r] = held[r] /\ held[r] = {}
    BY <1>1 DEF Inv, Own, Lock
  <2>3. /\ saw'[r].receipt = saw[r].receipt /\ saw'[r].at = Cardinality(journals)
        /\ saw'[r].order = orders[o]
    BY <1>0, <1>3 DEF SawType
  <2>. QED  BY <1>o, <2>1, <2>2, <2>3 DEF OrderOf
<1> HIDE DEF s
<1>6. Place(r)'
  BY <1>1, <1>2, <1>5 DEF Inv, Own, Place, Route, InFlight, PastCount, PastInsert
<1>7. Lock(r)'
  BY <1>2, <1>5 DEF Lock, PastLevels, PastCount, PastInsert
<1>8. Serial(r)'
  BY <1>2, <1>5 DEF Serial, PastInsert
<1>9. Copies(r)'
  <2>1. orders[o].status \in {"partial", "received"} => Liabilities(o) # {}
    BY <1>0 DEF Inv, Entered
  <2>2. cmd[r].op = "createReceipt" => orders[o].status # "draft"
    BY <1>1 DEF Accepts
  <2>3. cmd[r].op = "pay" => Liabilities(o) # {}
    BY <1>1, <2>1 DEF Accepts
  <2>4. orders[o].status = "received" /\ InSequence(o) => StatusFor(o) = "received"
    BY <1>0, ReceivedIsFull
  <2>5. cmd[r].op = "finalize" => pc'[r] \notin PastLines
    BY <1>2, <1>5 DEF PastLines, PastLevels, PastCount, PastInsert
  <2>6. cmd[r].op = "finalize" =>
          /\ cmd[r].receipt \in DOMAIN receipts
          /\ saw[r].receipt.order = receipts[cmd[r].receipt].order
          /\ saw[r].receipt.qty = receipts[cmd[r].receipt].qty
    BY <1>1 DEF Inv, Own, Copies, PastReceipt
  <2>7. /\ saw'[r].at <= Cardinality(journals)'
        /\ saw'[r].order.ordered = orders'[o].ordered /\ o \in DOMAIN orders'
    BY <1>0, <1>5
  <2>8. /\ cmd[r].op = "pay" => Liabilities(o)' # {}
        /\ cmd[r].op = "createReceipt" => orders'[o].status # "draft"
    BY <1>5, <2>2, <2>3
  <2>9. /\ saw'[r].order.status \in {"partial", "received"} => Liabilities(o)' # {}
        /\ saw'[r].order.status = "received" /\ InSequence(o)' => StatusFor(o)' = "received"
    BY <1>5, <2>1, <2>4
  <2>. QED  BY <1>5, <2>5, <2>6, <2>7, <2>8, <2>9 DEF Copies
<1>10. Ahead(r)'
  <2>1. cmd[r].op = "confirm" => Liabilities(cmd[r].order) = {}
    BY <1>o, <1>1, DraftHasNone DEF Accepts, OrderOf, Inv
  <2>2. cmd[r].op = "cancel" => pc'[r] \notin PastLines \cup {"done"}
    BY <1>2, <1>5 DEF PastLines, PastLevels, PastCount, PastInsert
  <2>. QED  BY <1>5, <2>1, <2>2 DEF Ahead, Before
<1>11. Own(r)' /\ pc[r] \in InFlight /\ label \in InFlight
  BY <1>1, <1>2, <1>6, <1>7, <1>8, <1>9, <1>10 DEF Own, InFlight
<1>. QED  BY <1>4, <1>11, ReadStep

\* No receipt brings more into stock than all of them.
LEMMA StockedBounds ==
  ASSUME TypeOK, Entered, NEW o, NEW p \in Products
  PROVE  \A j \in Liabilities(o) : receipts[j.receipt].qty[p] <= Stocked(o, p)
<1> DEFINE f == [j \in Liabilities(o) |-> receipts[j.receipt].qty[p]]
<1>1. IsFiniteSet(Liabilities(o)) /\ \A j \in Liabilities(o) : f[j] \in Nat
  BY LiabilitiesType
<1>2. Stocked(o, p) = SumFunctionOnSet(f, Liabilities(o))
  BY DEF Stocked, SumFunction
<1>3. \A j \in Liabilities(o) : f[j] = receipts[j.receipt].qty[p]
  OBVIOUS
<1> HIDE DEF f
<1>4. \A j \in Liabilities(o) : f[j] <= SumFunctionOnSet(f, Liabilities(o))
  BY <1>1, SumOfNaturals
<1>. QED  BY <1>2, <1>3, <1>4

\* An order without overlapping receipts of which nothing shows as received has
\* no liabilities.
LEMMA UntouchedHasNone ==
  ASSUME Inv, NEW o \in DOMAIN orders, InSequence(o),
         \A p \in Products : ~(received[o][p] > 0)
  PROVE  Liabilities(o) = {}
<1>1. SUFFICES ASSUME NEW j \in Liabilities(o) PROVE FALSE
  OBVIOUS
<1>2. j.receipt \in DOMAIN receipts /\ \A p \in Products : receipts[j.receipt].qty[p] \in Nat
  BY LiabilitiesType DEF Inv
<1>3. PICK p \in Products : receipts[j.receipt].qty[p] > 0
  BY <1>2 DEF Inv, Entered, Lines
<1>4. received[o][p] = Stocked(o, p) /\ received[o][p] \in Nat
  BY DEF Inv, Totals, TotalOf, TypeOK, Quantities
<1>5. receipts[j.receipt].qty[p] <= Stocked(o, p)
  BY StockedBounds DEF Inv
<1>. QED  BY <1>2, <1>3, <1>4, <1>5

LEMMA LoadLinesStep == ASSUME Inv, NEW r \in Requests, LoadLines(r) PROVE Inv'
<1>o. PICK o : o = OrderOf(r)
  OBVIOUS
<1> DEFINE label == AfterLines(cmd[r].op)
           s == [saw[r] EXCEPT !.received = received[o], !.at = Cardinality(journals)]
<1>1. /\ pc[r] = "lines" /\ ~Refused(r) /\ cmd[r].op \in Ops
      /\ saw' = [saw EXCEPT ![r].received = received[o], ![r].at = Cardinality(journals)]
      /\ pc' = [pc EXCEPT ![r] = label] /\ UNCHANGED <<db, cmd, level, cur, num, held>>
  BY <1>o, Types DEF LoadLines, Goto, Command
<1>2. /\ cmd[r].op \in {"cancel", "createReceipt", "finalize"}
      /\ label \in {"markOrder", "count", "level"}
      /\ label = "markOrder" <=> cmd[r].op = "cancel"
      /\ label = "level" <=> cmd[r].op = "finalize"
  BY <1>1 DEF Inv, Own, Place, Route, Finished, Ops, AfterLines
<1>0. /\ o \in DOMAIN orders /\ received[o] \in Quantities /\ saw[r] \in SawType
      /\ Cardinality(journals) \in Nat /\ saw[r].order.ordered = orders[o].ordered
      /\ cmd[r].op = "createReceipt" => orders[o].status # "draft"
  BY <1>o, <1>1, <1>2, Types, NextNumber DEF Inv, Own, Copies, TypeOK, PastOrder
<1>3. saw'[r] = s /\ s \in SawType /\ \A q \in Requests \ {r} : saw'[q] = saw[q]
  BY <1>0, <1>1, Types DEF SawType
<1> HIDE DEF label
<1>4. Steps(r, label, held[r])
  <2>1. saw' \in [Requests -> SawType]
    BY <1>1, <1>3, Types
  <2> HIDE DEF s
  <2>. QED  BY <1>1, <1>3, <2>1, Types DEF Steps
<1>5. /\ pc'[r] = label /\ num'[r] = num[r] /\ held'[r] = held[r] /\ held[r] = {}
      /\ UNCHANGED <<orders, received, receipts, journals, cmd>>
      /\ saw'[r].receipt = saw[r].receipt /\ saw'[r].at = Cardinality(journals)
      /\ saw'[r].order = saw[r].order /\ saw'[r].received = received[o] /\ OrderOf(r)' = o
      /\ \A x : Liabilities(x)' = Liabilities(x) /\ InSequence(x)' = InSequence(x)
      /\ \A x : StatusFor(x)' = StatusFor(x)
  <2>1. /\ pc'[r] = label /\ UNCHANGED <<orders, received, receipts, journals, cmd>>
        /\ \A x : Liabilities(x)' = Liabilities(x) /\ InSequence(x)' = InSequence(x)
        /\ \A x : StatusFor(x)' = StatusFor(x)
    BY <1>4, StepFacts
  <2>2. num'[r] = num[r] /\ held'[r] = held[r] /\ held[r] = {}
    BY <1>1 DEF Inv, Own, Lock
  <2>3. /\ saw'[r].receipt = saw[r].receipt /\ saw'[r].at = Cardinality(journals)
        /\ saw'[r].order = saw[r].order /\ saw'[r].received = received[o]
    BY <1>0, <1>3 DEF SawType
  <2>. QED  BY <1>o, <2>1, <2>2, <2>3 DEF OrderOf
<1> HIDE DEF s
<1>6. Place(r)'
  BY <1>1, <1>2, <1>5 DEF Inv, Own, Place, Route, InFlight, PastCount, PastInsert
<1>7. Lock(r)'
  BY <1>2, <1>5 DEF Lock, PastLevels, PastCount, PastInsert
<1>8. Serial(r)'
  BY <1>2, <1>5 DEF Serial, PastInsert
<1>9. Copies(r)'
  <2>1. /\ saw'[r].at <= Cardinality(journals)'
        /\ saw'[r].order.ordered = orders'[o].ordered /\ o \in DOMAIN orders'
        /\ saw'[r].received = received'[o]
    BY <1>0, <1>5
  <2>2. cmd[r].op # "pay" /\ (cmd[r].op = "createReceipt" => orders'[o].status # "draft")
    BY <1>0, <1>2, <1>5
  <2>3. cmd[r].op = "finalize" =>
          /\ cmd[r].receipt \in DOMAIN receipts
          /\ saw[r].receipt.order = receipts[cmd[r].receipt].order
          /\ saw[r].receipt.qty = receipts[cmd[r].receipt].qty
          /\ saw[r].order.status \in {"partial", "received"} => Liabilities(o) # {}
          /\ saw[r].order.status = "received" /\ InSequence(o) => StatusFor(o) = "received"
    BY <1>o, <1>1 DEF Inv, Own, Copies, PastReceipt, PastOrder
  <2>. QED  BY <1>5, <2>1, <2>2, <2>3 DEF Copies
<1>10. Ahead(r)'
  <2>1. cmd[r].op = "cancel" /\ InSequence(o) => Liabilities(o) = {}
    BY <1>o, <1>0, <1>1, UntouchedHasNone DEF Refused
  <2>2. cmd[r].op = "cancel" => cmd[r].order = o
    BY <1>o DEF OrderOf
  <2>. QED  BY <1>2, <1>5, <2>1, <2>2 DEF Ahead, Before
<1>11. Own(r)' /\ pc[r] \in InFlight /\ label \in InFlight
  BY <1>1, <1>2, <1>6, <1>7, <1>8, <1>9, <1>10 DEF Own, InFlight
<1>. QED  BY <1>4, <1>11, ReadStep

\* From the first line on, a request reads no row that its copies are about.
LEMMA KeepCopies ==
  ASSUME Inv, NEW r \in Requests, pc[r] \in PastLines, NEW label \in PastLines, NEW h,
         Steps(r, label, h), saw'[r] = saw[r]
  PROVE  Copies(r)' /\ Ahead(r)' /\ pc[r] \in InFlight /\ label \in InFlight
<1>o. PICK o : o = OrderOf(r)
  OBVIOUS
<1>1. /\ pc'[r] = label /\ UNCHANGED <<orders, received, receipts, journals, cmd>>
      /\ \A x : Liabilities(x)' = Liabilities(x) /\ InSequence(x)' = InSequence(x)
      /\ \A x : StatusFor(x)' = StatusFor(x)
  BY StepFacts
<1>2. OrderOf(r)' = o
  BY <1>o, <1>1 DEF OrderOf
<1>3. /\ pc[r] \in PastOrder /\ label \in PastOrder /\ pc[r] \in PastReceipt
      /\ label \in PastReceipt
  BY DEF PastReceipt, PastOrder
<1>4. Copies(r)'
  BY <1>o, <1>1, <1>2, <1>3 DEF Inv, Own, Copies
<1>5. Ahead(r)'
  BY <1>1, <1>3 DEF Inv, Own, Ahead, Before
<1>6. pc[r] \in InFlight /\ label \in InFlight
  BY DEF PastLines, PastLevels, PastCount, PastInsert, InFlight
<1>. QED  BY <1>4, <1>5, <1>6

LEMMA ReadLevelStep == ASSUME Inv, NEW r \in Requests, ReadLevel(r) PROVE Inv'
<1>1. PICK p \in Left(r) :
        /\ saw[r].receipt.qty[p] <= Remaining(r, p)
        /\ cur' = [cur EXCEPT ![r] = p] /\ level' = [level EXCEPT ![r][p] = onhand[p]]
  BY DEF ReadLevel
<1>2. /\ pc[r] = "level" /\ pc' = [pc EXCEPT ![r] = "write"]
      /\ UNCHANGED <<db, cmd, saw, num, held>>
  BY DEF ReadLevel, Goto
<1>3. p \in Products /\ onhand[p] \in Nat
  BY DEF Left, Lines, Inv, TypeOK, Quantities
<1>4. level' \in [Requests -> Quantities]
  BY <1>1, <1>3, Types DEF Quantities
<1>5. Steps(r, "write", held[r])
  BY <1>1, <1>2, <1>3, <1>4, Types DEF Steps
<1>6. /\ pc'[r] = "write" /\ saw'[r] = saw[r] /\ num'[r] = num[r] /\ held'[r] = held[r]
      /\ cur'[r] = p /\ UNCHANGED <<orders, received, receipts, journals, cmd>>
      /\ OrderOf(r)' = OrderOf(r)
  BY <1>1, <1>2, <1>5, StepFacts, Types DEF OrderOf
<1>7. cmd[r].op = "finalize"
  BY <1>2, Types DEF Inv, Own, Place, Route, Finished, Command, Ops
<1>8. Place(r)'
  BY <1>2, <1>6, <1>7 DEF Inv, Own, Place, Route, InFlight
<1>9. Lock(r)'
  <2>1. Fits(r, p)
    BY <1>1 DEF Fits, Left
  <2>2. \A x : Fits(r, x)' = Fits(r, x)
    BY <1>6 DEF Fits, Remaining, Lines
  <2>3. \A x \in Products :
          LevelRow(x) \in held[r] => LineRow(OrderOf(r), x) \in held[r] /\ Fits(r, x)
    BY <1>2 DEF Inv, Own, Lock
  <2>4. \A o \in Ids : \A x \in Products : LineRow(o, x) \in held[r] =>
          o = OrderOf(r) /\ LevelRow(x) \in held[r]
    BY DEF Inv, Own, Lock
  <2>5. /\ \A o \in Ids : OrderRow(o) \in held[r] => o = OrderOf(r)
        /\ \A g \in Ids : ReceiptRow(g) \in held[r] => g = cmd[r].receipt
    BY DEF Inv, Own, Lock
  <2>6. "write" \notin Finished \cup PastLevels \cup {"lookup", "receipt", "order", "lines"}
    BY DEF Finished, PastLevels, PastCount, PastInsert
  <2>. QED  BY <1>6, <1>7, <2>1, <2>2, <2>3, <2>4, <2>5, <2>6 DEF Lock
<1>10. Serial(r)'
  BY <1>6 DEF Serial, PastInsert
<1>11. pc[r] \in PastLines /\ "write" \in PastLines
  BY <1>2 DEF PastLines
<1>12. Copies(r)' /\ Ahead(r)' /\ pc[r] \in InFlight /\ "write" \in InFlight
  BY <1>5, <1>6, <1>11, KeepCopies
<1>13. Own(r)'
  BY <1>8, <1>9, <1>10, <1>12 DEF Own
<1>. QED  BY <1>5, <1>12, <1>13, ReadStep

LEMMA CountStep == ASSUME Inv, NEW r \in Requests, Count(r) PROVE Inv'
<1> DEFINE n == Cardinality(Numbers(Series(r))) + 1
<1>1. /\ pc[r] = "count" /\ ~Empty(r) /\ pc' = [pc EXCEPT ![r] = "insert"]
      /\ num' = [num EXCEPT ![r] = n] /\ UNCHANGED <<db, cmd, saw, level, cur, held>>
  BY DEF Count, Goto
<1>2. cmd[r].op \in {"createOrder", "createReceipt", "finalize", "pay"}
  BY <1>1, Types DEF Inv, Own, Place, Route, Finished, Command, Ops
<1>3. /\ n \in Nat
      /\ cmd[r].op \in {"finalize", "pay"} => n = Cardinality(journals) + 1
      /\ Cardinality(journals) \in Nat
  <2>1. cmd[r].op \in {"finalize", "pay"} => Series(r) = "journal"
    BY DEF Series
  <2>2. IsFiniteSet(Numbers(Series(r)))
    <3>1. IsFiniteSet(Ids)
      BY FiniteAssumption, FS_Union DEF Ids
    <3>2. IsFiniteSet(DOMAIN orders) /\ IsFiniteSet(DOMAIN receipts) /\ IsFiniteSet(journals)
      BY <3>1, FS_Subset DEF Inv, TypeOK, Entered
    <3>3. /\ IsFiniteSet({orders[o].no : o \in DOMAIN orders})
          /\ IsFiniteSet({receipts[g].no : g \in DOMAIN receipts})
          /\ IsFiniteSet({j.no : j \in journals})
      <4>1. /\ [o \in DOMAIN orders |-> orders[o].no] \in
                 Surjection(DOMAIN orders, {orders[o].no : o \in DOMAIN orders})
            /\ [g \in DOMAIN receipts |-> receipts[g].no] \in
                 Surjection(DOMAIN receipts, {receipts[g].no : g \in DOMAIN receipts})
            /\ [j \in journals |-> j.no] \in Surjection(journals, {j.no : j \in journals})
        BY DEF Surjection
      <4>. QED  BY <3>2, <4>1, FS_Surjection
    <3>. QED  BY <1>2, <3>3 DEF Numbers, Series
  <2>3. Cardinality(Numbers(Series(r))) \in Nat
    BY <2>2, FS_CardinalityType
  <2>. QED  BY <2>1, <2>3, NextNumber DEF Inv
<1> HIDE DEF n
<1>4. Steps(r, "insert", held[r])
  BY <1>1, <1>3, Types DEF Steps
<1>5. /\ pc'[r] = "insert" /\ saw'[r] = saw[r] /\ num'[r] = n /\ held'[r] = held[r]
      /\ UNCHANGED <<orders, received, receipts, journals, cmd, cur>>
      /\ OrderOf(r)' = OrderOf(r)
  BY <1>1, <1>4, StepFacts, Types DEF OrderOf
<1>6. Place(r)'
  BY <1>1, <1>2, <1>5 DEF Inv, Own, Place, Route, InFlight, Empty
<1>7. Lock(r)'
  <2>1. \A x : Fits(r, x)' = Fits(r, x)
    BY <1>5 DEF Fits, Remaining, Lines
  <2>2. Left(r)' = Left(r)
    BY <1>5 DEF Left, Moved, Lines
  <2>3. cmd[r].op = "finalize" => Left(r) = {}
    BY <1>1 DEF Inv, Own, Lock, PastLevels
  <2>4. "insert" \notin Finished
    BY DEF Finished
  <2>. QED  BY <1>1, <1>5, <2>1, <2>2, <2>3, <2>4 DEF Inv, Own, Lock
<1>8. Serial(r)'
  BY <1>3, <1>5 DEF Serial, PastInsert
<1>9. pc[r] \in PastLines /\ "insert" \in PastLines
  BY <1>1 DEF PastLines, PastLevels, PastCount
<1>10. Copies(r)' /\ Ahead(r)' /\ pc[r] \in InFlight /\ "insert" \in InFlight
  BY <1>4, <1>5, <1>9, KeepCopies
<1>11. Own(r)'
  BY <1>6, <1>7, <1>8, <1>10 DEF Own
<1>. QED  BY <1>4, <1>10, <1>11, ReadStep

LEMMA RecheckStep == ASSUME Inv, NEW r \in Requests, Recheck(r) PROVE Inv'
<1> DEFINE label == IF keyRow[cmd[r].key] = Nobody THEN "claim" ELSE "commit"
<1>1. /\ pc[r] = "recheck" /\ label \in {"claim", "commit"} /\ pc' = [pc EXCEPT ![r] = label]
      /\ UNCHANGED <<db, cmd, copies, held>>
  BY DEF Recheck, Goto
<1> HIDE DEF label
<1>2. cmd[r].op \in {"finalize", "pay"}
  BY <1>1, Types DEF Inv, Own, Place, Route, Finished, Command, Ops
<1>4. Steps(r, label, held[r])
  BY <1>1, Types DEF Steps, copies
<1>5. /\ pc'[r] = label /\ saw'[r] = saw[r] /\ num'[r] = num[r] /\ held'[r] = held[r]
      /\ UNCHANGED <<orders, received, receipts, journals, cmd, cur>>
      /\ OrderOf(r)' = OrderOf(r)
  BY <1>1, <1>4, StepFacts DEF OrderOf, copies
<1>6. Place(r)'
  BY <1>1, <1>2, <1>5 DEF Inv, Own, Place, Route, InFlight
<1>7. Lock(r)'
  <2>1. \A x : Fits(r, x)' = Fits(r, x)
    BY <1>5 DEF Fits, Remaining, Lines
  <2>2. Left(r)' = Left(r)
    BY <1>5 DEF Left, Moved, Lines
  <2>3. cmd[r].op = "finalize" => Left(r) = {}
    BY <1>1 DEF Inv, Own, Lock, PastLevels, PastCount, PastInsert
  <2>4. label \notin Finished
    BY <1>1 DEF Finished
  <2>. QED  BY <1>1, <1>5, <2>1, <2>2, <2>3, <2>4 DEF Inv, Own, Lock
<1>8. Serial(r)'
  BY <1>1, <1>5 DEF Inv, Own, Serial, PastInsert
<1>9. pc[r] \in PastLines /\ label \in PastLines
  BY <1>1 DEF PastLines, PastLevels, PastCount, PastInsert
<1>10. Copies(r)' /\ Ahead(r)' /\ pc[r] \in InFlight /\ label \in InFlight
  BY <1>4, <1>5, <1>9, KeepCopies
<1>11. Own(r)'
  BY <1>6, <1>7, <1>8, <1>10 DEF Own
<1>. QED  BY <1>4, <1>10, <1>11, ReadStep

LEMMA WriteFacts ==
  ASSUME Inv, NEW r \in Requests, NEW at, NEW next, Write(r, at, next)
  PROVE  /\ pc[r] = at /\ Steps(r, next, held[r] \cup Wants(r))
         /\ \A b \in Requests \ {r} : Wants(r) \cap held[b] = {}
         /\ pc'[r] = next /\ held'[r] = held[r] \cup Wants(r)
         /\ UNCHANGED <<orders, received, receipts, journals, cmd, saw, num, cur>>
         /\ OrderOf(r)' = OrderOf(r)
         /\ \A x : Fits(r, x)' = Fits(r, x)
<1>1. pc[r] = at /\ Steps(r, next, held[r] \cup Wants(r)) /\ UNCHANGED copies
  BY Types DEF Write, Steps, Goto, copies
<1>2. \A b \in Requests \ {r} : Wants(r) \cap held[b] = {}
  BY DEF Write, Waits, WaitsFor
<1>3. /\ pc'[r] = next /\ held'[r] = held[r] \cup Wants(r)
      /\ UNCHANGED <<orders, received, receipts, journals, cmd, saw, num, cur>>
  BY <1>1, StepFacts DEF copies
<1>4. OrderOf(r)' = OrderOf(r) /\ \A x : Fits(r, x)' = Fits(r, x)
  BY <1>3 DEF OrderOf, Fits, Remaining, Lines
<1>. QED  BY <1>1, <1>2, <1>3, <1>4

LEMMA WriteLevelStep == ASSUME Inv, NEW r \in Requests, WriteLevel(r) PROVE Inv'
<1>1. Write(r, "write", "line")
  BY DEF WriteLevel
<1>2. /\ pc[r] = "write" /\ Steps(r, "line", held[r] \cup Wants(r))
      /\ \A b \in Requests \ {r} : Wants(r) \cap held[b] = {}
      /\ pc'[r] = "line" /\ held'[r] = held[r] \cup Wants(r)
      /\ UNCHANGED <<orders, received, receipts, journals, cmd, saw, num, cur>>
      /\ OrderOf(r)' = OrderOf(r) /\ \A x : Fits(r, x)' = Fits(r, x)
  BY <1>1, WriteFacts
<1>3. Wants(r) = {LevelRow(cur[r])}
  BY <1>2 DEF Wants
<1>4. cmd[r].op = "finalize"
  BY <1>2, Types DEF Inv, Own, Place, Route, Finished, Command, Ops
<1>5. Place(r)'
  BY <1>2, <1>4 DEF Inv, Own, Place, Route, InFlight
<1>6. Lock(r)'
  <2>1. /\ \A x : LevelRow(x) \in held'[r] <=> LevelRow(x) \in held[r] \/ x = cur[r]
        /\ \A o, x : LineRow(o, x) \in held'[r] <=> LineRow(o, x) \in held[r]
        /\ \A o : OrderRow(o) \in held'[r] <=> OrderRow(o) \in held[r]
        /\ \A g : ReceiptRow(g) \in held'[r] <=> ReceiptRow(g) \in held[r]
    BY <1>2, <1>3, RowsDiffer
  <2>2. "line" \notin Finished \cup PastLevels
    BY DEF Finished, PastLevels, PastCount, PastInsert
  <2>. QED  BY <1>2, <1>4, <2>1, <2>2 DEF Inv, Own, Lock
<1>7. Serial(r)'
  BY <1>2 DEF Serial, PastInsert
<1>8. pc[r] \in PastLines /\ "line" \in PastLines
  BY <1>2 DEF PastLines
<1>9. Copies(r)' /\ Ahead(r)' /\ pc[r] \in InFlight /\ "line" \in InFlight
  BY <1>2, <1>8, KeepCopies
<1>10. Own(r)'
  BY <1>5, <1>6, <1>7, <1>9 DEF Own
<1>. QED  BY <1>2, <1>9, <1>10, MoveStep

LEMMA WriteLineStep == ASSUME Inv, NEW r \in Requests, WriteLine(r) PROVE Inv'
<1> DEFINE label == AfterLine(r)
<1>1. Write(r, "line", label) /\ label \in {"count", "level"} /\ (label = "count" => Left(r) = {})
  BY DEF WriteLine, AfterLine
<1> HIDE DEF label
<1>2. /\ pc[r] = "line" /\ Steps(r, label, held[r] \cup Wants(r))
      /\ \A b \in Requests \ {r} : Wants(r) \cap held[b] = {}
      /\ pc'[r] = label /\ held'[r] = held[r] \cup Wants(r)
      /\ UNCHANGED <<orders, received, receipts, journals, cmd, saw, num, cur>>
      /\ OrderOf(r)' = OrderOf(r) /\ \A x : Fits(r, x)' = Fits(r, x)
  BY <1>1, WriteFacts
<1>3. Wants(r) = {LineRow(OrderOf(r), cur[r])}
  BY <1>2 DEF Wants
<1>4. cmd[r].op = "finalize"
  BY <1>2, Types DEF Inv, Own, Place, Route, Finished, Command, Ops
<1>5. Place(r)'
  BY <1>1, <1>2, <1>4 DEF Inv, Own, Place, Route, InFlight
<1>6. Lock(r)'
  <2>1. /\ \A x : LevelRow(x) \in held'[r] <=> LevelRow(x) \in held[r]
        /\ \A o, x : LineRow(o, x) \in held'[r] <=>
             LineRow(o, x) \in held[r] \/ (o = OrderOf(r) /\ x = cur[r])
        /\ \A o : OrderRow(o) \in held'[r] <=> OrderRow(o) \in held[r]
        /\ \A g : ReceiptRow(g) \in held'[r] <=> ReceiptRow(g) \in held[r]
    BY <1>2, <1>3, RowsDiffer
  <2>2. label \notin Finished \cup {"lookup", "receipt", "order", "lines", "write", "line",
                                    "recheck", "claim", "commit"}
    BY <1>1 DEF Finished
  <2>3. Left(r)' = Left(r)
    BY <1>2, <2>1 DEF Left, Moved, Lines
  <2>4. label \in PastLevels => Left(r) = {}
    BY <1>1 DEF PastLevels, PastCount, PastInsert
  <2>. QED  BY <1>2, <1>4, <2>1, <2>2, <2>3, <2>4 DEF Inv, Own, Lock
<1>7. Serial(r)'
  BY <1>1, <1>2 DEF Serial, PastInsert
<1>8. pc[r] \in PastLines /\ label \in PastLines
  BY <1>1, <1>2 DEF PastLines, PastLevels
<1>9. Copies(r)' /\ Ahead(r)' /\ pc[r] \in InFlight /\ label \in InFlight
  BY <1>2, <1>8, KeepCopies
<1>10. Own(r)'
  BY <1>5, <1>6, <1>7, <1>9 DEF Own
<1>. QED  BY <1>2, <1>9, <1>10, MoveStep

LEMMA InsertStep == ASSUME Inv, NEW r \in Requests, Insert(r) PROVE Inv'
<1> DEFINE label == IF cmd[r].op = "finalize" THEN "markReceipt" ELSE KeyOrCommit(r)
<1>1. /\ Write(r, "insert", label) /\ num[r] \notin Numbers(Series(r))
      /\ label \in {"markReceipt", "recheck", "commit"}
      /\ label = "markReceipt" <=> cmd[r].op = "finalize"
      /\ label = "recheck" => cmd[r].op = "pay"
  BY DEF Insert, KeyOrCommit, Keyed
<1> HIDE DEF label
<1>2. /\ pc[r] = "insert" /\ Steps(r, label, held[r] \cup Wants(r))
      /\ \A b \in Requests \ {r} : Wants(r) \cap held[b] = {}
      /\ pc'[r] = label /\ held'[r] = held[r] \cup Wants(r)
      /\ UNCHANGED <<orders, received, receipts, journals, cmd, saw, num, cur>>
      /\ OrderOf(r)' = OrderOf(r) /\ \A x : Fits(r, x)' = Fits(r, x)
  BY <1>1, WriteFacts
<1>3. Wants(r) = {Number(Series(r), num[r])}
  BY <1>2 DEF Wants
<1>4. cmd[r].op \in {"createOrder", "createReceipt", "finalize", "pay"}
  BY <1>2, Types DEF Inv, Own, Place, Route, Finished, Command, Ops
<1>5. Place(r)'
  BY <1>1, <1>2, <1>4 DEF Inv, Own, Place, Route, InFlight, PastCount
<1>6. Lock(r)'
  <2>1. /\ \A x : LevelRow(x) \in held'[r] <=> LevelRow(x) \in held[r]
        /\ \A o, x : LineRow(o, x) \in held'[r] <=> LineRow(o, x) \in held[r]
        /\ \A o : OrderRow(o) \in held'[r] <=> OrderRow(o) \in held[r]
        /\ \A g : ReceiptRow(g) \in held'[r] <=> ReceiptRow(g) \in held[r]
    BY <1>2, <1>3, RowsDiffer
  <2>2. label \notin Finished \cup {"lookup", "receipt", "order", "lines", "write", "line"}
    BY <1>1 DEF Finished
  <2>3. Left(r)' = Left(r)
    BY <1>2, <2>1 DEF Left, Moved, Lines
  <2>4. cmd[r].op = "finalize" => Left(r) = {} /\ label = "markReceipt"
    BY <1>1, <1>2 DEF Inv, Own, Lock, PastLevels, PastCount
  <2>. QED  BY <1>2, <1>4, <2>1, <2>2, <2>3, <2>4 DEF Inv, Own, Lock
<1>7. Serial(r)'
  <2>1. cmd[r].op \in {"finalize", "pay"} =>
          num[r] = Cardinality(journals) + 1 /\ Series(r) = "journal"
    <3>1. cmd[r].op \in {"finalize", "pay"} => Series(r) = "journal"
      BY DEF Series
    <3>2. cmd[r].op \in {"finalize", "pay"} => num[r] \in 1..Cardinality(journals) + 1
      BY <1>2 DEF Inv, Own, Serial
    <3>. QED  BY <1>1, <3>1, <3>2, NextNumber DEF Inv
  <2>2. label # "insert"
    BY <1>1
  <2>. QED  BY <1>2, <1>3, <2>1, <2>2 DEF Serial
<1>8. pc[r] \in PastLines /\ label \in PastLines
  BY <1>1, <1>2 DEF PastLines, PastLevels, PastCount, PastInsert
<1>9. Copies(r)' /\ Ahead(r)' /\ pc[r] \in InFlight /\ label \in InFlight
  BY <1>2, <1>8, KeepCopies
<1>10. Own(r)'
  BY <1>5, <1>6, <1>7, <1>9 DEF Own
<1>. QED  BY <1>2, <1>9, <1>10, MoveStep

LEMMA MarkReceiptStep == ASSUME Inv, NEW r \in Requests, MarkReceipt(r) PROVE Inv'
<1>1. Write(r, "markReceipt", "markOrder")
  BY DEF MarkReceipt
<1>2. /\ pc[r] = "markReceipt" /\ Steps(r, "markOrder", held[r] \cup Wants(r))
      /\ \A b \in Requests \ {r} : Wants(r) \cap held[b] = {}
      /\ pc'[r] = "markOrder" /\ held'[r] = held[r] \cup Wants(r)
      /\ UNCHANGED <<orders, received, receipts, journals, cmd, saw, num, cur>>
      /\ OrderOf(r)' = OrderOf(r) /\ \A x : Fits(r, x)' = Fits(r, x)
  BY <1>1, WriteFacts
<1>3. Wants(r) = {ReceiptRow(cmd[r].receipt)}
  BY <1>2 DEF Wants
<1>4. cmd[r].op = "finalize"
  BY <1>2, Types DEF Inv, Own, Place, Route, Finished, Command, Ops
<1>5. Place(r)'
  BY <1>2, <1>4 DEF Inv, Own, Place, Route, InFlight
<1>6. Lock(r)'
  <2>1. /\ \A x : LevelRow(x) \in held'[r] <=> LevelRow(x) \in held[r]
        /\ \A o, x : LineRow(o, x) \in held'[r] <=> LineRow(o, x) \in held[r]
        /\ \A o : OrderRow(o) \in held'[r] <=> OrderRow(o) \in held[r]
        /\ \A g : ReceiptRow(g) \in held'[r] <=> ReceiptRow(g) \in held[r] \/ g = cmd[r].receipt
    BY <1>2, <1>3, RowsDiffer
  <2>2. "markOrder" \notin Finished
    BY DEF Finished
  <2>3. Left(r)' = Left(r) /\ Left(r) = {}
    BY <1>2, <1>4, <2>1 DEF Inv, Own, Lock, Left, Moved, Lines, PastLevels, PastCount, PastInsert
  <2>. QED  BY <1>2, <1>4, <2>1, <2>2, <2>3 DEF Inv, Own, Lock
<1>7. Serial(r)'
  BY <1>2 DEF Inv, Own, Serial, PastInsert
<1>8. pc[r] \in PastLines /\ "markOrder" \in PastLines
  BY <1>2 DEF PastLines, PastLevels, PastCount, PastInsert
<1>9. Copies(r)' /\ Ahead(r)' /\ pc[r] \in InFlight /\ "markOrder" \in InFlight
  BY <1>2, <1>8, KeepCopies
<1>10. Own(r)'
  BY <1>5, <1>6, <1>7, <1>9 DEF Own
<1>. QED  BY <1>2, <1>9, <1>10, MoveStep

LEMMA MarkOrderStep == ASSUME Inv, NEW r \in Requests, MarkOrder(r) PROVE Inv'
<1>o. PICK x : x = OrderOf(r)
  OBVIOUS
<1> DEFINE label == KeyOrCommit(r)
<1>1. /\ Write(r, "markOrder", label) /\ label \in {"recheck", "commit"}
      /\ label = "recheck" => cmd[r].op \in {"finalize", "pay"}
  BY DEF MarkOrder, KeyOrCommit, Keyed
<1> HIDE DEF label
<1>2. /\ pc[r] = "markOrder" /\ Steps(r, label, held[r] \cup Wants(r))
      /\ \A b \in Requests \ {r} : Wants(r) \cap held[b] = {}
      /\ pc'[r] = label /\ held'[r] = held[r] \cup Wants(r)
      /\ UNCHANGED <<orders, received, receipts, journals, cmd, saw, num, cur>>
      /\ OrderOf(r)' = x /\ \A p : Fits(r, p)' = Fits(r, p)
  BY <1>o, <1>1, WriteFacts
<1>3. Wants(r) = {OrderRow(x)}
  BY <1>o, <1>2 DEF Wants
<1>4. cmd[r].op \in {"confirm", "cancel", "finalize"}
  BY <1>2, Types DEF Inv, Own, Place, Route, Finished, Command, Ops
<1>5. Place(r)'
  BY <1>1, <1>2, <1>4 DEF Inv, Own, Place, Route, InFlight
<1>6. Lock(r)'
  <2>1. /\ \A p : LevelRow(p) \in held'[r] <=> LevelRow(p) \in held[r]
        /\ \A o, p : LineRow(o, p) \in held'[r] <=> LineRow(o, p) \in held[r]
        /\ \A o : OrderRow(o) \in held'[r] <=> OrderRow(o) \in held[r] \/ o = x
        /\ \A g : ReceiptRow(g) \in held'[r] <=> ReceiptRow(g) \in held[r]
    BY <1>2, <1>3, RowsDiffer
  <2>2. label \notin Finished \cup {"lookup", "receipt", "order", "lines", "write", "line"}
    BY <1>1 DEF Finished
  <2>3. Left(r)' = Left(r) /\ (cmd[r].op = "finalize" => Left(r) = {})
    BY <1>2, <2>1 DEF Inv, Own, Lock, Left, Moved, Lines, PastLevels, PastCount, PastInsert
  <2>. QED  BY <1>o, <1>2, <1>4, <2>1, <2>2, <2>3 DEF Inv, Own, Lock
<1>7. Serial(r)'
  BY <1>1, <1>2 DEF Inv, Own, Serial, PastInsert
<1>8. pc[r] \in PastLines /\ label \in PastLines
  BY <1>1, <1>2 DEF PastLines, PastLevels, PastCount, PastInsert
<1>9. Copies(r)' /\ Ahead(r)' /\ pc[r] \in InFlight /\ label \in InFlight
  BY <1>2, <1>8, KeepCopies
<1>10. Own(r)'
  BY <1>5, <1>6, <1>7, <1>9 DEF Own
<1>. QED  BY <1>2, <1>9, <1>10, MoveStep

LEMMA ClaimKeyStep == ASSUME Inv, NEW r \in Requests, ClaimKey(r) PROVE Inv'
<1>1. Write(r, "claim", "commit")
  BY DEF ClaimKey
<1>2. /\ pc[r] = "claim" /\ Steps(r, "commit", held[r] \cup Wants(r))
      /\ \A b \in Requests \ {r} : Wants(r) \cap held[b] = {}
      /\ pc'[r] = "commit" /\ held'[r] = held[r] \cup Wants(r)
      /\ UNCHANGED <<orders, received, receipts, journals, cmd, saw, num, cur>>
      /\ OrderOf(r)' = OrderOf(r) /\ \A x : Fits(r, x)' = Fits(r, x)
  BY <1>1, WriteFacts
<1>3. Wants(r) = {KeyValue(cmd[r].key)}
  BY <1>2 DEF Wants
<1>4. cmd[r].op \in {"finalize", "pay"}
  BY <1>2, Types DEF Inv, Own, Place, Route, Finished, Command, Ops
<1>5. Place(r)'
  BY <1>2, <1>4 DEF Inv, Own, Place, Route, InFlight
<1>6. Lock(r)'
  <2>1. /\ \A x : LevelRow(x) \in held'[r] <=> LevelRow(x) \in held[r]
        /\ \A o, x : LineRow(o, x) \in held'[r] <=> LineRow(o, x) \in held[r]
        /\ \A o : OrderRow(o) \in held'[r] <=> OrderRow(o) \in held[r]
        /\ \A g : ReceiptRow(g) \in held'[r] <=> ReceiptRow(g) \in held[r]
    BY <1>2, <1>3, RowsDiffer
  <2>2. "commit" \notin Finished
    BY DEF Finished
  <2>3. Left(r)' = Left(r) /\ (cmd[r].op = "finalize" => Left(r) = {})
    BY <1>2, <2>1 DEF Inv, Own, Lock, Left, Moved, Lines, PastLevels, PastCount, PastInsert
  <2>. QED  BY <1>2, <1>4, <2>1, <2>2, <2>3 DEF Inv, Own, Lock
<1>7. Serial(r)'
  BY <1>2 DEF Inv, Own, Serial, PastInsert
<1>8. pc[r] \in PastLines /\ "commit" \in PastLines
  BY <1>2 DEF PastLines, PastLevels, PastCount, PastInsert
<1>9. Copies(r)' /\ Ahead(r)' /\ pc[r] \in InFlight /\ "commit" \in InFlight
  BY <1>2, <1>8, KeepCopies
<1>10. Own(r)'
  BY <1>5, <1>6, <1>7, <1>9 DEF Own
<1>. QED  BY <1>2, <1>9, <1>10, MoveStep

-----------------------------------------------------------------------------
(* The commit: what it makes of each table *)

\* The journal that r posts.
Entry(r) ==
  [no |-> num[r], what |-> IF cmd[r].op = "pay" THEN "payment" ELSE "liability",
   order |-> OrderOf(r), receipt |-> cmd[r].receipt, by |-> r,
   moved |-> Moved(r), loaded |-> saw[r].at]
Posts(r) == cmd[r].op \in {"finalize", "pay"}
Marks(r) == cmd[r].op \in {"finalize", "confirm", "cancel"}

LEMMA CommitFacts ==
  ASSUME Inv, NEW r \in Requests, Commit(r)
  PROVE  /\ pc[r] = "commit" /\ r \notin DOMAIN orders /\ r \notin DOMAIN receipts
         /\ cmd[r] \in Command /\ saw[r] \in SawType /\ level[r] \in Quantities /\ num[r] \in Nat
         /\ UNCHANGED <<cmd, saw, level, cur, num>>
         /\ pc'[r] = "done" /\ held'[r] = {}
         /\ \A q \in Requests \ {r} : pc'[q] = pc[q] /\ held'[q] = held[q]
         /\ pc' \in [Requests -> InFlight \cup Finished]
         /\ held' = [q \in Requests |-> held'[q]]
         /\ cmd[r].op # "createOrder" =>
              /\ OrderOf(r) \in DOMAIN orders /\ OrderOf(r) \in Ids
              /\ saw[r].order.ordered = orders[OrderOf(r)].ordered
         /\ cmd[r].op = "finalize" =>
              /\ cmd[r].receipt \in DOMAIN receipts /\ cmd[r].receipt \in Ids
              /\ receipts[cmd[r].receipt].order = OrderOf(r)
              /\ saw[r].receipt.qty = receipts[cmd[r].receipt].qty
              /\ Moved(r) = Lines(saw[r].receipt.qty)
<1>1. /\ pc[r] = "commit" /\ pc' = [pc EXCEPT ![r] = "done"] /\ held' = [held EXCEPT ![r] = {}]
      /\ UNCHANGED <<cmd, saw, level, cur, num>>
  BY DEF Commit, Goto, Release, copies
<1>2. r \notin DOMAIN orders /\ r \notin DOMAIN receipts
  BY <1>1 DEF Inv, Own, Place
<1>3. pc[r] \in PastReceipt /\ pc[r] \in PastOrder /\ pc[r] \in PastLevels
  BY <1>1 DEF PastReceipt, PastOrder, PastLines, PastLevels, PastCount, PastInsert
<1>4. cmd[r].op # "createOrder" =>
        /\ OrderOf(r) \in DOMAIN orders /\ OrderOf(r) \in Ids
        /\ saw[r].order.ordered = orders[OrderOf(r)].ordered
  BY <1>3 DEF Inv, Own, Copies, TypeOK
<1>5. cmd[r].op = "finalize" =>
        /\ cmd[r].receipt \in DOMAIN receipts /\ cmd[r].receipt \in Ids
        /\ receipts[cmd[r].receipt].order = OrderOf(r)
        /\ saw[r].receipt.qty = receipts[cmd[r].receipt].qty
  BY <1>3 DEF Inv, Own, Copies, TypeOK, OrderOf
<1>6. cmd[r].op = "finalize" => Moved(r) = Lines(saw[r].receipt.qty)
  <2>1. cmd[r].op = "finalize" => Left(r) = {}
    BY <1>3 DEF Inv, Own, Lock
  <2>2. \A p \in Moved(r) : p \in Lines(saw[r].receipt.qty)
    BY DEF Moved, Inv, Own, Lock, Fits
  <2>. QED  BY <2>1, <2>2 DEF Left
<1>7. /\ pc'[r] = "done" /\ held'[r] = {}
      /\ \A q \in Requests \ {r} : pc'[q] = pc[q] /\ held'[q] = held[q]
      /\ pc' \in [Requests -> InFlight \cup Finished]
      /\ held' = [q \in Requests |-> held'[q]]
  BY <1>1, Types DEF Finished
<1>. QED  BY <1>1, <1>2, <1>4, <1>5, <1>6, <1>7, Types

LEMMA CommitOrders ==
  ASSUME Inv, NEW r \in Requests, Commit(r)
  PROVE  /\ DOMAIN orders \subseteq DOMAIN orders'
         /\ \A o \in DOMAIN orders :
              /\ orders'[o] \in Order /\ orders'[o].ordered = orders[o].ordered
              /\ \/ orders'[o].status = orders[o].status
                 \/ Marks(r) /\ o = OrderOf(r) /\ orders'[o].status = NewStatus(r)
              /\ Marks(r) /\ o = OrderOf(r) /\ NewStatus(r) # saw[r].order.status =>
                   orders'[o].status = NewStatus(r)
         /\ \A o \in DOMAIN orders' : o \notin DOMAIN orders =>
              /\ o = r /\ cmd[r].op = "createOrder"
              /\ orders'[o] \in Order /\ orders'[o].status = "draft"
<1>1. orders' = OrdersAfter(r)
  BY DEF Commit
<1>2. Marks(r) => NewStatus(r) \in Statuses \ {"draft"}
  BY DEF Marks, NewStatus, Statuses
<1>3. \A o \in DOMAIN orders : orders[o] \in Order /\ o \in Ids /\ o # r
  BY CommitFacts DEF Inv, TypeOK
<1>4. \A o \in DOMAIN orders : OrderRow(o) \in held[r] <=> Marks(r) /\ o = OrderOf(r)
  BY <1>3, CommitFacts DEF Inv, Own, Lock, Marks
<1>5. DOMAIN orders' = DOMAIN orders \cup (IF cmd[r].op = "createOrder" THEN {r} ELSE {})
  BY <1>1 DEF OrdersAfter
<1>6. ASSUME NEW o \in DOMAIN orders
      PROVE  orders'[o] = IF (Marks(r) /\ o = OrderOf(r)) /\ NewStatus(r) # saw[r].order.status
                          THEN [orders[o] EXCEPT !.status = NewStatus(r)] ELSE orders[o]
  BY <1>1, <1>3, <1>4 DEF OrdersAfter
<1>7. ASSUME NEW o \in DOMAIN orders', o \notin DOMAIN orders
      PROVE  /\ o = r /\ cmd[r].op = "createOrder"
             /\ orders'[o] \in Order /\ orders'[o].status = "draft"
  <2>1. o = r /\ cmd[r].op = "createOrder"
    BY <1>5, <1>7
  <2>2. orders'[o] = [status |-> "draft", no |-> num[r], ordered |-> cmd[r].qty, priced |-> TRUE]
    BY <1>1, <1>7, <2>1 DEF OrdersAfter
  <2>. QED  BY <2>1, <2>2, CommitFacts DEF Order, Statuses, Command
<1>8. ASSUME NEW o \in DOMAIN orders
      PROVE  /\ orders'[o] \in Order /\ orders'[o].ordered = orders[o].ordered
             /\ \/ orders'[o].status = orders[o].status
                \/ Marks(r) /\ o = OrderOf(r) /\ orders'[o].status = NewStatus(r)
             /\ Marks(r) /\ o = OrderOf(r) /\ NewStatus(r) # saw[r].order.status =>
                  orders'[o].status = NewStatus(r)
  BY <1>2, <1>3, <1>6 DEF Order
<1>. QED  BY <1>5, <1>7, <1>8

LEMMA CommitReceipts ==
  ASSUME Inv, NEW r \in Requests, Commit(r)
  PROVE  /\ DOMAIN receipts \subseteq DOMAIN receipts'
         /\ \A g \in DOMAIN receipts :
              /\ receipts'[g] \in Receipt
              /\ receipts'[g].order = receipts[g].order /\ receipts'[g].qty = receipts[g].qty
              /\ \/ receipts'[g].status = receipts[g].status
                 \/ cmd[r].op = "finalize" /\ g = cmd[r].receipt
         /\ \A g \in DOMAIN receipts' : g \notin DOMAIN receipts =>
              /\ g = r /\ cmd[r].op = "createReceipt" /\ receipts'[g] \in Receipt
              /\ receipts'[g].order = OrderOf(r) /\ receipts'[g].qty = cmd[r].qty
              /\ receipts'[g].status = "draft"
<1>1. receipts' = ReceiptsAfter(r)
  BY DEF Commit
<1>2. \A g \in DOMAIN receipts : receipts[g] \in Receipt /\ g \in Ids /\ g # r
  BY CommitFacts DEF Inv, TypeOK
<1>3. \A g \in DOMAIN receipts : ReceiptRow(g) \in held[r] =>
        g = cmd[r].receipt /\ cmd[r].op = "finalize"
  BY <1>2 DEF Inv, Own, Lock
<1>4. DOMAIN receipts' = DOMAIN receipts \cup (IF cmd[r].op = "createReceipt" THEN {r} ELSE {})
  BY <1>1 DEF ReceiptsAfter
<1>5. ASSUME NEW g \in DOMAIN receipts
      PROVE  receipts'[g] = IF ReceiptRow(g) \in held[r]
                            THEN [receipts[g] EXCEPT !.status = "finalized"] ELSE receipts[g]
  BY <1>1, <1>2 DEF ReceiptsAfter
<1>6. ASSUME NEW g \in DOMAIN receipts', g \notin DOMAIN receipts
      PROVE  /\ g = r /\ cmd[r].op = "createReceipt" /\ receipts'[g] \in Receipt
             /\ receipts'[g].order = OrderOf(r) /\ receipts'[g].qty = cmd[r].qty
             /\ receipts'[g].status = "draft"
  <2>1. g = r /\ cmd[r].op = "createReceipt"
    BY <1>4, <1>6
  <2>2. receipts'[g] =
          [order |-> cmd[r].order, status |-> "draft", no |-> num[r], qty |-> cmd[r].qty]
    BY <1>1, <1>6, <2>1 DEF ReceiptsAfter
  <2>3. cmd[r].order = OrderOf(r) /\ OrderOf(r) \in Ids
    BY <2>1, CommitFacts DEF OrderOf
  <2>. QED  BY <2>1, <2>2, <2>3, CommitFacts DEF Receipt, Command
<1>7. ASSUME NEW g \in DOMAIN receipts
      PROVE  /\ receipts'[g] \in Receipt
             /\ receipts'[g].order = receipts[g].order /\ receipts'[g].qty = receipts[g].qty
             /\ \/ receipts'[g].status = receipts[g].status
                \/ cmd[r].op = "finalize" /\ g = cmd[r].receipt
  BY <1>2, <1>3, <1>5 DEF Receipt
<1>. QED  BY <1>4, <1>6, <1>7

LEMMA CommitReceived ==
  ASSUME Inv, NEW r \in Requests, Commit(r)
  PROVE  /\ received' \in [DOMAIN orders' -> Quantities]
         /\ \A o \in DOMAIN orders : ~(cmd[r].op = "finalize" /\ o = OrderOf(r)) =>
              received'[o] = received[o]
         /\ \A o \in DOMAIN orders' : o \notin DOMAIN orders => received'[o] = None
         /\ cmd[r].op = "finalize" => \A p \in Products :
              received'[OrderOf(r)][p] = IF p \in Lines(saw[r].receipt.qty)
                                         THEN saw[r].received[p] + saw[r].receipt.qty[p]
                                         ELSE received[OrderOf(r)][p]
<1>1. received' = ReceivedAfter(r) /\ orders' = OrdersAfter(r)
  BY DEF Commit
<1>2. \A o \in DOMAIN orders : o \in Ids /\ o # r /\ received[o] \in Quantities
  BY CommitFacts DEF Inv, TypeOK
<1>3. saw[r].received \in Quantities /\ saw[r].receipt.qty \in Quantities
  BY CommitFacts DEF SawType, Receipt
<1>4. Gets(r) \in Quantities /\ \A p \in Products :
        Gets(r)[p] = saw[r].received[p] + saw[r].receipt.qty[p]
  BY <1>3 DEF Gets, Quantities
<1>5. \A o \in DOMAIN orders : \A p \in Products : LineRow(o, p) \in held[r] <=>
        cmd[r].op = "finalize" /\ o = OrderOf(r) /\ p \in Lines(saw[r].receipt.qty)
  <2>1. ASSUME NEW o \in DOMAIN orders, NEW p \in Products, LineRow(o, p) \in held[r]
        PROVE  cmd[r].op = "finalize" /\ o = OrderOf(r) /\ p \in Lines(saw[r].receipt.qty)
    BY <1>2, <2>1 DEF Inv, Own, Lock, Fits
  <2>2. ASSUME NEW p \in Products, cmd[r].op = "finalize", p \in Lines(saw[r].receipt.qty)
        PROVE  LineRow(OrderOf(r), p) \in held[r]
    <3>1. LevelRow(p) \in held[r] /\ pc[r] # "line"
      BY <2>2, CommitFacts DEF Moved
    <3>. QED  BY <3>1 DEF Inv, Own, Lock
  <2>. QED  BY <2>1, <2>2
<1>6. DOMAIN received' = DOMAIN orders'
  BY <1>1 DEF ReceivedAfter
<1>7. ASSUME NEW o \in DOMAIN orders
      PROVE  /\ received'[o] \in Quantities
             /\ \A p \in Products : received'[o][p] =
                  IF cmd[r].op = "finalize" /\ o = OrderOf(r) /\ p \in Lines(saw[r].receipt.qty)
                  THEN Gets(r)[p] ELSE received[o][p]
  <2>1. o \in DOMAIN orders'
    BY CommitOrders
  <2>2. received'[o] = [p \in Products |-> IF LineRow(o, p) \in held[r] THEN Gets(r)[p]
                                           ELSE received[o][p]]
    BY <1>1, <1>2, <2>1 DEF ReceivedAfter
  <2>. QED  BY <1>2, <1>4, <1>5, <2>2 DEF Quantities
<1>8. ASSUME NEW o \in DOMAIN orders, ~(cmd[r].op = "finalize" /\ o = OrderOf(r))
      PROVE  received'[o] = received[o]
  <2>1. /\ received'[o] \in Quantities /\ received[o] \in Quantities
        /\ \A p \in Products : received'[o][p] = received[o][p]
    BY <1>2, <1>7, <1>8
  <2>. QED  BY <2>1 DEF Quantities
<1>9. ASSUME NEW o \in DOMAIN orders', o \notin DOMAIN orders
      PROVE  received'[o] = None /\ None \in Quantities
  <2>1. o = r
    BY <1>9, CommitOrders
  <2>. QED  BY <1>1, <1>9, <2>1 DEF ReceivedAfter, None, Quantities
<1>10. received' = [o \in DOMAIN orders' |-> received'[o]]
  <2> DEFINE D == DOMAIN OrdersAfter(r)
             F(o) == IF o = r THEN None
                     ELSE [p \in Products |-> IF LineRow(o, p) \in held[r] THEN Gets(r)[p]
                                              ELSE received[o][p]]
  <2>1. received' = [o \in D |-> F(o)] /\ D = DOMAIN orders'
    BY <1>1 DEF ReceivedAfter
  <2> HIDE DEF D, F
  <2>. QED  BY <2>1
<1>11. received' \in [DOMAIN orders' -> Quantities]
  BY <1>7, <1>9, <1>10
<1>12. cmd[r].op = "finalize" => OrderOf(r) \in DOMAIN orders
  BY CommitFacts
<1>. QED  BY <1>4, <1>7, <1>8, <1>9, <1>11, <1>12

LEMMA CommitJournals ==
  ASSUME Inv, NEW r \in Requests, Commit(r)
  PROVE  /\ ~Posts(r) => journals' = journals
         /\ Posts(r) => /\ journals' = journals \cup {Entry(r)} /\ Entry(r) \in Journal
                        /\ Entry(r) \notin journals
                        /\ num[r] = Cardinality(journals) + 1
                        /\ Number("journal", num[r]) \in held[r]
                        /\ Cardinality(journals)' = Cardinality(journals) + 1
         /\ Cardinality(journals) \in Nat /\ Cardinality(journals)' \in Nat
         /\ Cardinality(journals) <= Cardinality(journals)'
<1>1. journals' = journals \cup Posting(r)
  BY DEF Commit
<1>2. Posting(r) = IF Posts(r) THEN {Entry(r)} ELSE {}
  BY DEF Posting, Posts, Entry
<1>3. Cardinality(journals) \in Nat /\ \A j \in journals : j.no <= Cardinality(journals)
  BY NextNumber DEF Inv
<1>4. Posts(r) => num[r] = Cardinality(journals) + 1 /\ Number("journal", num[r]) \in held[r]
  BY CommitFacts DEF Posts, Inv, Own, Serial, PastInsert
<1>5. Posts(r) => Entry(r).no = Cardinality(journals) + 1
  BY <1>4 DEF Entry
<1>6. Posts(r) => Entry(r) \notin journals
  BY <1>3, <1>5
<1>7. Posts(r) => Entry(r) \in Journal
  <2>1. Posts(r) => OrderOf(r) \in Ids
    BY CommitFacts DEF Posts
  <2>2. cmd[r].receipt \in Ids \cup {NoReceipt} /\ Moved(r) \subseteq Products /\ saw[r].at \in Nat
    BY CommitFacts DEF Command, Moved, SawType
  <2>. QED  BY <2>1, <2>2, CommitFacts DEF Entry, Journal
<1>8. Posts(r) => Cardinality(journals \cup {Entry(r)}) = Cardinality(journals) + 1
  BY <1>6, FS_AddElement DEF Inv, Entered
<1>9. Posts(r) => Cardinality(journals)' = Cardinality(journals) + 1
  BY <1>1, <1>2, <1>8
<1>10. ~Posts(r) => journals' = journals /\ Cardinality(journals)' = Cardinality(journals)
  BY <1>1, <1>2
<1>. QED  BY <1>1, <1>2, <1>3, <1>4, <1>6, <1>7, <1>9, <1>10

LEMMA CommitLiabilities ==
  ASSUME Inv, NEW r \in Requests, Commit(r), NEW o
  PROVE  /\ Liabilities(o) \subseteq Liabilities(o)'
         /\ ~(cmd[r].op = "finalize" /\ o = OrderOf(r)) => Liabilities(o)' = Liabilities(o)
         /\ cmd[r].op = "finalize" /\ o = OrderOf(r) =>
              /\ Liabilities(o)' = Liabilities(o) \cup {Entry(r)} /\ Entry(r) \notin Liabilities(o)
         /\ \A j \in Liabilities(o)' : j \in Liabilities(o) \/ j.no = Cardinality(journals) + 1
         /\ InSequence(o)' => InSequence(o)
<1>1. Entry(r).what = (IF cmd[r].op = "pay" THEN "payment" ELSE "liability")
      /\ Entry(r).order = OrderOf(r) /\ Entry(r).no = num[r]
  BY DEF Entry
<1>2. /\ ~(cmd[r].op = "finalize" /\ o = OrderOf(r)) => Liabilities(o)' = Liabilities(o)
      /\ cmd[r].op = "finalize" /\ o = OrderOf(r) =>
           /\ Liabilities(o)' = Liabilities(o) \cup {Entry(r)} /\ Entry(r) \notin Liabilities(o)
           /\ Entry(r).no = Cardinality(journals) + 1
  BY <1>1, CommitJournals DEF Liabilities, Posts
<1>3. Liabilities(o) \subseteq Liabilities(o)'
  BY <1>2
<1>4. InSequence(o)' => InSequence(o)
  BY <1>3 DEF InSequence
<1>. QED  BY <1>2, <1>3, <1>4

\* The lines of a commit without overlap add up.
LEMMA InSequenceAdds ==
  ASSUME Inv, NEW r \in Requests, Commit(r), cmd[r].op = "finalize", NEW o, o = OrderOf(r),
         InSequence(o)'
  PROVE  /\ saw[r].received = received[o]
         /\ \A p \in Products :
              /\ received[o][p] \in Nat /\ saw[r].receipt.qty[p] \in Nat
              /\ saw[r].order.ordered[p] \in Nat /\ saw[r].order.ordered[p] = orders[o].ordered[p]
              /\ received'[o][p] = received[o][p] + saw[r].receipt.qty[p]
              /\ received'[o][p] = Gets(r)[p]
         /\ \E p \in Products : received[o][p] < orders[o].ordered[p]
<1>0. /\ o \in DOMAIN orders /\ received[o] \in Quantities /\ saw[r].receipt.qty \in Quantities
      /\ saw[r].order.ordered \in Quantities /\ saw[r].order.ordered = orders[o].ordered
      /\ pc[r] \in PastLines /\ pc[r] = "commit"
  BY CommitFacts
     DEF Inv, TypeOK, SawType, Receipt, Order, PastLines, PastLevels, PastCount, PastInsert
<1>1. ASSUME NEW j \in Liabilities(o) PROVE j.no <= saw[r].at
  <2>1. j \in Liabilities(o)' /\ Entry(r) \in Liabilities(o)'
    BY CommitLiabilities
  <2>2. j \in journals /\ Entry(r).no = Cardinality(journals) + 1 /\ Entry(r).loaded = saw[r].at
    BY CommitJournals DEF Liabilities, Posts, Entry
  <2>3. j.no \in Nat /\ j.no < Entry(r).no /\ saw[r].at \in Nat
    BY <2>2, NextNumber, CommitFacts DEF Inv, SawType
  <2>4. Entry(r).loaded >= j.no
    BY <2>1, <2>3 DEF InSequence
  <2>. QED  BY <2>2, <2>3, <2>4
<1>2. saw[r].received = received[o]
  BY <1>0, <1>1 DEF Inv, Own, Copies
<1>3. ASSUME NEW p \in Products
      PROVE  /\ received[o][p] \in Nat /\ saw[r].receipt.qty[p] \in Nat
             /\ saw[r].order.ordered[p] \in Nat /\ saw[r].order.ordered[p] = orders[o].ordered[p]
             /\ received'[o][p] = received[o][p] + saw[r].receipt.qty[p]
             /\ received'[o][p] = Gets(r)[p]
  <2>1. /\ received[o][p] \in Nat /\ saw[r].receipt.qty[p] \in Nat
        /\ saw[r].order.ordered[p] \in Nat /\ saw[r].order.ordered[p] = orders[o].ordered[p]
    BY <1>0 DEF Quantities
  <2>2. received'[o][p] = IF p \in Lines(saw[r].receipt.qty)
                          THEN received[o][p] + saw[r].receipt.qty[p] ELSE received[o][p]
    BY <1>2, CommitReceived
  <2>3. p \notin Lines(saw[r].receipt.qty) => saw[r].receipt.qty[p] = 0
    BY <2>1 DEF Lines
  <2>4. received'[o][p] = received[o][p] + saw[r].receipt.qty[p]
    BY <2>1, <2>2, <2>3
  <2>5. Gets(r)[p] = received[o][p] + saw[r].receipt.qty[p]
    BY <1>2 DEF Gets
  <2>. QED  BY <2>1, <2>4, <2>5
<1>4. \E p \in Products : received[o][p] < orders[o].ordered[p]
  <2>1. PICK p \in Lines(saw[r].receipt.qty) : TRUE
    BY CommitFacts DEF Inv, Entered
  <2>2. p \in Products /\ saw[r].receipt.qty[p] > 0
    BY <2>1 DEF Lines
  <2>3. LevelRow(p) \in held[r]
    BY <2>1, CommitFacts DEF Moved
  <2>4. saw[r].receipt.qty[p] <= saw[r].order.ordered[p] - saw[r].received[p]
    BY <2>2, <2>3 DEF Inv, Own, Lock, Fits, Remaining
  <2>5. /\ saw[r].receipt.qty[p] \in Nat /\ received[o][p] \in Nat
        /\ saw[r].order.ordered[p] \in Nat
        /\ saw[r].order.ordered[p] = orders[o].ordered[p] /\ saw[r].received[p] = received[o][p]
    BY <1>2, <1>3, <2>2
  <2>. QED  BY <2>2, <2>4, <2>5
<1>. QED  BY <1>2, <1>3, <1>4

-----------------------------------------------------------------------------
(* The commit keeps the invariant *)

LEMMA CommitType == ASSUME Inv, NEW r \in Requests, Commit(r) PROVE TypeOK'
<1>1. DOMAIN orders' \subseteq Ids /\ \A o \in DOMAIN orders' : orders'[o] \in Order
  BY CommitOrders DEF Inv, TypeOK, Ids
<1>2. DOMAIN receipts' \subseteq Ids /\ \A g \in DOMAIN receipts' : receipts'[g] \in Receipt
  BY CommitReceipts DEF Inv, TypeOK, Ids
<1>3. received' \in [DOMAIN orders' -> Quantities]
  BY CommitReceived
<1>4. onhand' \in Quantities
  <2>1. /\ onhand' = [p \in Products |-> IF p \in Moved(r) THEN level[r][p] + saw[r].receipt.qty[p]
                                         ELSE onhand[p]]
        /\ level[r] \in Quantities /\ saw[r].receipt.qty \in Quantities /\ onhand \in Quantities
    BY CommitFacts DEF Commit, SawType, Receipt, Inv, TypeOK
  <2>. QED  BY <2>1 DEF Quantities
<1>5. journals' \in SUBSET Journal
  BY CommitJournals DEF Inv, TypeOK
<1>6. keyRow' \in [Keys -> Requests \cup {Nobody, Elsewhere}]
  BY DEF Commit, Inv, TypeOK
<1>7. /\ cmd' \in [Requests -> Command] /\ saw' \in [Requests -> SawType]
      /\ level' \in [Requests -> Quantities] /\ cur' \in [Requests -> Products]
      /\ num' \in [Requests -> Nat] /\ pc' \in [Requests -> InFlight \cup Finished]
  BY CommitFacts, Types
<1>8. \A q \in Requests : pc'[q] \in Finished => held'[q] = {}
  BY CommitFacts, Types
<1>. QED  BY <1>1, <1>2, <1>3, <1>4, <1>5, <1>6, <1>7, <1>8 DEF TypeOK, SawType

LEMMA CommitOver == ASSUME Inv, NEW r \in Requests, Commit(r) PROVE NeverOverReceived'
<1>1. ASSUME NEW o \in DOMAIN orders', NEW p \in Products
      PROVE  received'[o][p] <= orders'[o].ordered[p]
  <2>1. CASE o \notin DOMAIN orders
    <3>1. received'[o][p] = 0
      BY <2>1, CommitReceived DEF None
    <3>2. orders'[o] \in Order
      BY <2>1, CommitOrders
    <3>. QED  BY <3>1, <3>2 DEF Order, Quantities
  <2>2. CASE o \in DOMAIN orders /\ ~(cmd[r].op = "finalize" /\ o = OrderOf(r))
    <3>1. received'[o] = received[o] /\ orders'[o].ordered = orders[o].ordered
      BY <2>2, CommitReceived, CommitOrders
    <3>2. received[o][p] <= orders[o].ordered[p]
      BY <2>2 DEF Inv, NeverOverReceived
    <3>. QED  BY <3>1, <3>2
  <2>3. CASE o \in DOMAIN orders /\ cmd[r].op = "finalize" /\ o = OrderOf(r)
    <3>1. /\ orders'[o].ordered = orders[o].ordered /\ saw[r].order.ordered = orders[o].ordered
          /\ received'[o][p] = IF p \in Lines(saw[r].receipt.qty)
                               THEN saw[r].received[p] + saw[r].receipt.qty[p] ELSE received[o][p]
      BY <2>3, CommitReceived, CommitOrders, CommitFacts
    <3>2. received[o][p] <= orders[o].ordered[p]
      BY <2>3 DEF Inv, NeverOverReceived
    <3>3. /\ saw[r].received[p] \in Nat /\ saw[r].receipt.qty[p] \in Nat
          /\ saw[r].order.ordered[p] \in Nat
      BY CommitFacts DEF SawType, Receipt, Order, Quantities
    <3>4. CASE p \in Lines(saw[r].receipt.qty)
      <4>1. LevelRow(p) \in held[r]
        BY <2>3, <3>4, CommitFacts DEF Moved
      <4>2. saw[r].receipt.qty[p] <= saw[r].order.ordered[p] - saw[r].received[p]
        BY <4>1 DEF Inv, Own, Lock, Fits, Remaining
      <4>3. received'[o][p] = saw[r].received[p] + saw[r].receipt.qty[p]
        BY <3>1, <3>4
      <4>4. orders'[o].ordered[p] = saw[r].order.ordered[p]
        BY <3>1
      <4>. QED  BY <3>3, <4>2, <4>3, <4>4
    <3>. QED  BY <3>1, <3>2, <3>4
  <2>. QED  BY <2>1, <2>2, <2>3
<1>. QED  BY <1>1 DEF NeverOverReceived

LEMMA CommitPosted == ASSUME Inv, NEW r \in Requests, Commit(r) PROVE ReceiptIsPosted'
<1>1. journals \subseteq journals'
  BY CommitJournals
<1>2. ASSUME NEW g \in DOMAIN receipts', receipts'[g].status = "finalized"
      PROVE  \E j \in journals' : j.what = "liability" /\ j.receipt = g
  <2>1. g \in DOMAIN receipts
    BY <1>2, CommitReceipts
  <2>2. CASE receipts[g].status = "finalized"
    BY <1>1, <2>1, <2>2 DEF Inv, ReceiptIsPosted
  <2>3. CASE cmd[r].op = "finalize" /\ g = cmd[r].receipt
    <3>1. Entry(r) \in journals' /\ Entry(r).what = "liability" /\ Entry(r).receipt = g
      BY <2>3, CommitJournals DEF Posts, Entry
    <3>. QED  BY <3>1
  <2>4. receipts'[g].status = receipts[g].status \/ (cmd[r].op = "finalize" /\ g = cmd[r].receipt)
    BY <2>1, CommitReceipts
  <2>. QED  BY <1>2, <2>2, <2>3, <2>4
<1>3. \A g \in DOMAIN receipts : receipts'[g].qty = receipts[g].qty
  BY CommitReceipts
<1>4. ASSUME NEW j \in journals', j.what = "liability"
      PROVE  j.moved = Lines(receipts'[j.receipt].qty)
  <2>1. CASE j \in journals
    <3>1. j.receipt \in DOMAIN receipts /\ j.moved = Lines(receipts[j.receipt].qty)
      BY <1>4, <2>1 DEF Inv, Entered, ReceiptIsPosted
    <3>2. receipts'[j.receipt].qty = receipts[j.receipt].qty
      BY <1>3, <3>1
    <3>. QED  BY <3>1, <3>2 DEF Lines
  <2>2. CASE j \notin journals
    <3>1. j = Entry(r) /\ Posts(r)
      BY <2>2, CommitJournals
    <3>2. cmd[r].op = "finalize" /\ j.receipt = cmd[r].receipt /\ j.moved = Moved(r)
      BY <1>4, <3>1 DEF Entry, Posts
    <3>3. j.receipt \in DOMAIN receipts /\ receipts[j.receipt].qty = saw[r].receipt.qty
          /\ j.moved = Lines(saw[r].receipt.qty)
      BY <3>2, CommitFacts
    <3>4. receipts'[j.receipt].qty = saw[r].receipt.qty
      BY <1>3, <3>3
    <3>. QED  BY <3>3, <3>4 DEF Lines
  <2>. QED  BY <2>1, <2>2
<1>5. ASSUME NEW j \in journals', j.what = "payment"
      PROVE  \E i \in Liabilities(j.order)' : i.no < j.no
  <2>1. Liabilities(j.order) \subseteq Liabilities(j.order)'
    BY CommitLiabilities
  <2>2. CASE j \in journals
    BY <1>5, <2>1, <2>2 DEF Inv, ReceiptIsPosted
  <2>3. CASE j \notin journals
    <3>1. j = Entry(r) /\ Posts(r)
      BY <2>3, CommitJournals
    <3>2. cmd[r].op = "pay" /\ j.order = OrderOf(r) /\ j.no = Cardinality(journals) + 1
      BY <1>5, <3>1, CommitJournals DEF Entry, Posts
    <3>3. Liabilities(OrderOf(r)) # {}
      BY <3>2, CommitFacts
         DEF Inv, Own, Copies, PastOrder, PastLines, PastLevels, PastCount, PastInsert
    <3>4. PICK i \in Liabilities(j.order) : TRUE
      BY <3>2, <3>3
    <3>5. i.no \in Nat /\ i.no <= Cardinality(journals) /\ Cardinality(journals) \in Nat
      BY <3>4, NextNumber DEF Inv, Liabilities
    <3>. QED  BY <2>1, <3>2, <3>4, <3>5
  <2>. QED  BY <2>2, <2>3
<1>6. (\A j \in journals : j.what = "payment" => \E i \in Liabilities(j.order) : i.no < j.no)'
  BY <1>5
<1>. QED  BY <1>2, <1>4, <1>6 DEF ReceiptIsPosted, Lines

LEMMA CommitEntered == ASSUME Inv, NEW r \in Requests, Commit(r) PROVE Entered'
<1>1. IsFiniteSet(journals')
  BY CommitJournals, FS_AddElement DEF Inv, Entered
<1>2. {j.no : j \in journals'} = 1..Cardinality(journals)'
  <2>1. {j.no : j \in journals} = 1..Cardinality(journals)
    BY DEF Inv, Entered
  <2>2. CASE Posts(r)
    <3>1. /\ journals' = journals \cup {Entry(r)} /\ Entry(r).no = Cardinality(journals) + 1
          /\ Cardinality(journals)' = Cardinality(journals) + 1 /\ Cardinality(journals) \in Nat
      BY <2>2, CommitJournals DEF Entry
    <3>2. {j.no : j \in journals'} = {j.no : j \in journals} \cup {Cardinality(journals) + 1}
      BY <3>1
    <3>3. \A n \in Nat : (1..n) \cup {n + 1} = 1..(n + 1)
      OBVIOUS
    <3>. QED  BY <2>1, <3>1, <3>2, <3>3
  <2>3. CASE ~Posts(r)
    BY <2>1, <2>3, CommitJournals
  <2>. QED  BY <2>2, <2>3
<1>3. ASSUME NEW i \in journals', NEW j \in journals', i.no = j.no PROVE i = j
  <2>1. \A x \in journals : x.no \in Nat /\ x.no <= Cardinality(journals)
    BY NextNumber DEF Inv
  <2>2. \A x \in journals' : x \in journals \/ (x = Entry(r) /\ x.no = Cardinality(journals) + 1)
    <3>1. Posts(r) => Entry(r).no = Cardinality(journals) + 1
      BY CommitJournals DEF Entry
    <3>. QED  BY <3>1, CommitJournals
  <2>3. \A x, y \in journals : x.no = y.no => x = y
    BY DEF Inv, Entered
  <2>4. Cardinality(journals) \in Nat
    BY CommitJournals
  <2>. QED  BY <1>3, <2>1, <2>2, <2>3, <2>4
<1>4. \A o \in DOMAIN orders : orders[o].status # "draft" =>
        o \in DOMAIN orders' /\ orders'[o].status # "draft"
  BY CommitOrders DEF NewStatus, Marks
<1>5. ASSUME NEW g \in DOMAIN receipts'
      PROVE  /\ receipts'[g].order \in DOMAIN orders'
             /\ orders'[receipts'[g].order].status # "draft"
             /\ Lines(receipts'[g].qty) # {}
  <2>1. CASE g \in DOMAIN receipts
    <3>1. receipts'[g].order = receipts[g].order /\ receipts'[g].qty = receipts[g].qty
      BY <2>1, CommitReceipts
    <3>2. /\ receipts[g].order \in DOMAIN orders /\ orders[receipts[g].order].status # "draft"
          /\ Lines(receipts[g].qty) # {}
      BY <2>1 DEF Inv, Entered
    <3>. QED  BY <1>4, <3>1, <3>2
  <2>2. CASE g \notin DOMAIN receipts
    <3>1. /\ cmd[r].op = "createReceipt" /\ receipts'[g].order = OrderOf(r)
          /\ receipts'[g].qty = cmd[r].qty
      BY <2>2, CommitReceipts
    <3>2. orders[OrderOf(r)].status # "draft" /\ OrderOf(r) \in DOMAIN orders
      BY <3>1, CommitFacts
         DEF Inv, Own, Copies, PastOrder, PastLines, PastLevels, PastCount, PastInsert
    <3>3. Lines(cmd[r].qty) # {}
      BY <3>1, CommitFacts DEF Inv, Own, Place, PastCount, PastInsert
    <3>. QED  BY <1>4, <3>1, <3>2, <3>3
  <2>. QED  BY <2>1, <2>2
<1>6. ASSUME NEW j \in journals', j.what = "liability"
      PROVE  j.receipt \in DOMAIN receipts' /\ receipts'[j.receipt].order = j.order
  <2>1. j.receipt \in DOMAIN receipts /\ receipts[j.receipt].order = j.order
    <3>1. CASE j \in journals
      BY <1>6, <3>1 DEF Inv, Entered
    <3>2. CASE j \notin journals
      <4>1. j = Entry(r) /\ Posts(r)
        BY <3>2, CommitJournals
      <4>2. cmd[r].op = "finalize" /\ j.receipt = cmd[r].receipt /\ j.order = OrderOf(r)
        BY <1>6, <4>1 DEF Entry, Posts
      <4>. QED  BY <4>2, CommitFacts
    <3>. QED  BY <3>1, <3>2
  <2>. QED  BY <2>1, CommitReceipts
<1>7. ASSUME NEW o \in DOMAIN orders', orders'[o].status \in {"partial", "received"}
      PROVE  Liabilities(o)' # {}
  <2>1. o \in DOMAIN orders
    BY <1>7, CommitOrders
  <2>2. CASE orders'[o].status = orders[o].status
    BY <1>7, <2>1, <2>2, CommitLiabilities DEF Inv, Entered
  <2>3. CASE Marks(r) /\ o = OrderOf(r) /\ orders'[o].status = NewStatus(r)
    <3>1. cmd[r].op = "finalize"
      BY <1>7, <2>3 DEF Marks, NewStatus
    <3>. QED  BY <2>3, <3>1, CommitLiabilities
  <2>. QED  BY <2>1, <2>2, <2>3, CommitOrders
<1>. QED  BY <1>1, <1>2, <1>3, <1>5, <1>6, <1>7 DEF Entered, Lines

\* What was read before the goods of an order came still was after a commit.
LEMMA StaysBefore ==
  ASSUME Inv, NEW r \in Requests, Commit(r), NEW o, NEW n \in Nat, n <= Cardinality(journals),
         \A j \in Liabilities(o) : n < j.no
  PROVE  \A j \in Liabilities(o)' : n < j.no
<1>1. \A j \in Liabilities(o)' : j \in Liabilities(o) \/ j.no = Cardinality(journals) + 1
  BY CommitLiabilities
<1>2. Cardinality(journals) \in Nat
  BY CommitJournals
<1>. QED  BY <1>1, <1>2

LEMMA CommitMarks ==
  ASSUME Inv, NEW r \in Requests, Commit(r), NEW o, NEW z \in Requests, LateMark(o, z)
  PROVE  LateMark(o, z)' /\ NewStatus(z)' = NewStatus(z)
<1>1. /\ cmd[z].op \in {"confirm", "cancel"} /\ cmd[z].order = o /\ pc[z] = "done"
      /\ \A j \in Liabilities(o) : saw[z].at < j.no
  BY DEF LateMark
<1>2. z # r /\ pc'[z] = "done" /\ cmd' = cmd /\ saw' = saw
  BY <1>1, CommitFacts
<1>3. saw[z].at \in Nat /\ saw[z].at <= Cardinality(journals)
  BY Types DEF SawType, Inv, Own, Copies
<1>4. \A j \in Liabilities(o)' : saw[z].at < j.no
  BY <1>1, <1>3, StaysBefore
<1>. QED  BY <1>1, <1>2, <1>4 DEF LateMark, NewStatus

\* The receipt that r finalizes adds its quantities to what was stocked.
LEMMA StockedAdds ==
  ASSUME Inv, NEW r \in Requests, Commit(r), cmd[r].op = "finalize", NEW o, o = OrderOf(r),
         NEW p \in Products
  PROVE  Stocked(o, p)' = Stocked(o, p) + saw[r].receipt.qty[p]
<1>e. PICK e : e = Entry(r)
  OBVIOUS
<1>l. PICK L : L = Liabilities(o)
  OBVIOUS
<1> DEFINE f == [j \in L |-> receipts[j.receipt].qty[p]]
           h == [j \in L \cup {e} |-> receipts'[j.receipt].qty[p]]
<1>1. /\ Liabilities(o)' = L \cup {e} /\ e \notin L
      /\ e.receipt \in DOMAIN receipts /\ receipts[e.receipt].qty = saw[r].receipt.qty
  BY <1>e, <1>l, CommitLiabilities, CommitFacts DEF Entry
<1>2. /\ IsFiniteSet(L)
      /\ \A j \in L : j.receipt \in DOMAIN receipts /\ receipts[j.receipt].qty[p] \in Nat
  BY <1>l, LiabilitiesType DEF Inv
<1>3. \A g \in DOMAIN receipts : receipts'[g].qty = receipts[g].qty
  BY CommitReceipts
<1>4. \A j \in L : h[j] = f[j] /\ h[j] \in Int
  BY <1>2, <1>3
<1>5. h[e] = saw[r].receipt.qty[p] /\ h[e] \in Int
  <2>1. saw[r].receipt.qty[p] \in Nat
    BY CommitFacts DEF SawType, Receipt, Quantities
  <2>. QED  BY <1>1, <1>3, <2>1
<1>6. Stocked(o, p) = SumFunctionOnSet(f, L)
  BY <1>l DEF Stocked, SumFunction
<1>7. Stocked(o, p)' = SumFunctionOnSet(h, L \cup {e})
  <2>1. Stocked(o, p)' = SumFunction(h)
    BY <1>1 DEF Stocked
  <2>2. DOMAIN h = L \cup {e}
    OBVIOUS
  <2> HIDE DEF h
  <2>. QED  BY <2>1, <2>2 DEF SumFunction
<1> HIDE DEF f, h
<1>8. SumFunctionOnSet(h, L) = SumFunctionOnSet(f, L)
  BY <1>2, <1>4, SumCongruence
<1>9. \A y \in L \cup {e} : h[y] \in Int
  BY <1>4, <1>5
<1>10. /\ SumFunctionOnSet(h, L) \in Int
       /\ SumFunctionOnSet(h, L \cup {e}) = h[e] + SumFunctionOnSet(h, L)
  BY <1>1, <1>2, <1>9, SumAdd
<1>. QED  BY <1>5, <1>6, <1>7, <1>8, <1>10

LEMMA CommitTotals == ASSUME Inv, NEW r \in Requests, Commit(r) PROVE Totals'
<1>1. ASSUME NEW o \in DOMAIN orders', o \notin DOMAIN orders PROVE TotalOf(o)' /\ StatusOf(o)'
  <2>1. cmd[r].op = "createOrder" /\ received'[o] = None
    BY <1>1, CommitOrders, CommitReceived
  <2>2. Liabilities(o)' = {}
    <3>1. Liabilities(o)' = Liabilities(o)
      BY <2>1, CommitLiabilities
    <3>2. Liabilities(o) = {}
      BY <1>1 DEF Liabilities, Inv, Entered
    <3>. QED  BY <3>1, <3>2
  <2>3. ASSUME NEW p \in Products PROVE received'[o][p] = Stocked(o, p)'
    <3>1. Stocked(o, p)' = SumFunction([j \in {} |-> receipts'[j.receipt].qty[p]])
      BY <2>2 DEF Stocked
    <3>2. SumFunction([j \in {} |-> receipts'[j.receipt].qty[p]]) = 0
      BY SumEmpty DEF SumFunction
    <3>. QED  BY <2>1, <3>1, <3>2 DEF None
  <2>. QED  BY <2>2, <2>3 DEF TotalOf, StatusOf
<1>2. ASSUME NEW o \in DOMAIN orders, ~(cmd[r].op = "finalize" /\ o = OrderOf(r))
      PROVE  TotalOf(o)' /\ StatusOf(o)'
  <2>1. /\ Liabilities(o)' = Liabilities(o) /\ received'[o] = received[o]
        /\ orders'[o].ordered = orders[o].ordered
    BY <1>2, CommitLiabilities, CommitReceived, CommitOrders
  <2>2. InSequence(o)' = InSequence(o)
    BY <2>1 DEF InSequence
  <2>3. StatusFor(o)' = StatusFor(o)
    BY <2>1 DEF StatusFor
  <2>4. \A p \in Products : Stocked(o, p)' = Stocked(o, p)
    <3>1. \A j \in Liabilities(o) : receipts'[j.receipt].qty = receipts[j.receipt].qty
      BY CommitReceipts, LiabilitiesType DEF Inv
    <3>. QED  BY <2>1, <3>1 DEF Stocked
  <2>5. TotalOf(o)'
    BY <2>1, <2>2, <2>4 DEF Inv, Totals, TotalOf
  <2>6. CASE orders'[o].status = orders[o].status
    BY <2>1, <2>2, <2>3, <2>5, <2>6, CommitMarks DEF Inv, Totals, StatusOf
  <2>7. CASE Marks(r) /\ o = OrderOf(r) /\ orders'[o].status = NewStatus(r)
    <3>1. cmd[r].op \in {"confirm", "cancel"} /\ cmd[r].order = o
      BY <1>2, <2>7 DEF Marks, OrderOf
    <3>2. InSequence(o) => Before(r)
      BY <3>1, CommitFacts
         DEF Inv, Own, Ahead, PastOrder, PastLines, PastLevels, PastCount, PastInsert
    <3>3. NewStatus(r)' = NewStatus(r)
      BY CommitFacts DEF NewStatus, Gets
    <3>4. InSequence(o) => LateMark(o, r)'
      BY <2>1, <3>1, <3>2, CommitFacts DEF LateMark, Before
    <3>. QED  BY <2>2, <2>5, <2>7, <3>3, <3>4 DEF StatusOf
  <2>. QED  BY <2>5, <2>6, <2>7, CommitOrders
<1>3. ASSUME NEW o, o = OrderOf(r), cmd[r].op = "finalize" PROVE TotalOf(o)' /\ StatusOf(o)'
  <2>1. SUFFICES ASSUME InSequence(o)'
                 PROVE  /\ \A p \in Products : received'[o][p] = Stocked(o, p)'
                        /\ \/ orders'[o].status = StatusFor(o)'
                           \/ \E z \in Requests :
                                LateMark(o, z)' /\ orders'[o].status = NewStatus(z)'
    BY DEF TotalOf, StatusOf
  <2>2. /\ o \in DOMAIN orders /\ InSequence(o)
        /\ orders'[o].ordered = orders[o].ordered
    BY <1>3, <2>1, CommitFacts, CommitLiabilities, CommitOrders
  <2>3. /\ saw[r].received = received[o]
        /\ \A p \in Products :
              /\ received[o][p] \in Nat /\ saw[r].receipt.qty[p] \in Nat
              /\ saw[r].order.ordered[p] \in Nat /\ saw[r].order.ordered[p] = orders[o].ordered[p]
              /\ received'[o][p] = received[o][p] + saw[r].receipt.qty[p]
              /\ received'[o][p] = Gets(r)[p]
        /\ \E p \in Products : received[o][p] < orders[o].ordered[p]
    BY <1>3, <2>1, InSequenceAdds
  <2>4. \A p \in Products : received'[o][p] = Stocked(o, p)'
    BY <1>3, <2>2, <2>3, StockedAdds DEF Inv, Totals, TotalOf
  <2>5. StatusFor(o)' = NewStatus(r)
    BY <1>3, <2>2, <2>3 DEF StatusFor, NewStatus
  <2>6. StatusFor(o) = "partial"
    <3>1. PICK p \in Products : received[o][p] < orders[o].ordered[p]
      BY <2>3
    <3>2. received[o][p] \in Nat /\ orders[o].ordered[p] \in Nat
      BY <2>3
    <3>3. ~(received[o][p] >= orders[o].ordered[p])
      BY <3>1, <3>2
    <3>. QED  BY <3>3 DEF StatusFor
  <2>7. CASE NewStatus(r) # saw[r].order.status
    BY <1>3, <2>2, <2>4, <2>5, <2>7, CommitOrders DEF Marks
  <2>8. CASE NewStatus(r) = saw[r].order.status
    <3>1. NewStatus(r) \in {"partial", "received"}
      BY <1>3 DEF NewStatus
    <3>2. /\ saw[r].order.status \in {"partial", "received"} => Liabilities(o) # {}
          /\ saw[r].order.status = "received" /\ InSequence(o) => StatusFor(o) = "received"
      BY <1>3, CommitFacts
         DEF Inv, Own, Copies, PastOrder, PastLines, PastLevels, PastCount, PastInsert
    <3>3. NewStatus(r) = "partial" /\ Liabilities(o) # {}
      BY <2>2, <2>6, <2>8, <3>1, <3>2
    <3>4. \/ orders[o].status = "partial"
          \/ \E z \in Requests : LateMark(o, z) /\ orders[o].status = NewStatus(z)
      BY <2>2, <2>6, <3>3 DEF Inv, Totals, StatusOf
    <3>5. orders'[o].status = orders[o].status \/ orders'[o].status = NewStatus(r)
      BY <1>3, <2>2, CommitOrders
    <3>. QED  BY <2>4, <2>5, <3>3, <3>4, <3>5, CommitMarks
  <2>. QED  BY <2>7, <2>8
<1>4. \A o \in DOMAIN orders' : TotalOf(o)' /\ StatusOf(o)'
  BY <1>1, <1>2, <1>3
<1>. QED  BY <1>4 DEF Totals

LEMMA CommitOwn == ASSUME Inv, NEW r \in Requests, Commit(r) PROVE Own(r)'
<1>0. pc'[r] = "done" /\ held'[r] = {} /\ UNCHANGED <<cmd, saw, num, cur>>
  BY CommitFacts
<1>1. "done" \in Finished /\ "done" \notin PastReceipt \cup {"insert", "write", "line"}
      /\ "done" \notin PastOrder /\ "done" \notin PastLines /\ "done" \notin PastLevels
      /\ "done" \notin PastCount /\ "done" \notin PastInsert
  BY DEF Finished, PastReceipt, PastOrder, PastLines, PastLevels, PastCount, PastInsert
<1>2. Place(r)'
  BY <1>0, <1>1 DEF Place
<1>3. Lock(r)'
  BY <1>0, <1>1 DEF Lock
<1>4. Serial(r)'
  BY <1>0, <1>1 DEF Serial
<1>5. Copies(r)'
  <2>1. saw[r].at \in Nat /\ saw[r].at <= Cardinality(journals)
    BY CommitFacts DEF SawType, Inv, Own, Copies
  <2>2. saw'[r].at <= Cardinality(journals)'
    BY <1>0, <2>1, CommitJournals
  <2>. QED  BY <1>0, <1>1, <2>2 DEF Copies
<1>6. Ahead(r)'
  <2>1. pc[r] \in PastOrder /\ pc[r] \in PastLines
    BY CommitFacts DEF PastOrder, PastLines, PastLevels, PastCount, PastInsert
  <2>2. PICK o : o = cmd[r].order
    OBVIOUS
  <2>3. cmd[r].op \in {"confirm", "cancel"} =>
          Liabilities(o)' = Liabilities(o) /\ (InSequence(o)' => InSequence(o))
    BY CommitLiabilities
  <2>4. cmd'[r].order = o
    BY <1>0, <2>2
  <2>. QED  BY <1>0, <2>1, <2>2, <2>3, <2>4 DEF Inv, Own, Ahead, Before
<1>. QED  BY <1>2, <1>3, <1>4, <1>5, <1>6 DEF Own

LEMMA CommitOthers ==
  ASSUME Inv, NEW r \in Requests, Commit(r), NEW b \in Requests, b # r
  PROVE  Own(b)'
<1>o. PICK o : o = OrderOf(b)
  OBVIOUS
<1>0. /\ pc'[b] = pc[b] /\ held'[b] = held[b] /\ UNCHANGED <<cmd, saw, num, cur>>
      /\ OrderOf(b)' = o
  BY <1>o, CommitFacts DEF OrderOf
<1>1. Place(b)'
  BY <1>0, CommitOrders, CommitReceipts DEF Inv, Own, Place, Lines
<1>2. Lock(b)'
  <2>1. \A p : Fits(b, p)' = Fits(b, p)
    BY <1>0 DEF Fits, Remaining, Lines
  <2>2. Left(b)' = Left(b)
    BY <1>0 DEF Left, Moved, Lines
  <2>. QED  BY <1>o, <1>0, <2>1, <2>2 DEF Inv, Own, Lock
<1>3. Serial(b)'
  <2>1. Posts(b) /\ pc[b] \in PastInsert => ~Posts(r)
    <3>1. SUFFICES ASSUME Posts(b), pc[b] \in PastInsert, Posts(r) PROVE FALSE
      OBVIOUS
    <3>2. num[b] = Cardinality(journals) + 1 /\ Number("journal", num[b]) \in held[b]
      BY <3>1 DEF Inv, Own, Serial, Posts
    <3>3. num[r] = Cardinality(journals) + 1 /\ Number("journal", num[r]) \in held[r]
      BY <3>1, CommitJournals
    <3>4. Number("journal", num[b]) \in held[b] \cap held[r]
      BY <3>2, <3>3
    <3>. QED  BY <3>4 DEF Inv, Exclusive
  <2>2. Posts(b) /\ pc[b] \in PastInsert => Cardinality(journals)' = Cardinality(journals)
    BY <2>1, CommitJournals
  <2>3. Posts(b) /\ pc[b] = "insert" => num[b] \in 1..Cardinality(journals)' + 1
    <3>1. Posts(b) /\ pc[b] = "insert" => num[b] \in 1..Cardinality(journals) + 1
      BY DEF Inv, Own, Serial, Posts
    <3>. QED  BY <3>1, CommitJournals
  <2>. QED  BY <1>0, <2>2, <2>3 DEF Inv, Own, Serial, Posts
<1>4. Copies(b)'
  <2>1. saw'[b].at <= Cardinality(journals)'
    <3>1. saw[b].at \in Nat /\ saw[b].at <= Cardinality(journals)
      BY Types DEF SawType, Inv, Own, Copies
    <3>. QED  BY <1>0, <3>1, CommitJournals
  <2>2. cmd[b].op = "finalize" /\ pc[b] \in PastReceipt =>
          /\ cmd[b].receipt \in DOMAIN receipts'
          /\ saw[b].receipt.order = receipts'[cmd[b].receipt].order
          /\ saw[b].receipt.qty = receipts'[cmd[b].receipt].qty
    BY CommitReceipts DEF Inv, Own, Copies
  <2>3. cmd[b].op # "createOrder" /\ pc[b] \in PastOrder =>
          /\ o \in DOMAIN orders' /\ saw[b].order.ordered = orders'[o].ordered
          /\ cmd[b].op = "pay" => Liabilities(o)' # {}
          /\ cmd[b].op = "createReceipt" => orders'[o].status # "draft"
    <3>1. SUFFICES ASSUME cmd[b].op # "createOrder", pc[b] \in PastOrder
                   PROVE  /\ o \in DOMAIN orders' /\ saw[b].order.ordered = orders'[o].ordered
                          /\ cmd[b].op = "pay" => Liabilities(o)' # {}
                          /\ cmd[b].op = "createReceipt" => orders'[o].status # "draft"
      OBVIOUS
    <3>2. /\ o \in DOMAIN orders /\ saw[b].order.ordered = orders[o].ordered
          /\ cmd[b].op = "pay" => Liabilities(o) # {}
          /\ cmd[b].op = "createReceipt" => orders[o].status # "draft"
      BY <1>o, <3>1 DEF Inv, Own, Copies
    <3>3. Marks(r) => NewStatus(r) # "draft"
      BY DEF Marks, NewStatus
    <3>4. orders[o].status # "draft" => orders'[o].status # "draft"
      BY <3>2, <3>3, CommitOrders
    <3>5. Liabilities(o) # {} => Liabilities(o)' # {}
      BY CommitLiabilities
    <3>. QED  BY <3>2, <3>4, <3>5, CommitOrders
  <2>4. ASSUME cmd[b].op = "finalize", pc[b] \in PastOrder
        PROVE  /\ saw[b].order.status \in {"partial", "received"} => Liabilities(o)' # {}
               /\ saw[b].order.status = "received" /\ InSequence(o)' => StatusFor(o)' = "received"
    <3>1. /\ o \in DOMAIN orders
          /\ saw[b].order.status \in {"partial", "received"} => Liabilities(o) # {}
          /\ saw[b].order.status = "received" /\ InSequence(o) => StatusFor(o) = "received"
      BY <1>o, <2>4 DEF Inv, Own, Copies
    <3>2. saw[b].order.status \in {"partial", "received"} => Liabilities(o)' # {}
      BY <3>1, CommitLiabilities
    <3>3. ASSUME saw[b].order.status = "received", InSequence(o)' PROVE StatusFor(o)' = "received"
      <4>1. InSequence(o) /\ StatusFor(o) = "received"
        BY <3>1, <3>3, CommitLiabilities
      <4>2. CASE cmd[r].op = "finalize" /\ o = OrderOf(r)
        <5>1. PICK p \in Products : received[o][p] < orders[o].ordered[p]
          BY <3>3, <4>2, InSequenceAdds
        <5>2. received[o][p] \in Nat /\ orders[o].ordered[p] \in Nat
          BY <3>3, <4>2, InSequenceAdds
        <5>3. received[o][p] >= orders[o].ordered[p]
          BY <4>1 DEF StatusFor
        <5>. QED  BY <5>1, <5>2, <5>3
      <4>3. CASE ~(cmd[r].op = "finalize" /\ o = OrderOf(r))
        <5>1. received'[o] = received[o] /\ orders'[o].ordered = orders[o].ordered
          BY <3>1, <4>3, CommitReceived, CommitOrders
        <5>. QED  BY <4>1, <5>1 DEF StatusFor
      <4>. QED  BY <4>2, <4>3
    <3>. QED  BY <3>2, <3>3
  <2>5. ASSUME cmd[b].op = "finalize", pc[b] \in PastLines,
               \A j \in Liabilities(o)' : j.no <= saw[b].at
        PROVE  saw[b].received = received'[o]
    <3>1. o \in DOMAIN orders
      BY <1>o, <2>5 DEF Inv, Own, Copies, PastOrder
    <3>2. ~(cmd[r].op = "finalize" /\ o = OrderOf(r))
      <4>1. SUFFICES ASSUME cmd[r].op = "finalize", o = OrderOf(r) PROVE FALSE
        OBVIOUS
      <4>2. Entry(r) \in Liabilities(o)' /\ Entry(r).no = Cardinality(journals) + 1
        BY <4>1, CommitLiabilities, CommitJournals DEF Posts, Entry
      <4>3. saw[b].at \in Nat /\ saw[b].at <= Cardinality(journals) /\ Cardinality(journals) \in Nat
        BY Types, CommitJournals DEF SawType, Inv, Own, Copies
      <4>. QED  BY <2>5, <4>2, <4>3
    <3>3. Liabilities(o)' = Liabilities(o) /\ received'[o] = received[o]
      BY <3>1, <3>2, CommitLiabilities, CommitReceived
    <3>4. saw[b].received = received[o]
      BY <1>o, <2>5, <3>3 DEF Inv, Own, Copies
    <3>. QED  BY <3>3, <3>4
  <2>. QED  BY <1>0, <2>1, <2>2, <2>3, <2>4, <2>5 DEF Copies
<1>5. Ahead(b)'
  <2>1. saw[b].at \in Nat /\ saw[b].at <= Cardinality(journals)
    BY Types DEF SawType, Inv, Own, Copies
  <2>2. PICK c : c = cmd[b].order
    OBVIOUS
  <2>3. PICK n : n = saw[b].at
    OBVIOUS
  <2>4. (\A j \in Liabilities(c) : n < j.no) => \A j \in Liabilities(c)' : n < j.no
    BY <2>1, <2>3, StaysBefore
  <2>5. InSequence(c)' => InSequence(c)
    BY CommitLiabilities
  <2>6. cmd'[b] = cmd[b] /\ cmd'[b].order = c /\ saw'[b].at = n
    BY <1>0, <2>2, <2>3
  <2>. QED  BY <1>0, <2>2, <2>3, <2>4, <2>5, <2>6 DEF Inv, Own, Ahead, Before
<1>. QED  BY <1>1, <1>2, <1>3, <1>4, <1>5 DEF Own

LEMMA CommitStep == ASSUME Inv, NEW r \in Requests, Commit(r) PROVE Inv'
<1>1. TypeOK' /\ NeverOverReceived' /\ ReceiptIsPosted' /\ Entered' /\ Totals'
  BY CommitType, CommitOver, CommitPosted, CommitEntered, CommitTotals
<1>2. \A q \in Requests : Own(q)'
  BY CommitOwn, CommitOthers
<1>3. Exclusive'
  BY CommitFacts DEF Inv, Exclusive
<1>4. held' = [q \in Requests |-> held'[q]]
  BY CommitFacts
<1>. QED  BY <1>1, <1>2, <1>3, <1>4 DEF Inv

-----------------------------------------------------------------------------
(* The theorems *)

\* Steps that no request takes, or that change nothing.
LEMMA KeyStep ==
  ASSUME Inv, keyRow' \in [Keys -> Requests \cup {Nobody, Elsewhere}],
         UNCHANGED <<orders, received, receipts, onhand, journals, pc, cmd, copies, held>>
  PROVE  Inv'
<1>0. /\ UNCHANGED <<orders, received, receipts, onhand, journals, pc, cmd>>
      /\ UNCHANGED <<saw, level, cur, num, held>>
  BY DEF copies
<1>1. TypeOK' /\ NeverOverReceived' /\ ReceiptIsPosted' /\ Entered' /\ Exclusive'
      /\ held' = [q \in Requests |-> held'[q]]
  BY <1>0
     DEF Inv, TypeOK, NeverOverReceived, ReceiptIsPosted, Entered, Exclusive, Liabilities, Lines
<1>2. /\ \A o : /\ Liabilities(o)' = Liabilities(o) /\ InSequence(o)' = InSequence(o)
                /\ StatusFor(o)' = StatusFor(o)
                /\ \A p : Stocked(o, p)' = Stocked(o, p)
      /\ \A q : OrderOf(q)' = OrderOf(q) /\ NewStatus(q)' = NewStatus(q)
  BY <1>0 DEF Liabilities, InSequence, StatusFor, Stocked, OrderOf, NewStatus, Gets
<1>3. Totals'
  BY <1>0, <1>2 DEF Inv, Totals, TotalOf, StatusOf, LateMark
<1>4. ASSUME NEW q \in Requests PROVE Own(q)'
  <2>1. Place(q)'
    BY <1>0 DEF Inv, Own, Place, Lines
  <2>2. Lock(q)'
    BY <1>0, <1>2 DEF Inv, Own, Lock, Fits, Remaining, Left, Moved, Lines
  <2>3. Serial(q)'
    BY <1>0 DEF Inv, Own, Serial
  <2>4. Copies(q)'
    BY <1>0, <1>2 DEF Inv, Own, Copies
  <2>5. Ahead(q)'
    BY <1>0, <1>2 DEF Inv, Own, Ahead, Before
  <2>. QED  BY <2>1, <2>2, <2>3, <2>4, <2>5 DEF Own
<1>. QED  BY <1>1, <1>3, <1>4 DEF Inv

LEMMA ElsewhereStep == ASSUME Inv, NEW k \in Keys, StoreElsewhere(k) PROVE Inv'
<1>1. keyRow' \in [Keys -> Requests \cup {Nobody, Elsewhere}]
  BY DEF StoreElsewhere, Inv, TypeOK
<1>2. UNCHANGED <<orders, received, receipts, onhand, journals, pc, cmd, copies, held>>
  BY DEF StoreElsewhere
<1>. QED  BY <1>1, <1>2, KeyStep

LEMMA QuietStep == ASSUME Inv, UNCHANGED vars PROVE Inv'
<1>1. keyRow' \in [Keys -> Requests \cup {Nobody, Elsewhere}]
  BY DEF vars, Inv, TypeOK
<1>2. UNCHANGED <<orders, received, receipts, onhand, journals, pc, cmd, copies, held>>
  BY DEF vars, copies
<1>. QED  BY <1>1, <1>2, KeyStep

LEMMA InvStep == Inv /\ [Next]_vars => Inv'
<1> SUFFICES ASSUME Inv, [Next]_vars PROVE Inv'
  OBVIOUS
<1>1. ASSUME NEW r \in Requests, Serve(r) \/ Crash(r) PROVE Inv'
  <2>1. CASE Ends(r)
    BY <2>1, EndsStep
  <2>2. CASE Proceed(r) \/ LoadReceipt(r) \/ LoadOrder(r) \/ LoadLines(r)
    BY <2>2, ProceedStep, LoadReceiptStep, LoadOrderStep, LoadLinesStep
  <2>3. CASE ReadLevel(r) \/ Count(r) \/ Recheck(r)
    BY <2>3, ReadLevelStep, CountStep, RecheckStep
  <2>4. CASE WriteLevel(r) \/ WriteLine(r) \/ Insert(r)
    BY <2>4, WriteLevelStep, WriteLineStep, InsertStep
  <2>5. CASE MarkReceipt(r) \/ MarkOrder(r) \/ ClaimKey(r)
    BY <2>5, MarkReceiptStep, MarkOrderStep, ClaimKeyStep
  <2>6. CASE Commit(r)
    BY <2>6, CommitStep
  <2>. QED  BY <1>1, <2>1, <2>2, <2>3, <2>4, <2>5, <2>6 DEF Serve, Ends
<1>2. ASSUME NEW k \in Keys, StoreElsewhere(k) PROVE Inv'
  BY <1>2, ElsewhereStep
<1>3. CASE UNCHANGED vars
  BY <1>3, QuietStep
<1>. QED  BY <1>1, <1>2, <1>3 DEF Next, Quiescent

\* The invariant: where each request is, what it holds, what its copies still
\* say, and what the rows of orders, receipts and journals add up to.
THEOREM Invariant == Spec => []Inv
<1>. QED  BY InitInv, InvStep, PTL DEF Spec

\* Every row and every copy has its type, and a finished request holds no lock.
THEOREM TypesOK == Spec => []TypeOK
<1>1. Inv => TypeOK
  BY DEF Inv
<1>. QED  BY <1>1, Invariant, PTL

\* Whatever receipts race to be finalized (finalize_receipt), no line of an
\* order shows more received than ordered.
THEOREM NothingOverReceived == Spec => []NeverOverReceived
<1>1. Inv => NeverOverReceived
  BY DEF Inv
<1>. QED  BY <1>1, Invariant, PTL

\* A finalized receipt has its liability, a liability has stocked every line of
\* its receipt, and record_payment pays only for an order that has one.
THEOREM ReceiptsArePosted == Spec => []ReceiptIsPosted
<1>1. Inv => ReceiptIsPosted
  BY DEF Inv
<1>. QED  BY <1>1, Invariant, PTL

\* Without overlapping receipts, the received quantities of an order are the sum
\* of its receipts and its status is what they add up to, but for a confirmation
\* or cancellation that had read the order before any goods came.
THEOREM TotalsAreSums == Spec => []TotalsFollowReceipts
<1>1. Inv => TotalsFollowReceipts
  BY DEF Inv, Totals, TotalOf, StatusOf, TotalsFollowReceipts
<1>. QED  BY <1>1, Invariant, PTL
=============================================================================
