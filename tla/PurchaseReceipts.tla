--------------------------- MODULE PurchaseReceipts ---------------------------
(***************************************************************************)
(* PurchasingService (core_platform/purchasing/service.py): purchase       *)
(* orders, goods receipts against them and supplier payments, as several   *)
(* HTTP requests run them at the same time, with the stock, journal and    *)
(* idempotency rows they write.                                            *)
(*                                                                         *)
(* Transactions and steps are those of StockLedger and SalesDocuments.  A  *)
(* finalization reads the receipt, its order and the order's lines one     *)
(* statement after the other and computes everything it writes from these  *)
(* copies: the lines' quantity_received as absolute values, and the status *)
(* of the order.                                                           *)
(*                                                                         *)
(* Abstracted: an order has one line per product, a receipt one line per   *)
(* order line, and costs are told apart only by being positive.            *)
(***************************************************************************)
EXTENDS Integers, FiniteSets, Functions

CONSTANTS Requests,    \* HTTP requests; they name what they create
          Existing,    \* orders and receipts there are at the start
          NoOrder, NoReceipt,
          Products, Keys, NoKey, Nobody,
          Elsewhere,   \* the idempotency row of another service's command
          Workloads,   \* what the requests may ask for, together
          OpeningOrders, OpeningReceived, OpeningReceipts, OpeningStock, OpeningJournals

Ids == Existing \cup Requests
Statuses == {"draft", "confirmed", "partial", "received", "cancelled"}
Ops == {"createOrder", "confirm", "cancel", "createReceipt", "finalize", "pay"}
Quantities == [Products -> Nat]

Order == [status: Statuses, no: Nat, ordered: Quantities, priced: BOOLEAN]
Receipt == [order: Ids, status: {"draft", "finalized"}, no: Nat, qty: Quantities]

\* "qty" is what is ordered or received, zero for a product without a line.
Command == [op: Ops, order: Ids \cup {NoOrder}, receipt: Ids \cup {NoReceipt},
            qty: Quantities, key: Keys \cup {NoKey}]

\* A journal entry; "loaded" counts the entries there were when its request
\* read the lines of the order.
Journal == [no: Nat, what: {"liability", "payment"}, order: Ids,
            receipt: Ids \cup {NoReceipt}, by: Requests \cup {Nobody},
            moved: SUBSET Products, loaded: Nat]

ASSUME WorkloadsAssumption == Workloads \subseteq [Requests -> Command]
ASSUME NamesAssumption ==
  /\ NoKey \notin Keys /\ Nobody # Elsewhere
  /\ Nobody \notin Requests /\ Elsewhere \notin Requests
  /\ Existing \cap Requests = {} /\ NoOrder \notin Ids /\ NoReceipt \notin Ids
  /\ Products # {}
ASSUME FiniteAssumption == IsFiniteSet(Requests) /\ IsFiniteSet(Existing)
ASSUME OpeningAssumption ==
  /\ DOMAIN OpeningOrders \subseteq Existing /\ DOMAIN OpeningReceipts \subseteq Existing
  /\ OpeningOrders \in [DOMAIN OpeningOrders -> Order]
  /\ OpeningReceived \in [DOMAIN OpeningOrders -> Quantities]
  /\ OpeningReceipts \in [DOMAIN OpeningReceipts -> Receipt]
  /\ OpeningStock \in Quantities
  /\ OpeningJournals \subseteq Journal /\ IsFiniteSet(OpeningJournals)

\* Requests that ran one after the other have left the opening rows.
OpeningLiabilities(o) == {j \in OpeningJournals : j.what = "liability" /\ j.order = o}
ASSUME PastAssumption ==
  /\ {j.no : j \in OpeningJournals} = 1..Cardinality(OpeningJournals)
  /\ \A i, j \in OpeningJournals : i.no = j.no => i = j
  /\ \A g \in DOMAIN OpeningReceipts :
       LET receipt == OpeningReceipts[g] IN
         /\ receipt.order \in DOMAIN OpeningOrders
         /\ OpeningOrders[receipt.order].status # "draft"
         /\ \E p \in Products : receipt.qty[p] > 0
         /\ receipt.status = "finalized" =>
              \E j \in OpeningLiabilities(receipt.order) : j.receipt = g
  /\ \A j \in OpeningJournals :
       CASE j.what = "payment" -> \E i \in OpeningLiabilities(j.order) : i.no < j.no
         [] j.what = "liability" ->
              /\ j.order \in DOMAIN OpeningOrders /\ j.receipt \in DOMAIN OpeningReceipts
              /\ OpeningReceipts[j.receipt].order = j.order
              /\ j.moved = {p \in Products : OpeningReceipts[j.receipt].qty[p] > 0}
  /\ \A o \in DOMAIN OpeningOrders :
       LET order == OpeningOrders[o] IN
         /\ \A p \in Products :
              /\ OpeningReceived[o][p] <= order.ordered[p]
              /\ OpeningReceived[o][p] =
                   SumFunction([j \in OpeningLiabilities(o) |-> OpeningReceipts[j.receipt].qty[p]])
         /\ IF OpeningLiabilities(o) = {} THEN order.status \notin {"partial", "received"}
            ELSE order.status = (IF \A p \in Products : OpeningReceived[o][p] >= order.ordered[p]
                                 THEN "received" ELSE "partial")

VARIABLES
  \* committed
  orders,    \* purchase orders
  received,  \* received[o][p]: quantity_received of the line of p
  receipts,  \* goods receipts
  onhand,    \* stock level of each product at the receipts' location
  journals,  \* journal entries; a payment's stands for its payment row too
  keyRow,    \* keyRow[k]: the request that stored the idempotency row of k
  \* per request
  pc, cmd,
  saw,       \* its copies of receipt, order and received quantities, and the
             \* number of journals when it last read the order or its lines
  level,     \* on-hand values it has read
  cur,       \* the product it is moving
  num,       \* the number it has computed
  held       \* rows it has written and unique keys it has inserted

db == <<orders, received, receipts, onhand, journals, keyRow>>
copies == <<saw, level, cur, num>>
vars == <<orders, received, receipts, onhand, journals, keyRow,
          pc, cmd, saw, level, cur, num, held>>

InFlight == {"lookup", "receipt", "order", "lines", "level", "write", "line", "count",
             "insert", "markReceipt", "markOrder", "recheck", "claim", "commit"}
Finished == {"done", "replayed", "failed"}

None == [p \in Products |-> 0]
Unread == [receipt |-> [order |-> CHOOSE o \in Ids : TRUE, status |-> "draft", no |-> 0, qty |-> None],
           order |-> [status |-> "draft", no |-> 0, ordered |-> None, priced |-> FALSE],
           received |-> None, at |-> 0]

\* Only finalizing and paying take an idempotency key.
Keyed(c) == c.key # NoKey /\ c.op \in {"finalize", "pay"}

\* The first statement of an operation after the lookup.
Start(op) ==
  CASE op = "createOrder" -> "count"
    [] op = "finalize" -> "receipt"
    [] OTHER -> "order"

Init ==
  /\ orders = OpeningOrders /\ received = OpeningReceived /\ receipts = OpeningReceipts
  /\ onhand = OpeningStock /\ journals = OpeningJournals
  /\ keyRow = [k \in Keys |-> Nobody]
  /\ cmd \in Workloads
  /\ pc = [r \in Requests |-> IF Keyed(cmd[r]) THEN "lookup" ELSE Start(cmd[r].op)]
  /\ saw = [r \in Requests |-> Unread]
  /\ level = [r \in Requests |-> None]
  /\ cur = [r \in Requests |-> CHOOSE p \in Products : TRUE]
  /\ num = [r \in Requests |-> 0]
  /\ held = [r \in Requests |-> {}]

Goto(r, label) == pc' = [pc EXCEPT ![r] = label]

-----------------------------------------------------------------------------
(* Locks: rows a request has updated and unique values it has inserted *)

OrderOf(r) == IF cmd[r].op = "finalize" THEN saw[r].receipt.order ELSE cmd[r].order

LevelRow(p) == <<"level", p>>
LineRow(o, p) == <<"line", o, p>>
OrderRow(o) == <<"order", o>>
ReceiptRow(g) == <<"receipt", g>>
Number(series, n) == <<"number", series, n>>
KeyValue(k) == <<"key", k>>

Series(r) ==
  CASE cmd[r].op = "createOrder" -> "order"
    [] cmd[r].op = "createReceipt" -> "receipt"
    [] OTHER -> "journal"

Numbers(series) ==
  CASE series = "order" -> {orders[o].no : o \in DOMAIN orders}
    [] series = "receipt" -> {receipts[g].no : g \in DOMAIN receipts}
    [] series = "journal" -> {j.no : j \in journals}

\* What the next statement of r locks.
Wants(r) ==
  CASE pc[r] = "write" -> {LevelRow(cur[r])}
    [] pc[r] = "line" -> {LineRow(OrderOf(r), cur[r])}
    [] pc[r] = "markReceipt" -> {ReceiptRow(cmd[r].receipt)}
    [] pc[r] = "markOrder" -> {OrderRow(OrderOf(r))}
    [] pc[r] = "insert" -> {Number(Series(r), num[r])}
    [] pc[r] = "claim" -> {KeyValue(cmd[r].key)}
    [] OTHER -> {}

WaitsFor(r, b) == r # b /\ Wants(r) \cap held[b] # {}
Waits(r) == \E b \in Requests : WaitsFor(r, b)

InDeadlock_Undetected(r) == FALSE
\* r is on a cycle of waiting transactions.
InDeadlock(r) ==
  Waits(r) /\ \E S \in SUBSET Requests :
    /\ r \in S
    /\ \A a \in S : (\E b \in S : WaitsFor(a, b)) /\ (\E b \in S : WaitsFor(b, a))

\* The statement at label "at" gets its locks and is done.
Write(r, at, next) ==
  /\ pc[r] = at /\ ~Waits(r)
  /\ held' = [held EXCEPT ![r] = @ \cup Wants(r)]
  /\ Goto(r, next)
  /\ UNCHANGED <<db, cmd, copies>>

Release_KeepLocks(r) == UNCHANGED held
Release(r) == held' = [held EXCEPT ![r] = {}]

Rollback(r) ==
  /\ Goto(r, "failed")
  /\ Release(r)
  /\ UNCHANGED <<db, cmd, copies>>

-----------------------------------------------------------------------------
(* idem.lookup, and the SELECTs of receipt, order and lines *)

\* The row answers if its resource is of the kind the operation loads.
HasPrior(r) ==
  /\ keyRow[cmd[r].key] \in Requests
  /\ cmd[keyRow[cmd[r].key]].op = cmd[r].op

Replay(r) ==
  /\ pc[r] = "lookup" /\ HasPrior(r)
  /\ Goto(r, "replayed")
  /\ Release(r)
  /\ UNCHANGED <<db, cmd, copies>>

Proceed(r) ==
  /\ pc[r] = "lookup" /\ ~HasPrior(r)
  /\ Goto(r, Start(cmd[r].op))
  /\ UNCHANGED <<db, cmd, copies, held>>

IsDraft(g) == g \in DOMAIN receipts /\ receipts[g].status = "draft"

LoadReceipt(r) ==
  /\ pc[r] = "receipt" /\ IsDraft(cmd[r].receipt)
  /\ saw' = [saw EXCEPT ![r].receipt = receipts[cmd[r].receipt]]
  /\ Goto(r, "order")
  /\ UNCHANGED <<db, cmd, level, cur, num, held>>

RejectReceipt(r) == pc[r] = "receipt" /\ ~IsDraft(cmd[r].receipt) /\ Rollback(r)

\* The statuses each operation accepts; finalize_receipt does not look.
Accepts(op) ==
  CASE op = "confirm" -> {"draft"}
    [] op = "cancel" -> {"draft", "confirmed"}
    [] op = "createReceipt" -> {"confirmed", "partial"}
    [] op = "pay" -> {"partial", "received"}
    [] op = "finalize" -> Statuses

Acceptable(r) ==
  OrderOf(r) \in DOMAIN orders /\ orders[OrderOf(r)].status \in Accepts(cmd[r].op)

AfterOrder(op) ==
  CASE op = "confirm" -> "markOrder" [] op = "pay" -> "count" [] OTHER -> "lines"

LoadOrder(r) ==
  /\ pc[r] = "order" /\ Acceptable(r)
  /\ saw' = [saw EXCEPT ![r].order = orders[OrderOf(r)], ![r].at = Cardinality(journals)]
  /\ Goto(r, AfterOrder(cmd[r].op))
  /\ UNCHANGED <<db, cmd, level, cur, num, held>>

RejectOrder(r) == pc[r] = "order" /\ ~Acceptable(r) /\ Rollback(r)

\* cancel_order refuses once something was received.
Refused(r) ==
  cmd[r].op = "cancel" /\ \E p \in Products : received[OrderOf(r)][p] > 0

AfterLines(op) ==
  CASE op = "cancel" -> "markOrder" [] op = "finalize" -> "level" [] OTHER -> "count"

LoadLines(r) ==
  /\ pc[r] = "lines" /\ ~Refused(r)
  /\ saw' = [saw EXCEPT ![r].received = received[OrderOf(r)], ![r].at = Cardinality(journals)]
  /\ Goto(r, AfterLines(cmd[r].op))
  /\ UNCHANGED <<db, cmd, level, cur, num, held>>

RejectLines(r) == pc[r] = "lines" /\ Refused(r) /\ Rollback(r)

-----------------------------------------------------------------------------
(* Finalization, one line after the other, in any order *)

Lines(q) == {p \in Products : q[p] > 0}
Moved(r) == {p \in Products : LevelRow(p) \in held[r]}
Left(r) == Lines(saw[r].receipt.qty) \ Moved(r)

Remaining_Ordered(r, p) == saw[r].order.ordered[p]
Remaining(r, p) == saw[r].order.ordered[p] - saw[r].received[p]

ReadLevel(r) ==
  /\ pc[r] = "level"
  /\ \E p \in Left(r) :
       /\ saw[r].receipt.qty[p] <= Remaining(r, p)
       /\ cur' = [cur EXCEPT ![r] = p]
       /\ level' = [level EXCEPT ![r][p] = onhand[p]]
  /\ Goto(r, "write")
  /\ UNCHANGED <<db, cmd, saw, num, held>>

RejectOver(r) ==
  /\ pc[r] = "level"
  /\ \E p \in Left(r) : saw[r].receipt.qty[p] > Remaining(r, p)
  /\ Rollback(r)

WriteLevel(r) == Write(r, "write", "line")

AfterLine_First(r) == "count"
AfterLine(r) == IF Left(r) = {} THEN "count" ELSE "level"

\* The line's quantity_received is flushed by the next statement.
WriteLine(r) == Write(r, "line", AfterLine(r))

-----------------------------------------------------------------------------
(* Numbered rows, statuses, the key and the commit *)

\* post_entry refuses a liability that is not positive, create_order an order
\* without lines.
Empty(r) ==
  \/ cmd[r].op = "finalize" /\ ~saw[r].order.priced
  \/ cmd[r].op \in {"createOrder", "createReceipt"} /\ Lines(cmd[r].qty) = {}

RejectEmpty(r) == pc[r] = "count" /\ Empty(r) /\ Rollback(r)

Count(r) ==
  /\ pc[r] = "count" /\ ~Empty(r)
  /\ num' = [num EXCEPT ![r] = Cardinality(Numbers(Series(r))) + 1]
  /\ Goto(r, "insert")
  /\ UNCHANGED <<db, cmd, saw, level, cur, held>>

KeyOrCommit(r) == IF Keyed(cmd[r]) THEN "recheck" ELSE "commit"

Insert(r) ==
  /\ pc[r] = "insert" /\ num[r] \notin Numbers(Series(r))
  /\ Write(r, "insert", IF cmd[r].op = "finalize" THEN "markReceipt" ELSE KeyOrCommit(r))

\* uq_po_biz_number, uq_grn_biz_number, uq_journal_biz_number
InsertClash(r) ==
  /\ pc[r] = "insert" /\ ~Waits(r) /\ num[r] \in Numbers(Series(r))
  /\ Rollback(r)

MarkReceipt(r) == Write(r, "markReceipt", "markOrder")
MarkOrder(r) == Write(r, "markOrder", KeyOrCommit(r))

Recheck(r) ==
  /\ pc[r] = "recheck"
  /\ Goto(r, IF keyRow[cmd[r].key] = Nobody THEN "claim" ELSE "commit")
  /\ UNCHANGED <<db, cmd, copies, held>>

ClaimKey(r) ==
  /\ pc[r] = "claim" /\ keyRow[cmd[r].key] = Nobody
  /\ Write(r, "claim", "commit")

ClaimClash(r) ==
  /\ pc[r] = "claim" /\ ~Waits(r) /\ keyRow[cmd[r].key] # Nobody
  /\ Rollback(r)

\* create_receipt checks its lines against the copy, after the insert.
Excessive(r) ==
  cmd[r].op = "createReceipt" /\ \E p \in Products : cmd[r].qty[p] > Remaining(r, p)

RejectExcessive(r) == pc[r] = "commit" /\ Excessive(r) /\ Rollback(r)

Gets_This(r) == saw[r].receipt.qty
Gets(r) == [p \in Products |-> saw[r].received[p] + saw[r].receipt.qty[p]]

NewStatus(r) ==
  CASE cmd[r].op = "confirm" -> "confirmed"
    [] cmd[r].op = "cancel" -> "cancelled"
    [] cmd[r].op = "finalize" ->
         IF \A p \in Products : Gets(r)[p] >= saw[r].order.ordered[p]
         THEN "received" ELSE "partial"

\* An UPDATE sets a status only if it differs from the copy.
OrdersAfter(r) ==
  [o \in DOMAIN orders \cup (IF cmd[r].op = "createOrder" THEN {r} ELSE {}) |->
     IF o = r THEN [status |-> "draft", no |-> num[r], ordered |-> cmd[r].qty, priced |-> TRUE]
     ELSE IF OrderRow(o) \in held[r] /\ NewStatus(r) # saw[r].order.status
     THEN [orders[o] EXCEPT !.status = NewStatus(r)]
     ELSE orders[o]]

ReceivedAfter(r) ==
  [o \in DOMAIN OrdersAfter(r) |->
     IF o = r THEN None
     ELSE [p \in Products |-> IF LineRow(o, p) \in held[r] THEN Gets(r)[p] ELSE received[o][p]]]

ReceiptsAfter(r) ==
  [g \in DOMAIN receipts \cup (IF cmd[r].op = "createReceipt" THEN {r} ELSE {}) |->
     IF g = r THEN [order |-> cmd[r].order, status |-> "draft", no |-> num[r], qty |-> cmd[r].qty]
     ELSE IF ReceiptRow(g) \in held[r] THEN [receipts[g] EXCEPT !.status = "finalized"]
     ELSE receipts[g]]

Posting(r) ==
  IF cmd[r].op \notin {"finalize", "pay"} THEN {}
  ELSE {[no |-> num[r], what |-> IF cmd[r].op = "pay" THEN "payment" ELSE "liability",
         order |-> OrderOf(r), receipt |-> cmd[r].receipt, by |-> r,
         moved |-> Moved(r), loaded |-> saw[r].at]}

Commit(r) ==
  /\ pc[r] = "commit" /\ ~Excessive(r)
  /\ Goto(r, "done")
  /\ orders' = OrdersAfter(r)
  /\ received' = ReceivedAfter(r)
  /\ receipts' = ReceiptsAfter(r)
  /\ onhand' = [p \in Products |->
                  IF p \in Moved(r) THEN level[r][p] + saw[r].receipt.qty[p] ELSE onhand[p]]
  /\ journals' = journals \cup Posting(r)
  /\ keyRow' = [k \in Keys |-> IF KeyValue(k) \in held[r] THEN r ELSE keyRow[k]]
  /\ Release(r)
  /\ UNCHANGED <<cmd, copies>>

-----------------------------------------------------------------------------
DeadlockVictim(r) == InDeadlock(r) /\ Rollback(r)

\* The process, the connection or the client goes away before the commit.
Crash(r) == pc[r] \in InFlight /\ Rollback(r)

Serve(r) ==
  \/ Replay(r) \/ Proceed(r)
  \/ LoadReceipt(r) \/ RejectReceipt(r) \/ LoadOrder(r) \/ RejectOrder(r)
  \/ LoadLines(r) \/ RejectLines(r)
  \/ ReadLevel(r) \/ RejectOver(r) \/ WriteLevel(r) \/ WriteLine(r)
  \/ RejectEmpty(r) \/ Count(r) \/ Insert(r) \/ InsertClash(r)
  \/ MarkReceipt(r) \/ MarkOrder(r)
  \/ Recheck(r) \/ ClaimKey(r) \/ ClaimClash(r)
  \/ RejectExcessive(r) \/ Commit(r) \/ DeadlockVictim(r)

\* A command of another service uses the key.
StoreElsewhere(k) ==
  /\ keyRow[k] = Nobody /\ \A r \in Requests : KeyValue(k) \notin held[r]
  /\ keyRow' = [keyRow EXCEPT ![k] = Elsewhere]
  /\ UNCHANGED <<orders, received, receipts, onhand, journals, pc, cmd, copies, held>>

Quiescent == (\A r \in Requests : pc[r] \in Finished) /\ UNCHANGED vars

Next ==
  \/ \E r \in Requests : Serve(r) \/ Crash(r)
  \/ \E k \in Keys : StoreElsewhere(k)
  \/ Quiescent

Spec == Init /\ [][Next]_vars

\* As in StockLedger: requests run when their statement has returned.
FairSpec == Spec /\ \A r \in Requests : WF_vars(Serve(r))

-----------------------------------------------------------------------------
(* Properties *)

\* Types, and a finished request holds no lock.
TypeOK ==
  /\ DOMAIN orders \subseteq Ids /\ \A o \in DOMAIN orders : orders[o] \in Order
  /\ DOMAIN receipts \subseteq Ids /\ \A g \in DOMAIN receipts : receipts[g] \in Receipt
  /\ received \in [DOMAIN orders -> Quantities]
  /\ onhand \in Quantities
  /\ journals \in SUBSET Journal
  /\ keyRow \in [Keys -> Requests \cup {Nobody, Elsewhere}]
  /\ pc \in [Requests -> InFlight \cup Finished]
  /\ cmd \in [Requests -> Command]
  /\ saw \in [Requests -> [receipt: Receipt, order: Order, received: Quantities, at: Nat]]
  /\ level \in [Requests -> Quantities]
  /\ cur \in [Requests -> Products]
  /\ num \in [Requests -> Nat]
  /\ \A r \in Requests : pc[r] \in Finished => held[r] = {}

Liabilities(o) == {j \in journals : j.what = "liability" /\ j.order = o}

\* Whatever receipts race, no line of an order shows more received than
\* ordered: each total is computed from a total that left room for it.
NeverOverReceived ==
  \A o \in DOMAIN orders : \A p \in Products : received[o][p] <= orders[o].ordered[p]

\* A finalized receipt has posted its liability, and a liability has stocked
\* every line of its receipt: none of status, stock and money without the others.
\* The supplier is paid only after goods of the order were posted, even if the
\* order's status has changed in the meantime.
ReceiptIsPosted ==
  /\ \A g \in DOMAIN receipts : receipts[g].status = "finalized" =>
       \E j \in journals : j.what = "liability" /\ j.receipt = g
  /\ \A j \in journals : j.what = "liability" => j.moved = Lines(receipts[j.receipt].qty)
  /\ \A j \in journals : j.what = "payment" => \E i \in Liabilities(j.order) : i.no < j.no

\* Each receipt of order o was finalized by a request that had seen the ones
\* before it.
InSequence(o) ==
  \A i, j \in Liabilities(o) : i.no < j.no => j.loaded >= i.no

Stocked(o, p) == SumFunction([j \in Liabilities(o) |-> receipts[j.receipt].qty[p]])

\* What the received quantities of an order add up to.
StatusFor(o) ==
  IF \A p \in Products : received[o][p] >= orders[o].ordered[p] THEN "received" ELSE "partial"

\* A confirmation or cancellation of o that read it before any goods came.
LateMark(o, r) ==
  /\ cmd[r].op \in {"confirm", "cancel"} /\ cmd[r].order = o /\ pc[r] = "done"
  /\ \A j \in Liabilities(o) : saw[r].at < j.no

\* As long as no two receipts of an order overlap, the order's totals are what
\* its receipts have brought into stock, and its status is what they add up to.
\* Only a confirmation or a cancellation that had read the order before any
\* goods came, and commits after them, can hide it.
TotalsFollowReceipts ==
  \A o \in DOMAIN orders : InSequence(o) /\ Liabilities(o) # {} =>
    /\ \A p \in Products : received[o][p] = Stocked(o, p)
    /\ \/ orders[o].status = StatusFor(o)
       \/ \E r \in Requests : LateMark(o, r) /\ orders[o].status = NewStatus(r)

\* cancel_order: "Cannot cancel PO after goods have been received".  A receipt
\* finalized after the lines were read is not seen.
CancelledHasNoGoods ==
  \A o \in DOMAIN orders : orders[o].status = "cancelled" => Liabilities(o) = {}

EveryRequestEnds == \A r \in Requests : <>(pc[r] \in Finished)

=============================================================================
