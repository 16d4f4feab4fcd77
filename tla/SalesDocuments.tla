---------------------------- MODULE SalesDocuments ----------------------------
(***************************************************************************)
(* SalesService (core_platform/sales/service.py) with the parts of the     *)
(* inventory, accounting and idempotency code it calls, as several HTTP    *)
(* requests run it at the same time: quotes, orders, invoices and returns, *)
(* their conversion, finalization, payment and cancellation.               *)
(*                                                                         *)
(* Each request is one PostgreSQL transaction at READ COMMITTED and every  *)
(* await on its session is a step (see StockLedger).  A document is read   *)
(* once, without a lock, and judged by that copy; what is written is held  *)
(* until the transaction ends.  Document and journal numbers are one more  *)
(* than the rows counted, and unique.  ReportingService and the purchase   *)
(* history of CrmService read the same rows without writing any.           *)
(*                                                                         *)
(* Abstracted: every line is one unit of a product whose stock level row   *)
(* exists at the document's location, the chart of accounts exists, and    *)
(* amounts are told apart only by being positive.                          *)
(***************************************************************************)
EXTENDS Integers, Sequences, FiniteSets

CONSTANTS Requests,    \* HTTP requests; a document is named by the request that
                       \* creates it
          Existing,    \* documents of the business at the start
          NoDoc,       \* a document without source
          Products, Keys, NoKey, Nobody,
          Elsewhere,   \* the idempotency row of another service's command
          Workloads,   \* what the requests may ask for, together
          LastDay,     \* bound on the days that pass
          OpeningDocs, OpeningStock, OpeningBook

Kinds == {"quote", "order", "invoice", "return"}
Statuses == {"draft", "confirmed", "finalized", "cancelled"}
Ops == {"create", "toOrder", "toInvoice", "finalizeInvoice", "finalizeReturn",
        "pay", "cancel", "report"}
DocIds == Existing \cup Requests

\* What the lines of a document amount to.
Body == [lines: SUBSET Products, located: BOOLEAN, priced: BOOLEAN]
\* "day" is that of finalized_at, 0 before.
Document == [kind: Kinds, status: Statuses, src: DocIds \cup {NoDoc}, no: Nat, body: Body,
             day: 0..LastDay]

\* "doc" is the document a command is about (the source of a created one); a
\* report is about a day.
Command == [op: Ops, doc: DocIds \cup {NoDoc}, kind: Kinds, body: Body,
            key: Keys \cup {NoKey}, day: 1..LastDay]

\* What a command that took effect has left: the status it wrote, the number of
\* its journal entry (0 if it posts none), the lines it moved, the finalized_at it
\* stamped; "seen" counts the entries there were when it read its document.
Entry == [op: Ops, doc: DocIds \cup {NoDoc}, by: Requests \cup {Nobody},
          to: Statuses \cup {"same"}, no: Nat, moved: SUBSET Products, seen: Nat,
          day: 0..LastDay]

ASSUME WorkloadsAssumption == Workloads \subseteq [Requests -> Command]
ASSUME NamesAssumption ==
  /\ NoKey \notin Keys /\ Nobody # Elsewhere
  /\ Nobody \notin Requests /\ Elsewhere \notin Requests
  /\ Existing \cap Requests = {} /\ NoDoc \notin DocIds
ASSUME FiniteAssumption == IsFiniteSet(Requests) /\ IsFiniteSet(Existing)
ASSUME OpeningAssumption ==
  /\ LastDay \in Nat \ {0} /\ Products # {}
  /\ OpeningDocs \in [Existing -> Document]
  /\ OpeningStock \in [Products -> Nat]
  /\ OpeningBook \in Seq(Entry)

VARIABLES
  \* committed
  docs,      \* the documents there are
  onhand,    \* stock level of each product at the documents' location
  book,      \* the commands that took effect, in commit order; an entry stands
             \* for its journal entry, stock movements and payment row
  keyRow,    \* keyRow[k]: the request that stored the idempotency row of k
  \* per request
  pc, cmd,
  saw,       \* its copy of the document, the length of the book and the day then
  level,     \* on-hand values it has read
  cur,       \* the product it is moving
  num,       \* the document or journal number it has computed
  stamp,     \* the finalized_at it has computed
  found,     \* the invoices its report counts, with the lines counted of each
  held,      \* rows it has written and unique keys it has inserted
  today

db == <<docs, onhand, book, keyRow>>
mine == <<cmd, saw, level, cur, num, stamp, found>>
vars == <<docs, onhand, book, keyRow, pc, cmd, saw, level, cur, num, stamp, found, held, today>>

InFlight == {"lookup", "load", "mark", "lines", "write", "count", "insert",
             "recheck", "claim", "commit", "sum"}
Finished == {"done", "replayed", "failed"}

Creates == {"create", "toOrder", "toInvoice"}
Finalizes == {"finalizeInvoice", "finalizeReturn"}

Unread == [doc |-> [kind |-> "quote", status |-> "draft", src |-> NoDoc, no |-> 0,
                    body |-> [lines |-> {}, located |-> FALSE, priced |-> FALSE], day |-> 0],
           at |-> 0, on |-> 1]

NothingFound == [docs |-> {}, lines |-> {}]

\* Only finalizing and paying take an idempotency key.
Keyed(c) == c.key # NoKey /\ c.op \in Finalizes \cup {"pay"}

Init ==
  /\ docs = OpeningDocs /\ onhand = OpeningStock /\ book = OpeningBook
  /\ keyRow = [k \in Keys |-> Nobody]
  /\ cmd \in Workloads
  /\ pc = [r \in Requests |-> IF Keyed(cmd[r]) THEN "lookup" ELSE "load"]
  /\ saw = [r \in Requests |-> Unread]
  /\ level = [r \in Requests |-> [p \in Products |-> 0]]
  /\ cur = [r \in Requests |-> CHOOSE p \in Products : TRUE]
  /\ num = [r \in Requests |-> 0]
  /\ stamp = [r \in Requests |-> 0]
  /\ found = [r \in Requests |-> NothingFound]
  /\ held = [r \in Requests |-> {}]
  /\ today = 1

Goto(r, label) == pc' = [pc EXCEPT ![r] = label]

-----------------------------------------------------------------------------
(* Locks: rows a request has updated and unique values it has inserted *)

LevelRow(p) == <<"level", p>>
DocRow(d) == <<"document", d>>
Number(series, n) == <<"number", series, n>>
KeyValue(k) == <<"key", k>>

NewKind(r) == CASE cmd[r].op = "create" -> cmd[r].kind
                [] cmd[r].op = "toOrder" -> "order"
                [] cmd[r].op = "toInvoice" -> "invoice"

Series(r) == IF cmd[r].op \in Creates THEN NewKind(r) ELSE "journal"

PostedIn(b) == {i \in 1..Len(b) : b[i].no # 0}
KindIn(D, kind) == {d \in DOMAIN D : D[d].kind = kind}

Numbers(series) ==
  IF series = "journal" THEN {book[i].no : i \in PostedIn(book)}
  ELSE {docs[d].no : d \in KindIn(docs, series)}

Delta(r) == IF cmd[r].op = "finalizeReturn" THEN 1 ELSE -1

Short(r) == level[r][cur[r]] + Delta(r) < 0

\* What the next statement of r locks.
Wants(r) ==
  CASE pc[r] = "write" /\ ~Short(r) -> {LevelRow(cur[r])}
    [] pc[r] = "mark" -> {DocRow(cmd[r].doc)}
    [] pc[r] = "insert" -> {Number(Series(r), num[r])}
    [] pc[r] = "claim" -> {KeyValue(cmd[r].key)}
    [] OTHER -> {}

WaitsFor(r, b) == r # b /\ Wants(r) \cap held[b] # {}
Waits(r) == \E b \in Requests : WaitsFor(r, b)

InDeadlock_Undetected(r) == FALSE
\* r is on a cycle of waiting transactions.
InDeadlock(r) ==
  \E S \in SUBSET Requests :
    /\ r \in S
    /\ \A a \in S : (\E b \in S : WaitsFor(a, b)) /\ (\E b \in S : WaitsFor(b, a))

Lock(r) == held' = [held EXCEPT ![r] = @ \cup Wants(r)]

Release_KeepLocks(r) == UNCHANGED held
Release(r) == held' = [held EXCEPT ![r] = {}]

Rollback(r) ==
  /\ Goto(r, "failed")
  /\ Release(r)
  /\ UNCHANGED <<db, mine, today>>

-----------------------------------------------------------------------------
(* The document: idem.lookup, _get_doc and the checks on its status *)

\* The row answers a finalization if its resource is a document, whichever one,
\* and a payment if it is a payment.
HasPrior(r) ==
  /\ keyRow[cmd[r].key] \in Requests
  /\ (cmd[keyRow[cmd[r].key]].op = "pay") <=> (cmd[r].op = "pay")

Replay(r) ==
  /\ pc[r] = "lookup" /\ HasPrior(r)
  /\ Goto(r, "replayed")
  /\ Release(r)
  /\ UNCHANGED <<db, mine, today>>

Proceed(r) ==
  /\ pc[r] = "lookup" /\ ~HasPrior(r)
  /\ Goto(r, "load")
  /\ UNCHANGED <<db, mine, held, today>>

Transitions_OfKind(d) ==
  CASE d.kind \in {"quote", "order"} -> {"confirmed", "cancelled"}
    [] OTHER -> {"finalized", "cancelled"}
\* _TRANSITIONS; no operation makes a finalized invoice void.
Transitions(d) ==
  CASE d.kind \in {"quote", "order"} /\ d.status = "draft" -> {"confirmed", "cancelled"}
    [] d.kind \in {"quote", "order"} /\ d.status = "confirmed" -> {"cancelled"}
    [] d.kind \in {"invoice", "return"} /\ d.status = "draft" -> {"finalized", "cancelled"}
    [] OTHER -> {}

Payable(d) == d.kind = "invoice" /\ d.status = "finalized"

Convertible(d) == d.kind = "order" /\ d.status \in {"draft", "confirmed"}
Returnable(d) == d.kind = "invoice" /\ d.status = "finalized"

\* A return needs the invoice it returns; any other document may be created
\* without a source.
Acceptable(r) ==
  IF cmd[r].doc \notin DOMAIN docs
  THEN cmd[r].op = "create" /\ cmd[r].doc = NoDoc /\ cmd[r].kind # "return"
  ELSE LET d == docs[cmd[r].doc]
       IN  CASE cmd[r].op = "create" -> cmd[r].kind = "return" => Returnable(d)
             [] cmd[r].op = "toOrder" -> d.kind = "quote" /\ "confirmed" \in Transitions(d)
             [] cmd[r].op = "toInvoice" -> Convertible(d)
             [] cmd[r].op = "finalizeInvoice" ->
                  d.kind = "invoice" /\ "finalized" \in Transitions(d) /\ d.body.located
             [] cmd[r].op = "finalizeReturn" ->
                  d.kind = "return" /\ "finalized" \in Transitions(d) /\ d.body.located
             [] cmd[r].op = "pay" -> Payable(d)
             [] cmd[r].op = "cancel" -> "cancelled" \in Transitions(d)

AfterLoad(op, d) ==
  IF op \in Finalizes THEN (IF d.body.lines = {} THEN "count" ELSE "lines")
  ELSE IF op \in {"cancel", "toOrder"} \/ (op = "toInvoice" /\ d.status = "draft")
  THEN "mark" ELSE "count"

Load(r) ==
  /\ pc[r] = "load" /\ cmd[r].op # "report" /\ Acceptable(r)
  /\ LET d == IF cmd[r].doc = NoDoc THEN Unread.doc ELSE docs[cmd[r].doc]
     IN  /\ saw' = [saw EXCEPT ![r] = [doc |-> d, at |-> Len(book), on |-> today]]
         /\ Goto(r, AfterLoad(cmd[r].op, d))
  /\ UNCHANGED <<db, cmd, level, cur, num, held, stamp, found, today>>

Reject(r) == pc[r] = "load" /\ cmd[r].op # "report" /\ ~Acceptable(r) /\ Rollback(r)

-----------------------------------------------------------------------------
(* Stock: InventoryService._apply_delta for each line, in any order *)

Moved(r) == {p \in Products : LevelRow(p) \in held[r]}

ReadLevel(r) ==
  /\ pc[r] = "lines"
  /\ \E p \in saw[r].doc.body.lines \ Moved(r) :
       /\ cur' = [cur EXCEPT ![r] = p]
       /\ level' = [level EXCEPT ![r][p] = onhand[p]]
  /\ Goto(r, "write")
  /\ UNCHANGED <<db, cmd, saw, num, held, stamp, found, today>>

RejectShortage(r) == pc[r] = "write" /\ Short(r) /\ Rollback(r)

AfterLine_First(r) == "count"
AfterLine(r) ==
  IF saw[r].doc.body.lines \subseteq Moved(r) \cup {cur[r]} THEN "count" ELSE "lines"

WriteLevel(r) ==
  /\ pc[r] = "write" /\ ~Short(r) /\ ~Waits(r)
  /\ Lock(r)
  /\ Goto(r, AfterLine(r))
  /\ UNCHANGED <<db, mine, today>>

-----------------------------------------------------------------------------
(* Numbered rows: AccountingService.post_entry, create_document *)

\* post_entry refuses an amount that is not positive.
Unpriced(r) == cmd[r].op \in Finalizes /\ ~saw[r].doc.body.priced

RejectUnpriced(r) == pc[r] = "count" /\ Unpriced(r) /\ Rollback(r)

NextNumber_NotNext(series) == Cardinality(Numbers(series)) + 2
NextNumber(series) == Cardinality(Numbers(series)) + 1

Count(r) ==
  /\ pc[r] = "count" /\ ~Unpriced(r)
  /\ num' = [num EXCEPT ![r] = NextNumber(Series(r))]
  /\ Goto(r, "insert")
  /\ UNCHANGED <<db, cmd, saw, level, cur, held, stamp, found, today>>

KeyOrCommit(r) ==
  IF Keyed(cmd[r]) THEN "recheck" ELSE "commit"

\* Only a finalization still has to write the document's status, with a
\* finalized_at that it stamps before it waits for the document's row.
Insert(r) ==
  /\ pc[r] = "insert" /\ ~Waits(r) /\ num[r] \notin Numbers(Series(r))
  /\ Lock(r)
  /\ stamp' = [stamp EXCEPT ![r] = IF cmd[r].op \in Finalizes THEN today ELSE @]
  /\ Goto(r, IF cmd[r].op \in Finalizes THEN "mark" ELSE KeyOrCommit(r))
  /\ UNCHANGED <<db, cmd, saw, level, cur, num, found, today>>

\* uq_sales_doc_biz_type_number, uq_journal_biz_number: the number is taken.
InsertClash(r) ==
  /\ pc[r] = "insert" /\ ~Waits(r) /\ num[r] \in Numbers(Series(r))
  /\ Rollback(r)

\* UPDATE of the status by primary key: no look at the status it overwrites.
Mark(r) ==
  /\ pc[r] = "mark" /\ ~Waits(r)
  /\ Lock(r)
  /\ Goto(r, IF cmd[r].op \in Creates THEN "count" ELSE KeyOrCommit(r))
  /\ UNCHANGED <<db, mine, today>>

-----------------------------------------------------------------------------
(* idem.store and the commit *)

Recheck(r) ==
  /\ pc[r] = "recheck"
  /\ Goto(r, IF keyRow[cmd[r].key] = Nobody THEN "claim" ELSE "commit")
  /\ UNCHANGED <<db, mine, held, today>>

ClaimKey(r) ==
  /\ pc[r] = "claim" /\ ~Waits(r) /\ keyRow[cmd[r].key] = Nobody
  /\ Lock(r)
  /\ Goto(r, "commit")
  /\ UNCHANGED <<db, mine, today>>

ClaimClash(r) ==
  /\ pc[r] = "claim" /\ ~Waits(r) /\ keyRow[cmd[r].key] # Nobody
  /\ Rollback(r)

NewStatus(r) ==
  IF cmd[r].op = "cancel" THEN "cancelled"
  ELSE IF cmd[r].op \in Finalizes THEN "finalized" ELSE "confirmed"

NewDocument(r) ==
  [kind |-> NewKind(r), status |-> "draft", src |-> cmd[r].doc, no |-> num[r],
   body |-> IF cmd[r].op = "create" THEN cmd[r].body ELSE saw[r].doc.body, day |-> 0]

FinalizedAt_AsLoaded(r) == saw[r].on
FinalizedAt(r) == stamp[r]

Marked_DayKept(r, d) == [d EXCEPT !.status = NewStatus(r)]
Marked(r, d) ==
  [d EXCEPT !.status = NewStatus(r),
            !.day = IF cmd[r].op \in Finalizes THEN FinalizedAt(r) ELSE @]

DocsAfter_NotMarked(r) ==
  [d \in DOMAIN docs \cup (IF cmd[r].op \in Creates THEN {r} ELSE {}) |->
     IF d = r THEN NewDocument(r) ELSE docs[d]]
DocsAfter(r) ==
  [d \in DOMAIN docs \cup (IF cmd[r].op \in Creates THEN {r} ELSE {}) |->
     IF d = r THEN NewDocument(r)
     ELSE IF DocRow(d) \in held[r] THEN Marked(r, docs[d])
     ELSE docs[d]]

Posts(r) == cmd[r].op \in Finalizes \cup {"pay"}

EntryOf(r) ==
  [op |-> cmd[r].op, doc |-> cmd[r].doc, by |-> r,
   to |-> IF DocRow(cmd[r].doc) \in held[r] THEN NewStatus(r) ELSE "same",
   no |-> IF Posts(r) THEN num[r] ELSE 0,
   moved |-> Moved(r), seen |-> saw[r].at,
   day |-> IF cmd[r].op \in Finalizes THEN FinalizedAt(r) ELSE 0]

Commit(r) ==
  /\ pc[r] = "commit"
  /\ Goto(r, "done")
  /\ docs' = DocsAfter(r)
  /\ onhand' = [p \in Products |-> IF p \in Moved(r) THEN level[r][p] + Delta(r) ELSE onhand[p]]
  /\ book' = Append(book, EntryOf(r))
  /\ keyRow' = [k \in Keys |-> IF KeyValue(k) \in held[r] THEN r ELSE keyRow[k]]
  /\ Release(r)
  /\ UNCHANGED <<mine, today>>

-----------------------------------------------------------------------------
(* Reports: the finalized invoices of a day, and then their lines *)

FindInvoices(r) ==
  {d \in DOMAIN docs : docs[d].kind = "invoice" /\ docs[d].status = "finalized"
                       /\ docs[d].day = cmd[r].day}

Find(r) ==
  /\ pc[r] = "load" /\ cmd[r].op = "report"
  /\ found' = [found EXCEPT ![r].docs = FindInvoices(r)]
  /\ saw' = [saw EXCEPT ![r] = [Unread EXCEPT !.at = Len(book), !.on = today]]
  /\ Goto(r, IF FindInvoices(r) = {} THEN "done" ELSE "sum")
  /\ UNCHANGED <<db, cmd, level, cur, num, stamp, held, today>>

LinesOf(d) == {<<d, p>> : p \in docs[d].body.lines}

\* One statement for all of them, or, by customer, one per invoice.
SumLines(r) ==
  /\ pc[r] = "sum"
  /\ \E D \in {found[r].docs} \cup {{d} : d \in found[r].docs} :
       LET lines == found[r].lines \cup UNION {LinesOf(d) : d \in D}
       IN  /\ found' = [found EXCEPT ![r].lines = lines]
           /\ Goto(r, IF \A d \in found[r].docs : LinesOf(d) \subseteq lines THEN "done" ELSE "sum")
  /\ UNCHANGED <<db, cmd, saw, level, cur, num, stamp, held, today>>

-----------------------------------------------------------------------------
DeadlockVictim(r) == InDeadlock(r) /\ Rollback(r)

\* The process, the connection or the client goes away before the commit.
Crash(r) == pc[r] \in InFlight /\ Rollback(r)

Serve(r) ==
  \/ Replay(r) \/ Proceed(r) \/ Load(r) \/ Reject(r)
  \/ ReadLevel(r) \/ RejectShortage(r) \/ WriteLevel(r)
  \/ RejectUnpriced(r) \/ Count(r) \/ Insert(r) \/ InsertClash(r) \/ Mark(r)
  \/ Recheck(r) \/ ClaimKey(r) \/ ClaimClash(r)
  \/ Commit(r) \/ Find(r) \/ SumLines(r) \/ DeadlockVictim(r)

\* A command of another service uses the key.
StoreElsewhere(k) ==
  /\ keyRow[k] = Nobody /\ \A r \in Requests : KeyValue(k) \notin held[r]
  /\ keyRow' = [keyRow EXCEPT ![k] = Elsewhere]
  /\ UNCHANGED <<docs, onhand, book, pc, mine, held, today>>

\* Midnight (UTC) passes; only a report tells the days apart.
Midnight ==
  /\ today < LastDay /\ \E r \in Requests : cmd[r].op = "report"
  /\ today' = today + 1
  /\ UNCHANGED <<db, pc, mine, held>>

Quiescent == (\A r \in Requests : pc[r] \in Finished) /\ UNCHANGED vars

Next ==
  \/ \E r \in Requests : Serve(r) \/ Crash(r)
  \/ \E k \in Keys : StoreElsewhere(k)
  \/ Midnight \/ Quiescent

Spec == Init /\ [][Next]_vars

\* As in StockLedger: requests run when their statement has returned.
FairSpec == Spec /\ \A r \in Requests : WF_vars(Serve(r))

-----------------------------------------------------------------------------
(* Properties *)

\* Types, and a finished request holds no lock.
TypeOK ==
  /\ DOMAIN docs \subseteq DocIds /\ \A d \in DOMAIN docs : docs[d] \in Document
  /\ onhand \in [Products -> Nat]
  /\ book \in Seq(Entry)
  /\ keyRow \in [Keys -> Requests \cup {Nobody, Elsewhere}]
  /\ pc \in [Requests -> InFlight \cup Finished]
  /\ cmd \in [Requests -> Command]
  /\ saw \in [Requests -> [doc: Document, at: Nat, on: 1..LastDay]]
  /\ level \in [Requests -> [Products -> Nat]]
  /\ cur \in [Requests -> Products]
  /\ num \in [Requests -> Nat]
  /\ stamp \in [Requests -> 0..LastDay]
  /\ found \in [Requests -> [docs: SUBSET DocIds, lines: SUBSET (DocIds \X Products)]]
  /\ today \in 1..LastDay
  /\ \A r \in Requests : pc[r] \in Finished => held[r] = {}

Sheets ==
  [d \in DOMAIN docs |-> [kind |-> docs[d].kind, status |-> docs[d].status,
                          src |-> docs[d].src, lines |-> docs[d].body.lines]]
OpeningSheets ==
  [d \in Existing |-> [kind |-> OpeningDocs[d].kind, status |-> OpeningDocs[d].status,
                       src |-> OpeningDocs[d].src, lines |-> OpeningDocs[d].body.lines]]

Book == INSTANCE SaleBook WITH docs <- Sheets, OpeningDocs <- OpeningSheets

ASSUME BookAssumption == Book!OpeningIsSound

\* Every commit is one whole entry of the book - the document made, the status
\* written, every line moved, or nothing - and was legal for the document as it
\* was when its request read it, whatever raced or crashed.
RefinesBook == Book!Spec

OnceIfSequential == Book!OnceIfSequential
LostOnlyToOverlap == Book!LostOnlyToOverlap

\* The journal entries of b are numbered from 1 without a gap, in commit order.
PostedDense(b) ==
  /\ {b[i].no : i \in PostedIn(b)} = 1..Cardinality(PostedIn(b))
  /\ \A i \in PostedIn(b) : b[i].no = Cardinality({j \in PostedIn(b) : j <= i})

\* So are the documents of each kind in D, in some order.
KindsDense(D) ==
  \A k \in Kinds : {D[d].no : d \in KindIn(D, k)} = 1..Cardinality(KindIn(D, k))

ASSUME NumbersAssumption == PostedDense(OpeningBook) /\ KindsDense(OpeningDocs)

\* Numbering by count: unique, without gaps, in commit order, although counting
\* and inserting are separate steps and transactions are rolled back.
NumbersDense == PostedDense(book) /\ KindsDense(docs)

\* Entry i of b is a sale whose document was posted again, or cancelled, within the
\* first n entries by a command that had read it before.
Overtaken(b, n, i) ==
  \E j \in 1..n :
    i < j /\ b[j].doc = b[i].doc /\ b[j].to \in {"finalized", "cancelled"} /\ b[j].seen < i

\* The finalized invoices of D are the sales of b.
SalesAgree(b, D) ==
  /\ \A d \in DOMAIN D : D[d].kind = "invoice" /\ D[d].status = "finalized" =>
       \E i \in 1..Len(b) : b[i].op = "finalizeInvoice" /\ b[i].doc = d
                            /\ b[i].day = D[d].day /\ b[i].moved = D[d].body.lines
  /\ \A i \in 1..Len(b) : b[i].op = "finalizeInvoice" =>
       LET d == D[b[i].doc]
       IN  \/ d.kind = "invoice" /\ d.status = "finalized" /\ d.day = b[i].day
           \/ Overtaken(b, Len(b), i)

ASSUME SalesAssumption == SalesAgree(OpeningBook, OpeningDocs)

\* The sales the books hold for day n after their first i entries.
SalesOf(n, i) == {j \in 1..i : book[j].op = "finalizeInvoice" /\ book[j].day = n}

Reported(r) == cmd[r].op = "report" /\ pc[r] = "done"

\* A report of a day is what the books said when it began: it counts an invoice
\* only for a posted sale of that day, with the lines that left the stock, and
\* misses one only if the invoice was finalized again or cancelled by a request
\* that had read it before that sale.
ReportMatchesBooks ==
  \A r \in Requests : Reported(r) =>
    /\ \A d \in found[r].docs : \E i \in SalesOf(cmd[r].day, saw[r].at) :
         book[i].doc = d /\ {p \in Products : <<d, p>> \in found[r].lines} = book[i].moved
    /\ \A i \in SalesOf(cmd[r].day, saw[r].at) :
         book[i].doc \in found[r].docs \/ Overtaken(book, saw[r].at, i)

\* A report made after its day has ended misses at most one sale of that day: a
\* sale is stamped after its journal number is taken, and the next number is
\* another request's only when it has ended.
ClosedDayMissesOne ==
  \A r \in Requests : Reported(r) /\ saw[r].on > cmd[r].day =>
    Cardinality(SalesOf(cmd[r].day, Len(book)) \ SalesOf(cmd[r].day, saw[r].at)) <= 1

\* finalize_invoice: "Finalize invoice once".  Two overlapping requests do it
\* twice.
FinalizedOnce ==
  \A i, j \in 1..Len(book) :
    /\ book[i].op = "finalizeInvoice" /\ book[j].op = "finalizeInvoice"
    /\ book[i].doc = book[j].doc
    => i = j

EveryRequestEnds == \A r \in Requests : <>(pc[r] \in Finished)

=============================================================================
