-------------------------- MODULE SalesDocumentsProofs --------------------------
(***************************************************************************)
(* Theorems about SalesDocuments, for any requests, documents, workloads   *)
(* and opening books: it implements SaleBook, and what follows of a        *)
(* document's status.                                                      *)
(***************************************************************************)
EXTENDS SalesDocuments, FiniteSetTheorems, TLAPS

-----------------------------------------------------------------------------
(***************************************************************************)
(* The inductive invariant.  Place says where a request can be in its      *)
(* command and what it holds there, Copy what its copy of the document is  *)
(* worth, Recorded how documents and book agree, Counted that a report     *)
(* counts documents there are.                                             *)
(***************************************************************************)
Ending == {"recheck", "claim", "commit"}
Judging == {"mark", "lines", "write", "count", "insert"} \cup Ending

\* What the checks let through.
Lawful(c, d) ==
  /\ c.op # "report"
  /\ c.op = "create" /\ c.kind = "return" => d.kind = "invoice" /\ d.status = "finalized"
  /\ c.op = "toOrder" => d.kind = "quote" /\ d.status = "draft"
  /\ c.op = "toInvoice" => d.kind = "order" /\ d.status \in {"draft", "confirmed"}
  /\ c.op = "finalizeInvoice" => d.kind = "invoice" /\ d.status = "draft"
  /\ c.op = "finalizeReturn" => d.kind = "return" /\ d.status = "draft"
  /\ c.op = "pay" => d.kind = "invoice" /\ d.status = "finalized"
  /\ c.op = "cancel" =>
       d.status = "draft" \/ (d.status = "confirmed" /\ d.kind \in {"quote", "order"})

WritesStatus(r) ==
  \/ cmd[r].op \in Finalizes \cup {"cancel", "toOrder"}
  \/ cmd[r].op = "toInvoice" /\ saw[r].doc.status = "draft"

Marking(r) == DocRow(cmd[r].doc) \in held[r]

Place(r) ==
  /\ pc[r] = "sum" => cmd[r].op = "report"
  /\ pc[r] \in {"lookup", "load", "sum"} => held[r] = {}
  /\ pc[r] \in {"lines", "write"} =>
       cmd[r].op \in Finalizes /\ Moved(r) \subseteq saw[r].doc.body.lines /\ ~Marking(r)
  /\ pc[r] = "write" => cur[r] \in saw[r].doc.body.lines
  /\ pc[r] \in {"mark", "count", "insert"} \cup Ending =>
       Moved(r) = IF cmd[r].op \in Finalizes THEN saw[r].doc.body.lines ELSE {}
  /\ pc[r] = "mark" => WritesStatus(r)
  /\ pc[r] \in {"count", "insert"} =>
       cmd[r].op # "cancel" /\ (Marking(r) <=> cmd[r].op \in Creates /\ WritesStatus(r))
  /\ pc[r] \in Ending => (Marking(r) <=> WritesStatus(r))
  /\ \A d : DocRow(d) \in held[r] => d = cmd[r].doc
  /\ \A p \in Moved(r) : level[r][p] + Delta(r) >= 0

\* The copy is the document as the first saw[r].at entries had left it.
Copy(r) ==
  pc[r] \in Judging =>
    /\ saw[r].at <= Len(book) /\ Lawful(cmd[r], saw[r].doc)
    /\ cmd[r].doc = NoDoc => cmd[r].op = "create" /\ cmd[r].kind # "return"
    /\ cmd[r].doc # NoDoc =>
         /\ cmd[r].doc \in DOMAIN docs
         /\ docs[cmd[r].doc].kind = saw[r].doc.kind
         /\ docs[cmd[r].doc].body = saw[r].doc.body
         /\ Book!Exists(book, saw[r].at, cmd[r].doc)
         /\ Book!IsStatus(book, saw[r].at, cmd[r].doc, saw[r].doc.status)

Recorded ==
  /\ \A d \in DOMAIN docs : /\ Book!Exists(book, Len(book), d)
                            /\ Book!IsStatus(book, Len(book), d, docs[d].status)
  /\ \A i \in 1..Len(book) : /\ book[i].doc \in DOMAIN docs \cup {NoDoc}
                             /\ book[i].by \in Requests => pc[book[i].by] = "done"
  /\ \A r \in Requests : r \in DOMAIN docs => pc[r] = "done"

Counted == \A r \in Requests : found[r].docs \subseteq DOMAIN docs

SalesInv ==
  /\ TypeOK /\ held = [r \in Requests |-> held[r]] /\ Recorded /\ Counted
  /\ \A r \in Requests : Place(r) /\ Copy(r)

-----------------------------------------------------------------------------
(* Facts about the operators *)

\* Locked rows and values of different kinds, or of different names, differ.
LEMMA RowsDiffer ==
  /\ \A a, b : /\ LevelRow(a) # DocRow(b) /\ LevelRow(a) # KeyValue(b) /\ DocRow(a) # KeyValue(b)
               /\ LevelRow(a) = LevelRow(b) => a = b
               /\ DocRow(a) = DocRow(b) => a = b
               /\ KeyValue(a) = KeyValue(b) => a = b
  /\ \A a, s, n : /\ LevelRow(a) # Number(s, n) /\ DocRow(a) # Number(s, n)
                  /\ KeyValue(a) # Number(s, n)
  BY DEF LevelRow, DocRow, KeyValue, Number

\* A finite set has finitely many images under a function.
LEMMA FiniteImage ==
  ASSUME NEW S, IsFiniteSet(S), NEW f
  PROVE  IsFiniteSet({f[x] : x \in S})
<1> DEFINE T == {f[x] : x \in S}
           g == [x \in S |-> f[x]]
<1>1. g \in Surjection(S, T)
  BY DEF Surjection
<1>. QED  BY <1>1, FS_Surjection

LEMMA NumbersFinite ==
  ASSUME TypeOK, NEW series
  PROVE  NextNumber(series) \in Nat
<1>1. IsFiniteSet(PostedIn(book))
  <2>1. IsFiniteSet(1..Len(book))
    BY FS_Interval DEF TypeOK
  <2>. QED  BY <2>1, FS_Subset DEF PostedIn
<1>2. IsFiniteSet({e \in DOMAIN docs : docs[e].kind = series})
  <2>1. IsFiniteSet(DocIds)
    BY FiniteAssumption, FS_Union DEF DocIds
  <2>2. {e \in DOMAIN docs : docs[e].kind = series} \subseteq DocIds
    BY DEF TypeOK
  <2>. QED  BY <2>1, <2>2, FS_Subset
<1>3. IsFiniteSet({book[i].no : i \in PostedIn(book)})
  <2>1. PICK f : f = [i \in PostedIn(book) |-> book[i].no]
    OBVIOUS
  <2>2. {book[i].no : i \in PostedIn(book)} = {f[i] : i \in PostedIn(book)}
    BY <2>1
  <2>. QED  BY <1>1, <2>2, FiniteImage
<1>4. ASSUME NEW D, IsFiniteSet(D) PROVE IsFiniteSet({docs[d].no : d \in D})
  <2>1. PICK f : f = [d \in D |-> docs[d].no]
    OBVIOUS
  <2>2. {docs[d].no : d \in D} = {f[d] : d \in D}
    BY <2>1
  <2>. QED  BY <1>4, <2>2, FiniteImage
<1>5. IsFiniteSet(Numbers(series))
  BY <1>2, <1>3, <1>4 DEF Numbers, KindIn
<1>. QED  BY <1>5, FS_CardinalityType DEF NextNumber

LEMMA CommandType ==
  ASSUME TypeOK, NEW r \in Requests
  PROVE  /\ cmd[r].op \in Ops /\ cmd[r].doc \in DocIds \cup {NoDoc} /\ cmd[r].kind \in Kinds
         /\ cmd[r].body \in Body /\ cmd[r].day \in 1..LastDay
  BY DEF TypeOK, Command

\* What the checks let through is lawful.
LEMMA AcceptableIsLawful ==
  ASSUME TypeOK, NEW r \in Requests, cmd[r].op # "report", Acceptable(r)
  PROVE  /\ cmd[r].doc \in DOMAIN docs \cup {NoDoc}
         /\ cmd[r].doc \notin DOMAIN docs => cmd[r].op = "create" /\ cmd[r].kind # "return"
         /\ cmd[r].doc \in DOMAIN docs => Lawful(cmd[r], docs[cmd[r].doc])
         /\ cmd[r].doc = NoDoc => Lawful(cmd[r], Unread.doc)
<1>1. CASE cmd[r].doc \notin DOMAIN docs
  <2>1. cmd[r].op = "create" /\ cmd[r].doc = NoDoc /\ cmd[r].kind # "return"
    BY <1>1 DEF Acceptable
  <2>. QED  BY <1>1, <2>1 DEF Lawful
<1>2. CASE cmd[r].doc \in DOMAIN docs
  <2> DEFINE d == docs[cmd[r].doc]
  <2>1. d \in Document /\ cmd[r].doc # NoDoc
    BY <1>2, NamesAssumption DEF TypeOK
  <2>2. d.kind \in Kinds /\ d.status \in Statuses
    BY <2>1 DEF Document
  <2>3. /\ cmd[r].op = "create" /\ cmd[r].kind = "return" => Returnable(d)
        /\ cmd[r].op = "toOrder" => d.kind = "quote" /\ "confirmed" \in Transitions(d)
        /\ cmd[r].op = "toInvoice" => Convertible(d)
        /\ cmd[r].op = "finalizeInvoice" => d.kind = "invoice" /\ "finalized" \in Transitions(d)
        /\ cmd[r].op = "finalizeReturn" => d.kind = "return" /\ "finalized" \in Transitions(d)
        /\ cmd[r].op = "pay" => Payable(d)
        /\ cmd[r].op = "cancel" => "cancelled" \in Transitions(d)
    BY <1>2 DEF Acceptable
  <2>4. /\ d.kind = "quote" /\ "confirmed" \in Transitions(d) => d.status = "draft"
        /\ d.kind \in {"invoice", "return"} /\ "finalized" \in Transitions(d) => d.status = "draft"
        /\ "cancelled" \in Transitions(d) =>
             d.status = "draft" \/ (d.status = "confirmed" /\ d.kind \in {"quote", "order"})
    <3> HIDE DEF d
    <3>. QED  BY <2>2 DEF Transitions, Kinds, Statuses
  <2>5. Lawful(cmd[r], d)
    <3> HIDE DEF d
    <3>. QED  BY <2>3, <2>4 DEF Lawful, Returnable, Convertible, Payable
  <2>. QED  BY <1>2, <2>1, <2>5
<1>. QED  BY <1>1, <1>2

-----------------------------------------------------------------------------
(* Type correctness *)

LEMMA DeltaType == \A r : Delta(r) \in Int
  BY DEF Delta

LEMMA UnreadType == Unread \in [doc: Document, at: Nat, on: 1..LastDay]
  BY OpeningAssumption DEF Unread, Document, Body, Kinds, Statuses

\* A step of r that leaves the database and the other requests alone.
Own(r) ==
  /\ pc' = [pc EXCEPT ![r] = pc'[r]] /\ held' = [held EXCEPT ![r] = held'[r]]
  /\ saw' = [saw EXCEPT ![r] = saw'[r]] /\ level' = [level EXCEPT ![r] = level'[r]]
  /\ cur' = [cur EXCEPT ![r] = cur'[r]] /\ num' = [num EXCEPT ![r] = num'[r]]
  /\ stamp' = [stamp EXCEPT ![r] = stamp'[r]] /\ found' = [found EXCEPT ![r] = found'[r]]
  /\ UNCHANGED <<db, cmd, today>>

LEMMA StepType ==
  ASSUME TypeOK, held = [q \in Requests |-> held[q]], NEW r \in Requests, Own(r),
         pc'[r] \in InFlight \cup {"done"}, pc'[r] = "done" => held'[r] = {},
         saw'[r] \in [doc: Document, at: Nat, on: 1..LastDay],
         level'[r] \in [Products -> Nat], cur'[r] \in Products,
         num'[r] \in Nat, stamp'[r] \in 0..LastDay,
         found'[r] \in [docs: SUBSET DocIds, lines: SUBSET (DocIds \X Products)]
  PROVE  TypeOK' /\ held' = [q \in Requests |-> held'[q]]
<1>1. /\ saw' \in [Requests -> [doc: Document, at: Nat, on: 1..LastDay]]
      /\ level' \in [Requests -> [Products -> Nat]] /\ cur' \in [Requests -> Products]
      /\ num' \in [Requests -> Nat] /\ stamp' \in [Requests -> 0..LastDay]
      /\ found' \in [Requests -> [docs: SUBSET DocIds, lines: SUBSET (DocIds \X Products)]]
  BY DEF TypeOK, Own
<1>2. pc' \in [Requests -> InFlight \cup Finished]
  BY DEF TypeOK, Own, Finished
<1>3. \A q \in Requests : pc'[q] \in Finished => held'[q] = {}
  <2>1. \A q \in Requests : q # r => pc'[q] = pc[q] /\ held'[q] = held[q]
    BY DEF TypeOK, Own
  <2>2. pc'[r] \in Finished => held'[r] = {}
    BY DEF InFlight, Finished
  <2>. QED  BY <2>1, <2>2 DEF TypeOK
<1>4. held' = [q \in Requests |-> held'[q]]
  BY DEF Own
<1>. QED  BY <1>1, <1>2, <1>3, <1>4 DEF TypeOK, Own, db

\* A request that ends without a commit.
LEMMA EndType ==
  ASSUME TypeOK, held = [q \in Requests |-> held[q]], NEW r \in Requests,
         NEW outcome \in Finished, pc' = [pc EXCEPT ![r] = outcome], Release(r),
         UNCHANGED <<db, mine, today>>
  PROVE  TypeOK' /\ held' = [q \in Requests |-> held'[q]]
<1>1. held' = [held EXCEPT ![r] = {}]
  BY DEF Release
<1>2. held' = [q \in Requests |-> held'[q]]
  BY <1>1
<1>3. pc' \in [Requests -> InFlight \cup Finished]
  BY DEF TypeOK
<1>4. \A q \in Requests : pc'[q] \in Finished => held'[q] = {}
  BY <1>1 DEF TypeOK
<1>. QED  BY <1>2, <1>3, <1>4 DEF TypeOK, db, mine

LEMMA CommitTypes ==
  ASSUME SalesInv, NEW r \in Requests, Commit(r)
  PROVE  TypeOK' /\ held' = [q \in Requests |-> held'[q]]
<1> USE DEF SalesInv
<1>1. /\ cmd[r].op \in Ops /\ cmd[r].doc \in DocIds \cup {NoDoc} /\ cmd[r].kind \in Kinds
      /\ cmd[r].body \in Body
  BY CommandType
<1>2. saw[r].doc \in Document /\ saw[r].at \in Nat /\ num[r] \in Nat /\ stamp[r] \in 0..LastDay
  BY DEF TypeOK
<1>3. pc[r] = "commit" /\ cmd[r].op # "report"
  BY DEF Commit, Copy, Judging, Ending, Lawful
<1>4. NewStatus(r) \in Statuses
  BY DEF NewStatus, Statuses
<1>5. /\ docs' = DocsAfter(r) /\ DOMAIN docs' \subseteq DocIds
      /\ \A d \in DOMAIN docs' : docs'[d] \in Document
  <2>1. docs' = DocsAfter(r)
    BY DEF Commit
  <2>2. cmd[r].op \in Creates => NewDocument(r) \in Document
    <3>1. cmd[r].op \in Creates => NewKind(r) \in Kinds
      BY <1>1 DEF NewKind, Creates, Kinds
    <3>2. saw[r].doc.body \in Body
      BY <1>2 DEF Document
    <3>3. 0 \in 0..LastDay
      BY OpeningAssumption
    <3>. QED  BY <1>1, <1>2, <3>1, <3>2, <3>3 DEF NewDocument, Document, Statuses
  <2>3. ASSUME NEW d \in Document PROVE Marked(r, d) \in Document
    BY <1>2, <1>4 DEF Marked, FinalizedAt, Document
  <2>4. \A d \in DOMAIN docs : docs[d] \in Document
    BY DEF TypeOK
  <2>5. DOMAIN docs \subseteq DocIds /\ r \in DocIds
    BY DEF TypeOK, DocIds
  <2>6. r \notin DOMAIN docs
    BY <1>3 DEF Recorded
  <2>. QED  BY <2>1, <2>2, <2>3, <2>4, <2>5, <2>6 DEF DocsAfter
<1>6. onhand' \in [Products -> Nat]
  <2>1. \A p \in Moved(r) : level[r][p] + Delta(r) >= 0
    BY DEF Place
  <2>2. \A p \in Products : level[r][p] \in Nat /\ onhand[p] \in Nat
    BY DEF TypeOK
  <2>3. \A p \in Moved(r) : level[r][p] + Delta(r) \in Nat
    BY <2>1, <2>2, DeltaType DEF Moved
  <2>4. onhand' = [p \in Products |-> IF p \in Moved(r) THEN level[r][p] + Delta(r) ELSE onhand[p]]
    BY DEF Commit
  <2>. QED  BY <2>2, <2>3, <2>4
<1>7. EntryOf(r) \in Entry
  <2>1. Moved(r) \in SUBSET Products
    BY DEF Moved
  <2>2. 0 \in Nat /\ 0 \in 0..LastDay
    BY OpeningAssumption
  <2>. QED  BY <1>1, <1>2, <1>4, <2>1, <2>2 DEF EntryOf, Entry, FinalizedAt
<1>8. book' \in Seq(Entry)
  BY <1>7 DEF Commit, TypeOK
<1>9. keyRow' \in [Keys -> Requests \cup {Nobody, Elsewhere}]
  BY DEF Commit, TypeOK
<1>10. /\ pc' = [pc EXCEPT ![r] = "done"] /\ held' = [held EXCEPT ![r] = {}]
       /\ UNCHANGED <<mine, today>>
  BY DEF Commit, Goto, Release
<1>11. held' = [q \in Requests |-> held'[q]]
  BY <1>10
<1>12. pc' \in [Requests -> InFlight \cup Finished]
  BY <1>10 DEF TypeOK, Finished
<1>13. \A q \in Requests : pc'[q] \in Finished => held'[q] = {}
  BY <1>10 DEF TypeOK
<1>. QED
  BY <1>5, <1>6, <1>8, <1>9, <1>10, <1>11, <1>12, <1>13 DEF TypeOK, mine

-----------------------------------------------------------------------------
(* Steps of one request before its commit *)

\* A step that leaves the documents, the book and a request alone keeps what is
\* known of it.
LEMMA Frame ==
  ASSUME NEW q \in Requests, Place(q), Copy(q), UNCHANGED <<docs, book, cmd>>,
         pc'[q] = pc[q], saw'[q] = saw[q], level'[q] = level[q], cur'[q] = cur[q],
         held'[q] = held[q]
  PROVE  (Place(q) /\ Copy(q))'
<1>1. Place(q)'
  BY DEF Place, Marking, WritesStatus, Moved, Delta, Ending
<1>2. Copy(q)'
  BY DEF Copy, Judging, Ending
<1>. QED  BY <1>1, <1>2

LEMMA Untouched ==
  ASSUME Recorded, NEW r \in Requests, NEW label, pc[r] # "done",
         pc' = [pc EXCEPT ![r] = label], pc \in [Requests -> InFlight \cup Finished],
         UNCHANGED <<docs, book>>
  PROVE  Recorded'
<1>1. \A q \in Requests : pc[q] = "done" => pc'[q] = "done"
  OBVIOUS
<1>. QED  BY <1>1 DEF Recorded

\* A request that ends without a commit.
LEMMA EndStep ==
  ASSUME SalesInv, NEW r \in Requests, NEW outcome \in {"failed", "replayed"},
         pc[r] \in InFlight, Goto(r, outcome), Release(r), UNCHANGED <<db, mine, today>>
  PROVE  SalesInv'
<1> USE DEF SalesInv
<1>0. /\ pc' = [pc EXCEPT ![r] = outcome] /\ pc \in [Requests -> InFlight \cup Finished]
      /\ held' = [held EXCEPT ![r] = {}] /\ held = [q \in Requests |-> held[q]]
      /\ outcome \in Finished /\ pc[r] # "done"
  BY DEF Goto, Release, TypeOK, InFlight, Finished
<1>1. TypeOK' /\ held' = [q \in Requests |-> held'[q]]
  BY <1>0, EndType
<1>2. Recorded'
  BY <1>0, Untouched DEF db
<1>3. ASSUME NEW q \in Requests PROVE (Place(q) /\ Copy(q))'
  <2>1. CASE q # r
    BY <1>0, <2>1, Frame DEF db, mine
  <2>2. CASE q = r
    <3>1. pc'[r] = outcome /\ held'[r] = {}
      BY <1>0
    <3>2. pc'[r] \notin Judging \cup {"sum", "lookup", "load"}
      BY <3>1 DEF Judging, Ending
    <3>3. \A x : x \notin held'[r]
      BY <3>1
    <3>4. Moved(r)' = {}
      BY <3>3 DEF Moved
    <3>5. Place(r)'
      BY <3>2, <3>3, <3>4 DEF Place, Judging
    <3>6. Copy(r)'
      BY <3>2 DEF Copy
    <3>. QED  BY <2>2, <3>5, <3>6
  <2>. QED  BY <2>1, <2>2
<1>4. Counted'
  BY DEF Counted, db, mine
<1>. QED  BY <1>1, <1>2, <1>3, <1>4

\* After such a step it is enough to look at what is known of the request itself.
LEMMA OwnStep ==
  ASSUME SalesInv, NEW r \in Requests, pc[r] \in InFlight, Own(r),
         pc'[r] \in InFlight \cup {"done"}, pc'[r] = "done" => held'[r] = {},
         saw'[r] \in [doc: Document, at: Nat, on: 1..LastDay],
         level'[r] \in [Products -> Nat], cur'[r] \in Products,
         num'[r] \in Nat, stamp'[r] \in 0..LastDay,
         found'[r] \in [docs: SUBSET DocIds, lines: SUBSET (DocIds \X Products)],
         found'[r].docs \subseteq DOMAIN docs, (Place(r) /\ Copy(r))'
  PROVE  SalesInv'
<1> USE DEF SalesInv, Own
<1>0. /\ pc \in [Requests -> InFlight \cup Finished] /\ held = [q \in Requests |-> held[q]]
      /\ saw \in [Requests -> [doc: Document, at: Nat, on: 1..LastDay]]
      /\ level \in [Requests -> [Products -> Nat]] /\ cur \in [Requests -> Products]
      /\ num \in [Requests -> Nat] /\ stamp \in [Requests -> 0..LastDay]
      /\ found \in [Requests -> [docs: SUBSET DocIds, lines: SUBSET (DocIds \X Products)]]
      /\ pc[r] # "done"
  BY DEF TypeOK, InFlight
<1>1. TypeOK' /\ held' = [q \in Requests |-> held'[q]]
  BY <1>0, StepType
<1>2. Recorded'
  BY <1>0, Untouched DEF db
<1>3. ASSUME NEW q \in Requests PROVE (Place(q) /\ Copy(q))'
  <2>1. CASE q # r
    BY <1>0, <2>1, Frame DEF db
  <2>. QED  BY <2>1
<1>4. Counted'
  BY <1>0 DEF Counted, db
<1>. QED  BY <1>1, <1>2, <1>3, <1>4

LEMMA RollbackStep ==
  ASSUME SalesInv, NEW r \in Requests, pc[r] \in InFlight, Rollback(r)
  PROVE  SalesInv'
  BY EndStep DEF Rollback

LEMMA FailStep ==
  ASSUME SalesInv, NEW r \in Requests,
         \/ Reject(r) \/ RejectShortage(r) \/ RejectUnpriced(r) \/ InsertClash(r)
         \/ ClaimClash(r) \/ DeadlockVictim(r) \/ Crash(r)
  PROVE  SalesInv'
<1>1. InDeadlock(r) => Wants(r) # {}
  BY DEF InDeadlock, WaitsFor
<1>2. Wants(r) # {} => pc[r] \in {"write", "mark", "insert", "claim"}
  BY DEF Wants
<1>3. pc[r] \in InFlight /\ Rollback(r)
  BY <1>1, <1>2
     DEF Reject, RejectShortage, RejectUnpriced, InsertClash, ClaimClash, DeadlockVictim, Crash,
         InFlight
<1>. QED  BY <1>3, RollbackStep

LEMMA ReplayStep ==
  ASSUME SalesInv, NEW r \in Requests, Replay(r)
  PROVE  SalesInv'
<1>1. pc[r] \in InFlight /\ Goto(r, "replayed") /\ Release(r) /\ UNCHANGED <<db, mine, today>>
  BY DEF Replay, InFlight
<1>. QED  BY <1>1, EndStep

\* What OwnStep asks of the variables that a step leaves alone.
LEMMA OwnTypes ==
  ASSUME SalesInv, NEW r \in Requests
  PROVE  /\ saw[r] \in [doc: Document, at: Nat, on: 1..LastDay]
         /\ level[r] \in [Products -> Nat] /\ cur[r] \in Products
         /\ num[r] \in Nat /\ stamp[r] \in 0..LastDay
         /\ found[r] \in [docs: SUBSET DocIds, lines: SUBSET (DocIds \X Products)]
         /\ found[r].docs \subseteq DOMAIN docs
         /\ pc = [pc EXCEPT ![r] = pc[r]] /\ held = [held EXCEPT ![r] = held[r]]
         /\ saw = [saw EXCEPT ![r] = saw[r]] /\ level = [level EXCEPT ![r] = level[r]]
         /\ cur = [cur EXCEPT ![r] = cur[r]] /\ num = [num EXCEPT ![r] = num[r]]
         /\ stamp = [stamp EXCEPT ![r] = stamp[r]] /\ found = [found EXCEPT ![r] = found[r]]
  BY DEF SalesInv, TypeOK, Counted

\* A step that changes only where r is and what it has locked.
LEMMA LockStep ==
  ASSUME SalesInv, NEW r \in Requests, NEW label \in InFlight, NEW locked,
         pc[r] \in InFlight, pc' = [pc EXCEPT ![r] = label],
         held' = [held EXCEPT ![r] = locked], UNCHANGED <<db, mine, today>>,
         (Place(r) /\ Copy(r))'
  PROVE  SalesInv'
<1>1. UNCHANGED <<saw, level, cur, num, stamp, found, cmd>>
  BY DEF mine
<1>2. pc'[r] = label /\ held'[r] = locked /\ label # "done"
  BY DEF SalesInv, TypeOK, InFlight
<1>3. Own(r)
  BY <1>1, <1>2, OwnTypes DEF Own
<1>. QED  BY <1>1, <1>2, <1>3, OwnTypes, OwnStep

\* What remains known of the copy when the step keeps it.
LEMMA CopyKept ==
  ASSUME NEW r \in Requests, Copy(r), UNCHANGED <<docs, book, cmd>>, saw'[r] = saw[r],
         pc[r] \in Judging
  PROVE  Copy(r)'
  BY DEF Copy, Judging, Ending

LEMMA ProceedStep ==
  ASSUME SalesInv, NEW r \in Requests, Proceed(r)
  PROVE  SalesInv'
<1> USE DEF SalesInv
<1>1. /\ pc[r] = "lookup" /\ pc' = [pc EXCEPT ![r] = "load"] /\ UNCHANGED <<db, mine, held, today>>
  BY DEF Proceed, Goto
<1>2. pc'[r] = "load" /\ "load" \in InFlight /\ pc[r] \in InFlight
  BY <1>1 DEF TypeOK, InFlight
<1>3. held' = [held EXCEPT ![r] = held[r]] /\ held'[r] = {}
  BY <1>1, OwnTypes DEF Place
<1>4. Place(r)' /\ Copy(r)'
  <2>1. \A x : x \notin held'[r]
    BY <1>3
  <2>2. Moved(r)' = {}
    BY <2>1 DEF Moved
  <2>. QED  BY <1>2, <1>3, <2>1, <2>2 DEF Place, Copy, Judging, Ending
<1>. QED  BY <1>1, <1>2, <1>3, <1>4, LockStep

LEMMA LoadStep ==
  ASSUME SalesInv, NEW r \in Requests, Load(r)
  PROVE  SalesInv'
<1> USE DEF SalesInv
<1> DEFINE d == IF cmd[r].doc = NoDoc THEN Unread.doc ELSE docs[cmd[r].doc]
           s == [doc |-> d, at |-> Len(book), on |-> today]
           label == AfterLoad(cmd[r].op, d)
<1>1. /\ pc[r] = "load" /\ cmd[r].op # "report" /\ Acceptable(r)
      /\ saw' = [saw EXCEPT ![r] = s] /\ pc' = [pc EXCEPT ![r] = label]
      /\ UNCHANGED <<db, cmd, level, cur, num, held, stamp, found, today>>
  BY DEF Load, Goto
<1>2. /\ cmd[r].doc \in DOMAIN docs \cup {NoDoc}
      /\ cmd[r].doc \notin DOMAIN docs => cmd[r].op = "create" /\ cmd[r].kind # "return"
      /\ cmd[r].doc \in DOMAIN docs => Lawful(cmd[r], docs[cmd[r].doc])
      /\ cmd[r].doc = NoDoc => Lawful(cmd[r], Unread.doc)
  BY <1>1, AcceptableIsLawful
<1>2a. NoDoc \notin DOMAIN docs
  BY NamesAssumption DEF TypeOK
<1>3. s \in [doc: Document, at: Nat, on: 1..LastDay]
  <2>1. d \in Document
    BY <1>2, UnreadType DEF TypeOK
  <2>. QED  BY <2>1 DEF TypeOK
<1>4. Lawful(cmd[r], d)
  BY <1>2
<1>5. /\ label \in {"count", "lines", "mark"}
      /\ label = "lines" => cmd[r].op \in Finalizes
      /\ label = "count" => (cmd[r].op \in Finalizes => d.body.lines = {}) /\ cmd[r].op # "cancel"
                            /\ cmd[r].op # "toOrder"
                            /\ (cmd[r].op = "toInvoice" => d.status # "draft")
      /\ label = "mark" => \/ cmd[r].op \in {"cancel", "toOrder"}
                           \/ cmd[r].op = "toInvoice" /\ d.status = "draft"
  BY DEF AfterLoad, Finalizes
<1>6. pc'[r] = label /\ saw'[r] = s /\ held'[r] = {}
  BY <1>1 DEF TypeOK, Place
<1>7. Place(r)'
  <2>1. \A x : x \notin held'[r]
    BY <1>6
  <2>2. Moved(r)' = {} /\ ~Marking(r)'
    BY <2>1 DEF Moved, Marking
  <2>3. cmd' = cmd /\ saw'[r].doc = d
    BY <1>1, <1>6
  <2> HIDE DEF d, label
  <2>4. WritesStatus(r)' <=> \/ cmd[r].op \in Finalizes \cup {"cancel", "toOrder"}
                             \/ cmd[r].op = "toInvoice" /\ d.status = "draft"
    BY <2>3 DEF WritesStatus
  <2>. QED  BY <1>5, <1>6, <2>1, <2>2, <2>3, <2>4 DEF Place, Ending, Creates, Finalizes
<1>8. Copy(r)'
  <2>1. cmd' = cmd /\ docs' = docs /\ book' = book /\ saw'[r].doc = d /\ saw'[r].at = Len(book)
    BY <1>1, <1>6 DEF db
  <2>2. Len(book) <= Len(book)
    BY DEF TypeOK
  <2>3. cmd[r].doc # NoDoc =>
          /\ cmd[r].doc \in DOMAIN docs /\ d = docs[cmd[r].doc]
          /\ Book!Exists(book, Len(book), cmd[r].doc)
          /\ Book!IsStatus(book, Len(book), cmd[r].doc, d.status)
    BY <1>2 DEF Recorded
  <2> HIDE DEF d
  <2>. QED  BY <1>2, <1>2a, <1>4, <2>1, <2>2, <2>3 DEF Copy
<1>9. label \in InFlight /\ pc[r] \in InFlight
  BY <1>1, <1>5 DEF InFlight
<1> HIDE DEF s, label
<1>10. Own(r)
  BY <1>1, <1>6, OwnTypes DEF Own
<1>. QED  BY <1>1, <1>3, <1>6, <1>7, <1>8, <1>9, <1>10, OwnTypes, OwnStep DEF InFlight

LEMMA ReadLevelStep ==
  ASSUME SalesInv, NEW r \in Requests, ReadLevel(r)
  PROVE  SalesInv'
<1> USE DEF SalesInv
<1>1. PICK p \in saw[r].doc.body.lines \ Moved(r) :
        cur' = [cur EXCEPT ![r] = p] /\ level' = [level EXCEPT ![r][p] = onhand[p]]
  BY DEF ReadLevel
<1>2. /\ pc[r] = "lines" /\ pc' = [pc EXCEPT ![r] = "write"]
      /\ UNCHANGED <<db, cmd, saw, num, held, stamp, found, today>>
  BY DEF ReadLevel, Goto
<1>3. p \in Products /\ onhand[p] \in Nat
  <2>1. saw[r].doc.body \in Body
    BY DEF TypeOK, Document
  <2>. QED  BY <1>1, <2>1 DEF Body, TypeOK
<1>4. /\ pc'[r] = "write" /\ cur'[r] = p /\ level'[r] \in [Products -> Nat]
      /\ \A q \in Products : q # p => level'[r][q] = level[r][q]
  BY <1>1, <1>2, <1>3 DEF TypeOK
<1>5. Own(r)
  <2>1. level' = [level EXCEPT ![r] = level'[r]] /\ cur' = [cur EXCEPT ![r] = cur'[r]]
    BY <1>1, <1>3 DEF TypeOK
  <2>2. pc' = [pc EXCEPT ![r] = pc'[r]]
    BY <1>2, <1>4
  <2>. QED  BY <1>2, <2>1, <2>2, OwnTypes DEF Own
<1>6. Place(r)'
  <2>1. /\ Moved(r)' = Moved(r) /\ Marking(r)' = Marking(r) /\ Delta(r)' = Delta(r)
        /\ Moved(r) \subseteq Products
    BY <1>2 DEF Moved, Marking, Delta
  <2>2. \A q \in Moved(r) : level'[r][q] + Delta(r) >= 0
    BY <1>1, <1>4, <2>1 DEF Place
  <2>. QED  BY <1>1, <1>2, <1>4, <2>1, <2>2 DEF Place, Ending
<1>7. Copy(r)'
  BY <1>2, CopyKept DEF db, Judging
<1>8. pc[r] \in InFlight /\ pc'[r] \in InFlight /\ pc'[r] # "done"
  BY <1>2, <1>4 DEF InFlight
<1>. QED  BY <1>2, <1>3, <1>4, <1>5, <1>6, <1>7, <1>8, OwnTypes, OwnStep

LEMMA WriteLevelStep ==
  ASSUME SalesInv, NEW r \in Requests, WriteLevel(r)
  PROVE  SalesInv'
<1> USE DEF SalesInv
<1> DEFINE locked == held[r] \cup {LevelRow(cur[r])}
<1>1. /\ pc[r] = "write" /\ pc' = [pc EXCEPT ![r] = AfterLine(r)] /\ ~Short(r)
      /\ UNCHANGED <<db, mine, today>>
  BY DEF WriteLevel, Goto
<1>2. held' = [held EXCEPT ![r] = locked]
  <2>1. Wants(r) = {LevelRow(cur[r])}
    BY <1>1 DEF Wants
  <2>. QED  BY <2>1 DEF WriteLevel, Lock
<1>3. AfterLine(r) \in {"count", "lines"} /\ pc'[r] = AfterLine(r) /\ held'[r] = locked
  BY <1>1, <1>2 DEF AfterLine, TypeOK
<1>4. Moved(r)' = Moved(r) \cup {cur[r]} /\ Marking(r)' = Marking(r)
  <2>1. cur[r] \in Products
    BY OwnTypes
  <2>2. UNCHANGED cmd
    BY <1>1 DEF mine
  <2>. QED  BY <1>3, <2>1, <2>2, RowsDiffer DEF Moved, Marking
<1>5. Place(r)'
  <2>1. UNCHANGED <<cmd, saw, level, cur>>
    BY <1>1 DEF mine
  <2>2. /\ cmd[r].op \in Finalizes /\ Moved(r) \subseteq saw[r].doc.body.lines /\ ~Marking(r)
        /\ cur[r] \in saw[r].doc.body.lines
    BY <1>1 DEF Place
  <2>3. AfterLine(r) = "count" => saw[r].doc.body.lines \subseteq Moved(r) \cup {cur[r]}
    BY DEF AfterLine
  <2>4. \A d : DocRow(d) \in held'[r] => DocRow(d) \in held[r]
    BY <1>3, RowsDiffer
  <2>5. \A p \in Moved(r)' : level[r][p] + Delta(r) >= 0
    <3>1. level[r][cur[r]] + Delta(r) >= 0
      BY <1>1, OwnTypes, DeltaType DEF Short
    <3>. QED  BY <1>4, <3>1 DEF Place
  <2>6. Delta(r)' = Delta(r)
    BY <2>1 DEF Delta
  <2>7. cmd[r].op # "cancel" /\ cmd[r].op \notin Creates
    BY <2>2 DEF Finalizes, Creates
  <2>. QED
    BY <1>3, <1>4, <2>1, <2>2, <2>3, <2>4, <2>5, <2>6, <2>7 DEF Place, Ending
<1>6. Copy(r)'
  BY <1>1, CopyKept DEF db, mine, Judging
<1>7. AfterLine(r) \in InFlight /\ pc[r] \in InFlight
  BY <1>1, <1>3 DEF InFlight
<1> HIDE DEF locked
<1>. QED  BY <1>1, <1>2, <1>5, <1>6, <1>7, LockStep

LEMMA CountStep ==
  ASSUME SalesInv, NEW r \in Requests, Count(r)
  PROVE  SalesInv'
<1> USE DEF SalesInv
<1>1. /\ pc[r] = "count" /\ pc' = [pc EXCEPT ![r] = "insert"]
      /\ num' = [num EXCEPT ![r] = NextNumber(Series(r))]
      /\ UNCHANGED <<db, cmd, saw, level, cur, held, stamp, found, today>>
  BY DEF Count, Goto
<1>2. pc'[r] = "insert" /\ num'[r] = NextNumber(Series(r)) /\ num'[r] \in Nat
  BY <1>1, NumbersFinite DEF TypeOK
<1>3. Own(r)
  BY <1>1, <1>2, OwnTypes DEF Own
<1>4. Place(r)'
  BY <1>1, <1>2 DEF Place, Moved, Marking, WritesStatus, Delta, Ending
<1>5. Copy(r)'
  BY <1>1, CopyKept DEF db, Judging
<1>6. pc[r] \in InFlight /\ pc'[r] \in InFlight /\ pc'[r] # "done"
  BY <1>1, <1>2 DEF InFlight
<1>. QED  BY <1>1, <1>2, <1>3, <1>4, <1>5, <1>6, OwnTypes, OwnStep

LEMMA InsertStep ==
  ASSUME SalesInv, NEW r \in Requests, Insert(r)
  PROVE  SalesInv'
<1> USE DEF SalesInv
<1> DEFINE label == IF cmd[r].op \in Finalizes THEN "mark" ELSE KeyOrCommit(r)
           locked == held[r] \cup {Number(Series(r), num[r])}
<1>1. /\ pc[r] = "insert" /\ pc' = [pc EXCEPT ![r] = label]
      /\ stamp' = [stamp EXCEPT ![r] = IF cmd[r].op \in Finalizes THEN today ELSE stamp[r]]
      /\ UNCHANGED <<db, cmd, saw, level, cur, num, found, today>>
  BY DEF Insert, Goto
<1>2. held' = [held EXCEPT ![r] = locked]
  <2>1. Wants(r) = {Number(Series(r), num[r])}
    BY <1>1 DEF Wants
  <2>. QED  BY <2>1 DEF Insert, Lock
<1>3. /\ label \in {"mark", "recheck", "commit"} /\ pc'[r] = label /\ held'[r] = locked
      /\ label = "mark" <=> cmd[r].op \in Finalizes
  BY <1>1, <1>2 DEF KeyOrCommit, TypeOK
<1>4. stamp'[r] \in 0..LastDay
  BY <1>1, OpeningAssumption DEF TypeOK
<1>5. Own(r)
  <2> HIDE DEF label, locked
  <2>1. stamp' = [stamp EXCEPT ![r] = stamp'[r]]
    BY <1>1 DEF TypeOK
  <2>2. pc' = [pc EXCEPT ![r] = pc'[r]] /\ held' = [held EXCEPT ![r] = held'[r]]
    BY <1>1, <1>2, <1>3
  <2>. QED  BY <1>1, <2>1, <2>2, OwnTypes DEF Own
<1>6. \A d : /\ DocRow(d) \in held'[r] <=> DocRow(d) \in held[r]
             /\ LevelRow(d) \in held'[r] <=> LevelRow(d) \in held[r]
  BY <1>3, RowsDiffer
<1>7. /\ Moved(r)' = Moved(r) /\ Marking(r)' = Marking(r)
      /\ Delta(r)' = Delta(r) /\ WritesStatus(r)' = WritesStatus(r)
  BY <1>1, <1>6 DEF Moved, Marking, Delta, WritesStatus
<1>8. label # "mark" => (Marking(r) <=> WritesStatus(r))
  <2>1. cmd[r].op # "cancel" /\ (Marking(r) <=> cmd[r].op \in Creates /\ WritesStatus(r))
    BY <1>1 DEF Place
  <2>2. cmd[r].op \notin Finalizes \cup {"cancel"} /\ WritesStatus(r) => cmd[r].op \in Creates
    BY DEF WritesStatus, Creates
  <2>. QED  BY <1>3, <2>1, <2>2
<1>9. Place(r)'
  <2> HIDE DEF label, locked
  <2>1. label = "mark" => WritesStatus(r)
    BY <1>3 DEF WritesStatus
  <2>. QED  BY <1>1, <1>3, <1>6, <1>7, <1>8, <2>1 DEF Place, Ending
<1>10. Copy(r)'
  BY <1>1, CopyKept DEF db, Judging
<1>11. pc[r] \in InFlight /\ pc'[r] \in InFlight /\ pc'[r] # "done"
  BY <1>1, <1>3 DEF InFlight
<1> HIDE DEF label, locked
<1>. QED  BY <1>1, <1>4, <1>5, <1>9, <1>10, <1>11, OwnTypes, OwnStep

LEMMA MarkStep ==
  ASSUME SalesInv, NEW r \in Requests, Mark(r)
  PROVE  SalesInv'
<1> USE DEF SalesInv
<1> DEFINE label == IF cmd[r].op \in Creates THEN "count" ELSE KeyOrCommit(r)
           locked == held[r] \cup {DocRow(cmd[r].doc)}
<1>1. pc[r] = "mark" /\ pc' = [pc EXCEPT ![r] = label] /\ UNCHANGED <<db, mine, today>>
  BY DEF Mark, Goto
<1>2. held' = [held EXCEPT ![r] = locked]
  <2>1. Wants(r) = {DocRow(cmd[r].doc)}
    BY <1>1 DEF Wants
  <2>. QED  BY <2>1 DEF Mark, Lock
<1>3. /\ label \in {"count", "recheck", "commit"} /\ pc'[r] = label /\ held'[r] = locked
      /\ label = "count" <=> cmd[r].op \in Creates
  BY <1>1, <1>2 DEF KeyOrCommit, TypeOK
<1>4. UNCHANGED <<cmd, saw, level, cur>>
  BY <1>1 DEF mine
<1>5. /\ Moved(r)' = Moved(r) /\ Marking(r)'
      /\ Delta(r)' = Delta(r) /\ WritesStatus(r)' = WritesStatus(r)
  BY <1>3, <1>4, RowsDiffer DEF Moved, Marking, Delta, WritesStatus
<1>6. \A d : DocRow(d) \in held'[r] => d = cmd[r].doc
  BY <1>3, RowsDiffer DEF Place
<1>7. Place(r)'
  <2> HIDE DEF label, locked
  <2>1. WritesStatus(r) /\ (cmd[r].op \in Creates => cmd[r].op # "cancel")
    BY <1>1 DEF Place, Creates
  <2>. QED  BY <1>1, <1>3, <1>4, <1>5, <1>6, <2>1 DEF Place, Ending
<1>8. Copy(r)'
  BY <1>1, <1>4, CopyKept DEF db, Judging
<1>9. pc[r] \in InFlight /\ label \in InFlight
  BY <1>1, <1>3 DEF InFlight
<1> HIDE DEF label, locked
<1>. QED  BY <1>1, <1>2, <1>7, <1>8, <1>9, LockStep

LEMMA KeyStep ==
  ASSUME SalesInv, NEW r \in Requests, Recheck(r) \/ ClaimKey(r)
  PROVE  SalesInv'
<1> USE DEF SalesInv
<1>1. PICK label \in {"claim", "commit"} : pc' = [pc EXCEPT ![r] = label]
  BY DEF Recheck, ClaimKey, Goto
<1>2. pc[r] \in {"recheck", "claim"} /\ UNCHANGED <<db, mine, today>>
  BY DEF Recheck, ClaimKey
<1>3. PICK locked \in {held[r], held[r] \cup {KeyValue(cmd[r].key)}} :
        held' = [held EXCEPT ![r] = locked]
  <2>1. CASE Recheck(r)
    BY <2>1, OwnTypes DEF Recheck
  <2>2. CASE ClaimKey(r)
    <3>1. pc[r] = "claim"
      BY <2>2 DEF ClaimKey
    <3>2. Wants(r) = {KeyValue(cmd[r].key)}
      BY <3>1 DEF Wants
    <3>. QED  BY <2>2, <3>2 DEF ClaimKey, Lock
  <2>. QED  BY <2>1, <2>2
<1>4. pc'[r] = label /\ held'[r] = locked
  BY <1>1, <1>3 DEF TypeOK
<1>5. \A d : /\ DocRow(d) \in held'[r] <=> DocRow(d) \in held[r]
             /\ LevelRow(d) \in held'[r] <=> LevelRow(d) \in held[r]
  BY <1>4, RowsDiffer
<1>6. UNCHANGED <<cmd, saw, level, cur>>
  BY <1>2 DEF mine
<1>7. /\ Moved(r)' = Moved(r) /\ Marking(r)' = Marking(r)
      /\ Delta(r)' = Delta(r) /\ WritesStatus(r)' = WritesStatus(r)
  BY <1>5, <1>6 DEF Moved, Marking, Delta, WritesStatus
<1>8. Place(r)'
  BY <1>2, <1>4, <1>5, <1>6, <1>7 DEF Place, Ending
<1>9. Copy(r)'
  BY <1>2, <1>6, CopyKept DEF db, Judging, Ending
<1>10. pc[r] \in InFlight /\ label \in InFlight
  BY <1>2 DEF InFlight
<1>. QED  BY <1>1, <1>2, <1>3, <1>8, <1>9, <1>10, LockStep

LEMMA FindStep ==
  ASSUME SalesInv, NEW r \in Requests, Find(r)
  PROVE  SalesInv'
<1> USE DEF SalesInv
<1> DEFINE label == IF FindInvoices(r) = {} THEN "done" ELSE "sum"
           s == [Unread EXCEPT !.at = Len(book), !.on = today]
           f == [found[r] EXCEPT !.docs = FindInvoices(r)]
<1>1. /\ pc[r] = "load" /\ cmd[r].op = "report" /\ pc' = [pc EXCEPT ![r] = label]
      /\ saw' = [saw EXCEPT ![r] = s] /\ found' = [found EXCEPT ![r] = f]
      /\ UNCHANGED <<db, cmd, level, cur, num, stamp, held, today>>
  BY DEF Find, Goto
<1>2. label \in {"done", "sum"}
  OBVIOUS
<1>3. FindInvoices(r) \subseteq DOMAIN docs /\ DOMAIN docs \subseteq DocIds
  BY DEF FindInvoices, TypeOK
<1>4. s \in [doc: Document, at: Nat, on: 1..LastDay]
  <2>1. Len(book) \in Nat /\ today \in 1..LastDay
    BY DEF TypeOK
  <2>. QED  BY <2>1, UnreadType
<1>5. /\ f \in [docs: SUBSET DocIds, lines: SUBSET (DocIds \X Products)]
      /\ f.docs \subseteq DOMAIN docs
  BY <1>3, OwnTypes
<1> HIDE DEF label, s, f
<1>6. pc'[r] = label /\ saw'[r] = s /\ found'[r] = f /\ held'[r] = {}
  BY <1>1 DEF TypeOK, Place
<1>7. Place(r)' /\ Copy(r)'
  <2>1. \A x : x \notin held'[r]
    BY <1>6
  <2>2. Moved(r)' = {}
    BY <2>1 DEF Moved
  <2>. QED  BY <1>1, <1>2, <1>6, <2>1, <2>2 DEF Place, Copy, Judging, Ending
<1>8. pc[r] \in InFlight /\ label \in InFlight \cup {"done"}
  BY <1>1, <1>2 DEF InFlight
<1>9. Own(r)
  BY <1>1, <1>6, OwnTypes DEF Own
<1>. QED  BY <1>1, <1>4, <1>5, <1>6, <1>7, <1>8, <1>9, OwnTypes, OwnStep

LEMMA SumLinesStep ==
  ASSUME SalesInv, NEW r \in Requests, SumLines(r)
  PROVE  SalesInv'
<1> USE DEF SalesInv
<1>1. /\ pc[r] = "sum" /\ UNCHANGED <<db, cmd, saw, level, cur, num, stamp, held, today>>
  BY DEF SumLines
<1>2. PICK D \in {found[r].docs} \cup {{d} : d \in found[r].docs} :
        LET lines == found[r].lines \cup UNION {LinesOf(d) : d \in D}
        IN  /\ found' = [found EXCEPT ![r].lines = lines]
            /\ Goto(r, IF \A d \in found[r].docs : LinesOf(d) \subseteq lines
                       THEN "done" ELSE "sum")
  BY DEF SumLines
<1> DEFINE f == [found[r] EXCEPT !.lines = @ \cup UNION {LinesOf(d) : d \in D}]
<1>3. PICK label \in {"done", "sum"} :
        pc' = [pc EXCEPT ![r] = label] /\ found' = [found EXCEPT ![r] = f]
  BY <1>2 DEF Goto
<1>4. D \subseteq DOMAIN docs /\ D \subseteq DocIds
  <2>1. found[r].docs \subseteq DOMAIN docs /\ DOMAIN docs \subseteq DocIds
    BY OwnTypes DEF TypeOK
  <2>. QED  BY <2>1
<1>5. \A d \in D : LinesOf(d) \subseteq DocIds \X Products
  <2>1. \A d \in D : docs[d].body.lines \subseteq Products
    BY <1>4 DEF TypeOK, Document, Body
  <2>. QED  BY <1>4, <2>1 DEF LinesOf
<1>6. /\ f \in [docs: SUBSET DocIds, lines: SUBSET (DocIds \X Products)]
      /\ f.docs \subseteq DOMAIN docs
  BY <1>5, OwnTypes
<1> HIDE DEF f
<1>7. pc'[r] = label /\ found'[r] = f /\ held'[r] = {}
  BY <1>1, <1>3 DEF TypeOK, Place
<1>8. Place(r)' /\ Copy(r)'
  <2>1. \A x : x \notin held'[r]
    BY <1>7
  <2>2. Moved(r)' = {} /\ cmd'[r].op = "report"
    BY <1>1, <2>1 DEF Moved, Place
  <2>. QED  BY <1>7, <2>1, <2>2 DEF Place, Copy, Judging, Ending
<1>9. pc[r] \in InFlight /\ label \in InFlight \cup {"done"}
  BY <1>1 DEF InFlight
<1>10. Own(r)
  BY <1>1, <1>3, <1>7, OwnTypes DEF Own
<1>. QED  BY <1>1, <1>6, <1>7, <1>8, <1>9, <1>10, OwnTypes, OwnStep

\* Another service's command, midnight, and the end.
LEMMA AmbientStep ==
  ASSUME SalesInv, UNCHANGED <<docs, book, pc, mine, held, onhand>>,
         keyRow' \in [Keys -> Requests \cup {Nobody, Elsewhere}], today' \in 1..LastDay
  PROVE  SalesInv'
<1> USE DEF SalesInv
<1>1. TypeOK' /\ held' = [q \in Requests |-> held'[q]]
  BY DEF TypeOK, mine
<1>2. Recorded' /\ Counted'
  BY DEF Recorded, Counted, mine
<1>3. ASSUME NEW q \in Requests PROVE (Place(q) /\ Copy(q))'
  BY Frame DEF mine
<1>. QED  BY <1>1, <1>2, <1>3

-----------------------------------------------------------------------------
(* The commit *)

\* The entries there are keep their meaning when one is appended.
LEMMA BookKept ==
  ASSUME NEW b \in Seq(Entry), NEW e \in Entry, NEW n \in 0..Len(b), NEW d, NEW s
  PROVE  /\ Book!Exists(Append(b, e), n, d) <=> Book!Exists(b, n, d)
         /\ Book!IsStatus(Append(b, e), n, d, s) <=> Book!IsStatus(b, n, d, s)
<1>1. \A i \in 1..n : Append(b, e)[i] = b[i]
  OBVIOUS
<1>. QED  BY <1>1 DEF Book!Exists, Book!IsStatus, Book!Writes

\* What the appended one adds.
LEMMA BookGrows ==
  ASSUME NEW b \in Seq(Entry), NEW e \in Entry, NEW d
  PROVE  /\ Book!Exists(b, Len(b), d) => Book!Exists(Append(b, e), Len(b) + 1, d)
         /\ e.by = d /\ e.op \in Creates => Book!Exists(Append(b, e), Len(b) + 1, d)
         /\ e.doc = d /\ e.to # "same" => Book!IsStatus(Append(b, e), Len(b) + 1, d, e.to)
         /\ \A s : ~(e.doc = d /\ e.to # "same") /\ Book!IsStatus(b, Len(b), d, s) =>
                     Book!IsStatus(Append(b, e), Len(b) + 1, d, s)
<1> DEFINE c == Append(b, e)
           n == Len(b)
<1>1. n \in Nat /\ c[n + 1] = e /\ \A i \in 1..n : c[i] = b[i]
  OBVIOUS
<1> HIDE DEF c, n
<1>2. n + 1 \in 1..(n + 1) /\ \A i \in 1..(n + 1) : i \in 1..n \/ i = n + 1
  BY <1>1
<1>3. 1..n \subseteq 1..(n + 1)
  BY <1>1
<1>4. Book!Exists(b, n, d) => Book!Exists(c, n + 1, d)
  BY <1>1, <1>3 DEF Book!Exists
<1>5. e.by = d /\ e.op \in Creates => Book!Exists(c, n + 1, d)
  <2>1. Creates = Book!Converts \cup {"create"}
    BY DEF Creates, Book!Converts
  <2>. QED  BY <1>1, <1>2, <2>1 DEF Book!Exists
<1>6. e.doc = d /\ e.to # "same" => Book!IsStatus(c, n + 1, d, e.to)
  <2>1. \A j \in 1..(n + 1) : ~(j > n + 1)
    BY <1>1
  <2>. QED  BY <1>1, <1>2, <2>1 DEF Book!IsStatus, Book!Writes
<1>7. ASSUME NEW s, ~(e.doc = d /\ e.to # "same"), Book!IsStatus(b, n, d, s)
      PROVE  Book!IsStatus(c, n + 1, d, s)
  <2>1. ~Book!Writes(c, n + 1, d) /\ \A i \in 1..n : Book!Writes(c, i, d) <=> Book!Writes(b, i, d)
    BY <1>1, <1>7 DEF Book!Writes
  <2>2. CASE s = Book!Initial(d) /\ \A i \in 1..n : ~Book!Writes(b, i, d)
    BY <1>2, <2>1, <2>2 DEF Book!IsStatus
  <2>3. ASSUME NEW i \in 1..n, Book!Writes(b, i, d), b[i].to = s,
               \A j \in 1..n : j > i => ~Book!Writes(b, j, d)
        PROVE  Book!IsStatus(c, n + 1, d, s)
    <3>1. i \in 1..(n + 1) /\ Book!Writes(c, i, d) /\ c[i].to = s
      BY <1>1, <1>3, <2>1, <2>3
    <3>2. \A j \in 1..(n + 1) : j > i => ~Book!Writes(c, j, d)
      BY <1>2, <2>1, <2>3
    <3>. QED  BY <3>1, <3>2 DEF Book!IsStatus
  <2>. QED  BY <1>7, <2>2, <2>3 DEF Book!IsStatus
<1>. QED  BY <1>4, <1>5, <1>6, <1>7 DEF c, n

\* A document nothing has been written of is a draft.
LEMMA BookDraft ==
  ASSUME NEW b, NEW n, NEW d, d \notin Existing, \A i \in 1..n : b[i].doc # d
  PROVE  Book!IsStatus(b, n, d, "draft")
  BY DEF Book!IsStatus, Book!Writes, Book!Initial

\* What a commit does to the book,
Enters(r) ==
  /\ Len(book) \in Nat /\ Len(book') = Len(book) + 1
  /\ book'[Len(book) + 1] = EntryOf(r) /\ \A i \in 1..Len(book) : book'[i] = book[i]
  /\ EntryOf(r).doc = cmd[r].doc /\ EntryOf(r).by = r /\ EntryOf(r).op = cmd[r].op
  /\ EntryOf(r).to = IF WritesStatus(r) THEN NewStatus(r) ELSE "same"
  /\ NewStatus(r) # "same"

\* and to the documents.
Files(r) ==
  /\ r \notin DOMAIN docs /\ cmd[r].doc # r
  /\ cmd[r].op \in Creates => DOMAIN docs' = DOMAIN docs \cup {r} /\ docs'[r] = NewDocument(r)
  /\ cmd[r].op \notin Creates => DOMAIN docs' = DOMAIN docs
  /\ \A d \in DOMAIN docs :
       /\ d # r /\ d # NoDoc /\ docs'[d].kind = docs[d].kind
       /\ docs'[d].body = docs[d].body /\ docs'[d].src = docs[d].src
       /\ docs'[d].no = docs[d].no
       /\ docs'[d].day = IF d = cmd[r].doc /\ cmd[r].op \in Finalizes
                         THEN stamp[r] ELSE docs[d].day
       /\ docs'[d].status = IF d = cmd[r].doc /\ WritesStatus(r)
                            THEN NewStatus(r) ELSE docs[d].status

LEMMA CommitFacts ==
  ASSUME SalesInv, NEW r \in Requests, Commit(r)
  PROVE  /\ book \in Seq(Entry) /\ EntryOf(r) \in Entry /\ book' = Append(book, EntryOf(r))
         /\ Enters(r) /\ Files(r) /\ Lawful(cmd[r], saw[r].doc)
<1> USE DEF SalesInv
<1>1. pc[r] = "commit" /\ docs' = DocsAfter(r) /\ book' = Append(book, EntryOf(r))
  BY DEF Commit
<1>2. Lawful(cmd[r], saw[r].doc) /\ cmd[r].doc \in DOMAIN docs \cup {NoDoc}
  BY <1>1 DEF Copy, Judging, Ending
<1>3. (Marking(r) <=> WritesStatus(r)) /\ \A d : DocRow(d) \in held[r] => d = cmd[r].doc
  BY <1>1 DEF Place, Ending
<1>4. r \notin DOMAIN docs /\ cmd[r].doc # r /\ NoDoc \notin DOMAIN docs
  <2>1. r # NoDoc /\ NoDoc \notin DOMAIN docs
    BY NamesAssumption DEF DocIds, TypeOK
  <2>. QED  BY <1>1, <1>2, <2>1 DEF Recorded
<1>5. book \in Seq(Entry) /\ EntryOf(r) \in Entry
  <2>1. book \in Seq(Entry) /\ book' \in Seq(Entry)
    BY CommitTypes DEF TypeOK
  <2>2. EntryOf(r) = book'[Len(book) + 1] /\ Len(book) + 1 \in 1..Len(book')
    BY <1>1, <2>1
  <2>. QED  BY <2>1, <2>2
<1>6. /\ Len(book) \in Nat /\ Len(book') = Len(book) + 1
      /\ book'[Len(book) + 1] = EntryOf(r) /\ \A i \in 1..Len(book) : book'[i] = book[i]
  BY <1>1, <1>5
<1>7. /\ EntryOf(r).doc = cmd[r].doc /\ EntryOf(r).by = r /\ EntryOf(r).op = cmd[r].op
      /\ EntryOf(r).to = IF WritesStatus(r) THEN NewStatus(r) ELSE "same"
      /\ NewStatus(r) # "same"
  BY <1>3 DEF EntryOf, Marking, NewStatus
<1>8. /\ DOMAIN docs' = DOMAIN docs \cup (IF cmd[r].op \in Creates THEN {r} ELSE {})
      /\ cmd[r].op \in Creates => docs'[r] = NewDocument(r)
      /\ \A d \in DOMAIN docs :
           docs'[d] = IF DocRow(d) \in held[r] THEN Marked(r, docs[d]) ELSE docs[d]
  BY <1>1, <1>4 DEF DocsAfter
<1>9. ASSUME NEW d \in DOMAIN docs
      PROVE  /\ d # r /\ d # NoDoc /\ docs'[d].kind = docs[d].kind
             /\ docs'[d].body = docs[d].body /\ docs'[d].src = docs[d].src
             /\ docs'[d].no = docs[d].no
             /\ docs'[d].day = IF d = cmd[r].doc /\ cmd[r].op \in Finalizes
                               THEN stamp[r] ELSE docs[d].day
             /\ docs'[d].status = IF d = cmd[r].doc /\ WritesStatus(r)
                                  THEN NewStatus(r) ELSE docs[d].status
  <2>1. DocRow(d) \in held[r] <=> d = cmd[r].doc /\ WritesStatus(r)
    BY <1>3 DEF Marking
  <2>2. docs[d] \in Document
    BY DEF TypeOK
  <2>3. /\ Marked(r, docs[d]).kind = docs[d].kind /\ Marked(r, docs[d]).body = docs[d].body
        /\ Marked(r, docs[d]).src = docs[d].src /\ Marked(r, docs[d]).status = NewStatus(r)
        /\ Marked(r, docs[d]).no = docs[d].no
        /\ Marked(r, docs[d]).day = IF cmd[r].op \in Finalizes THEN stamp[r] ELSE docs[d].day
    BY <2>2 DEF Marked, FinalizedAt, Document
  <2>4. cmd[r].op \in Finalizes => WritesStatus(r)
    BY DEF WritesStatus
  <2>. QED  BY <1>4, <1>8, <2>1, <2>3, <2>4
<1>10. Enters(r)
  BY <1>6, <1>7 DEF Enters
<1>11. Files(r)
  BY <1>4, <1>8, <1>9 DEF Files
<1>. QED  BY <1>1, <1>2, <1>5, <1>10, <1>11

LEMMA CommitRecorded ==
  ASSUME SalesInv, NEW r \in Requests, Commit(r)
  PROVE  Recorded'
<1>0. /\ TypeOK /\ Recorded /\ Counted
      /\ \A q \in Requests : Place(q) /\ Copy(q)
      /\ held = [q \in Requests |-> held[q]]
  BY DEF SalesInv
<1>commit. Enters(r) /\ Files(r)
  BY CommitFacts
<1>append. book \in Seq(Entry) /\ EntryOf(r) \in Entry /\ book' = Append(book, EntryOf(r))
  BY CommitFacts
<1> DEFINE e == EntryOf(r)
           n == Len(book)
<1>1. pc[r] = "commit" /\ pc' = [pc EXCEPT ![r] = "done"]
  BY DEF Commit, Goto
<1>2. pc'[r] = "done" /\ \A q \in Requests : pc[q] = "done" => pc'[q] = "done"
  BY <1>0, <1>1 DEF TypeOK
<1>3. ASSUME NEW d \in DOMAIN docs
      PROVE  /\ Book!Exists(book', Len(book'), d)
             /\ Book!IsStatus(book', Len(book'), d, docs'[d].status)
  <2>1. Book!Exists(book, n, d) /\ Book!IsStatus(book, n, d, docs[d].status)
    BY <1>0 DEF Recorded
  <2>2. docs'[d].status = IF e.doc = d /\ e.to # "same" THEN e.to ELSE docs[d].status
    BY <1>commit DEF Files, Enters
  <2>3. Book!Exists(book', n + 1, d) /\ Book!IsStatus(book', n + 1, d, docs'[d].status)
    <3> HIDE DEF e
    <3>1. book \in Seq(Entry) /\ e \in Entry /\ book' = Append(book, e)
      BY <1>append DEF e
    <3>. QED  BY <2>1, <2>2, <3>1, BookGrows
  <2>. QED  BY <1>commit, <2>3 DEF Enters
<1>4. cmd[r].op \in Creates =>
        Book!Exists(book', Len(book'), r) /\ Book!IsStatus(book', Len(book'), r, docs'[r].status)
  <2>1. SUFFICES ASSUME cmd[r].op \in Creates
                 PROVE  Book!Exists(book', n + 1, r) /\ Book!IsStatus(book', n + 1, r, "draft")
    <3>1. docs'[r].status = "draft" <=> cmd[r].op \in Creates \/ docs'[r].status = "draft"
      BY <1>commit DEF NewDocument, Files
    <3>. QED  BY <1>commit, <3>1 DEF Enters
  <2>2. Book!Exists(book', n + 1, r)
    BY <1>commit, <1>append, <2>1, BookGrows DEF Enters
  <2>3. r \notin Existing
    BY NamesAssumption
  <2>4. \A i \in 1..(n + 1) : book'[i].doc # r
    <3>1. \A i \in 1..n : book[i].doc \in DOMAIN docs \cup {NoDoc}
      BY <1>0 DEF Recorded
    <3>2. r # NoDoc
      BY NamesAssumption DEF DocIds
    <3>3. \A i \in 1..(n + 1) : i \in 1..n \/ i = n + 1
      BY <1>commit DEF Enters
    <3>. QED  BY <1>commit, <3>1, <3>2, <3>3 DEF Files, Enters
  <2>. QED  BY <2>2, <2>3, <2>4, BookDraft
<1>5. ASSUME NEW i \in 1..Len(book')
      PROVE  /\ book'[i].doc \in DOMAIN docs' \cup {NoDoc}
             /\ book'[i].by \in Requests => pc'[book'[i].by] = "done"
  <2>1. CASE i = n + 1
    <3>1. cmd[r].doc \in DOMAIN docs \cup {NoDoc}
      BY <1>0, <1>1 DEF Copy, Judging, Ending
    <3>. QED  BY <1>commit, <1>2, <2>1, <3>1 DEF Files, Enters
  <2>2. CASE i \in 1..n
    BY <1>0, <1>2, <1>commit, <2>2 DEF Recorded, Files, Enters
  <2>3. i = n + 1 \/ i \in 1..n
    BY <1>commit DEF Enters
  <2>. QED  BY <2>1, <2>2, <2>3
<1>6. \A q \in Requests : q \in DOMAIN docs' => pc'[q] = "done"
  BY <1>0, <1>2, <1>commit DEF Recorded, Files
<1>7. \A d \in DOMAIN docs' : d \in DOMAIN docs \/ (d = r /\ cmd[r].op \in Creates)
  BY <1>commit DEF Files
<1>. QED  BY <1>3, <1>4, <1>5, <1>6, <1>7 DEF Recorded

LEMMA CommitStep ==
  ASSUME SalesInv, NEW r \in Requests, Commit(r)
  PROVE  SalesInv'
<1>0. /\ TypeOK /\ Recorded /\ Counted
      /\ \A q \in Requests : Place(q) /\ Copy(q)
      /\ held = [q \in Requests |-> held[q]]
  BY DEF SalesInv
<1>commit. Enters(r) /\ Files(r)
  BY CommitFacts
<1>append. book \in Seq(Entry) /\ EntryOf(r) \in Entry /\ book' = Append(book, EntryOf(r))
  BY CommitFacts
<1>1. TypeOK' /\ held' = [q \in Requests |-> held'[q]] /\ Recorded'
  BY CommitTypes, CommitRecorded
<1>2. /\ pc' = [pc EXCEPT ![r] = "done"] /\ held' = [held EXCEPT ![r] = {}]
      /\ UNCHANGED <<cmd, saw, level, cur, found>>
  BY DEF Commit, Goto, Release, mine
<1>3. Counted'
  BY <1>0, <1>2, <1>commit DEF Counted, Files
<1>4. ASSUME NEW q \in Requests, q # r PROVE (Place(q) /\ Copy(q))'
  <2>1. pc'[q] = pc[q] /\ held'[q] = held[q]
    BY <1>0, <1>2, <1>4 DEF TypeOK
  <2>2. Place(q)'
    BY <1>0, <1>2, <2>1 DEF Place, Marking, WritesStatus, Moved, Delta, Ending
  <2>3. Copy(q)'
    <3>1. SUFFICES ASSUME pc[q] \in Judging
                   PROVE  /\ saw[q].at <= Len(book') /\ Lawful(cmd[q], saw[q].doc)
                          /\ cmd[q].doc = NoDoc => cmd[q].op = "create" /\ cmd[q].kind # "return"
                          /\ cmd[q].doc # NoDoc =>
                               /\ cmd[q].doc \in DOMAIN docs'
                               /\ docs'[cmd[q].doc].kind = saw[q].doc.kind
                               /\ docs'[cmd[q].doc].body = saw[q].doc.body
                               /\ Book!Exists(book', saw[q].at, cmd[q].doc)
                               /\ Book!IsStatus(book', saw[q].at, cmd[q].doc, saw[q].doc.status)
      BY <1>2, <2>1 DEF Copy, Judging, Ending
    <3>2. saw[q].at \in 0..Len(book)
      BY <1>0, <3>1 DEF Copy, TypeOK
    <3>3. cmd[q].doc # NoDoc => cmd[q].doc \in DOMAIN docs
      BY <1>0, <3>1 DEF Copy
    <3>4. cmd[q].doc # NoDoc =>
            /\ Book!Exists(book', saw[q].at, cmd[q].doc)
            /\ Book!IsStatus(book', saw[q].at, cmd[q].doc, saw[q].doc.status)
      <4>1. cmd[q].doc # NoDoc =>
            /\ Book!Exists(book, saw[q].at, cmd[q].doc)
            /\ Book!IsStatus(book, saw[q].at, cmd[q].doc, saw[q].doc.status)
        BY <1>0, <3>1 DEF Copy
      <4>. QED  BY <1>append, <3>2, <4>1, BookKept
    <3>. QED  BY <1>0, <1>commit, <3>1, <3>2, <3>3, <3>4 DEF Copy, Files, Enters
  <2>. QED  BY <2>2, <2>3
<1>5. (Place(r) /\ Copy(r))'
  <2>1. pc'[r] = "done" /\ held'[r] = {}
    BY <1>0, <1>2 DEF TypeOK
  <2>2. pc'[r] \notin Judging \cup {"sum", "lookup", "load"}
    BY <2>1 DEF Judging, Ending
  <2>3. \A x : x \notin held'[r]
    BY <2>1
  <2>4. Moved(r)' = {}
    BY <2>3 DEF Moved
  <2>. QED  BY <2>2, <2>3, <2>4 DEF Place, Copy, Judging
<1>. QED  BY <1>1, <1>3, <1>4, <1>5 DEF SalesInv

-----------------------------------------------------------------------------
(* The invariant *)

LEMMA SalesInvStep == SalesInv /\ [Next]_vars => SalesInv'
<1> SUFFICES ASSUME SalesInv, [Next]_vars PROVE SalesInv'
  OBVIOUS
<1>1. TypeOK
  BY DEF SalesInv
<1>2. CASE UNCHANGED vars
  <2>1. /\ UNCHANGED <<docs, book, pc, mine, held, onhand>>
        /\ keyRow' \in [Keys -> Requests \cup {Nobody, Elsewhere}] /\ today' \in 1..LastDay
    BY <1>1, <1>2 DEF TypeOK, vars, mine
  <2>. QED  BY <2>1, AmbientStep
<1>3. ASSUME NEW k \in Keys, StoreElsewhere(k) PROVE SalesInv'
  <2>1. /\ UNCHANGED <<docs, book, pc, mine, held, onhand>>
        /\ keyRow' \in [Keys -> Requests \cup {Nobody, Elsewhere}] /\ today' \in 1..LastDay
    BY <1>1, <1>3 DEF TypeOK, StoreElsewhere
  <2>. QED  BY <2>1, AmbientStep
<1>4. CASE Midnight
  <2>1. /\ UNCHANGED <<docs, book, pc, mine, held, onhand>>
        /\ keyRow' \in [Keys -> Requests \cup {Nobody, Elsewhere}] /\ today' \in 1..LastDay
    BY <1>1, <1>4, OpeningAssumption DEF TypeOK, Midnight, db
  <2>. QED  BY <2>1, AmbientStep
<1>5. ASSUME NEW r \in Requests, Serve(r) \/ Crash(r) PROVE SalesInv'
  BY <1>5, ReplayStep, ProceedStep, LoadStep, ReadLevelStep, WriteLevelStep, CountStep,
     InsertStep, MarkStep, KeyStep, CommitStep, FindStep, SumLinesStep, FailStep DEF Serve
<1>. QED  BY <1>2, <1>3, <1>4, <1>5 DEF Next, Quiescent

LEMMA SalesInvInit == Init => SalesInv
<1> SUFFICES ASSUME Init PROVE SalesInv
  OBVIOUS
<1>1. /\ docs = OpeningDocs /\ book = OpeningBook /\ OpeningDocs \in [Existing -> Document]
      /\ OpeningBook \in Seq(Entry)
  BY OpeningAssumption DEF Init
<1>2. cmd \in [Requests -> Command] /\ pc \in [Requests -> {"lookup", "load"}]
  BY WorkloadsAssumption DEF Init
<1>3. /\ held = [r \in Requests |-> held[r]] /\ \A r \in Requests : held[r] = {}
      /\ \A r \in Requests : found[r] = NothingFound
  BY DEF Init
<1>4. TypeOK
  <2>1. saw \in [Requests -> [doc: Document, at: Nat, on: 1..LastDay]]
    BY UnreadType DEF Init
  <2>2. cur \in [Requests -> Products]
    BY OpeningAssumption DEF Init
  <2>3. found \in [Requests -> [docs: SUBSET DocIds, lines: SUBSET (DocIds \X Products)]]
    BY DEF Init, NothingFound
  <2>4. pc \in [Requests -> InFlight \cup Finished]
    BY <1>2 DEF InFlight
  <2>5. DOMAIN docs \subseteq DocIds /\ \A d \in DOMAIN docs : docs[d] \in Document
    BY <1>1 DEF DocIds
  <2>6. /\ onhand \in [Products -> Nat] /\ level \in [Requests -> [Products -> Nat]]
        /\ keyRow \in [Keys -> Requests \cup {Nobody, Elsewhere}] /\ num \in [Requests -> Nat]
    BY OpeningAssumption DEF Init
  <2>7. stamp \in [Requests -> 0..LastDay] /\ today \in 1..LastDay
    BY OpeningAssumption DEF Init
  <2>. QED
    BY <1>1, <1>2, <1>3, <2>1, <2>2, <2>3, <2>4, <2>5, <2>6, <2>7 DEF TypeOK
<1>5. Recorded
  <2>1. ASSUME NEW d \in DOMAIN docs
        PROVE  Book!Exists(book, Len(book), d) /\ Book!IsStatus(book, Len(book), d, docs[d].status)
    <3>1. d \in Existing /\ OpeningSheets[d].status = docs[d].status
      BY <1>1 DEF OpeningSheets
    <3>2. Book!IsStatus(OpeningBook, Len(OpeningBook), d, OpeningSheets[d].status)
      BY <3>1, BookAssumption DEF Book!OpeningIsSound
    <3>. QED  BY <1>1, <3>1, <3>2 DEF Book!Exists
  <2>2. \A i \in 1..Len(book) : book[i].doc \in DOMAIN docs /\ book[i].by \notin Requests
    BY <1>1, BookAssumption, NamesAssumption DEF Book!OpeningIsSound
  <2>3. \A r \in Requests : r \notin DOMAIN docs
    BY <1>1, NamesAssumption
  <2>. QED  BY <2>1, <2>2, <2>3 DEF Recorded
<1>6. Counted
  BY <1>3 DEF Counted, NothingFound
<1>7. ASSUME NEW r \in Requests PROVE Place(r) /\ Copy(r)
  <2>1. \A x : x \notin held[r]
    BY <1>3
  <2>2. Moved(r) = {} /\ pc[r] \in {"lookup", "load"}
    BY <1>2, <2>1 DEF Moved
  <2>. QED  BY <1>3, <2>1, <2>2 DEF Place, Copy, Judging, Ending
<1>. QED  BY <1>3, <1>4, <1>5, <1>6, <1>7 DEF SalesInv

LEMMA SalesInvariant == Spec => []SalesInv
  BY SalesInvInit, SalesInvStep, PTL DEF Spec

\* The state keeps its types, on-hand stays a natural number, and a request that
\* has ended holds no lock.
THEOREM TypeCorrect == Spec => []TypeOK
<1>1. SalesInv => TypeOK
  BY DEF SalesInv
<1>. QED  BY <1>1, SalesInvariant, PTL

-----------------------------------------------------------------------------
(* The book *)

LEMMA SheetsKept == UNCHANGED docs => UNCHANGED Sheets
  BY DEF Sheets

\* The document of an entry is what its request had found.
LEMMA EntryFound ==
  ASSUME SalesInv, NEW r \in Requests, Commit(r), cmd[r].doc # NoDoc
  PROVE  /\ Book!Found(EntryOf(r), saw[r].doc.kind, saw[r].doc.status)
         /\ cmd[r].doc \in DOMAIN docs /\ Sheets[cmd[r].doc].lines = saw[r].doc.body.lines
<1>1. pc[r] = "commit"
  BY DEF Commit
<1>2. /\ cmd[r].doc \in DOMAIN docs
      /\ docs[cmd[r].doc].kind = saw[r].doc.kind /\ docs[cmd[r].doc].body = saw[r].doc.body
      /\ Book!Exists(book, saw[r].at, cmd[r].doc)
      /\ Book!IsStatus(book, saw[r].at, cmd[r].doc, saw[r].doc.status)
  BY <1>1 DEF SalesInv, Copy, Judging, Ending
<1>3. /\ DOMAIN Sheets = DOMAIN docs /\ Sheets[cmd[r].doc].kind = docs[cmd[r].doc].kind
      /\ Sheets[cmd[r].doc].lines = docs[cmd[r].doc].body.lines
  BY <1>2 DEF Sheets
<1>4. EntryOf(r).seen = saw[r].at /\ EntryOf(r).doc = cmd[r].doc
  BY DEF EntryOf
<1>. QED  BY <1>2, <1>3, <1>4 DEF Book!Found

\* What a commit does to the documents, as the book sees them.
LEMMA SheetsAfter ==
  ASSUME SalesInv, NEW r \in Requests, Commit(r)
  PROVE  LET e == EntryOf(r)
             After(d) == IF d = e.doc /\ e.to # "same" THEN [Sheets[d] EXCEPT !.status = e.to]
                         ELSE Sheets[d]
         IN  /\ cmd[r].op \notin Creates => Sheets' = [d \in DOMAIN Sheets |-> After(d)]
             /\ cmd[r].op \in Creates =>
                  Sheets' = [d \in DOMAIN Sheets \cup {r} |->
                               IF d = r
                               THEN [kind |-> NewKind(r), status |-> "draft", src |-> e.doc,
                                     lines |-> NewDocument(r).body.lines]
                               ELSE After(d)]
<1> DEFINE e == EntryOf(r)
           After(d) == IF d = e.doc /\ e.to # "same" THEN [Sheets[d] EXCEPT !.status = e.to]
                       ELSE Sheets[d]
           new == [kind |-> NewKind(r), status |-> "draft", src |-> e.doc,
                   lines |-> NewDocument(r).body.lines]
<1>1. Enters(r) /\ Files(r)
  BY CommitFacts
<1>2. DOMAIN Sheets = DOMAIN docs /\ DOMAIN Sheets' = DOMAIN docs'
  BY DEF Sheets
<1>3. \A d \in DOMAIN docs : Sheets'[d] = After(d)
  <2>1. SUFFICES ASSUME NEW d \in DOMAIN docs PROVE Sheets'[d] = After(d)
    OBVIOUS
  <2>2. d \in DOMAIN docs'
    BY <1>1 DEF Files
  <2>3. Sheets'[d] = [kind |-> docs'[d].kind, status |-> docs'[d].status,
                      src |-> docs'[d].src, lines |-> docs'[d].body.lines]
    BY <2>2 DEF Sheets
  <2>4. Sheets[d] = [kind |-> docs[d].kind, status |-> docs[d].status,
                     src |-> docs[d].src, lines |-> docs[d].body.lines]
    BY <2>1 DEF Sheets
  <2>5. /\ docs'[d].kind = docs[d].kind /\ docs'[d].body = docs[d].body
        /\ docs'[d].src = docs[d].src
        /\ docs'[d].status = IF d = cmd[r].doc /\ WritesStatus(r)
                             THEN NewStatus(r) ELSE docs[d].status
    BY <1>1 DEF Files
  <2>6. /\ e.doc = cmd[r].doc /\ NewStatus(r) # "same"
        /\ e.to = IF WritesStatus(r) THEN NewStatus(r) ELSE "same"
    BY <1>1 DEF Enters
  <2> HIDE DEF e
  <2>. QED  BY <2>3, <2>4, <2>5, <2>6
<1>4. cmd[r].op \in Creates => Sheets'[r] = new
  <2>1. SUFFICES ASSUME cmd[r].op \in Creates PROVE Sheets'[r] = new
    OBVIOUS
  <2>2. docs'[r] = NewDocument(r) /\ r \in DOMAIN docs'
    BY <1>1, <2>1 DEF Files
  <2>3. Sheets'[r] = [kind |-> NewDocument(r).kind, status |-> NewDocument(r).status,
                      src |-> NewDocument(r).src, lines |-> NewDocument(r).body.lines]
    BY <2>2 DEF Sheets
  <2>4. e.doc = cmd[r].doc
    BY <1>1 DEF Enters
  <2>. QED  BY <2>3, <2>4 DEF NewDocument
<1>5. r \notin DOMAIN docs /\ \A d \in DOMAIN docs : d # r
  BY <1>1 DEF Files
<1>6. /\ cmd[r].op \in Creates => DOMAIN docs' = DOMAIN docs \cup {r}
      /\ cmd[r].op \notin Creates => DOMAIN docs' = DOMAIN docs
  BY <1>1 DEF Files
<1>7. Sheets' = [d \in DOMAIN docs' |-> Sheets'[d]]
  BY DEF Sheets
<1> HIDE DEF e, After, new
<1>8. cmd[r].op \notin Creates => Sheets' = [d \in DOMAIN Sheets |-> After(d)]
  BY <1>2, <1>3, <1>6, <1>7
<1>9. cmd[r].op \in Creates =>
        Sheets' = [d \in DOMAIN Sheets \cup {r} |-> IF d = r THEN new ELSE After(d)]
  BY <1>2, <1>3, <1>4, <1>5, <1>6, <1>7
<1>. QED  BY <1>8, <1>9 DEF e, After, new

LEMMA CommitRecords ==
  ASSUME SalesInv, NEW r \in Requests, Commit(r)
  PROVE  Book!Record
<1> DEFINE e == EntryOf(r)
           s == saw[r].doc
           After(d) == IF d = e.doc /\ e.to # "same" THEN [Sheets[d] EXCEPT !.status = e.to]
                       ELSE Sheets[d]
<1>1. /\ Len(book') = Len(book) + 1 /\ book'[Len(book) + 1] = e /\ book' = Append(book, e)
      /\ Len(book) \in Nat /\ e.by = r /\ e.op = cmd[r].op /\ e.doc = cmd[r].doc
      /\ e.to = (IF WritesStatus(r) THEN NewStatus(r) ELSE "same") /\ Lawful(cmd[r], s)
  BY CommitFacts DEF Enters
<1>2. pc[r] = "commit"
  BY DEF Commit
<1>3. e.by \in Requests /\ \A i \in 1..Len(book) : book[i].by # e.by
  BY <1>1, <1>2 DEF SalesInv, Recorded
<1>4. e.seen \in Nat /\ e.seen <= Len(book)
  BY <1>2 DEF SalesInv, TypeOK, Copy, Judging, Ending, EntryOf
<1>5. e.moved = IF cmd[r].op \in Finalizes THEN s.body.lines ELSE {}
  BY <1>2 DEF SalesInv, Place, Ending, EntryOf
<1>6. /\ cmd[r].doc = NoDoc => cmd[r].op = "create" /\ cmd[r].kind # "return"
      /\ cmd[r].doc # NoDoc => Book!Found(e, s.kind, s.status) /\ Sheets[e.doc].lines = s.body.lines
  BY <1>1, <1>2, EntryFound DEF SalesInv, Copy, Judging, Ending
<1>7. cmd[r].op \notin Creates => Sheets' = [d \in DOMAIN Sheets |-> After(d)]
  BY SheetsAfter
<1>8. ASSUME cmd[r].op \in Creates, e.moved = {}
      PROVE  Book!Makes(e, NewKind(r), NewDocument(r).body.lines)
  <2>1. Sheets' = [d \in DOMAIN Sheets \cup {r} |->
                     IF d = r THEN [kind |-> NewKind(r), status |-> "draft", src |-> e.doc,
                                    lines |-> NewDocument(r).body.lines]
                     ELSE After(d)]
    BY <1>8, SheetsAfter
  <2>2. e.by = r
    BY <1>1
  <2> HIDE DEF e
  <2>. QED  BY <1>8, <2>1, <2>2 DEF Book!Makes
<1>9. ASSUME cmd[r].op \notin Creates, e.to # "same"
      PROVE  Book!Marks(e, e.to, e.moved)
  <2>1. Sheets = [d \in DOMAIN Sheets |-> Sheets[d]]
    BY DEF Sheets
  <2> HIDE DEF e
  <2>2. Sheets' = [Sheets EXCEPT ![e.doc].status = e.to]
    BY <1>7, <1>9, <2>1
  <2>. QED  BY <2>2 DEF Book!Marks
<1>10. s \in Document /\ s.kind \in Book!Kinds /\ s.body.lines \in SUBSET Products
  BY DEF SalesInv, TypeOK, Document, Body, Kinds, Book!Kinds
<1>11. cmd[r].op \in Ops /\ cmd[r].kind \in Book!Kinds /\ cmd[r].body.lines \in SUBSET Products
  BY CommandType DEF SalesInv, Body, Kinds, Book!Kinds
<1> HIDE DEF e, s, After
<1>12. CASE cmd[r].op = "create"
  <2>1. e.to = "same" /\ cmd[r].op \in Creates /\ e.moved = {}
    BY <1>1, <1>5, <1>12 DEF WritesStatus, Finalizes, Creates
  <2>2. NewKind(r) = cmd[r].kind /\ NewDocument(r).body.lines = cmd[r].body.lines
    BY <1>12 DEF NewKind, NewDocument
  <2>3. cmd[r].kind = "return" => Book!Found(e, "invoice", "finalized")
    BY <1>1, <1>6, <1>12 DEF Lawful
  <2>4. Book!Makes(e, cmd[r].kind, cmd[r].body.lines)
    BY <1>8, <2>1, <2>2
  <2>5. \E kind \in Book!Kinds, lines \in SUBSET Products :
          (kind = "return" => Book!Found(e, "invoice", "finalized")) /\ Book!Makes(e, kind, lines)
    BY <1>11, <2>3, <2>4
  <2>6. Book!Create(e)
    BY <1>1, <1>12, <2>1, <2>5 DEF Book!Create
  <2>. QED  BY <1>1, <1>3, <1>4, <2>6 DEF Book!Record
<1>13. CASE cmd[r].op = "toOrder"
  <2>1. e.to = "confirmed" /\ cmd[r].op \in Creates /\ e.moved = {} /\ NewKind(r) = "order"
    BY <1>1, <1>5, <1>13 DEF WritesStatus, NewStatus, NewKind, Finalizes, Creates
  <2>2. s.kind = "quote" /\ s.status = "draft"
    BY <1>1, <1>13 DEF Lawful
  <2>3. NewDocument(r).body.lines = Sheets[e.doc].lines /\ Book!Found(e, "quote", "draft")
    BY <1>6, <1>13, <2>2 DEF NewDocument, s
  <2>4. Book!ToOrder(e)
    BY <1>1, <1>8, <1>13, <2>1, <2>3 DEF Book!ToOrder
  <2>. QED  BY <1>1, <1>3, <1>4, <2>4 DEF Book!Record
<1>14. CASE cmd[r].op = "toInvoice"
  <2>1. cmd[r].op \in Creates /\ e.moved = {} /\ NewKind(r) = "invoice"
    BY <1>5, <1>14 DEF NewKind, Finalizes, Creates
  <2>2. s.kind = "order" /\ s.status \in {"draft", "confirmed"}
    BY <1>1, <1>14 DEF Lawful
  <2>3. e.to = IF s.status = "draft" THEN "confirmed" ELSE "same"
    BY <1>1, <1>14 DEF WritesStatus, NewStatus, Finalizes, s
  <2>4. NewDocument(r).body.lines = Sheets[e.doc].lines /\ Book!Found(e, "order", s.status)
    BY <1>6, <1>14, <2>2 DEF NewDocument, s
  <2>5. Book!ToInvoice(e)
    BY <1>1, <1>8, <1>14, <2>1, <2>2, <2>3, <2>4 DEF Book!ToInvoice
  <2>. QED  BY <1>1, <1>3, <1>4, <2>5 DEF Book!Record
<1>15. CASE cmd[r].op \in Finalizes
  <2>1. cmd[r].op \notin Creates /\ e.to = "finalized" /\ e.moved = Sheets[e.doc].lines
    BY <1>1, <1>5, <1>6, <1>15 DEF WritesStatus, NewStatus, Finalizes, Creates
  <2>2. Book!Marks(e, "finalized", Sheets[e.doc].lines)
    BY <1>9, <2>1
  <2>3. \/ e.op = "finalizeInvoice" /\ Book!Found(e, "invoice", "draft")
        \/ e.op = "finalizeReturn" /\ Book!Found(e, "return", "draft")
    BY <1>1, <1>6, <1>15 DEF Lawful, Finalizes
  <2>4. Book!Finalize(e)
    BY <2>2, <2>3 DEF Book!Finalize
  <2>. QED  BY <1>1, <1>3, <1>4, <2>4 DEF Book!Record
<1>16. CASE cmd[r].op = "pay"
  <2>1. cmd[r].op \notin Creates /\ e.to = "same" /\ e.moved = {}
    BY <1>1, <1>5, <1>16 DEF WritesStatus, Finalizes, Creates
  <2>2. UNCHANGED Sheets
    <3>1. Sheets = [d \in DOMAIN Sheets |-> Sheets[d]]
      BY DEF Sheets
    <3>2. \A d : After(d) = Sheets[d]
      BY <2>1 DEF After
    <3>. QED  BY <1>7, <2>1, <3>1, <3>2
  <2>3. Book!Found(e, "invoice", "finalized")
    BY <1>1, <1>6, <1>16 DEF Lawful
  <2>4. Book!Pay(e)
    BY <1>1, <1>16, <2>1, <2>2, <2>3 DEF Book!Pay
  <2>. QED  BY <1>1, <1>3, <1>4, <2>4 DEF Book!Record
<1>17. CASE cmd[r].op = "cancel"
  <2>1. cmd[r].op \notin Creates /\ e.to = "cancelled" /\ e.moved = {}
    BY <1>1, <1>5, <1>17 DEF WritesStatus, NewStatus, Finalizes, Creates
  <2>2. Book!Marks(e, "cancelled", {})
    BY <1>9, <2>1
  <2>3. \/ \E kind \in Book!Kinds : Book!Found(e, kind, "draft")
        \/ \E kind \in {"quote", "order"} : Book!Found(e, kind, "confirmed")
    BY <1>1, <1>6, <1>10, <1>17 DEF Lawful
  <2>4. Book!Cancel(e)
    BY <1>1, <1>17, <2>2, <2>3 DEF Book!Cancel
  <2>. QED  BY <1>1, <1>3, <1>4, <2>4 DEF Book!Record
<1>18. cmd[r].op # "report"
  BY <1>1 DEF Lawful
<1>. QED
  BY <1>11, <1>12, <1>13, <1>14, <1>15, <1>16, <1>17, <1>18 DEF Ops, Finalizes

\* The service implements the book: every commit is one whole entry, legal for the
\* document as it was when its request read it, and nothing else changes the
\* documents or the book.
THEOREM BookRefinement == Spec => RefinesBook
<1>1. Init => Book!Init
  <2>1. OpeningDocs \in [Existing -> Document]
    BY OpeningAssumption
  <2>. QED  BY <2>1 DEF Init, Book!Init, Sheets, OpeningSheets
<1>2. SalesInv /\ [Next]_vars => [Book!Record]_<<Sheets, book>>
  <2> SUFFICES ASSUME SalesInv, [Next]_vars PROVE [Book!Record]_<<Sheets, book>>
    OBVIOUS
  <2>1. CASE UNCHANGED <<docs, book>>
    BY <2>1, SheetsKept
  <2>2. ASSUME NEW r \in Requests, Commit(r) PROVE Book!Record
    BY <2>2, CommitRecords
  <2>. QED
    BY <2>1, <2>2
       DEF Next, Serve, Replay, Proceed, Load, Reject, ReadLevel, RejectShortage, WriteLevel,
           RejectUnpriced, Count, Insert, InsertClash, Mark, Recheck, ClaimKey, ClaimClash,
           Find, SumLines, DeadlockVictim, Crash, Rollback, StoreElsewhere, Midnight,
           Quiescent, vars, db
<1>. QED
  BY <1>1, <1>2, SalesInvariant, PTL DEF Spec, RefinesBook, Book!Spec

-----------------------------------------------------------------------------
(* What the status of a document rules out *)

\* What is known of the entries, with what it is needed for.
SoundInv ==
  /\ \A i \in 1..Len(book) :
       /\ Book!EntryIsSound(book[i], Sheets)
       /\ book[i].op \in Finalizes => book[i].doc \in DOMAIN docs
  /\ OnceIfSequential /\ LostOnlyToOverlap

\* Who has seen a draft has seen no entry that writes its status: no command
\* makes a document a draft again.
LEMMA DraftIsUnwritten ==
  ASSUME SoundInv, Len(book) \in Nat, NEW n \in 0..Len(book), NEW d,
         Book!IsStatus(book, n, d, "draft"),
         NEW i \in 1..Len(book), book[i].doc = d, book[i].to # "same"
  PROVE  n < i
<1>1. SUFFICES ASSUME i \in 1..n PROVE FALSE
  OBVIOUS
<1>2. Book!Writes(book, i, d)
  BY DEF Book!Writes
<1>3. PICK k \in 1..n : book[k].to = "draft"
  BY <1>1, <1>2 DEF Book!IsStatus
<1>4. Book!EntryIsSound(book[k], Sheets)
  BY <1>3 DEF SoundInv
<1>. QED  BY <1>3, <1>4 DEF Book!EntryIsSound

LEMMA SoundInvInit == Init => SoundInv
<1> SUFFICES ASSUME Init PROVE SoundInv
  OBVIOUS
<1>1. book = OpeningBook /\ Sheets = OpeningSheets /\ DOMAIN docs = Existing
  BY OpeningAssumption DEF Init, Sheets, OpeningSheets
<1>2. /\ Book!OnceIn(OpeningBook) /\ Book!FinalIn(OpeningBook, OpeningSheets)
      /\ \A i \in 1..Len(OpeningBook) :
           OpeningBook[i].doc \in Existing /\ Book!EntryIsSound(OpeningBook[i], OpeningSheets)
  BY BookAssumption DEF Book!OpeningIsSound
<1>3. OnceIfSequential /\ LostOnlyToOverlap
  BY <1>1, <1>2
     DEF OnceIfSequential, LostOnlyToOverlap, Book!OnceIfSequential, Book!LostOnlyToOverlap
<1>. QED  BY <1>1, <1>2, <1>3 DEF SoundInv

\* What the entry of a commit is, and what it does to a document there was.
LEMMA NewEntry ==
  ASSUME SalesInv, NEW r \in Requests, Commit(r)
  PROVE  LET e == EntryOf(r)
         IN  /\ e.to # "draft"
             /\ e.op \in Finalizes => /\ e.doc \in DOMAIN docs /\ e.to = "finalized"
                                      /\ Sheets[e.doc].kind \in {"invoice", "return"}
             /\ e.op = "toOrder" => e.to = "confirmed"
             /\ e.op \in Finalizes \cup {"toOrder"} => Book!IsStatus(book, e.seen, e.doc, "draft")
             /\ \A d \in DOMAIN docs :
                  /\ d \in DOMAIN docs' /\ Sheets'[d].kind = Sheets[d].kind
                  /\ Sheets'[d].status # Sheets[d].status =>
                       e.doc = d /\ e.to # "same" /\ Sheets'[d].status = e.to
             /\ e.op \in Finalizes => Sheets'[e.doc].status = "finalized"
             /\ e.doc \in DOMAIN docs /\ e.to \notin {"same", "finalized"}
                /\ Sheets[e.doc].kind \in {"invoice", "return"} =>
                  e.op = "cancel" /\ Book!IsStatus(book, e.seen, e.doc, "draft")
<1> DEFINE e == EntryOf(r)
           s == saw[r].doc
<1>1. /\ e.op = cmd[r].op /\ e.doc = cmd[r].doc /\ NewStatus(r) # "same"
      /\ e.to = (IF WritesStatus(r) THEN NewStatus(r) ELSE "same") /\ Lawful(cmd[r], s)
  BY CommitFacts DEF Enters
<1>2. cmd[r].doc = NoDoc => cmd[r].op = "create"
  BY DEF Commit, SalesInv, Copy, Judging, Ending
<1>3. cmd[r].doc # NoDoc => /\ Book!Found(e, s.kind, s.status)
                            /\ cmd[r].doc \in DOMAIN docs
  BY EntryFound
<1>4. cmd[r].doc # NoDoc => /\ Sheets[e.doc].kind = s.kind
                            /\ Book!IsStatus(book, e.seen, e.doc, s.status)
  BY <1>3 DEF Book!Found
<1>5. NewStatus(r) \in {"cancelled", "finalized", "confirmed"}
  BY DEF NewStatus
<1>6. DOMAIN Sheets = DOMAIN docs /\ DOMAIN Sheets' = DOMAIN docs'
  BY DEF Sheets
<1>7. Files(r)
  BY CommitFacts
<1>8. ASSUME NEW d \in DOMAIN docs
      PROVE  /\ d \in DOMAIN docs' /\ Sheets'[d].kind = Sheets[d].kind
             /\ Sheets'[d].status = IF e.doc = d /\ e.to # "same" THEN e.to ELSE Sheets[d].status
  <2>1. d \in DOMAIN docs'
    BY <1>7 DEF Files
  <2>2. Sheets'[d].kind = docs'[d].kind /\ Sheets'[d].status = docs'[d].status
    BY <2>1 DEF Sheets
  <2>3. Sheets[d].kind = docs[d].kind /\ Sheets[d].status = docs[d].status
    BY DEF Sheets
  <2>4. /\ docs'[d].kind = docs[d].kind
        /\ docs'[d].status = IF d = cmd[r].doc /\ WritesStatus(r)
                             THEN NewStatus(r) ELSE docs[d].status
    BY <1>7 DEF Files
  <2> HIDE DEF e
  <2>. QED  BY <1>1, <2>1, <2>2, <2>3, <2>4
<1>9. cmd[r].op \in Ops /\ s.kind \in Kinds /\ s.status \in Statuses
  <2>1. s \in Document
    BY DEF SalesInv, TypeOK
  <2>. QED  BY <2>1, CommandType DEF SalesInv, Document
<1> HIDE DEF e, s
<1>10. e.op \in Finalizes =>
         /\ e.doc \in DOMAIN docs /\ e.to = "finalized"
         /\ Sheets[e.doc].kind \in {"invoice", "return"}
         /\ Book!IsStatus(book, e.seen, e.doc, "draft")
  <2>1. SUFFICES ASSUME cmd[r].op \in Finalizes
                 PROVE  /\ e.doc \in DOMAIN docs /\ e.to = "finalized"
                        /\ Sheets[e.doc].kind \in {"invoice", "return"}
                        /\ Book!IsStatus(book, e.seen, e.doc, "draft")
    BY <1>1
  <2>2. cmd[r].doc # NoDoc /\ s.kind \in {"invoice", "return"} /\ s.status = "draft"
    BY <1>1, <1>2, <2>1 DEF Lawful, Finalizes
  <2>3. e.to = "finalized"
    BY <1>1, <2>1 DEF WritesStatus, NewStatus, Finalizes
  <2>. QED  BY <1>1, <1>3, <1>4, <2>2, <2>3
<1>11. e.op = "toOrder" => e.to = "confirmed" /\ Book!IsStatus(book, e.seen, e.doc, "draft")
  BY <1>1, <1>2, <1>4 DEF Lawful, WritesStatus, NewStatus, Finalizes
<1>12. ASSUME e.doc \in DOMAIN docs, e.to \notin {"same", "finalized"},
              Sheets[e.doc].kind \in {"invoice", "return"}
       PROVE  e.op = "cancel" /\ Book!IsStatus(book, e.seen, e.doc, "draft")
  <2>1. cmd[r].doc # NoDoc
    BY <1>1, <1>12, NamesAssumption DEF SalesInv, TypeOK
  <2>2. s.kind \in {"invoice", "return"} /\ Book!IsStatus(book, e.seen, e.doc, s.status)
    BY <1>4, <1>12, <2>1
  <2>3. WritesStatus(r) /\ cmd[r].op \notin Finalizes
    BY <1>1, <1>12 DEF NewStatus, Finalizes
  <2>4. cmd[r].op = "cancel"
    BY <1>1, <2>2, <2>3 DEF WritesStatus, Lawful
  <2>. QED  BY <1>1, <2>2, <2>4 DEF Lawful
<1>13. e.to # "draft"
  BY <1>1, <1>5
<1>. QED  BY <1>8, <1>10, <1>11, <1>12, <1>13 DEF e

LEMMA CommitSound ==
  ASSUME SalesInv, SoundInv, NEW r \in Requests, Commit(r)
  PROVE  SoundInv'
<1> DEFINE e == EntryOf(r)
           n == Len(book)
<1>1. /\ n \in Nat /\ Len(book') = n + 1 /\ book'[n + 1] = e
      /\ \A i \in 1..n : book'[i] = book[i]
  BY CommitFacts DEF Enters
<1>2. /\ e.to # "draft"
      /\ e.op \in Finalizes => /\ e.doc \in DOMAIN docs /\ e.to = "finalized"
                               /\ Sheets[e.doc].kind \in {"invoice", "return"}
      /\ e.op = "toOrder" => e.to = "confirmed"
      /\ e.op \in Finalizes \cup {"toOrder"} => Book!IsStatus(book, e.seen, e.doc, "draft")
  BY NewEntry
<1>3. \A d \in DOMAIN docs :
        /\ d \in DOMAIN docs' /\ Sheets'[d].kind = Sheets[d].kind
        /\ Sheets'[d].status # Sheets[d].status =>
             e.doc = d /\ e.to # "same" /\ Sheets'[d].status = e.to
  BY NewEntry
<1>4. /\ e.op \in Finalizes => Sheets'[e.doc].status = "finalized"
      /\ e.doc \in DOMAIN docs /\ e.to \notin {"same", "finalized"}
         /\ Sheets[e.doc].kind \in {"invoice", "return"} =>
           e.op = "cancel" /\ Book!IsStatus(book, e.seen, e.doc, "draft")
  BY NewEntry
<1>5. e.seen \in 0..n
  BY DEF Commit, SalesInv, TypeOK, Copy, Judging, Ending, EntryOf
<1> HIDE DEF e, n
<1>6. Finalizes = Book!Finalizes
  BY DEF Finalizes, Book!Finalizes
<1>7. \A i \in 1..(n + 1) : i \in 1..n \/ i = n + 1
  BY <1>1
<1>8. ASSUME NEW i \in 1..n
      PROVE  /\ Book!EntryIsSound(book[i], Sheets)
             /\ book[i].op \in Finalizes => book[i].doc \in DOMAIN docs
             /\ book[i].op \in Finalizes \cup {"toOrder"} => book[i].to # "same"
  BY <1>6, <1>8 DEF SoundInv, Book!EntryIsSound, n
<1>9. ASSUME NEW i \in 1..(n + 1)
      PROVE  /\ Book!EntryIsSound(book'[i], Sheets')
             /\ book'[i].op \in Finalizes => book'[i].doc \in DOMAIN docs'
  <2>1. CASE i \in 1..n
    BY <1>1, <1>3, <1>6, <1>8, <2>1 DEF Book!EntryIsSound
  <2>2. CASE i = n + 1
    BY <1>1, <1>2, <1>3, <1>6, <2>2 DEF Book!EntryIsSound
  <2>. QED  BY <1>7, <2>1, <2>2
\* Who judged a draft judged it before any entry that writes its status.
<1>10. ASSUME Book!IsStatus(book, e.seen, e.doc, "draft"),
              NEW i \in 1..n, book[i].doc = e.doc, book[i].op \in Finalizes \cup {"toOrder"}
       PROVE  e.seen < i
  BY <1>1, <1>5, <1>8, <1>10, DraftIsUnwritten DEF n
<1>11. OnceIfSequential'
  <2>1. SUFFICES ASSUME NEW i \in 1..(n + 1), NEW j \in 1..(n + 1), i < j,
                        book'[i].doc = book'[j].doc, book'[i].op = book'[j].op,
                        book'[i].op \in Finalizes \cup {"toOrder"}
                 PROVE  book'[j].seen < i
    BY <1>1, <1>6 DEF OnceIfSequential, Book!OnceIfSequential, Book!OnceIn
  <2>2. i \in 1..n
    BY <1>1, <2>1
  <2>3. CASE j \in 1..n
    BY <1>1, <1>6, <2>1, <2>2, <2>3
       DEF SoundInv, OnceIfSequential, Book!OnceIfSequential, Book!OnceIn, n
  <2>4. CASE j = n + 1
    BY <1>1, <1>2, <1>10, <2>1, <2>2, <2>4
  <2>. QED  BY <1>7, <2>3, <2>4
<1>12. LostOnlyToOverlap'
  <2>1. SUFFICES ASSUME NEW i \in 1..(n + 1), book'[i].op \in Finalizes,
                        Sheets'[book'[i].doc].status # "finalized"
                 PROVE  \E j \in 1..(n + 1) : i < j /\ book'[j].op = "cancel"
                          /\ book'[j].doc = book'[i].doc /\ book'[j].seen < i
    BY <1>1, <1>6 DEF LostOnlyToOverlap, Book!LostOnlyToOverlap, Book!FinalIn
  <2>2. i \in 1..n /\ book'[i] = book[i] /\ book[i].doc \in DOMAIN docs
    BY <1>1, <1>4, <1>7, <1>8, <2>1
  <2>3. CASE Sheets[book[i].doc].status # "finalized"
    <3>1. PICK j \in 1..n : i < j /\ book[j].op = "cancel" /\ book[j].doc = book[i].doc
                            /\ book[j].seen < i
      BY <1>6, <2>1, <2>2, <2>3
         DEF SoundInv, LostOnlyToOverlap, Book!LostOnlyToOverlap, Book!FinalIn, n
    <3>2. j \in 1..(n + 1)
      BY <1>1
    <3>. QED  BY <1>1, <2>2, <3>1, <3>2
  <2>4. CASE Sheets[book[i].doc].status = "finalized"
    <3>1. e.doc = book[i].doc /\ e.to \notin {"same", "finalized"}
      BY <1>3, <2>1, <2>2, <2>4
    <3>2. Sheets[e.doc].kind \in {"invoice", "return"}
      BY <1>6, <1>8, <2>1, <2>2, <3>1 DEF Book!EntryIsSound
    <3>3. e.op = "cancel" /\ Book!IsStatus(book, e.seen, e.doc, "draft")
      BY <1>4, <2>2, <3>1, <3>2
    <3>4. e.seen < i /\ i < n + 1 /\ n + 1 \in 1..(n + 1)
      BY <1>1, <1>10, <2>1, <2>2, <3>1, <3>3
    <3>. QED  BY <1>1, <2>2, <3>1, <3>3, <3>4
  <2>. QED  BY <2>3, <2>4
<1>. QED  BY <1>1, <1>9, <1>11, <1>12 DEF SoundInv

LEMMA SoundInvStep == SalesInv /\ SoundInv /\ [Next]_vars => SoundInv'
<1> SUFFICES ASSUME SalesInv, SoundInv, [Next]_vars PROVE SoundInv'
  OBVIOUS
<1>1. CASE UNCHANGED <<docs, book>>
  <2>1. UNCHANGED Sheets
    BY <1>1, SheetsKept
  <2>. QED
    BY <1>1, <2>1
       DEF SoundInv, OnceIfSequential, LostOnlyToOverlap, Book!OnceIfSequential,
           Book!LostOnlyToOverlap
<1>2. ASSUME NEW r \in Requests, Commit(r) PROVE SoundInv'
  BY <1>2, CommitSound
<1>. QED
  BY <1>1, <1>2
     DEF Next, Serve, Replay, Proceed, Load, Reject, ReadLevel, RejectShortage, WriteLevel,
         RejectUnpriced, Count, Insert, InsertClash, Mark, Recheck, ClaimKey, ClaimClash,
         Find, SumLines, DeadlockVictim, Crash, Rollback, StoreElsewhere, Midnight,
         Quiescent, vars, db

LEMMA SoundInvariant == Spec => []SoundInv
  BY SoundInvInit, SoundInvStep, SalesInvariant, PTL DEF Spec

\* A quote is ordered, an invoice or a return finalized, a second time only by a
\* request that had read it before the first time.
THEOREM OnceIfSequentialHolds == Spec => []OnceIfSequential
<1>1. SoundInv => OnceIfSequential
  BY DEF SoundInv
<1>. QED  BY <1>1, SoundInvariant, PTL

\* A finalized document stays finalized unless a request that had read it as a
\* draft cancels it.
THEOREM LostOnlyToOverlapHolds == Spec => []LostOnlyToOverlap
<1>1. SoundInv => LostOnlyToOverlap
  BY DEF SoundInv
<1>. QED  BY <1>1, SoundInvariant, PTL

-----------------------------------------------------------------------------
(***************************************************************************)
(* Numbering.  The rows counted are all there are with a number of the     *)
(* series, and whoever has inserted the next number keeps every other      *)
(* request from it until its transaction ends.                             *)
(***************************************************************************)
RowsOf(series) == IF series = "journal" THEN PostedIn(book) ELSE KindIn(docs, series)

HasInserted(r) ==
  \/ pc[r] \in Ending /\ cmd[r].op # "cancel"
  \/ pc[r] = "mark" /\ cmd[r].op \in Finalizes

Numbering(r) ==
  /\ pc[r] = "insert" => num[r] \in 1..Cardinality(RowsOf(Series(r))) + 1
  /\ HasInserted(r) => /\ num[r] = Cardinality(RowsOf(Series(r))) + 1
                       /\ Number(Series(r), num[r]) \in held[r]
  /\ \A s, n : Number(s, n) \in held[r] => HasInserted(r) /\ s = Series(r) /\ n = num[r]

NumberInv ==
  /\ NumbersDense
  /\ \A r \in Requests : Numbering(r)
  /\ \A q, r \in Requests :
       HasInserted(q) /\ HasInserted(r) /\ Series(q) = Series(r) => q = r

LEMMA SeriesType ==
  ASSUME TypeOK, NEW r \in Requests
  PROVE  /\ Series(r) \in Kinds \cup {"journal"}
         /\ Series(r) = "journal" <=> cmd[r].op \notin Creates
  BY CommandType DEF Series, NewKind, Creates, Kinds

\* There are finitely many rows to count.
LEMMA RowsFinite ==
  ASSUME TypeOK, NEW series
  PROVE  IsFiniteSet(RowsOf(series)) /\ Cardinality(RowsOf(series)) \in Nat
<1>1. IsFiniteSet(PostedIn(book))
  <2>1. IsFiniteSet(1..Len(book))
    BY FS_Interval DEF TypeOK
  <2>. QED  BY <2>1, FS_Subset DEF PostedIn
<1>2. IsFiniteSet(KindIn(docs, series))
  <2>1. IsFiniteSet(DocIds)
    BY FiniteAssumption, FS_Union DEF DocIds
  <2>2. KindIn(docs, series) \subseteq DocIds
    BY DEF TypeOK, KindIn
  <2>. QED  BY <2>1, <2>2, FS_Subset
<1>3. IsFiniteSet(RowsOf(series))
  BY <1>1, <1>2 DEF RowsOf
<1>. QED  BY <1>3, FS_CardinalityType

\* The next number is one more than the rows there are, and free.
LEMMA NextIsFree ==
  ASSUME TypeOK, NumbersDense, NEW series \in Kinds \cup {"journal"}
  PROVE  /\ Numbers(series) = 1..Cardinality(RowsOf(series))
         /\ NextNumber(series) = Cardinality(RowsOf(series)) + 1
<1>1. Numbers(series) = 1..Cardinality(RowsOf(series))
  BY DEF NumbersDense, PostedDense, KindsDense, Numbers, RowsOf
<1>2. Cardinality(RowsOf(series)) \in Nat
  BY RowsFinite
<1>3. Cardinality(Numbers(series)) = Cardinality(RowsOf(series))
  BY <1>1, <1>2, FS_Interval
<1>. QED  BY <1>1, <1>3 DEF NextNumber

\* A step of r that leaves the database alone.
LEMMA NumberKept ==
  ASSUME NumberInv, TypeOK, held = [q \in Requests |-> held[q]], NEW r \in Requests,
         UNCHANGED <<docs, book, cmd>>, pc' = [pc EXCEPT ![r] = pc'[r]],
         held' = [held EXCEPT ![r] = held'[r]], num' = [num EXCEPT ![r] = num'[r]],
         Numbering(r)',
         HasInserted(r)' =>
           \/ HasInserted(r)
           \/ \A q \in Requests : HasInserted(q) => Series(q) # Series(r)
  PROVE  NumberInv'
<1>1. \A q \in Requests : q # r => pc'[q] = pc[q] /\ held'[q] = held[q] /\ num'[q] = num[q]
  BY DEF TypeOK
<1>series. \A q : Series(q)' = Series(q)
  BY DEF Series, NewKind
<1>2. \A q \in Requests : q # r => (HasInserted(q)' <=> HasInserted(q))
  BY <1>1 DEF HasInserted
<1>3. \A s : RowsOf(s)' = RowsOf(s)
  BY DEF RowsOf, PostedIn, KindIn
<1>4. ASSUME NEW q \in Requests PROVE Numbering(q)'
  <2>1. CASE q # r
    <3>1. pc'[q] = pc[q] /\ held'[q] = held[q] /\ num'[q] = num[q] /\ Numbering(q)
      BY <1>1, <2>1 DEF NumberInv
    <3>. QED  BY <1>series, <1>2, <1>3, <2>1, <3>1 DEF Numbering
  <2>. QED  BY <2>1
<1>5. NumbersDense'
  BY DEF NumberInv, NumbersDense
<1>6. ASSUME NEW p \in Requests, NEW q \in Requests,
             HasInserted(p)', HasInserted(q)', Series(p)' = Series(q)'
      PROVE  p = q
  BY <1>series, <1>2, <1>6 DEF NumberInv
<1>. QED  BY <1>4, <1>5, <1>6 DEF NumberInv

\* A step that inserts nothing and counts nothing.
LEMMA NumberUntouched ==
  ASSUME NumberInv, TypeOK, held = [q \in Requests |-> held[q]], NEW r \in Requests,
         UNCHANGED <<docs, book, cmd, num>>, pc' = [pc EXCEPT ![r] = pc'[r]],
         held' = [held EXCEPT ![r] = held'[r]],
         pc'[r] # "insert", HasInserted(r)' <=> HasInserted(r),
         \A s, n : Number(s, n) \in held'[r] <=> Number(s, n) \in held[r]
  PROVE  NumberInv'
<1>1. num' = [num EXCEPT ![r] = num'[r]]
  BY DEF TypeOK
<1>2. Series(r)' = Series(r) /\ RowsOf(Series(r))' = RowsOf(Series(r))
  BY DEF Series, NewKind, RowsOf, PostedIn, KindIn
<1>3. Numbering(r)'
  BY <1>2 DEF NumberInv, Numbering
<1>. QED  BY <1>1, <1>3, NumberKept


\* A request that ends without a commit.
LEMMA NumberEnds ==
  ASSUME NumberInv, SalesInv, NEW r \in Requests, pc'[r] \in Finished \cup {"sum"},
         UNCHANGED <<docs, book, cmd, num>>, pc' = [pc EXCEPT ![r] = pc'[r]],
         held' = [held EXCEPT ![r] = {}]
  PROVE  NumberInv'
<1>1. /\ held'[r] = {} /\ TypeOK /\ held = [q \in Requests |-> held[q]]
      /\ num' = [num EXCEPT ![r] = num'[r]]
  BY DEF SalesInv, TypeOK
<1>2. ~HasInserted(r)' /\ pc'[r] # "insert"
  BY DEF HasInserted, Ending, Finished
<1>3. Numbering(r)'
  BY <1>1, <1>2 DEF Numbering
<1>. QED  BY <1>1, <1>2, <1>3, NumberKept

LEMMA NumberFails ==
  ASSUME NumberInv, SalesInv, NEW r \in Requests,
         \/ Replay(r) \/ Reject(r) \/ RejectShortage(r) \/ RejectUnpriced(r) \/ InsertClash(r)
         \/ ClaimClash(r) \/ DeadlockVictim(r) \/ Crash(r)
  PROVE  NumberInv'
<1>1. /\ pc' = [pc EXCEPT ![r] = "failed"] \/ pc' = [pc EXCEPT ![r] = "replayed"]
      /\ held' = [held EXCEPT ![r] = {}] /\ UNCHANGED <<db, mine>>
  BY DEF Replay, Reject, RejectShortage, RejectUnpriced, InsertClash, ClaimClash, DeadlockVictim,
         Crash, Rollback, Goto, Release
<1>2. pc'[r] \in Finished /\ pc' = [pc EXCEPT ![r] = pc'[r]]
  BY <1>1 DEF SalesInv, TypeOK, Finished
<1>. QED  BY <1>1, <1>2, NumberEnds DEF db, mine

\* Steps before the number is counted, and after it is inserted.
Aside(r) ==
  \/ Proceed(r) \/ Load(r) \/ ReadLevel(r) \/ WriteLevel(r) \/ Mark(r)
  \/ Recheck(r) \/ ClaimKey(r) \/ Find(r) \/ SumLines(r)

LEMMA InsertedKept ==
  ASSUME SalesInv, NEW r \in Requests, Aside(r)
  PROVE  pc'[r] # "insert" /\ (HasInserted(r)' <=> HasInserted(r))
<1>0. TypeOK
  BY DEF SalesInv
<1>cmd. UNCHANGED cmd
  BY DEF Aside, Proceed, Load, ReadLevel, WriteLevel, Mark, Recheck, ClaimKey, Find, SumLines, mine
<1>1. \A label : pc' = [pc EXCEPT ![r] = label] => pc'[r] = label
  BY <1>0 DEF TypeOK
<1>2. CASE Proceed(r)
  BY <1>1, <1>2 DEF Proceed, Goto, HasInserted, Ending
<1>3. CASE Load(r)
  <2>1. PICK d : pc' = [pc EXCEPT ![r] = AfterLoad(cmd[r].op, d)]
    BY <1>3 DEF Load, Goto
  <2>2. pc'[r] = AfterLoad(cmd[r].op, d) /\ pc[r] = "load" /\ cmd' = cmd
    BY <1>cmd, <1>1, <1>3, <2>1 DEF Load
  <2>. QED  BY <2>2 DEF HasInserted, Ending, AfterLoad
<1>4. CASE ReadLevel(r)
  BY <1>1, <1>4 DEF ReadLevel, Goto, HasInserted, Ending
<1>5. CASE WriteLevel(r)
  <2>1. pc'[r] \in {"count", "lines"} /\ pc[r] = "write"
    BY <1>1, <1>5 DEF WriteLevel, Goto, AfterLine
  <2>. QED  BY <2>1 DEF HasInserted, Ending
<1>6. CASE Mark(r)
  <2>1. pc'[r] = (IF cmd[r].op \in Creates THEN "count" ELSE KeyOrCommit(r)) /\ pc[r] = "mark"
    BY <1>1, <1>6 DEF Mark, Goto
  <2>2. WritesStatus(r)
    BY <2>1 DEF SalesInv, Place
  <2>3. KeyOrCommit(r) \in Ending
    BY DEF KeyOrCommit, Ending
  <2>4. CASE cmd[r].op \in Creates
    BY <1>cmd, <2>1, <2>4 DEF HasInserted, Ending, Creates, Finalizes
  <2>5. CASE cmd[r].op \notin Creates
    <3>1. cmd[r].op \in Finalizes <=> cmd[r].op # "cancel"
      BY <2>2, <2>5 DEF WritesStatus, Creates, Finalizes
    <3>2. pc'[r] \in Ending /\ "insert" \notin Ending
      BY <2>1, <2>3, <2>5 DEF Ending
    <3>. QED  BY <1>cmd, <2>1, <3>1, <3>2 DEF HasInserted, Ending
  <2>. QED  BY <2>4, <2>5
<1>7. CASE Recheck(r) \/ ClaimKey(r)
  <2>1. pc[r] \in {"recheck", "claim"} /\ pc'[r] \in {"claim", "commit"}
    BY <1>1, <1>7 DEF Recheck, ClaimKey, Goto
  <2>. QED  BY <1>cmd, <2>1 DEF HasInserted, Ending
<1>8. CASE Find(r) \/ SumLines(r)
  <2>1. pc[r] \in {"load", "sum"} /\ pc'[r] \in {"done", "sum"}
    BY <1>1, <1>8 DEF Find, SumLines, Goto
  <2>. QED  BY <2>1 DEF HasInserted, Ending
<1>. QED  BY <1>2, <1>3, <1>4, <1>5, <1>6, <1>7, <1>8 DEF Aside

LEMMA NumberElsewhere ==
  ASSUME NumberInv, SalesInv, NEW r \in Requests, Aside(r)
  PROVE  NumberInv'
<1>0. TypeOK /\ held = [q \in Requests |-> held[q]]
  BY DEF SalesInv
<1>1. UNCHANGED <<docs, book, cmd, num>> /\ pc' = [pc EXCEPT ![r] = pc'[r]]
  BY <1>0 DEF Aside, Proceed, Load, ReadLevel, WriteLevel, Mark, Recheck, ClaimKey, Find, SumLines,
         Goto, db, mine, TypeOK
<1>2. /\ held' = held \/ held' = [held EXCEPT ![r] = held[r] \cup Wants(r)]
      /\ pc[r] # "insert"
  BY DEF Aside, Proceed, Load, ReadLevel, WriteLevel, Mark, Recheck, ClaimKey, Find, SumLines, Lock
<1>3. /\ held' = [held EXCEPT ![r] = held'[r]]
      /\ held'[r] = held[r] \/ held'[r] = held[r] \cup Wants(r)
  BY <1>0, <1>2
<1>4. \A s, n : Number(s, n) \notin Wants(r)
  BY <1>2, RowsDiffer DEF Wants
<1>5. pc'[r] # "insert" /\ (HasInserted(r)' <=> HasInserted(r))
  BY InsertedKept
<1>. QED  BY <1>0, <1>1, <1>3, <1>4, <1>5, NumberUntouched

LEMMA NumberCounted ==
  ASSUME NumberInv, SalesInv, NEW r \in Requests, Count(r)
  PROVE  NumberInv'
<1>0. TypeOK /\ held = [q \in Requests |-> held[q]]
  BY DEF SalesInv
<1>1. /\ pc[r] = "count" /\ pc' = [pc EXCEPT ![r] = "insert"] /\ UNCHANGED <<docs, book, cmd, held>>
      /\ num' = [num EXCEPT ![r] = NextNumber(Series(r))]
  BY DEF Count, Goto, db
<1>2. /\ pc'[r] = "insert" /\ num'[r] = Cardinality(RowsOf(Series(r))) + 1
      /\ Cardinality(RowsOf(Series(r))) \in Nat
  BY <1>0, <1>1, NextIsFree, SeriesType, RowsFinite DEF NumberInv, TypeOK
<1>3. Series(r)' = Series(r) /\ RowsOf(Series(r))' = RowsOf(Series(r))
  BY <1>1 DEF Series, NewKind, RowsOf, PostedIn, KindIn
<1>4. ~HasInserted(r) /\ ~HasInserted(r)'
  BY <1>1, <1>2 DEF HasInserted, Ending
<1>5. held' = [held EXCEPT ![r] = held'[r]] /\ held'[r] = held[r]
  BY <1>0, <1>1
<1>6. Numbering(r)'
  BY <1>2, <1>3, <1>4, <1>5 DEF NumberInv, Numbering
<1>7. num' = [num EXCEPT ![r] = num'[r]] /\ pc' = [pc EXCEPT ![r] = pc'[r]]
  BY <1>1, <1>2
<1>. QED  BY <1>0, <1>1, <1>4, <1>5, <1>6, <1>7, NumberKept

\* The insert takes the next number only if no request in flight has it.
LEMMA NumberInserted ==
  ASSUME NumberInv, SalesInv, NEW r \in Requests, Insert(r)
  PROVE  NumberInv'
<1> DEFINE label == IF cmd[r].op \in Finalizes THEN "mark" ELSE KeyOrCommit(r)
           c == Cardinality(RowsOf(Series(r)))
<1>0. TypeOK /\ held = [q \in Requests |-> held[q]]
  BY DEF SalesInv
<1>1. /\ pc[r] = "insert" /\ pc' = [pc EXCEPT ![r] = label] /\ UNCHANGED <<docs, book, cmd, num>>
      /\ ~Waits(r) /\ num[r] \notin Numbers(Series(r))
      /\ held' = [held EXCEPT ![r] = held[r] \cup {Number(Series(r), num[r])}]
  BY DEF Insert, Goto, Lock, Wants, db
<1>2. c \in Nat /\ num[r] = c + 1
  <2>1. c \in Nat /\ Numbers(Series(r)) = 1..c
    BY <1>0, NextIsFree, SeriesType, RowsFinite DEF NumberInv
  <2>2. num[r] \in 1..(c + 1)
    BY <1>1 DEF NumberInv, Numbering
  <2>. QED  BY <1>1, <2>1, <2>2
<1>3. ASSUME NEW q \in Requests, HasInserted(q), Series(q) = Series(r) PROVE FALSE
  <2>1. Number(Series(r), num[r]) \in held[q]
    BY <1>2, <1>3 DEF NumberInv, Numbering
  <2>2. q # r
    BY <1>1, <1>3 DEF HasInserted, Ending
  <2>3. WaitsFor(r, q)
    BY <1>1, <2>1, <2>2 DEF WaitsFor, Wants
  <2>. QED  BY <1>1, <2>3 DEF Waits
<1>4. ~HasInserted(r)
  BY <1>3
<1>5. pc'[r] = label /\ held'[r] = held[r] \cup {Number(Series(r), num[r])} /\ cmd[r].op # "cancel"
  BY <1>0, <1>1 DEF SalesInv, Place, TypeOK
<1>6. HasInserted(r)' /\ pc'[r] # "insert"
  BY <1>1, <1>5 DEF HasInserted, Ending, KeyOrCommit
<1>7. Series(r)' = Series(r) /\ RowsOf(Series(r))' = RowsOf(Series(r)) /\ num'[r] = num[r]
  BY <1>1 DEF Series, NewKind, RowsOf, PostedIn, KindIn
<1>8. Numbering(r)'
  <2>1. \A s, n : Number(s, n) = Number(Series(r), num[r]) => s = Series(r) /\ n = num[r]
    BY DEF Number
  <2>2. \A s, n : Number(s, n) \notin held[r]
    BY <1>4 DEF NumberInv, Numbering
  <2>. QED  BY <1>2, <1>5, <1>6, <1>7, <2>1, <2>2 DEF Numbering
<1>9. /\ pc' = [pc EXCEPT ![r] = pc'[r]] /\ held' = [held EXCEPT ![r] = held'[r]]
      /\ num' = [num EXCEPT ![r] = num'[r]]
  BY <1>0, <1>1, <1>5, OwnTypes
<1>10. \A q \in Requests : HasInserted(q) => Series(q) # Series(r)
  BY <1>3
<1> HIDE DEF label, c
<1>. QED  BY <1>0, <1>1, <1>8, <1>9, <1>10, NumberKept


\* A posted entry with the next number keeps the book dense; one without a number
\* does not count.
LEMMA BookStaysDense ==
  ASSUME NEW b \in Seq(Entry), NEW e \in Entry, PostedDense(b),
         IsFiniteSet(PostedIn(b)), e.no # 0 => e.no = Cardinality(PostedIn(b)) + 1
  PROVE  /\ PostedDense(Append(b, e))
         /\ e.no = 0 => PostedIn(Append(b, e)) = PostedIn(b)
         /\ e.no # 0 => Cardinality(PostedIn(Append(b, e))) = Cardinality(PostedIn(b)) + 1
<1> DEFINE a == Append(b, e)
           n == Len(b)
           P == PostedIn(b)
           c == Cardinality(P)
<1>1. n \in Nat /\ Len(a) = n + 1 /\ a[n + 1] = e /\ \A i \in 1..n : a[i] = b[i]
  OBVIOUS
<1>2. c \in Nat
  BY FS_CardinalityType
<1>3. \A i \in P : i \in 1..n /\ a[i] = b[i]
  BY <1>1 DEF PostedIn
<1>4. {b[i].no : i \in P} = 1..c /\ \A i \in P : b[i].no = Cardinality({j \in P : j <= i})
  BY DEF PostedDense
<1>5. PostedIn(a) = IF e.no = 0 THEN P ELSE P \cup {n + 1}
  <2>1. \A i \in 1..(n + 1) : i \in 1..n \/ i = n + 1
    BY <1>1
  <2>2. 1..n \subseteq 1..(n + 1) /\ n + 1 \in 1..(n + 1)
    BY <1>1
  <2> HIDE DEF a, n
  <2>. QED  BY <1>1, <2>1, <2>2 DEF PostedIn, n
<1>6. n + 1 \notin P
  BY <1>1, <1>3
<1> HIDE DEF a, n, P, c
<1>7. CASE e.no = 0
  <2>1. PostedIn(a) = P
    BY <1>5, <1>7
  <2>2. {a[i].no : i \in P} = {b[i].no : i \in P}
    BY <1>3
  <2>3. PostedDense(a)
    BY <1>3, <1>4, <2>1, <2>2 DEF PostedDense, c
  <2>. QED  BY <1>7, <2>1, <2>3 DEF a, P
<1>8. CASE e.no # 0
  <2>1. PostedIn(a) = P \cup {n + 1} /\ e.no = c + 1
    BY <1>5, <1>8 DEF P, c
  <2>2. Cardinality(P \cup {n + 1}) = c + 1
    BY <1>6, FS_AddElement DEF P, c
  <2>3. {a[i].no : i \in P \cup {n + 1}} = 1..(c + 1)
    <3>1. {a[i].no : i \in P \cup {n + 1}} = {b[i].no : i \in P} \cup {e.no}
      BY <1>1, <1>3
    <3>2. (1..c) \cup {c + 1} = 1..(c + 1)
      BY <1>2
    <3>. QED  BY <1>4, <2>1, <3>1, <3>2
  <2>4. ASSUME NEW i \in P \cup {n + 1}
        PROVE  a[i].no = Cardinality({j \in P \cup {n + 1} : j <= i})
    <3>1. CASE i \in P
      <4>1. {j \in P \cup {n + 1} : j <= i} = {j \in P : j <= i}
        BY <1>1, <1>3, <3>1
      <4>. QED  BY <1>3, <1>4, <3>1, <4>1
    <3>2. CASE i = n + 1
      <4>1. {j \in P \cup {n + 1} : j <= i} = P \cup {n + 1}
        <5>1. \A j \in P \cup {n + 1} : j <= n + 1
          BY <1>1, <1>3
        <5>. QED  BY <3>2, <5>1
      <4>. QED  BY <1>1, <2>1, <2>2, <3>2, <4>1
    <3>. QED  BY <3>1, <3>2
  <2>5. PostedDense(a)
    BY <2>1, <2>2, <2>3, <2>4 DEF PostedDense
  <2>. QED  BY <1>8, <2>1, <2>2, <2>5 DEF a, P, c
<1>. QED  BY <1>7, <1>8

\* So with a new document, when the others keep their kinds and numbers.
LEMMA KindsStayDense ==
  ASSUME NEW D, NEW E, NEW x, NEW y, KindsDense(D), x \notin DOMAIN D,
         DOMAIN E = DOMAIN D \cup {x}, E[x] = y, y.kind \in Kinds,
         \A d \in DOMAIN D : E[d].kind = D[d].kind /\ E[d].no = D[d].no,
         IsFiniteSet(KindIn(D, y.kind)), y.no = Cardinality(KindIn(D, y.kind)) + 1
  PROVE  /\ KindsDense(E)
         /\ \A k \in Kinds : k # y.kind => KindIn(E, k) = KindIn(D, k)
         /\ Cardinality(KindIn(E, y.kind)) = Cardinality(KindIn(D, y.kind)) + 1
<1>1. \A k : KindIn(E, k) = IF k = y.kind THEN KindIn(D, k) \cup {x} ELSE KindIn(D, k)
  BY DEF KindIn
<1>2. \A k : KindIn(D, k) \subseteq DOMAIN D
  BY DEF KindIn
<1> DEFINE K == KindIn(D, y.kind)
           c == Cardinality(K)
<1>3. c \in Nat /\ Cardinality(K \cup {x}) = c + 1
  BY <1>2, FS_CardinalityType, FS_AddElement
<1>4. {D[d].no : d \in K} = 1..c
  BY DEF KindsDense
<1>5. {E[d].no : d \in K \cup {x}} = 1..(c + 1)
  <2>1. {E[d].no : d \in K \cup {x}} = {D[d].no : d \in K} \cup {y.no}
    BY <1>2
  <2>2. (1..c) \cup {c + 1} = 1..(c + 1)
    BY <1>3
  <2>. QED  BY <1>4, <2>1, <2>2
<1>6. ASSUME NEW k \in Kinds
      PROVE  {E[d].no : d \in KindIn(E, k)} = 1..Cardinality(KindIn(E, k))
  <2>1. CASE k = y.kind
    BY <1>1, <1>3, <1>5, <2>1
  <2>2. CASE k # y.kind
    <3>1. {E[d].no : d \in KindIn(D, k)} = {D[d].no : d \in KindIn(D, k)}
      BY <1>2
    <3>. QED  BY <1>1, <2>2, <3>1 DEF KindsDense
  <2>. QED  BY <2>1, <2>2
<1>. QED  BY <1>1, <1>3, <1>6 DEF KindsDense

LEMMA KindsKept ==
  ASSUME NEW D, NEW E, KindsDense(D), DOMAIN E = DOMAIN D,
         \A d \in DOMAIN D : E[d].kind = D[d].kind /\ E[d].no = D[d].no
  PROVE  KindsDense(E) /\ \A k : KindIn(E, k) = KindIn(D, k)
<1>1. \A k : KindIn(E, k) = KindIn(D, k) /\ KindIn(D, k) \subseteq DOMAIN D
  BY DEF KindIn
<1>2. \A k : {E[d].no : d \in KindIn(D, k)} = {D[d].no : d \in KindIn(D, k)}
  BY <1>1
<1>. QED  BY <1>1, <1>2 DEF KindsDense

LEMMA NumberCommitted ==
  ASSUME NumberInv, SalesInv, NEW r \in Requests, Commit(r)
  PROVE  NumberInv'
<1> DEFINE e == EntryOf(r)
           c == Cardinality(RowsOf(Series(r)))
<1>0. TypeOK /\ held = [q \in Requests |-> held[q]]
  BY DEF SalesInv
<1>1. /\ pc[r] = "commit" /\ pc' = [pc EXCEPT ![r] = "done"] /\ held' = [held EXCEPT ![r] = {}]
      /\ UNCHANGED <<cmd, num>>
  BY DEF Commit, Goto, Release, mine
<1>2. /\ book \in Seq(Entry) /\ e \in Entry /\ book' = Append(book, e) /\ Files(r)
      /\ e.no = IF Posts(r) THEN num[r] ELSE 0
  BY CommitFacts DEF EntryOf
<1>3. cmd[r].op \in Ops /\ cmd[r].op # "report"
  BY <1>1, CommandType DEF SalesInv, Copy, Judging, Ending, Lawful
<1>4. Posts(r) <=> cmd[r].op # "cancel" /\ Series(r) = "journal"
  BY <1>0, <1>3, SeriesType DEF Posts, Ops, Creates, Finalizes
<1>5. c \in Nat /\ (cmd[r].op # "cancel" => HasInserted(r) /\ num[r] = c + 1)
  BY <1>0, <1>1, RowsFinite DEF NumberInv, Numbering, HasInserted, Ending
<1> HIDE DEF e
<1>6. /\ PostedDense(book')
      /\ Posts(r) => Cardinality(PostedIn(book')) = Cardinality(PostedIn(book)) + 1
      /\ ~Posts(r) => PostedIn(book') = PostedIn(book)
  <2>1. PostedDense(book) /\ IsFiniteSet(PostedIn(book))
    <3>1. RowsOf("journal") = PostedIn(book)
      BY DEF RowsOf
    <3>. QED  BY <1>0, <3>1, RowsFinite DEF NumberInv, NumbersDense
  <2>2. Posts(r) => e.no = Cardinality(PostedIn(book)) + 1 /\ e.no # 0
    BY <1>2, <1>4, <1>5 DEF RowsOf
  <2>. QED  BY <1>2, <2>1, <2>2, BookStaysDense
<1>7. /\ KindsDense(docs')
      /\ \A k \in Kinds : \/ cmd[r].op \in Creates /\ k = Series(r)
                          \/ KindIn(docs', k) = KindIn(docs, k)
      /\ cmd[r].op \in Creates =>
           Cardinality(KindIn(docs', Series(r))) = Cardinality(KindIn(docs, Series(r))) + 1
  <2>1. KindsDense(docs)
    BY DEF NumberInv, NumbersDense
  <2>2. CASE cmd[r].op \in Creates
    <3>1. /\ NewDocument(r).kind = Series(r) /\ NewDocument(r).no = num[r]
          /\ Series(r) \in Kinds
      BY <1>0, <2>2, SeriesType DEF NewDocument, Series
    <3>2. RowsOf(Series(r)) = KindIn(docs, Series(r)) /\ IsFiniteSet(KindIn(docs, Series(r)))
      <4>1. Series(r) # "journal"
        BY <1>0, <2>2, SeriesType
      <4>2. RowsOf(Series(r)) = KindIn(docs, Series(r))
        BY <4>1 DEF RowsOf
      <4>. QED  BY <1>0, <4>2, RowsFinite
    <3>3. num[r] = Cardinality(KindIn(docs, Series(r))) + 1
      BY <1>5, <2>2, <3>2 DEF Creates
    <3>4. /\ r \notin DOMAIN docs /\ DOMAIN docs' = DOMAIN docs \cup {r}
          /\ docs'[r] = NewDocument(r)
          /\ \A d \in DOMAIN docs : docs'[d].kind = docs[d].kind /\ docs'[d].no = docs[d].no
      BY <1>2, <2>2 DEF Files
    <3>. QED  BY <2>1, <2>2, <3>1, <3>2, <3>3, <3>4, KindsStayDense
  <2>3. CASE cmd[r].op \notin Creates
    BY <1>2, <2>1, <2>3, KindsKept DEF Files
  <2>. QED  BY <2>2, <2>3
<1>8. ASSUME NEW q \in Requests
      PROVE  \/ Cardinality(RowsOf(Series(q)))' = Cardinality(RowsOf(Series(q)))
             \/ /\ Cardinality(RowsOf(Series(q)))' = Cardinality(RowsOf(Series(q))) + 1
                /\ Series(q) = Series(r) /\ HasInserted(r)
  <2>1. Series(q)' = Series(q) /\ Series(q) \in Kinds \cup {"journal"}
    <3>1. Series(q)' = Series(q)
      BY <1>1 DEF Series, NewKind
    <3>. QED  BY <1>0, <3>1, SeriesType
  <2>2. CASE Series(q) = "journal"
    <3>1. RowsOf(Series(q)) = PostedIn(book) /\ RowsOf(Series(q))' = PostedIn(book')
      BY <2>1, <2>2 DEF RowsOf
    <3>. QED  BY <1>4, <1>5, <1>6, <2>2, <3>1
  <2>3. CASE Series(q) # "journal"
    <3>1. /\ RowsOf(Series(q)) = KindIn(docs, Series(q))
          /\ RowsOf(Series(q))' = KindIn(docs', Series(q))
      BY <2>1, <2>3 DEF RowsOf
    <3>. QED  BY <1>5, <1>7, <2>1, <2>3, <3>1 DEF Creates
  <2>. QED  BY <2>2, <2>3
<1>9. /\ pc'[r] = "done" /\ held'[r] = {}
      /\ \A q \in Requests : q # r => pc'[q] = pc[q] /\ held'[q] = held[q]
  BY <1>0, <1>1 DEF TypeOK
<1>10. ~HasInserted(r)' /\ \A q \in Requests : q # r => (HasInserted(q)' <=> HasInserted(q))
  BY <1>1, <1>9 DEF HasInserted, Ending
<1>11. \A q : Series(q)' = Series(q)
  BY <1>1 DEF Series, NewKind
<1>12. ASSUME NEW q \in Requests PROVE Numbering(q)'
  <2>1. CASE q = r
    BY <1>9, <1>10, <2>1 DEF Numbering
  <2>2. CASE q # r
    <3>1. Cardinality(RowsOf(Series(q))) \in Nat
      BY <1>0, RowsFinite
    <3>2. pc'[q] = "insert" => num[q] \in 1..Cardinality(RowsOf(Series(q)))' + 1
      <4>1. pc'[q] = "insert" => num[q] \in 1..Cardinality(RowsOf(Series(q))) + 1
        BY <1>9, <2>2 DEF NumberInv, Numbering
      <4>. QED  BY <1>8, <3>1, <4>1
    <3>3. HasInserted(q) => Cardinality(RowsOf(Series(q)))' = Cardinality(RowsOf(Series(q)))
      BY <1>8, <2>2 DEF NumberInv
    <3>. QED  BY <1>1, <1>9, <1>10, <1>11, <2>2, <3>2, <3>3 DEF NumberInv, Numbering
  <2>. QED  BY <2>1, <2>2
<1>13. ASSUME NEW p \in Requests, NEW q \in Requests,
              HasInserted(p)', HasInserted(q)', Series(p)' = Series(q)'
       PROVE  p = q
  BY <1>10, <1>11, <1>13 DEF NumberInv
<1>14. NumbersDense'
  BY <1>6, <1>7 DEF NumbersDense
<1>. QED  BY <1>12, <1>13, <1>14 DEF NumberInv

LEMMA NumberInvStep == SalesInv /\ NumberInv /\ [Next]_vars => NumberInv'
<1> SUFFICES ASSUME SalesInv, NumberInv, [Next]_vars PROVE NumberInv'
  OBVIOUS
<1>1. ASSUME UNCHANGED <<docs, book, cmd, pc, held, num>> PROVE NumberInv'
  <2>1. \A s : RowsOf(s)' = RowsOf(s)
    BY <1>1 DEF RowsOf, PostedIn, KindIn
  <2>2. \A r : Series(r)' = Series(r) /\ (HasInserted(r)' <=> HasInserted(r))
    BY <1>1 DEF Series, NewKind, HasInserted
  <2>3. \A r \in Requests : Numbering(r)'
    BY <1>1, <2>1, <2>2 DEF NumberInv, Numbering
  <2>4. NumbersDense'
    BY <1>1 DEF NumberInv, NumbersDense
  <2>. QED  BY <2>2, <2>3, <2>4 DEF NumberInv
<1>2. CASE UNCHANGED vars
  BY <1>1, <1>2 DEF vars
<1>3. CASE Midnight \/ \E k \in Keys : StoreElsewhere(k)
  BY <1>1, <1>3 DEF Midnight, StoreElsewhere, db, mine
<1>4. ASSUME NEW r \in Requests, Serve(r) \/ Crash(r) PROVE NumberInv'
  BY <1>4, NumberFails, NumberElsewhere, NumberCounted, NumberInserted, NumberCommitted
     DEF Serve, Aside
<1>. QED  BY <1>2, <1>3, <1>4 DEF Next, Quiescent

LEMMA NumberInvInit == Init => NumberInv
<1> SUFFICES ASSUME Init PROVE NumberInv
  OBVIOUS
<1>1. NumbersDense
  BY NumbersAssumption DEF Init, NumbersDense
<1>2. \A r \in Requests : pc[r] \in {"lookup", "load"} /\ held[r] = {}
  BY DEF Init
<1>3. \A r \in Requests : ~HasInserted(r) /\ pc[r] # "insert" /\ \A x : x \notin held[r]
  BY <1>2 DEF HasInserted, Ending
<1>. QED  BY <1>1, <1>3 DEF NumberInv, Numbering

LEMMA NumberInvariant == Spec => []NumberInv
  BY NumberInvInit, NumberInvStep, SalesInvariant, PTL DEF Spec

\* Documents of a kind, and journal entries, are numbered without gaps, the
\* entries in commit order, although counting and inserting are separate steps.
THEOREM NumbersDenseHolds == Spec => []NumbersDense
<1>1. NumberInv => NumbersDense
  BY DEF NumberInv
<1>. QED  BY <1>1, NumberInvariant, PTL


-----------------------------------------------------------------------------
(***************************************************************************)
(* Reports of a day that is over.  A sale of it that the report misses was *)
(* stamped before, under the next journal number, which no other request   *)
(* can take until that sale is in the book.                                *)
(***************************************************************************)
LateSales(r) == {j \in SalesOf(cmd[r].day, Len(book)) : j > saw[r].at}

\* The day that r reports on was over when it began.
Closed(r) ==
  cmd[r].op = "report" /\ pc[r] \in {"sum", "done"} /\ saw[r].on > cmd[r].day

ClosedInv ==
  /\ \A r \in Requests : saw[r].on <= today
  /\ \A r \in Requests : Closed(r) =>
       /\ \A i, j \in LateSales(r) : i = j
       /\ LateSales(r) # {} =>
            \A q \in Requests :
              HasInserted(q) /\ cmd[q].op \in Finalizes => stamp[q] # cmd[r].day

LEMMA DayTypes ==
  ASSUME TypeOK, NEW r \in Requests
  PROVE  /\ stamp[r] \in Int /\ cmd[r].day \in Int /\ today \in Int
         /\ saw[r].on \in Int /\ saw[r].at \in Nat
<1>1. LastDay \in Int /\ 1..LastDay \subseteq Int /\ 0..LastDay \subseteq Int
  BY OpeningAssumption
<1>2. saw[r] \in [doc: Document, at: Nat, on: 1..LastDay] /\ stamp[r] \in 0..LastDay
  BY DEF TypeOK
<1>3. cmd[r].day \in 1..LastDay /\ today \in 1..LastDay
  BY CommandType DEF TypeOK
<1>. QED  BY <1>1, <1>2, <1>3

\* A step that posts nothing.
LEMMA ClosedKept ==
  ASSUME ClosedInv, UNCHANGED <<book, cmd>>,
         \A q \in Requests : saw'[q].on <= today',
         \A q \in Requests :
           HasInserted(q)' /\ cmd[q].op \in Finalizes =>
             \/ HasInserted(q) /\ stamp'[q] = stamp[q]
             \/ \A r \in Requests : stamp'[q] >= saw[r].on,
         \A r \in Requests : Closed(r)' => \/ Closed(r) /\ saw'[r] = saw[r]
                                           \/ saw'[r].at = Len(book),
         TypeOK, TypeOK'
  PROVE  ClosedInv'
<1>0. /\ \A q \in Requests : stamp'[q] \in Int
      /\ \A q \in Requests : saw[q].on \in Int /\ cmd[q].day \in Int
  <2>1. stamp' \in [Requests -> 0..LastDay]
    BY DEF TypeOK
  <2>2. 0..LastDay \subseteq Int
    BY OpeningAssumption
  <2>. QED  BY <2>1, <2>2, DayTypes
<1>1. ASSUME NEW r \in Requests, Closed(r)'
      PROVE  /\ \A i, j \in LateSales(r)' : i = j
             /\ LateSales(r)' # {} =>
                  \A q \in Requests :
                    HasInserted(q)' /\ cmd[q].op \in Finalizes => stamp'[q] # cmd[r].day
  <2>1. CASE Closed(r) /\ saw'[r] = saw[r]
    <3>1. LateSales(r)' = LateSales(r) /\ saw[r].on > cmd[r].day
      BY <2>1 DEF LateSales, SalesOf, Closed
    <3>2. ASSUME NEW q \in Requests, HasInserted(q)', cmd[q].op \in Finalizes, LateSales(r) # {}
          PROVE  stamp'[q] # cmd[r].day
      <4>1. CASE HasInserted(q) /\ stamp'[q] = stamp[q]
        BY <2>1, <3>2, <4>1 DEF ClosedInv
      <4>2. CASE \A p \in Requests : stamp'[q] >= saw[p].on
        <5>1. stamp'[q] \in Int /\ saw[r].on \in Int /\ cmd[r].day \in Int
          BY <1>0
        <5>. QED  BY <3>1, <4>2, <5>1
      <4>. QED  BY <3>2, <4>1, <4>2
    <3>. QED  BY <2>1, <3>1, <3>2 DEF ClosedInv
  <2>2. CASE saw'[r].at = Len(book)
    <3>1. LateSales(r)' = {}
      BY <2>2 DEF LateSales, SalesOf, TypeOK
    <3>. QED  BY <3>1
  <2>. QED  BY <1>1, <2>1, <2>2
<1>. QED  BY <1>1 DEF ClosedInv

LEMMA ClosedCommitted ==
  ASSUME ClosedInv, NumberInv, SalesInv, NEW r \in Requests, Commit(r)
  PROVE  ClosedInv'
<1>0. TypeOK
  BY DEF SalesInv
<1>1. /\ pc[r] = "commit" /\ pc' = [pc EXCEPT ![r] = "done"] /\ UNCHANGED <<cmd, saw, stamp, today>>
  BY DEF Commit, Goto, mine
<1>2. /\ Len(book) \in Nat /\ Len(book') = Len(book) + 1 /\ book'[Len(book) + 1] = EntryOf(r)
      /\ \A i \in 1..Len(book) : book'[i] = book[i]
      /\ EntryOf(r).op = cmd[r].op /\ cmd[r].op # "report"
      /\ cmd[r].op \in Finalizes => EntryOf(r).day = stamp[r]
  BY CommitFacts DEF Enters, Lawful, EntryOf, FinalizedAt
<1>3. \A q \in Requests : q # r => (HasInserted(q)' <=> HasInserted(q)) /\ pc'[q] = pc[q]
  BY <1>0, <1>1 DEF HasInserted, TypeOK
<1>4. ~HasInserted(r)' /\ (HasInserted(r) <=> cmd[r].op # "cancel")
  BY <1>0, <1>1 DEF HasInserted, Ending, TypeOK
<1>5. ASSUME NEW p \in Requests, Closed(p)'
      PROVE  /\ \A i, j \in LateSales(p)' : i = j
             /\ LateSales(p)' # {} =>
                  \A q \in Requests :
                    HasInserted(q)' /\ cmd[q].op \in Finalizes => stamp'[q] # cmd[p].day
  <2>1. p # r /\ Closed(p)
    BY <1>1, <1>2, <1>3, <1>5 DEF Closed
  <2>2. LateSales(p)' \subseteq LateSales(p) \cup {Len(book) + 1}
    BY <1>1, <1>2 DEF LateSales, SalesOf
  <2>3. CASE Len(book) + 1 \notin LateSales(p)'
    <3>1. LateSales(p)' \subseteq LateSales(p)
      BY <2>2, <2>3
    <3>. QED  BY <1>1, <1>3, <1>4, <2>1, <3>1 DEF ClosedInv
  <2>4. CASE Len(book) + 1 \in LateSales(p)'
    <3>1. cmd[r].op = "finalizeInvoice" /\ stamp[r] = cmd[p].day
      BY <1>1, <1>2, <2>4 DEF LateSales, SalesOf, Finalizes
    <3>2. HasInserted(r) /\ cmd[r].op \in Finalizes
      BY <1>4, <3>1 DEF Finalizes
    <3>3. LateSales(p) = {}
      BY <2>1, <3>1, <3>2 DEF ClosedInv
    <3>4. ASSUME NEW q \in Requests, HasInserted(q)', cmd[q].op \in Finalizes
          PROVE  FALSE
      <4>1. q # r /\ HasInserted(q)
        BY <1>1, <1>3, <1>4, <3>1, <3>4
      <4>2. Series(q) = "journal" /\ Series(r) = "journal"
        BY <1>0, <3>2, <3>4, SeriesType DEF Creates, Finalizes
      <4>. QED  BY <3>2, <4>1, <4>2 DEF NumberInv
    <3>. QED  BY <2>2, <3>3, <3>4
  <2>. QED  BY <2>3, <2>4
<1>. QED  BY <1>1, <1>5 DEF ClosedInv

LEMMA ClosedInvStep == SalesInv /\ NumberInv /\ ClosedInv /\ [Next]_vars => ClosedInv'
<1> SUFFICES ASSUME SalesInv, NumberInv, ClosedInv, [Next]_vars PROVE ClosedInv'
  OBVIOUS
<1>0. TypeOK /\ TypeOK'
  BY SalesInvStep DEF SalesInv
<1>1. ASSUME UNCHANGED <<book, cmd, pc, saw, stamp>>, today' \in {today, today + 1}
      PROVE  ClosedInv'
  <2>1. \A q \in Requests : saw'[q].on <= today' /\ (HasInserted(q)' <=> HasInserted(q))
    BY <1>0, <1>1 DEF ClosedInv, HasInserted, TypeOK
  <2>2. \A r \in Requests : Closed(r)' <=> Closed(r)
    BY <1>1 DEF Closed
  <2>. QED  BY <1>0, <1>1, <2>1, <2>2, ClosedKept
<1>2. CASE UNCHANGED vars \/ Midnight \/ \E k \in Keys : StoreElsewhere(k)
  BY <1>1, <1>2 DEF vars, Midnight, StoreElsewhere, db, mine
\* A step of r: how it stamps, what it sees, whether it reports.
<1>3. ASSUME NEW r \in Requests, UNCHANGED <<book, cmd, today>>,
             pc' = [pc EXCEPT ![r] = pc'[r]], saw' = [saw EXCEPT ![r] = saw'[r]],
             stamp' = [stamp EXCEPT ![r] = stamp'[r]],
             saw'[r] = saw[r] \/ saw'[r].on = today,
             Closed(r)' => \/ Closed(r) /\ saw'[r] = saw[r]
                           \/ saw'[r].at = Len(book),
             HasInserted(r)' /\ cmd[r].op \in Finalizes =>
               \/ HasInserted(r) /\ stamp'[r] = stamp[r]
               \/ stamp'[r] = today
      PROVE  ClosedInv'
  <2>1. \A q \in Requests :
          q # r => pc'[q] = pc[q] /\ saw'[q] = saw[q] /\ stamp'[q] = stamp[q]
    BY <1>0, <1>3 DEF TypeOK
  <2>2. \A q \in Requests :
          q # r => (HasInserted(q)' <=> HasInserted(q)) /\ (Closed(q)' <=> Closed(q))
    BY <1>3, <2>1 DEF HasInserted, Closed
  <2>3. \A q \in Requests : saw'[q].on <= today' /\ saw[q].on <= today
    <3>1. today \in Int /\ today <= today
      BY <1>0, <1>3, DayTypes
    <3>2. \A q \in Requests : saw[q].on <= today
      BY DEF ClosedInv
    <3>. QED  BY <1>3, <2>1, <3>1, <3>2
  <2>4. \A q \in Requests :
          HasInserted(q)' /\ cmd[q].op \in Finalizes =>
            \/ HasInserted(q) /\ stamp'[q] = stamp[q]
            \/ \A p \in Requests : stamp'[q] >= saw[p].on
    <3>1. today \in Int /\ \A p \in Requests : saw[p].on \in Int /\ today >= saw[p].on
      BY <1>0, <2>3, DayTypes
    <3>. QED  BY <1>3, <2>1, <2>2, <3>1
  <2>5. \A q \in Requests : Closed(q)' => \/ Closed(q) /\ saw'[q] = saw[q]
                                          \/ saw'[q].at = Len(book)
    BY <1>3, <2>1, <2>2
  <2>. QED  BY <1>0, <1>3, <2>3, <2>4, <2>5, ClosedKept
<1>4. ASSUME NEW r \in Requests, Serve(r) \/ Crash(r), ~Commit(r) PROVE ClosedInv'
  <2>0. \A label : pc' = [pc EXCEPT ![r] = label] =>
          pc'[r] = label /\ pc' = [pc EXCEPT ![r] = pc'[r]]
    BY <1>0 DEF TypeOK
  <2>1. CASE \/ Replay(r) \/ Reject(r) \/ RejectShortage(r) \/ RejectUnpriced(r) \/ InsertClash(r)
             \/ ClaimClash(r) \/ DeadlockVictim(r) \/ Crash(r) \/ Count(r)
    <3>1. PICK label \in {"failed", "replayed", "insert"} : pc' = [pc EXCEPT ![r] = label]
      BY <2>1 DEF Replay, Reject, RejectShortage, RejectUnpriced, InsertClash, ClaimClash,
           DeadlockVictim, Crash, Rollback, Count, Goto
    <3>2. UNCHANGED <<book, cmd, today, saw, stamp>>
      BY <2>1 DEF Replay, Reject, RejectShortage, RejectUnpriced, InsertClash, ClaimClash,
           DeadlockVictim, Crash, Rollback, Count, db, mine
    <3>3. ~Closed(r)' /\ ~HasInserted(r)'
      BY <2>0, <3>1 DEF Closed, HasInserted, Ending
    <3>. QED  BY <1>3, <2>0, <3>1, <3>2, <3>3, OwnTypes
  <2>2. CASE Insert(r)
    <3>1. /\ pc' = [pc EXCEPT ![r] = IF cmd[r].op \in Finalizes THEN "mark" ELSE KeyOrCommit(r)]
          /\ stamp' = [stamp EXCEPT ![r] = IF cmd[r].op \in Finalizes THEN today ELSE stamp[r]]
          /\ UNCHANGED <<book, cmd, today, saw>>
      BY <2>2 DEF Insert, Goto, db
    <3>2. ~Closed(r)'
      BY <2>0, <3>1 DEF Closed, KeyOrCommit
    <3>3. /\ stamp' = [stamp EXCEPT ![r] = stamp'[r]]
          /\ cmd[r].op \in Finalizes => stamp'[r] = today
      BY <1>0, <3>1 DEF TypeOK
    <3>. QED  BY <1>3, <2>0, <3>1, <3>2, <3>3, OwnTypes
  <2>3. CASE Aside(r)
    <3>1. HasInserted(r)' <=> HasInserted(r)
      BY <2>3, InsertedKept
    <3>2. UNCHANGED <<book, cmd, today, stamp>> /\ pc' = [pc EXCEPT ![r] = pc'[r]]
      BY <2>0, <2>3 DEF Aside, Proceed, Load, ReadLevel, WriteLevel, Mark, Recheck, ClaimKey,
           Find, SumLines, Goto, db, mine
    <3>3. CASE Load(r) \/ Find(r)
      <4>1. /\ saw' = [saw EXCEPT ![r] = saw'[r]]
            /\ saw'[r].on = today /\ saw'[r].at = Len(book)
        <5>1. CASE Load(r)
          BY <1>0, <5>1 DEF Load, TypeOK
        <5>2. CASE Find(r)
          <6>1. /\ saw' = [saw EXCEPT ![r] = [Unread EXCEPT !.at = Len(book), !.on = today]]
                /\ saw'[r] = [Unread EXCEPT !.at = Len(book), !.on = today]
            BY <1>0, <5>2 DEF Find, TypeOK
          <6>. QED  BY <6>1 DEF Unread
        <5>. QED  BY <3>3, <5>1, <5>2
      <4>. QED  BY <1>3, <3>1, <3>2, <4>1, OwnTypes
    <3>4. CASE SumLines(r)
      <4>1. saw' = saw /\ pc[r] = "sum"
        BY <3>4 DEF SumLines
      <4>2. Closed(r)' => Closed(r)
        BY <3>2, <4>1 DEF Closed
      <4>. QED  BY <1>3, <3>1, <3>2, <4>1, <4>2, OwnTypes
    <3>5. CASE \/ Proceed(r) \/ ReadLevel(r) \/ WriteLevel(r) \/ Mark(r)
               \/ Recheck(r) \/ ClaimKey(r)
      <4>1. saw' = saw
        BY <3>5 DEF Proceed, ReadLevel, WriteLevel, Mark, Recheck, ClaimKey, mine
      <4>2. pc'[r] \notin {"sum", "done"}
        BY <2>0, <3>5 DEF Proceed, ReadLevel, WriteLevel, Mark, Recheck, ClaimKey, Goto, AfterLine,
             KeyOrCommit
      <4>3. ~Closed(r)'
        BY <4>2 DEF Closed
      <4>. QED  BY <1>3, <3>1, <3>2, <4>1, <4>3, OwnTypes
    <3>. QED  BY <2>3, <3>3, <3>4, <3>5 DEF Aside
  <2>. QED  BY <1>4, <2>1, <2>2, <2>3 DEF Serve, Aside
<1>. QED  BY <1>2, <1>4, ClosedCommitted DEF Next, Quiescent

LEMMA ClosedInvInit == Init => ClosedInv
<1> SUFFICES ASSUME Init PROVE ClosedInv
  OBVIOUS
<1>1. \A r \in Requests : pc[r] \in {"lookup", "load"} /\ saw[r].on = 1 /\ today = 1
  BY DEF Init, Unread
<1>. QED  BY <1>1 DEF ClosedInv, Closed

\* A report made after its day has ended misses at most one sale of that day.
THEOREM ClosedDayMissesOneHolds == Spec => []ClosedDayMissesOne
<1>1. SalesInv /\ ClosedInv => ClosedDayMissesOne
  <2> SUFFICES ASSUME SalesInv, ClosedInv, NEW r \in Requests, Reported(r),
                      saw[r].on > cmd[r].day
               PROVE  Cardinality(SalesOf(cmd[r].day, Len(book))
                                    \ SalesOf(cmd[r].day, saw[r].at)) <= 1
    BY DEF ClosedDayMissesOne
  <2> DEFINE L == SalesOf(cmd[r].day, Len(book)) \ SalesOf(cmd[r].day, saw[r].at)
  <2>1. Len(book) \in Nat /\ saw[r].at \in Nat
    BY DEF SalesInv, TypeOK
  <2>2. L \subseteq LateSales(r)
    BY <2>1 DEF LateSales, SalesOf
  <2>3. \A i, j \in L : i = j
    BY <2>2 DEF ClosedInv, Closed, Reported
  <2>4. L = {} \/ \E x : L = {x}
    BY <2>3
  <2>5. Cardinality({}) = 0 /\ \A x : Cardinality({x}) = 1
    BY FS_EmptySet, FS_Singleton
  <2>6. Cardinality(L) \in {0, 1}
    <3> HIDE DEF L
    <3>. QED  BY <2>4, <2>5
  <2>. QED  BY <2>6
<1>2. Spec => []ClosedInv
  BY ClosedInvInit, ClosedInvStep, SalesInvariant, NumberInvariant, PTL DEF Spec
<1>. QED  BY <1>1, <1>2, SalesInvariant, PTL


-----------------------------------------------------------------------------
(***************************************************************************)
(* What a report counts.  The finalized invoices are the sales of the book *)
(* at any time, so also when the report found them; and the lines of a     *)
(* document are what left the stock when it was finalized.                 *)
(***************************************************************************)
Accounted(r) ==
  /\ pc[r] \in {"lookup", "load"} => found[r].lines = {}
  /\ cmd[r].op = "report" /\ pc[r] \in {"sum", "done"} =>
       /\ saw[r].at <= Len(book)
       /\ \A d \in found[r].docs : \E i \in SalesOf(cmd[r].day, saw[r].at) :
            book[i].doc = d /\ book[i].moved = docs[d].body.lines
       /\ \A i \in SalesOf(cmd[r].day, saw[r].at) :
            book[i].doc \in found[r].docs \/ Overtaken(book, saw[r].at, i)
       /\ found[r].lines \subseteq UNION {LinesOf(d) : d \in found[r].docs}
       /\ pc[r] = "done" => \A d \in found[r].docs : LinesOf(d) \subseteq found[r].lines

ReportInv == SalesAgree(book, docs) /\ \A r \in Requests : Accounted(r)

\* An entry made later overtakes nothing that was not overtaken by the others.
LEMMA OvertakenKept ==
  ASSUME NEW b \in Seq(Entry), NEW e \in Entry, NEW n \in 0..Len(b), NEW i \in 1..n
  PROVE  /\ Overtaken(Append(b, e), n, i) <=> Overtaken(b, n, i)
         /\ Overtaken(b, n, i) => Overtaken(Append(b, e), n + 1, i)
<1>1. \A j \in 1..n : Append(b, e)[j] = b[j]
  OBVIOUS
<1>2. 1..n \subseteq 1..(n + 1)
  OBVIOUS
<1>. QED  BY <1>1, <1>2 DEF Overtaken

LEMMA SalesAgreeCommitted ==
  ASSUME SalesInv, SoundInv, SalesAgree(book, docs), NEW r \in Requests, Commit(r)
  PROVE  SalesAgree(book', docs')
<1> DEFINE e == EntryOf(r)
           n == Len(book)
<1>1. /\ n \in Nat /\ Len(book') = n + 1 /\ book'[n + 1] = e
      /\ \A i \in 1..n : book'[i] = book[i]
      /\ e.doc = cmd[r].doc /\ e.op = cmd[r].op
      /\ e.to = IF WritesStatus(r) THEN NewStatus(r) ELSE "same"
  BY CommitFacts DEF Enters
<1>2. /\ book \in Seq(Entry) /\ e \in Entry /\ book' = Append(book, e) /\ Files(r)
      /\ Lawful(cmd[r], saw[r].doc)
  BY CommitFacts
<1>3. /\ cmd[r].doc = NoDoc => cmd[r].op = "create"
      /\ cmd[r].doc # NoDoc =>
           /\ cmd[r].doc \in DOMAIN docs /\ docs[cmd[r].doc].kind = saw[r].doc.kind
           /\ docs[cmd[r].doc].body = saw[r].doc.body
           /\ Book!IsStatus(book, saw[r].at, cmd[r].doc, saw[r].doc.status)
      /\ saw[r].at \in 0..n
  BY DEF Commit, SalesInv, Copy, Judging, Ending, TypeOK
<1>4. cmd[r].op \in Finalizes => Moved(r) = saw[r].doc.body.lines
  BY DEF Commit, SalesInv, Place, Ending
<1>5. /\ e.moved = Moved(r) /\ e.seen = saw[r].at
      /\ cmd[r].op \in Finalizes => e.day = stamp[r]
  BY DEF EntryOf, FinalizedAt
<1>6. /\ 1..n \subseteq 1..(n + 1) /\ n + 1 \in 1..(n + 1)
      /\ \A i \in 1..(n + 1) : i \in 1..n \/ i = n + 1
  BY <1>1
<1> HIDE DEF e, n
<1>7. ASSUME cmd[r].op = "finalizeInvoice"
      PROVE  /\ cmd[r].doc \in DOMAIN docs /\ docs'[cmd[r].doc].kind = "invoice"
             /\ docs'[cmd[r].doc].status = "finalized" /\ docs'[cmd[r].doc].day = stamp[r]
             /\ docs'[cmd[r].doc].body.lines = e.moved /\ e.day = stamp[r]
  BY <1>2, <1>3, <1>4, <1>5, <1>7 DEF Lawful, Files, WritesStatus, NewStatus, Finalizes
<1>8. ASSUME NEW d \in DOMAIN docs', docs'[d].kind = "invoice", docs'[d].status = "finalized"
      PROVE  \E i \in 1..(n + 1) : book'[i].op = "finalizeInvoice" /\ book'[i].doc = d
                                   /\ book'[i].day = docs'[d].day
                                   /\ book'[i].moved = docs'[d].body.lines
  <2>1. d \in DOMAIN docs
    BY <1>2, <1>8 DEF Files, NewDocument
  <2>2. CASE d = cmd[r].doc /\ WritesStatus(r)
    <3>1. NewStatus(r) = "finalized" /\ docs[d].kind = "invoice"
      BY <1>2, <1>8, <2>1, <2>2 DEF Files
    <3>2. cmd[r].op \in Finalizes /\ saw[r].doc.kind = "invoice"
      BY <1>2, <1>3, <2>1, <2>2, <3>1 DEF NewStatus, Files
    <3>3. cmd[r].op = "finalizeInvoice"
      BY <1>2, <3>2 DEF Lawful, Finalizes
    <3>. QED  BY <1>1, <1>6, <1>7, <2>2, <3>3
  <2>3. CASE ~(d = cmd[r].doc /\ WritesStatus(r))
    <3>1. /\ docs[d].kind = "invoice" /\ docs[d].status = "finalized"
          /\ docs'[d].day = docs[d].day /\ docs'[d].body = docs[d].body
      BY <1>2, <1>8, <2>1, <2>3 DEF Files, WritesStatus
    <3>2. PICK i \in 1..n : /\ book[i].op = "finalizeInvoice" /\ book[i].doc = d
                            /\ book[i].day = docs[d].day /\ book[i].moved = docs[d].body.lines
      BY <2>1, <3>1 DEF SalesAgree, n
    <3>. QED  BY <1>1, <1>6, <3>1, <3>2
  <2>. QED  BY <2>2, <2>3
<1>9. ASSUME NEW i \in 1..(n + 1), book'[i].op = "finalizeInvoice"
      PROVE  LET d == docs'[book'[i].doc]
             IN  \/ d.kind = "invoice" /\ d.status = "finalized" /\ d.day = book'[i].day
                 \/ Overtaken(book', n + 1, i)
  <2>1. CASE i = n + 1
    BY <1>1, <1>7, <1>9, <2>1
  <2>2. CASE i \in 1..n
    <3>1. /\ book'[i] = book[i] /\ book[i].doc \in DOMAIN docs /\ book[i].to = "finalized"
      <4>1. book[i].op \in Finalizes /\ book'[i] = book[i] /\ book[i].op \in Book!Finalizes
        BY <1>1, <1>9, <2>2 DEF Finalizes, Book!Finalizes
      <4>. QED  BY <2>2, <4>1 DEF SoundInv, Book!EntryIsSound, n
    <3>2. CASE Overtaken(book, n, i)
      BY <1>1, <1>2, <2>2, <3>2, OvertakenKept DEF n
    <3>3. CASE /\ docs[book[i].doc].kind = "invoice" /\ docs[book[i].doc].status = "finalized"
               /\ docs[book[i].doc].day = book[i].day
      <4>1. CASE book[i].doc = cmd[r].doc /\ WritesStatus(r)
        <5>1. saw[r].doc.kind = "invoice" /\ cmd[r].doc # NoDoc
          BY <1>2, <1>3, <3>1, <3>3, <4>1 DEF Files
        <5>2. cmd[r].op \in {"finalizeInvoice", "cancel"} /\ saw[r].doc.status = "draft"
          BY <1>2, <4>1, <5>1 DEF WritesStatus, Lawful, Finalizes
        <5>3. saw[r].at < i
          BY <1>1, <1>3, <2>2, <3>1, <4>1, <5>1, <5>2, DraftIsUnwritten DEF n
        <5>4. e.to \in {"finalized", "cancelled"}
          BY <1>1, <4>1, <5>2 DEF NewStatus, Finalizes
        <5>5. i < n + 1
          BY <1>1, <2>2
        <5>6. Overtaken(book', n + 1, i)
          BY <1>1, <1>5, <1>6, <3>1, <4>1, <5>3, <5>4, <5>5 DEF Overtaken
        <5>. QED  BY <5>6
      <4>2. CASE ~(book[i].doc = cmd[r].doc /\ WritesStatus(r))
        BY <1>2, <3>1, <3>3, <4>2 DEF Files, WritesStatus
      <4>. QED  BY <4>1, <4>2
    <3>4. \/ Overtaken(book, n, i)
          \/ /\ docs[book[i].doc].kind = "invoice" /\ docs[book[i].doc].status = "finalized"
             /\ docs[book[i].doc].day = book[i].day
      BY <1>9, <2>2, <3>1 DEF SalesAgree, n
    <3>. QED  BY <3>2, <3>3, <3>4
  <2>. QED  BY <1>6, <2>1, <2>2
<1>. QED  BY <1>1, <1>8, <1>9 DEF SalesAgree

\* Neither the commit of another request nor any step that posts nothing changes
\* what a report has counted.
LEMMA AccountedKept ==
  ASSUME SalesInv, NEW q \in Requests, Accounted(q), UNCHANGED cmd,
         pc'[q] = pc[q], saw'[q] = saw[q], found'[q] = found[q],
         \A d \in DOMAIN docs : docs'[d].body = docs[d].body,
         book' = book \/ \E e \in Entry : book' = Append(book, e)
  PROVE  Accounted(q)'
<1>1. SUFFICES ASSUME cmd[q].op = "report", pc[q] \in {"sum", "done"}
               PROVE  Accounted(q)'
  BY DEF Accounted
<1>2. /\ saw[q].at \in 0..Len(book) /\ found[q].docs \subseteq DOMAIN docs /\ book \in Seq(Entry)
  BY <1>1 DEF Accounted, SalesInv, TypeOK, Counted
<1>3. Len(book) <= Len(book') /\ \A i \in 1..saw[q].at : book'[i] = book[i]
  BY <1>2
<1>4. SalesOf(cmd[q].day, saw[q].at)' = SalesOf(cmd[q].day, saw[q].at)
  BY <1>3 DEF SalesOf
<1>5. \A d \in found[q].docs : LinesOf(d)' = LinesOf(d) /\ docs'[d].body = docs[d].body
  BY <1>2 DEF LinesOf
<1>6. ASSUME NEW i \in SalesOf(cmd[q].day, saw[q].at)
      PROVE  /\ book'[i] = book[i]
             /\ Overtaken(book, saw[q].at, i) => Overtaken(book', saw[q].at, i)
  <2>1. i \in 1..saw[q].at
    BY DEF SalesOf
  <2>. QED  BY <1>3, <2>1 DEF Overtaken
<1>7. UNION {LinesOf(d)' : d \in found[q].docs} = UNION {LinesOf(d) : d \in found[q].docs}
  BY <1>5
<1>8. saw[q].at <= Len(book')
  BY <1>2, <1>3
<1>. QED  BY <1>1, <1>4, <1>5, <1>6, <1>7, <1>8 DEF Accounted

LEMMA FindAccounted ==
  ASSUME SalesInv, SoundInv, ReportInv, NEW r \in Requests, Find(r)
  PROVE  Accounted(r)'
<1> DEFINE D == FindInvoices(r)
           n == Len(book)
<1>1. /\ pc[r] = "load" /\ UNCHANGED <<docs, book, cmd>>
      /\ found' = [found EXCEPT ![r].docs = D]
      /\ saw' = [saw EXCEPT ![r] = [Unread EXCEPT !.at = n, !.on = today]]
      /\ pc' = [pc EXCEPT ![r] = IF D = {} THEN "done" ELSE "sum"]
  BY DEF Find, Goto, db
<1>2. /\ found'[r].docs = D /\ found'[r].lines = {} /\ n \in Nat
      /\ pc'[r] = IF D = {} THEN "done" ELSE "sum"
      /\ saw'[r] = [Unread EXCEPT !.at = n, !.on = today]
  <2>1. /\ found[r].lines = {}
        /\ found[r] \in [docs: SUBSET DocIds, lines: SUBSET (DocIds \X Products)]
    BY <1>1 DEF ReportInv, Accounted, SalesInv, TypeOK
  <2>2. found'[r] = [found[r] EXCEPT !.docs = D]
    BY <1>1 DEF SalesInv, TypeOK
  <2>. QED  BY <1>1, <2>1, <2>2 DEF SalesInv, TypeOK
<1>3. saw'[r].at = n
  BY <1>2 DEF Unread
<1>4. ASSUME NEW d \in D
      PROVE  \E i \in SalesOf(cmd[r].day, n) : book[i].doc = d /\ book[i].moved = docs[d].body.lines
  BY DEF ReportInv, SalesAgree, FindInvoices, SalesOf
<1>5. ASSUME NEW i \in SalesOf(cmd[r].day, n)
      PROVE  book[i].doc \in D \/ Overtaken(book, n, i)
  <2>1. i \in 1..n /\ book[i].op = "finalizeInvoice" /\ book[i].day = cmd[r].day
    BY DEF SalesOf
  <2>2. book[i].doc \in DOMAIN docs
    BY <2>1 DEF SoundInv, Finalizes
  <2>. QED  BY <2>1, <2>2 DEF ReportInv, SalesAgree, FindInvoices
<1> HIDE DEF D, n
<1>6. SalesOf(cmd[r].day, saw[r].at)' = SalesOf(cmd[r].day, n)
  BY <1>1, <1>3 DEF SalesOf
<1>7. pc'[r] = "done" => D = {}
  BY <1>2
<1>8. saw'[r].at <= Len(book')
  BY <1>1, <1>2, <1>3 DEF n
<1>. QED  BY <1>1, <1>2, <1>3, <1>4, <1>5, <1>6, <1>7, <1>8 DEF Accounted

LEMMA SumAccounted ==
  ASSUME SalesInv, ReportInv, NEW r \in Requests, SumLines(r)
  PROVE  Accounted(r)'
<1>1. /\ pc[r] = "sum" /\ UNCHANGED <<docs, book, cmd, saw>> /\ cmd[r].op = "report"
  BY DEF SumLines, db, SalesInv, Place
<1>2. PICK D \in {found[r].docs} \cup {{d} : d \in found[r].docs} :
        LET lines == found[r].lines \cup UNION {LinesOf(d) : d \in D}
        IN  /\ found' = [found EXCEPT ![r].lines = lines]
            /\ pc' = [pc EXCEPT ![r] = IF \A d \in found[r].docs : LinesOf(d) \subseteq lines
                                       THEN "done" ELSE "sum"]
  BY DEF SumLines, Goto
<1> DEFINE lines == found[r].lines \cup UNION {LinesOf(d) : d \in D}
<1>3. /\ found'[r].docs = found[r].docs /\ found'[r].lines = lines
      /\ pc'[r] \in {"sum", "done"}
      /\ pc'[r] = "done" => \A d \in found[r].docs : LinesOf(d) \subseteq lines
  <2>1. found[r] \in [docs: SUBSET DocIds, lines: SUBSET (DocIds \X Products)]
    BY DEF SalesInv, TypeOK
  <2>2. found'[r] = [found[r] EXCEPT !.lines = lines]
    BY <1>2 DEF SalesInv, TypeOK
  <2>3. pc'[r] = IF \A d \in found[r].docs : LinesOf(d) \subseteq lines THEN "done" ELSE "sum"
    BY <1>2 DEF SalesInv, TypeOK
  <2>. QED  BY <2>1, <2>2, <2>3
<1>4. D \subseteq found[r].docs
  OBVIOUS
<1>5. Accounted(r) /\ (\A d : LinesOf(d)' = LinesOf(d))
      /\ SalesOf(cmd[r].day, saw[r].at)' = SalesOf(cmd[r].day, saw[r].at)
  BY <1>1 DEF ReportInv, LinesOf, SalesOf
<1>6. lines \subseteq UNION {LinesOf(d) : d \in found[r].docs}
  BY <1>1, <1>4, <1>5 DEF Accounted
<1> HIDE DEF lines
<1>. QED  BY <1>1, <1>3, <1>5, <1>6 DEF Accounted


LEMMA ReportInvStep == SalesInv /\ SoundInv /\ ReportInv /\ [Next]_vars => ReportInv'
<1> SUFFICES ASSUME SalesInv, SoundInv, ReportInv, [Next]_vars PROVE ReportInv'
  OBVIOUS
<1>0. TypeOK
  BY DEF SalesInv
<1>1. ASSUME UNCHANGED <<docs, book, cmd, pc, saw, found>> PROVE ReportInv'
  BY <1>1, AccountedKept DEF ReportInv
<1>2. CASE UNCHANGED vars \/ Midnight \/ \E k \in Keys : StoreElsewhere(k)
  BY <1>1, <1>2 DEF vars, Midnight, StoreElsewhere, db, mine
<1>3. ASSUME NEW r \in Requests, UNCHANGED <<docs, book, cmd>>, Accounted(r)',
             pc' = [pc EXCEPT ![r] = pc'[r]], saw' = [saw EXCEPT ![r] = saw'[r]],
             found' = [found EXCEPT ![r] = found'[r]]
      PROVE  ReportInv'
  <2>1. \A q \in Requests :
          q # r => pc'[q] = pc[q] /\ saw'[q] = saw[q] /\ found'[q] = found[q]
    BY <1>0, <1>3 DEF TypeOK
  <2>2. ASSUME NEW q \in Requests, q # r PROVE Accounted(q)'
    BY <1>3, <2>1, <2>2, AccountedKept DEF ReportInv
  <2>3. SalesAgree(book', docs')
    BY <1>3 DEF ReportInv
  <2>. QED  BY <1>3, <2>2, <2>3 DEF ReportInv
<1>4. ASSUME NEW r \in Requests, Serve(r) \/ Crash(r), ~Commit(r) PROVE ReportInv'
  <2>0. \A label : pc' = [pc EXCEPT ![r] = label] =>
          pc'[r] = label /\ pc' = [pc EXCEPT ![r] = pc'[r]]
    BY <1>0 DEF TypeOK
  <2>1. CASE Find(r)
    <3>1. Accounted(r)'
      BY <2>1, FindAccounted
    <3>2. /\ saw' = [saw EXCEPT ![r] = saw'[r]] /\ found' = [found EXCEPT ![r] = found'[r]]
      BY <1>0, <2>1 DEF Find, TypeOK
    <3>. QED  BY <1>3, <2>0, <2>1, <3>1, <3>2 DEF Find, Goto, db
  <2>2. CASE SumLines(r)
    <3>1. Accounted(r)'
      BY <2>2, SumAccounted
    <3>2. /\ saw' = saw /\ found' = [found EXCEPT ![r] = found'[r]]
          /\ pc' = [pc EXCEPT ![r] = pc'[r]]
      BY <1>0, <2>2 DEF SumLines, Goto, TypeOK
    <3>. QED  BY <1>3, <2>2, <3>1, <3>2, OwnTypes DEF SumLines, db
  <2>3. CASE \/ Replay(r) \/ Reject(r) \/ RejectShortage(r) \/ RejectUnpriced(r) \/ InsertClash(r)
             \/ ClaimClash(r) \/ DeadlockVictim(r) \/ Crash(r) \/ Count(r) \/ Insert(r)
    <3>1. PICK label \in {"failed", "replayed", "insert", "mark", "recheck", "commit"} :
            pc' = [pc EXCEPT ![r] = label]
      BY <2>3 DEF Replay, Reject, RejectShortage, RejectUnpriced, InsertClash, ClaimClash,
           DeadlockVictim, Crash, Rollback, Count, Insert, KeyOrCommit, Goto
    <3>2. UNCHANGED <<docs, book, cmd, saw, found>>
      BY <2>3 DEF Replay, Reject, RejectShortage, RejectUnpriced, InsertClash, ClaimClash,
           DeadlockVictim, Crash, Rollback, Count, Insert, db, mine
    <3>3. Accounted(r)'
      BY <2>0, <3>1 DEF Accounted
    <3>. QED  BY <1>3, <2>0, <3>1, <3>2, <3>3, OwnTypes
  <2>4. CASE \/ Proceed(r) \/ Load(r) \/ ReadLevel(r) \/ WriteLevel(r) \/ Mark(r)
             \/ Recheck(r) \/ ClaimKey(r)
    <3>1. /\ UNCHANGED <<docs, book, cmd, found>> /\ saw' = [saw EXCEPT ![r] = saw'[r]]
          /\ pc' = [pc EXCEPT ![r] = pc'[r]]
      <4>1. UNCHANGED <<docs, book, cmd, found>> /\ pc' = [pc EXCEPT ![r] = pc'[r]]
        BY <2>0, <2>4
           DEF Proceed, Load, ReadLevel, WriteLevel, Mark, Recheck, ClaimKey, Goto, db, mine
      <4>2. saw' = saw \/ \E x : saw' = [saw EXCEPT ![r] = x]
        BY <2>4 DEF Proceed, Load, ReadLevel, WriteLevel, Mark, Recheck, ClaimKey, mine
      <4>. QED  BY <1>0, <4>1, <4>2 DEF TypeOK
    <3>2. pc'[r] \notin {"sum", "done", "lookup"} /\ (pc'[r] = "load" => pc[r] = "lookup")
      BY <2>0, <2>4
         DEF Proceed, Load, AfterLoad, ReadLevel, WriteLevel, AfterLine, Mark, Recheck, ClaimKey,
             KeyOrCommit, Goto
    <3>3. found'[r] = found[r] /\ (pc[r] = "lookup" => found[r].lines = {})
      BY <3>1 DEF ReportInv, Accounted
    <3>4. Accounted(r)'
      BY <3>2, <3>3 DEF Accounted
    <3>. QED  BY <1>3, <3>1, <3>4, OwnTypes
  <2>. QED  BY <1>4, <2>1, <2>2, <2>3, <2>4 DEF Serve
<1>5. ASSUME NEW r \in Requests, Commit(r) PROVE ReportInv'
  <2>1. /\ pc[r] = "commit" /\ pc' = [pc EXCEPT ![r] = "done"] /\ UNCHANGED <<cmd, saw, found>>
    BY <1>5 DEF Commit, Goto, mine
  <2>2. /\ \A d \in DOMAIN docs : docs'[d].body = docs[d].body
        /\ \E e \in Entry : book' = Append(book, e)
        /\ cmd[r].op # "report"
    BY <1>5, CommitFacts DEF Files, Lawful
  <2>3. \A q \in Requests : q # r => pc'[q] = pc[q]
    BY <1>0, <2>1 DEF TypeOK
  <2>4. ASSUME NEW q \in Requests, q # r PROVE Accounted(q)'
    <3>1. Accounted(q) /\ pc'[q] = pc[q] /\ saw'[q] = saw[q] /\ found'[q] = found[q]
      BY <2>1, <2>3, <2>4 DEF ReportInv
    <3>. QED  BY <2>1, <2>2, <3>1, AccountedKept
  <2>5. Accounted(r)'
    BY <1>0, <2>1, <2>2 DEF Accounted, TypeOK
  <2>6. SalesAgree(book', docs')
    BY <1>5, SalesAgreeCommitted DEF ReportInv
  <2>. QED  BY <2>4, <2>5, <2>6 DEF ReportInv
<1>. QED  BY <1>2, <1>4, <1>5 DEF Next, Quiescent

LEMMA ReportInvInit == Init => ReportInv
<1> SUFFICES ASSUME Init PROVE ReportInv
  OBVIOUS
<1>1. \A r \in Requests : pc[r] \in {"lookup", "load"} /\ found[r].lines = {}
  BY DEF Init, NothingFound
<1>. QED  BY <1>1, SalesAssumption DEF Init, ReportInv, Accounted

\* A report of a day counts exactly what the books held of it when it began.
THEOREM ReportMatchesBooksHolds == Spec => []ReportMatchesBooks
<1>1. SalesInv /\ ReportInv => ReportMatchesBooks
  <2> SUFFICES ASSUME SalesInv, ReportInv, NEW r \in Requests, Reported(r)
               PROVE  /\ \A d \in found[r].docs : \E i \in SalesOf(cmd[r].day, saw[r].at) :
                           /\ book[i].doc = d
                           /\ {p \in Products : <<d, p>> \in found[r].lines} = book[i].moved
                      /\ \A i \in SalesOf(cmd[r].day, saw[r].at) :
                           book[i].doc \in found[r].docs \/ Overtaken(book, saw[r].at, i)
    BY DEF ReportMatchesBooks
  <2>1. Accounted(r) /\ cmd[r].op = "report" /\ pc[r] = "done"
    BY DEF ReportInv, Reported
  <2>2. ASSUME NEW d \in found[r].docs
        PROVE  {p \in Products : <<d, p>> \in found[r].lines} = docs[d].body.lines
    <3>1. docs[d].body.lines \subseteq Products
      BY DEF SalesInv, TypeOK, Counted, Document, Body
    <3>2. \A p \in docs[d].body.lines : <<d, p>> \in found[r].lines
      BY <2>1 DEF Accounted, LinesOf
    <3>3. ASSUME NEW p \in Products, <<d, p>> \in found[r].lines PROVE p \in docs[d].body.lines
      <4>1. PICK c \in found[r].docs : <<d, p>> \in LinesOf(c)
        BY <2>1, <3>3 DEF Accounted
      <4>. QED  BY <4>1 DEF LinesOf
    <3>. QED  BY <3>1, <3>2, <3>3
  <2>. QED  BY <2>1, <2>2 DEF Accounted
<1>2. Spec => []ReportInv
  BY ReportInvInit, ReportInvStep, SalesInvariant, SoundInvariant, PTL DEF Spec
<1>. QED  BY <1>1, <1>2, SalesInvariant, PTL


=============================================================================
