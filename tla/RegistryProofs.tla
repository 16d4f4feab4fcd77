----------------------------- MODULE RegistryProofs -----------------------------
(***************************************************************************)
(* Proofs about Registry, for every value of its constants.                *)
(*                                                                         *)
(* Everything follows from one inductive invariant, Inv.  Its parts say    *)
(* what a request holds and knows at each step of its course: a copy of a  *)
(* row is what the book said of the row when it was read, a request that   *)
(* has not committed has left nothing, and the row of an idempotency key   *)
(* once taken is never free again.                                         *)
(***************************************************************************)
EXTENDS Registry, FiniteSetTheorems, TLAPS

-----------------------------------------------------------------------------
(* The inductive invariant *)

\* Locks are held from the write to the commit, and that of a key only by the
\* request that has found the key free and is about to commit.
LocksOf(r) ==
  /\ pc[r] \in {"lookup", "need", "find", "write", "refresh", "appoint", "announce"} =>
       held[r] = {}
  /\ \A k \in Keys : KeyValue(k) \in held[r] =>
       pc[r] = "commit" /\ Keyed(r) /\ cmd[r].key = k /\ keyRow[k] = Nobody

Exclusive ==
  \A a, b \in Requests, k \in Keys :
    KeyValue(k) \in held[a] /\ KeyValue(k) \in held[b] => a = b

\* A key is looked at only by a command that has one, and at its commit it is
\* taken, by another or by itself.
KeysOf(r) ==
  /\ pc[r] \in {"lookup", "recheck", "claim"} => Keyed(r)
  /\ pc[r] = "commit" /\ Keyed(r) =>
       keyRow[cmd[r].key] # Nobody \/ KeyValue(cmd[r].key) \in held[r]

\* The row of a key names a command that was given it.
Stored == \A k \in Keys : keyRow[k] \in Requests => Keyed(keyRow[k]) /\ cmd[keyRow[k]].key = k

\* A keyed command in the book has used its key up.
KeyUsed ==
  \A i \in 1..Len(book) : Keyed(book[i].by) => keyRow[cmd[book[i].by].key] # Nobody

\* A request that has looked its key up without an answer knows of no earlier
\* command under it, unless the row of the key is another service's.
SeenOf(r) ==
  Keyed(r) /\ pc[r] \in InFlight \ {"lookup"} =>
    \A i \in 1..at[r] : Keyed(book[i].by) /\ cmd[book[i].by].key = cmd[r].key =>
      keyRow[cmd[r].key] = Elsewhere

\* What a request has found is a row, and its copy is what the book said of the
\* row when it read it.
CopyOf(r) ==
  /\ at[r] <= Len(book)
  /\ target[r] = Unset => copy[r] = Blank
  /\ target[r] # Unset =>
       /\ target[r] \in DOMAIN rows /\ Course(r).found # "refuse"
       /\ \A f \in Fields : copy[r][f] = LastWord(target[r], f, at[r])

RowsThere == \A i \in 1..Len(book) : book[i].row \in DOMAIN rows

\* The entries of r are the insert of its row.
OnlyInsert(r) == \A i \in EntriesBy(r) : book[i].op = "create" /\ book[i].row = r

\* Before its first commit a request has left nothing; a request that goes on after
\* a commit is the update of a profile that it has created, or a new business.
ProgressOf(r) ==
  /\ pc[r] \in InFlight \ {"refresh", "appoint", "announce"} /\ target[r] # r =>
       EntriesBy(r) = {} /\ r \notin DOMAIN rows
  /\ pc[r] = "refresh" \/ (pc[r] \in InFlight /\ target[r] = r) =>
       Course(r) = UpdateProfile /\ OnlyInsert(r) /\ r \in DOMAIN rows
  /\ pc[r] \in {"appoint", "announce"} =>
       /\ Course(r) = CreateBusiness /\ OnlyInsert(r)
       /\ \E i \in EntriesBy(r) : EntriesBy(r) = {i}
  /\ pc[r] \in {"lookup", "need", "find", "refresh", "appoint", "announce"} =>
       target[r] = Unset

\* What WholeOrNothing says of one request, and of the keys.
OutcomeOf(r) ==
  /\ pc[r] = "replayed" => EntriesBy(r) = {}
  /\ pc[r] = "failed" =>
       (r \in DOMAIN rows => Course(r) \in {UpdateProfile, CreateBusiness}) /\ OnlyInsert(r)
  /\ pc[r] = "done" /\ Course(r) # GetOrCreateProfile =>
       \E i \in EntriesBy(r) : \A j \in EntriesBy(r) \ {i} :
         j < i /\ book[j].op = "create" /\ Course(r) = UpdateProfile
KeysKept ==
  \A k \in Keys : keyRow[k] \in Requests =>
    pc[keyRow[k]] = "done" /\ keyRow[k] \in DOMAIN rows

\* An entry is audited from its commit on, that of a new business from the last.
AuditOf(i) ==
  i \in audited <=>
    /\ book[i].op \in Author(i).records
    /\ Author(i) = CreateBusiness => pc[book[i].by] = "done"
Audit == \A i \in 1..Len(book) : AuditOf(i)

\* What TrailBreaksOnlyByOverlap says of "before", for every entry of the book.
CopiesLagOnlyByOverlap ==
  \A i \in 1..Len(book), f \in Fields :
    book[i].before[f] # LastWord(book[i].row, f, i - 1) =>
      \E j \in book[i].seen + 1 .. i - 1 : Words(j, book[i].row, f)

Own(r) ==
  LocksOf(r) /\ KeysOf(r) /\ SeenOf(r) /\ CopyOf(r) /\ ProgressOf(r) /\ OutcomeOf(r)

Inv ==
  /\ TypeOK /\ held = [r \in Requests |-> held[r]] /\ cmd \in Workloads
  /\ Exclusive /\ Stored /\ KeyUsed /\ RowsThere /\ KeysKept
  /\ NoChangeLost /\ CopiesLagOnlyByOverlap /\ TwiceOnlyIfOverlapped /\ Audit
  /\ \A r \in Requests : Own(r)

-----------------------------------------------------------------------------
(* The last word of the book *)

\* A set of positions of the book has a greatest one.
LEMMA Greatest ==
  ASSUME NEW n \in Nat, NEW S, S \subseteq 1..n, S # {}
  PROVE  \E i \in S : \A j \in S : j <= i
<1> DEFINE From(i) == {j \in S : i <= j}
           Tails == {From(i) : i \in S}
<1>1. Tails \subseteq FiniteSubsetsOf(1..n) /\ Tails # {}
  <2>1. IsFiniteSet(1..n)
    BY FS_Interval
  <2>2. \A i \in S : From(i) \subseteq 1..n
    OBVIOUS
  <2>3. \A i \in S : From(i) \in FiniteSubsetsOf(1..n)
    BY <2>1, <2>2, FS_Subset DEF FiniteSubsetsOf
  <2>4. QED BY <2>3
<1>2. \E x \in Tails : \A y \in Tails : <<y, x>> \notin StrictSubsetOrdering(1..n)
  BY <1>1, WFMin, FS_StrictSubsetOrderingWellFounded
<1>3. PICK i \in S : \A j \in S : <<From(j), From(i)>> \notin StrictSubsetOrdering(1..n)
  BY <1>2
<1>4. ASSUME NEW j \in S PROVE j <= i
  <2>1. ~(From(j) \subseteq From(i) /\ From(j) # From(i))
    BY <1>3 DEF StrictSubsetOrdering
  <2>2. i \in Int /\ j \in Int /\ S \subseteq Int
    OBVIOUS
  <2>3. SUFFICES ASSUME i < j PROVE FALSE
    BY <2>2
  <2>4. i \in From(i) /\ i \notin From(j)
    BY <2>2, <2>3
  <2>5. From(j) \subseteq From(i)
    <3>1. \A k \in S : k \in Int
      BY <2>2
    <3>2. \A k \in S : j <= k => i <= k
      BY <2>2, <2>3, <3>1
    <3>3. QED BY <3>2
  <2>6. QED BY <2>1, <2>4, <2>5
<1>5. QED BY <1>4

Said(x, f, n) == {i \in 1..n : Words(i, x, f)}
Last(S) == CHOOSE i \in S : \A j \in S : j <= i
AtOpening(x, f) == IF x \in Existing THEN Opening[x].fields[f] ELSE Unset

LEMMA LastWordIs ==
  \A x, f, n : LastWord(x, f, n) =
    IF Said(x, f, n) # {} THEN book[Last(Said(x, f, n))].after[f] ELSE AtOpening(x, f)
BY DEF LastWord, Said, Last, AtOpening

\* An entry that changes a column has the last word about it, and one that does
\* not leaves the last word to those before it.
LEMMA LastWordNext ==
  ASSUME NEW x, NEW f, NEW n \in Nat
  PROVE  /\ Words(n + 1, x, f) => LastWord(x, f, n + 1) = book[n + 1].after[f]
         /\ ~Words(n + 1, x, f) => LastWord(x, f, n + 1) = LastWord(x, f, n)
<1>1. CASE Words(n + 1, x, f)
  <2>1. n + 1 \in Said(x, f, n + 1) /\ \A j \in Said(x, f, n + 1) : j <= n + 1
    BY <1>1 DEF Said
  <2>2. \A i \in Said(x, f, n + 1) : (\A j \in Said(x, f, n + 1) : j <= i) => i = n + 1
    BY <2>1 DEF Said
  <2>3. Last(Said(x, f, n + 1)) = n + 1
    BY <2>1, <2>2 DEF Last
  <2>4. QED BY <1>1, <2>1, <2>3, LastWordIs
<1>2. CASE ~Words(n + 1, x, f)
  <2>1. Said(x, f, n + 1) = Said(x, f, n)
    BY <1>2 DEF Said
  <2>2. QED BY <1>2, <2>1, LastWordIs
<1>3. QED BY <1>1, <1>2

NextWord ==
  \A x, f : \A n \in Nat :
    LastWord(x, f, n + 1) =
      IF Words(n + 1, x, f) THEN book[n + 1].after[f] ELSE LastWord(x, f, n)

LEMMA NextWordHolds == NextWord /\ NextWord'
<1>1. NextWord
  BY LastWordNext DEF NextWord
<1>2. QED BY <1>1, PTL

\* The last word changes only between the entries that have one.
LEMMA LastWordSame ==
  ASSUME NEW x, NEW f, NEW m \in Nat, NEW n \in Nat, m <= n,
         \A j \in m + 1 .. n : ~Words(j, x, f)
  PROVE  LastWord(x, f, n) = LastWord(x, f, m)
<1>1. Said(x, f, n) = Said(x, f, m)
  <2>1. \A i \in 1..n : Words(i, x, f) => i <= m
    OBVIOUS
  <2>2. QED BY <2>1 DEF Said
<1>2. QED BY <1>1, LastWordIs

\* Entries that are there do not change, and so the last word of the book up to
\* them.
LEMMA LastWordStays ==
  ASSUME NEW x, NEW f, NEW n \in Nat, \A i \in 1..n : book'[i] = book[i]
  PROVE  LastWord(x, f, n)' = LastWord(x, f, n)
<1>1. Said(x, f, n)' = Said(x, f, n)
  BY DEF Said, Words
<1>2. CASE Said(x, f, n) = {}
  BY <1>1, <1>2, LastWordIs DEF LastWord, Said, AtOpening
<1>3. CASE Said(x, f, n) # {}
  <2>1. \E i \in Said(x, f, n) : \A j \in Said(x, f, n) : j <= i
    BY <1>3, Greatest DEF Said
  <2>2. Last(Said(x, f, n)) \in 1..n
    BY <2>1 DEF Said, Last
  <2>3. LastWord(x, f, n) = book[Last(Said(x, f, n))].after[f]
    BY <1>3, LastWordIs
  <2>4. LastWord(x, f, n)' = book'[Last(Said(x, f, n)')].after[f]
    BY <1>1, <1>3 DEF LastWord, Said, Last
  <2>5. QED BY <1>1, <2>2, <2>3, <2>4
<1>4. QED BY <1>2, <1>3

-----------------------------------------------------------------------------
(* Facts about the courses, and types *)

\* What the proofs need of the sixteen courses: a keyed one does not go on from a
\* row it finds, only the update of a profile and a new business go on after a
\* commit, and only the read of a profile ends without an entry.
LEMMA CourseFacts ==
  \A c \in Courses :
    /\ c.kind \in Kinds /\ c.keyed \in BOOLEAN
    /\ c.keyed => c.found = "refuse" /\ c.then = "done"
    /\ c.then \in {"done", "refresh", "appoint"}
    /\ c.then = "refresh" => c = UpdateProfile
    /\ c.then = "appoint" <=> c = CreateBusiness
    /\ c.found = "answer" => c = GetOrCreateProfile
    /\ c.keyed => c.kind = "user" \/ c.kind = "product"
    /\ c.keyed => (c.kind = "user" <=> c = Register)
<1> DEFINE Facts(c) ==
      /\ c.kind \in Kinds /\ c.keyed \in BOOLEAN
      /\ c.keyed => c.found = "refuse" /\ c.then = "done"
      /\ c.then \in {"done", "refresh", "appoint"}
      /\ c.then = "refresh" => c = UpdateProfile
      /\ c.then = "appoint" <=> c = CreateBusiness
      /\ c.found = "answer" => c = GetOrCreateProfile
      /\ c.keyed => c.kind = "user" \/ c.kind = "product"
      /\ c.keyed => (c.kind = "user" <=> c = Register)
<1>1. Facts(SetConfig) /\ Facts(GetOrCreateProfile) /\ Facts(UpdateProfile) /\ Facts(AddNote)
  BY DEF Kinds, SetConfig, GetOrCreateProfile, UpdateProfile, AddNote, CreateBusiness, Insertion
<1>2. Facts(CreateParty) /\ Facts(LinkParty) /\ Facts(Register) /\ Facts(Login)
  BY DEF Kinds, CreateParty, LinkParty, Register, Login, CreateBusiness, Insertion
<1>3. Facts(CreateProduct) /\ Facts(UpdateProduct) /\ Facts(CreateService)
  BY DEF Kinds, CreateProduct, UpdateProduct, CreateService, CreateBusiness, Insertion, Change,
         Register
<1>4. Facts(CreateCategory) /\ Facts(CreateBusiness) /\ Facts(UpdateBusiness)
  BY DEF Kinds, CreateCategory, CreateBusiness, UpdateBusiness, Insertion, Change
<1>5. Facts(CreateBranch) /\ Facts(CreateLocation)
  BY DEF Kinds, CreateBranch, CreateLocation, CreateBusiness, Insertion
<1>6. ASSUME NEW c \in Courses PROVE Facts(c)
  BY <1>1, <1>2, <1>3, <1>4, <1>5 DEF Courses
<1>7. QED BY <1>6

LEMMA CommandTypes ==
  ASSUME TypeOK, NEW r \in Requests
  PROVE  /\ cmd[r] \in Command /\ Course(r) \in Courses
         /\ cmd[r].given \in Columns /\ cmd[r].key \in Keys \cup {NoKey}
         /\ Keyed(r) => cmd[r].key \in Keys
BY DEF TypeOK, Command, Course, Keyed

\* One scope is one kind of command.
LEMMA SameKind ==
  ASSUME TypeOK, cmd \in Workloads, NEW a \in Requests, NEW b \in Requests,
         Keyed(a), Keyed(b), cmd[a].key = cmd[b].key
  PROVE  Course(a).kind = Course(b).kind
<1>1. Course(a) \in Courses /\ Course(b) \in Courses /\ Course(a).keyed /\ Course(b).keyed
  BY CommandTypes DEF Keyed
<1>2. Course(a) = Register <=> Course(b) = Register
  BY ScopeAssumption, <1>1 DEF Keyed, Course
<1>3. QED BY <1>1, <1>2, CourseFacts

-----------------------------------------------------------------------------
(* Steps before the commit *)

\* A step of r that writes nothing to the database and leaves the others alone.
QuietStep(r) ==
  /\ pc[r] \in InFlight /\ UNCHANGED <<rows, book, keyRow, audited, cmd>>
  /\ pc'[r] = "done" => Course(r) # CreateBusiness
  /\ \A b \in Requests \ {r} :
       /\ pc'[b] = pc[b] /\ target'[b] = target[b] /\ copy'[b] = copy[b]
       /\ at'[b] = at[b] /\ held'[b] = held[b]

LEMMA LastWordQuiet ==
  ASSUME UNCHANGED book
  PROVE  \A x, f, n : LastWord(x, f, n)' = LastWord(x, f, n)
BY DEF LastWord, Words

LEMMA QuietOthers ==
  ASSUME Inv, NEW r \in Requests, QuietStep(r), NEW b \in Requests \ {r}
  PROVE  Own(b)'
<1>1. Own(b)
  BY DEF Inv
<1>2. /\ pc'[b] = pc[b] /\ target'[b] = target[b] /\ copy'[b] = copy[b] /\ at'[b] = at[b]
      /\ held'[b] = held[b]
      /\ rows' = rows /\ book' = book /\ keyRow' = keyRow /\ cmd' = cmd
  BY DEF QuietStep
<1>3. LocksOf(b)' /\ KeysOf(b)' /\ SeenOf(b)'
  BY <1>1, <1>2 DEF Own, LocksOf, KeysOf, SeenOf, Keyed, Course
<1>4. CopyOf(b)'
  BY <1>1, <1>2, LastWordQuiet DEF Own, CopyOf, Course
<1>5. ProgressOf(b)' /\ OutcomeOf(b)'
  BY <1>1, <1>2 DEF Own, ProgressOf, OutcomeOf, OnlyInsert, EntriesBy, Course
<1>6. QED BY <1>3, <1>4, <1>5 DEF Own

LEMMA QuietKept ==
  ASSUME Inv, NEW r \in Requests, QuietStep(r)
  PROVE  /\ cmd' \in Workloads /\ Stored' /\ KeyUsed' /\ RowsThere' /\ KeysKept'
         /\ NoChangeLost' /\ CopiesLagOnlyByOverlap' /\ TwiceOnlyIfOverlapped' /\ Audit'
<1>1. rows' = rows /\ book' = book /\ keyRow' = keyRow /\ audited' = audited /\ cmd' = cmd
  BY DEF QuietStep
<1>2. cmd' \in Workloads /\ Stored' /\ KeyUsed' /\ RowsThere'
  BY <1>1 DEF Inv, Stored, KeyUsed, RowsThere, Keyed, Course
<1>3. KeysKept'
  <2>1. \A q \in Requests : pc[q] = "done" => pc'[q] = "done"
    BY DEF QuietStep, InFlight
  <2>2. QED BY <1>1, <2>1 DEF Inv, KeysKept
<1>4. NoChangeLost' /\ CopiesLagOnlyByOverlap'
  BY <1>1, LastWordQuiet DEF Inv, NoChangeLost, CopiesLagOnlyByOverlap, Words
<1>5. TwiceOnlyIfOverlapped'
  BY <1>1 DEF Inv, TwiceOnlyIfOverlapped, Keyed, Course
<1>6. ASSUME NEW i \in 1..Len(book) PROVE AuditOf(i)'
  <2>1. AuditOf(i) /\ Author(i)' = Author(i) /\ book[i] \in Entry
    BY <1>1 DEF Inv, Audit, Author, TypeOK
  <2>2. book[i].by \in Requests
    BY <2>1 DEF Entry
  <2>3. Author(i) = CreateBusiness => (pc'[book[i].by] = "done" <=> pc[book[i].by] = "done")
    <3>1. CASE book[i].by = r
      BY <3>1 DEF QuietStep, Author, Course, InFlight
    <3>2. CASE book[i].by # r
      BY <2>2, <3>2 DEF QuietStep
    <3>3. QED BY <3>1, <3>2
  <2>4. QED BY <1>1, <2>1, <2>3 DEF AuditOf
<1>7. Audit'
  BY <1>1, <1>6 DEF Audit
<1>8. QED BY <1>2, <1>3, <1>4, <1>5, <1>7

LEMMA Quiet ==
  ASSUME Inv, NEW r \in Requests, QuietStep(r), TypeOK', held' = [b \in Requests |-> held'[b]],
         Exclusive', Own(r)'
  PROVE  Inv'
BY QuietOthers, QuietKept DEF Inv

\* What a step of r that moves it to "label" leaves of the rest.
LEMMA GotoQuiet ==
  ASSUME Inv, NEW r \in Requests, NEW label \in InFlight \cup Finished, pc[r] \in InFlight,
         Goto(r, label), UNCHANGED <<db, cmd, held>>,
         \A b \in Requests \ {r} :
           target'[b] = target[b] /\ copy'[b] = copy[b] /\ at'[b] = at[b],
         left' \in [Requests -> SUBSET Ids], target' \in [Requests -> RowIds \cup {Unset}],
         copy' \in [Requests -> Columns], at' \in [Requests -> Nat],
         label \in Finished => held[r] = {}, label = "done" => Course(r) # CreateBusiness, Own(r)'
  PROVE  Inv'
<1>1. QuietStep(r)
  BY DEF QuietStep, Goto, db, Inv, TypeOK
<1>2. TypeOK'
  BY DEF TypeOK, Goto, db, Inv
<1>3. held' = [b \in Requests |-> held'[b]] /\ Exclusive'
  BY DEF Inv, Exclusive
<1>4. QED BY <1>1, <1>2, <1>3, Quiet

\* What the step leaves of the request itself.
LEMMA SameMine ==
  ASSUME Inv, NEW r \in Requests, NEW label \in InFlight \cup Finished, pc[r] \in InFlight,
         Goto(r, label), UNCHANGED <<db, mine>>
  PROVE  /\ pc'[r] = label /\ CopyOf(r)' /\ EntriesBy(r)' = EntriesBy(r)
         /\ OnlyInsert(r)' = OnlyInsert(r) /\ Keyed(r)' = Keyed(r) /\ Course(r)' = Course(r)
         /\ rows' = rows /\ book' = book /\ keyRow' = keyRow
         /\ cmd' = cmd /\ left' = left /\ target' = target /\ copy' = copy /\ at' = at
<1>1. CopyOf(r)
  BY DEF Inv, Own
<1>2. QED BY <1>1, LastWordQuiet
          DEF Inv, TypeOK, Goto, db, mine, CopyOf, EntriesBy, OnlyInsert, Keyed, Course

LEMMA RollbackStep ==
  ASSUME Inv, NEW r \in Requests, pc[r] \in InFlight, Rollback(r)
  PROVE  Inv'
<1>1. /\ Goto(r, "failed") /\ UNCHANGED <<db, mine>> /\ "failed" \in InFlight \cup Finished
      /\ held' = [held EXCEPT ![r] = {}]
  BY DEF Rollback, Release, Finished
<1>2. /\ pc'[r] = "failed" /\ CopyOf(r)' /\ EntriesBy(r)' = EntriesBy(r)
      /\ OnlyInsert(r)' = OnlyInsert(r) /\ Course(r)' = Course(r)
      /\ rows' = rows /\ book' = book
  BY <1>1, SameMine
<1>3. held'[r] = {} /\ held' = [b \in Requests |-> held'[b]]
      /\ \A b \in Requests \ {r} : held'[b] = held[b]
  BY <1>1 DEF Inv
<1>4. QuietStep(r)
  BY <1>1, <1>3 DEF QuietStep, Goto, db, mine, Inv, TypeOK
<1>5. TypeOK'
  BY <1>1, <1>3 DEF TypeOK, Goto, db, mine, Inv, Finished
<1>6. Exclusive'
  BY <1>3 DEF Inv, Exclusive
<1>7. LocksOf(r)' /\ KeysOf(r)' /\ SeenOf(r)'
  BY <1>2, <1>3 DEF LocksOf, KeysOf, SeenOf, InFlight
<1>8. ProgressOf(r)'
  BY <1>2 DEF ProgressOf, InFlight
<1>9. OutcomeOf(r)'
  <2>1. ProgressOf(r)
    BY DEF Inv, Own
  <2>2. \/ EntriesBy(r) = {} /\ r \notin DOMAIN rows
        \/ Course(r) \in {UpdateProfile, CreateBusiness} /\ OnlyInsert(r)
    BY <2>1 DEF ProgressOf, InFlight
  <2>3. OnlyInsert(r)
    BY <2>2 DEF OnlyInsert
  <2>4. QED BY <1>2, <2>2, <2>3 DEF OutcomeOf
<1>10. Own(r)'
  BY <1>2, <1>7, <1>8, <1>9 DEF Own
<1>11. QED BY <1>3, <1>4, <1>5, <1>6, <1>10, Quiet

\* A command with a key has found no row.
LEMMA KeyedInserts ==
  ASSUME Inv, NEW r \in Requests, Keyed(r)
  PROVE  target[r] = Unset /\ target[r] # r /\ Course(r).found = "refuse" /\ Course(r).then = "done"
<1>1. Course(r) \in Courses /\ Course(r).keyed
  BY CommandTypes DEF Inv, Keyed
<1>2. Course(r).found = "refuse" /\ Course(r).then = "done"
  BY <1>1, CourseFacts
<1>3. target[r] = Unset
  BY <1>2 DEF Inv, Own, CopyOf
<1>4. Unset # r
  BY NamesAssumption DEF RowIds
<1>5. QED BY <1>2, <1>3, <1>4

LEMMA ReplayStep ==
  ASSUME Inv, NEW r \in Requests, Replay(r)
  PROVE  Inv'
<1>1. /\ pc[r] = "lookup" /\ Goto(r, "replayed") /\ UNCHANGED <<db, mine, held>>
      /\ pc[r] \in InFlight /\ "replayed" \in InFlight \cup Finished
  BY DEF Replay, InFlight, Finished
<1>2. /\ pc'[r] = "replayed" /\ CopyOf(r)' /\ EntriesBy(r)' = EntriesBy(r)
  BY <1>1, SameMine
<1>3. LocksOf(r) /\ KeysOf(r) /\ ProgressOf(r)
  BY DEF Inv, Own
<1>4. held[r] = {} /\ EntriesBy(r) = {}
  BY <1>1, <1>3, KeyedInserts DEF LocksOf, KeysOf, ProgressOf, InFlight
<1>5. Own(r)'
  BY <1>1, <1>2, <1>4
     DEF Own, LocksOf, KeysOf, SeenOf, ProgressOf, OutcomeOf, InFlight
<1>6. QED BY <1>1, <1>4, <1>5, GotoQuiet DEF Inv, TypeOK, mine, db

LEMMA ProceedStep ==
  ASSUME Inv, NEW r \in Requests, Proceed(r)
  PROVE  Inv'
<1>1. /\ pc[r] = "lookup" /\ Goto(r, "need") /\ ~HasPrior(r)
      /\ at' = [at EXCEPT ![r] = Len(book)]
      /\ UNCHANGED <<db, cmd, left, target, copy, held>>
      /\ pc[r] \in InFlight /\ "need" \in InFlight \cup Finished /\ "need" \notin Finished
  BY DEF Proceed, InFlight, Finished
<1>2. Len(book) \in Nat /\ rows' = rows /\ book' = book /\ keyRow' = keyRow
  BY <1>1 DEF Inv, TypeOK, db
<1>3. pc'[r] = "need" /\ at'[r] = Len(book)
  BY <1>1 DEF Goto, Inv, TypeOK
<1>4. Own(r)
  BY DEF Inv
<1>5. Keyed(r) /\ target[r] = Unset /\ target[r] # r
  BY <1>1, <1>4, KeyedInserts DEF Own, KeysOf
<1>6. LocksOf(r)' /\ KeysOf(r)'
  BY <1>1, <1>2, <1>3, <1>4 DEF Own, LocksOf, KeysOf, Keyed, Course, InFlight
<1>7. CopyOf(r)'
  BY <1>1, <1>2, <1>3, <1>4, <1>5 DEF Own, CopyOf
<1>8. SeenOf(r)'
  <2>1. SUFFICES ASSUME NEW i \in 1..Len(book), Keyed(book[i].by),
                        cmd[book[i].by].key = cmd[r].key
                 PROVE  keyRow[cmd[r].key] = Elsewhere
    BY <1>1, <1>2, <1>3 DEF SeenOf, Keyed, Course
  <2>2. cmd[r].key \in Keys
    BY <1>5, CommandTypes DEF Inv
  <2>3. keyRow[cmd[r].key] # Nobody
    BY <2>1 DEF Inv, KeyUsed
  <2>4. ASSUME keyRow[cmd[r].key] \in Requests PROVE FALSE
    <3>1. Keyed(keyRow[cmd[r].key]) /\ cmd[keyRow[cmd[r].key]].key = cmd[r].key
      BY <2>2, <2>4 DEF Inv, Stored
    <3>2. Course(keyRow[cmd[r].key]).kind = Course(r).kind
      BY <1>5, <2>4, <3>1, SameKind DEF Inv
    <3>3. QED BY <1>1, <2>4, <3>2 DEF HasPrior
  <2>5. QED BY <2>2, <2>3, <2>4 DEF Inv, TypeOK
<1>9. ProgressOf(r)' /\ OutcomeOf(r)'
  BY <1>1, <1>2, <1>3, <1>4, <1>5
     DEF Own, ProgressOf, OutcomeOf, EntriesBy, InFlight
<1>10. Own(r)'
  BY <1>6, <1>7, <1>8, <1>9 DEF Own
<1>11. QED BY <1>1, <1>2, <1>10, GotoQuiet DEF Inv, TypeOK

LEMMA NeedStep ==
  ASSUME Inv, NEW r \in Requests, Need(r)
  PROVE  Inv'
<1>1. PICK label \in {"write", "find"} : Goto(r, label) /\ pc[r] = "need"
  BY DEF Need
<1>2. UNCHANGED <<db, mine, held>>
  BY DEF Need
<1>3. pc[r] \in InFlight /\ label \in InFlight \cup Finished /\ label \notin Finished
  BY <1>1 DEF InFlight, Finished
<1>4. /\ pc'[r] = label /\ CopyOf(r)' /\ EntriesBy(r)' = EntriesBy(r)
      /\ OnlyInsert(r)' = OnlyInsert(r) /\ Keyed(r)' = Keyed(r) /\ Course(r)' = Course(r)
      /\ rows' = rows /\ book' = book /\ keyRow' = keyRow
      /\ cmd' = cmd /\ target' = target /\ at' = at
  BY <1>1, <1>2, <1>3, SameMine
<1>5. Own(r)
  BY DEF Inv
<1>6. LocksOf(r)' /\ KeysOf(r)' /\ SeenOf(r)'
  <2>1. held' = held
    BY <1>2
  <2>2. LocksOf(r)'
    BY <1>1, <1>4, <1>5, <2>1 DEF Own, LocksOf
  <2>3. KeysOf(r)'
    BY <1>1, <1>4 DEF KeysOf
  <2>4. SeenOf(r)'
    BY <1>1, <1>4, <1>5 DEF Own, SeenOf, InFlight, Keyed, Course
  <2>5. QED BY <2>2, <2>3, <2>4
<1>7. ProgressOf(r)' /\ OutcomeOf(r)'
  BY <1>1, <1>4, <1>5 DEF Own, ProgressOf, OutcomeOf, InFlight
<1>8. Own(r)'
  BY <1>4, <1>6, <1>7 DEF Own
<1>9. QED BY <1>1, <1>2, <1>3, <1>8, GotoQuiet DEF Inv, TypeOK, mine

LEMMA FindStep ==
  ASSUME Inv, NEW r \in Requests, Find(r)
  PROVE  Inv'
<1>1. PICK label \in {"write", "done"} :
        Goto(r, label) /\ (label = "done" <=> Course(r).found # "update")
  BY DEF Find
<1>2. PICK x \in Matches(r) :
        /\ target' = [target EXCEPT ![r] = x]
        /\ copy' = [copy EXCEPT ![r] = rows[x].fields]
        /\ at' = [at EXCEPT ![r] = Len(book)]
  BY DEF Find
<1>3. /\ pc[r] = "find" /\ Course(r).found \in {"update", "answer"}
      /\ UNCHANGED <<db, cmd, left, held>>
  BY DEF Find
<1>4. pc[r] \in InFlight /\ label \in InFlight \cup Finished
  BY <1>3 DEF InFlight, Finished
<1>5. x \in DOMAIN rows /\ x \in RowIds /\ x # Unset /\ rows[x].fields \in Columns
      /\ Len(book) \in Nat
  BY NamesAssumption DEF Matches, Inv, TypeOK, Row
<1>6. /\ rows' = rows /\ book' = book /\ keyRow' = keyRow /\ cmd' = cmd /\ left' = left
      /\ held' = held /\ Course(r)' = Course(r) /\ Keyed(r)' = Keyed(r)
      /\ EntriesBy(r)' = EntriesBy(r)
  BY <1>3 DEF db, Course, Keyed, EntriesBy
<1>7. /\ pc'[r] = label /\ target'[r] = x /\ copy'[r] = rows[x].fields /\ at'[r] = Len(book)
  BY <1>1, <1>2 DEF Goto, Inv, TypeOK
<1>8. Own(r)
  BY DEF Inv
<1>9. held[r] = {} /\ EntriesBy(r) = {} /\ r \notin DOMAIN rows /\ ~Keyed(r)
  <2>1. held[r] = {} /\ target[r] = Unset /\ ~Keyed(r)
    BY <1>3, <1>8, KeyedInserts DEF Own, LocksOf, ProgressOf
  <2>2. Unset # r
    BY NamesAssumption DEF RowIds
  <2>3. QED BY <1>3, <1>8, <2>1, <2>2 DEF Own, ProgressOf, InFlight
<1>10. LocksOf(r)' /\ KeysOf(r)' /\ SeenOf(r)'
  BY <1>6, <1>7, <1>9 DEF LocksOf, KeysOf, SeenOf
<1>11. CopyOf(r)'
  <2>1. \A f \in Fields : rows[x].fields[f] = LastWord(x, f, Len(book))
    BY <1>5 DEF Inv, NoChangeLost
  <2>2. QED BY <1>3, <1>5, <1>6, <1>7, <2>1, LastWordQuiet DEF CopyOf
<1>12. ProgressOf(r)'
  BY <1>5, <1>6, <1>7, <1>9 DEF ProgressOf
<1>13. OutcomeOf(r)'
  <2>1. label = "done" => Course(r) = GetOrCreateProfile
    BY <1>1, <1>3, CommandTypes, CourseFacts DEF Inv
  <2>2. QED BY <1>6, <1>7, <2>1 DEF OutcomeOf
<1>14. Own(r)'
  BY <1>10, <1>11, <1>12, <1>13 DEF Own
<1>15. /\ target' \in [Requests -> RowIds \cup {Unset}] /\ copy' \in [Requests -> Columns]
       /\ at' \in [Requests -> Nat] /\ left' \in [Requests -> SUBSET Ids]
  BY <1>2, <1>5, <1>6 DEF Inv, TypeOK
<1>16. \A b \in Requests \ {r} :
         target'[b] = target[b] /\ copy'[b] = copy[b] /\ at'[b] = at[b]
  BY <1>2 DEF Inv, TypeOK
<1>17. label = "done" => Course(r) # CreateBusiness
  BY <1>1, <1>3 DEF CreateBusiness, Insertion
<1>18. QED BY <1>1, <1>3, <1>4, <1>9, <1>14, <1>15, <1>16, <1>17, GotoQuiet

LEMMA FindNothingStep ==
  ASSUME Inv, NEW r \in Requests, FindNothing(r)
  PROVE  Inv'
<1>1. PICK label \in {"write", "find"} : Goto(r, label) /\ pc[r] = "find"
  BY DEF FindNothing
<1>2. /\ UNCHANGED <<db, cmd, target, copy, at, held>>
      /\ left' = [left EXCEPT ![r] = @ \ {NextLook(r)}]
  BY DEF FindNothing
<1>3. pc[r] \in InFlight /\ label \in InFlight \cup Finished /\ label \notin Finished
  BY <1>1 DEF InFlight, Finished
<1>4. /\ pc'[r] = label /\ EntriesBy(r)' = EntriesBy(r)
      /\ OnlyInsert(r)' = OnlyInsert(r) /\ Keyed(r)' = Keyed(r) /\ Course(r)' = Course(r)
      /\ rows' = rows /\ book' = book /\ keyRow' = keyRow
      /\ cmd' = cmd /\ target' = target /\ copy' = copy /\ at' = at
  BY <1>1, <1>2 DEF Inv, TypeOK, Goto, db, EntriesBy, OnlyInsert, Keyed, Course
<1>5. Own(r)
  BY DEF Inv
<1>6. LocksOf(r)' /\ KeysOf(r)' /\ SeenOf(r)'
  <2>1. held' = held
    BY <1>2
  <2>2. LocksOf(r)'
    BY <1>1, <1>4, <1>5, <2>1 DEF Own, LocksOf
  <2>3. KeysOf(r)'
    BY <1>1, <1>4 DEF KeysOf
  <2>4. SeenOf(r)'
    BY <1>1, <1>4, <1>5 DEF Own, SeenOf, InFlight, Keyed, Course
  <2>5. QED BY <2>2, <2>3, <2>4
<1>7. ProgressOf(r)' /\ OutcomeOf(r)'
  BY <1>1, <1>4, <1>5 DEF Own, ProgressOf, OutcomeOf, InFlight
<1>8. CopyOf(r)'
  BY <1>4, <1>5, LastWordQuiet DEF Own, CopyOf
<1>9. Own(r)'
  BY <1>6, <1>7, <1>8 DEF Own
<1>10. left' \in [Requests -> SUBSET Ids]
  BY <1>2 DEF Inv, TypeOK
<1>11. QED BY <1>1, <1>2, <1>3, <1>9, <1>10, GotoQuiet DEF Inv, TypeOK

LEMMA RefreshStep ==
  ASSUME Inv, NEW r \in Requests, Refresh(r)
  PROVE  Inv'
<1>1. /\ pc[r] = "refresh" /\ Goto(r, "write")
      /\ target' = [target EXCEPT ![r] = r]
      /\ copy' = [copy EXCEPT ![r] = rows[r].fields]
      /\ at' = [at EXCEPT ![r] = Len(book)]
      /\ UNCHANGED <<db, cmd, left, held>>
      /\ pc[r] \in InFlight /\ "write" \in InFlight \cup Finished /\ "write" \notin Finished
  BY DEF Refresh, InFlight, Finished
<1>2. Own(r)
  BY DEF Inv
<1>3. Course(r) = UpdateProfile /\ OnlyInsert(r) /\ r \in DOMAIN rows /\ held[r] = {}
  BY <1>1, <1>2 DEF Own, ProgressOf, LocksOf
<1>4. UpdateProfile.found = "update" /\ ~UpdateProfile.keyed
  BY DEF UpdateProfile, GetOrCreateProfile, Insertion
<1>5. rows[r].fields \in Columns /\ Len(book) \in Nat /\ r \in RowIds /\ r # Unset
  BY <1>3, NamesAssumption DEF Inv, TypeOK, Row, RowIds
<1>6. /\ pc'[r] = "write" /\ target'[r] = r /\ copy'[r] = rows[r].fields /\ at'[r] = Len(book)
      /\ rows' = rows /\ book' = book /\ keyRow' = keyRow /\ cmd' = cmd /\ held' = held
      /\ left' = left
  BY <1>1 DEF Inv, TypeOK, Goto, db
<1>7. /\ Course(r)' = Course(r) /\ OnlyInsert(r)' = OnlyInsert(r) /\ ~Keyed(r)'
  BY <1>3, <1>4, <1>6 DEF Course, OnlyInsert, EntriesBy, Keyed
<1>8. LocksOf(r)' /\ KeysOf(r)' /\ SeenOf(r)'
  BY <1>3, <1>6, <1>7 DEF LocksOf, KeysOf, SeenOf
<1>9. CopyOf(r)'
  <2>1. \A f \in Fields : rows[r].fields[f] = LastWord(r, f, Len(book))
    BY <1>3 DEF Inv, NoChangeLost
  <2>2. QED BY <1>3, <1>4, <1>5, <1>6, <1>7, <2>1, LastWordQuiet DEF CopyOf
<1>10. ProgressOf(r)' /\ OutcomeOf(r)'
  BY <1>3, <1>6, <1>7 DEF ProgressOf, OutcomeOf
<1>11. Own(r)'
  BY <1>8, <1>9, <1>10 DEF Own
<1>12. /\ target' \in [Requests -> RowIds \cup {Unset}] /\ copy' \in [Requests -> Columns]
       /\ at' \in [Requests -> Nat] /\ left' \in [Requests -> SUBSET Ids]
  BY <1>1, <1>5, <1>6 DEF Inv, TypeOK
<1>13. \A b \in Requests \ {r} :
         target'[b] = target[b] /\ copy'[b] = copy[b] /\ at'[b] = at[b]
  BY <1>1 DEF Inv, TypeOK
<1>14. QED BY <1>1, <1>11, <1>12, <1>13, GotoQuiet

LEMMA RecheckStep ==
  ASSUME Inv, NEW r \in Requests, Recheck(r)
  PROVE  Inv'
<1>1. PICK label \in {"claim", "commit"} :
        Goto(r, label) /\ (label = "commit" => keyRow[cmd[r].key] # Nobody)
  BY DEF Recheck
<1>2. pc[r] = "recheck" /\ UNCHANGED <<db, mine, held>>
  BY DEF Recheck
<1>3. pc[r] \in InFlight /\ label \in InFlight \cup Finished /\ label \notin Finished
  BY <1>2 DEF InFlight, Finished
<1>4. /\ pc'[r] = label /\ CopyOf(r)' /\ EntriesBy(r)' = EntriesBy(r)
      /\ OnlyInsert(r)' = OnlyInsert(r) /\ Keyed(r)' = Keyed(r) /\ Course(r)' = Course(r)
      /\ rows' = rows /\ book' = book /\ keyRow' = keyRow
      /\ cmd' = cmd /\ target' = target /\ at' = at
  BY <1>1, <1>2, <1>3, SameMine
<1>5. Own(r) /\ held' = held
  BY <1>2 DEF Inv
<1>6. Keyed(r)
  BY <1>2, <1>5 DEF Own, KeysOf
<1>7. LocksOf(r)'
  BY <1>2, <1>4, <1>5 DEF Own, LocksOf
<1>8. KeysOf(r)'
  BY <1>1, <1>4, <1>6 DEF KeysOf
<1>9. SeenOf(r)'
  BY <1>2, <1>4, <1>5 DEF Own, SeenOf, InFlight, Keyed, Course
<1>10. ProgressOf(r)' /\ OutcomeOf(r)'
  BY <1>2, <1>4, <1>5 DEF Own, ProgressOf, OutcomeOf, InFlight
<1>11. Own(r)'
  BY <1>4, <1>7, <1>8, <1>9, <1>10 DEF Own
<1>12. QED BY <1>1, <1>2, <1>3, <1>11, GotoQuiet DEF Inv, TypeOK, mine

\* A statement of r that takes locks.
LEMMA LockStep ==
  ASSUME Inv, NEW r \in Requests, NEW label \in InFlight, pc[r] \in {"write", "claim"},
         Goto(r, label), Lock(r), UNCHANGED <<db, mine>>,
         LocksOf(r)', KeysOf(r)', Exclusive',
         label \in {"recheck", "commit"}
  PROVE  Inv'
<1>1. held' = [held EXCEPT ![r] = @ \cup Wants(r)]
  BY DEF Lock
<1>2. pc[r] \in InFlight /\ label \in InFlight \cup Finished /\ label \notin Finished
  BY DEF InFlight, Finished
<1>3. /\ pc'[r] = label /\ CopyOf(r)' /\ EntriesBy(r)' = EntriesBy(r)
      /\ OnlyInsert(r)' = OnlyInsert(r) /\ Keyed(r)' = Keyed(r) /\ Course(r)' = Course(r)
      /\ rows' = rows /\ book' = book /\ keyRow' = keyRow
      /\ cmd' = cmd /\ target' = target /\ at' = at
  BY <1>2, SameMine
<1>4. Own(r)
  BY DEF Inv
<1>5. QuietStep(r)
  BY <1>1, <1>2 DEF QuietStep, Goto, db, mine, Inv, TypeOK
<1>6. TypeOK'
  BY <1>1, <1>2 DEF TypeOK, Goto, db, mine, Inv, Finished
<1>7. held' = [b \in Requests |-> held'[b]]
  BY <1>1 DEF Inv
<1>8. SeenOf(r)'
  BY <1>3, <1>4 DEF Own, SeenOf, InFlight, Keyed, Course
<1>9. ProgressOf(r)' /\ OutcomeOf(r)'
  BY <1>3, <1>4 DEF Own, ProgressOf, OutcomeOf, InFlight
<1>10. Own(r)'
  BY <1>3, <1>8, <1>9 DEF Own
<1>11. QED BY <1>5, <1>6, <1>7, <1>10, Quiet

\* No write locks the row of a key.
LEMMA WriteWants ==
  ASSUME Inv, NEW r \in Requests, pc[r] = "write", NEW k \in Keys
  PROVE  KeyValue(k) \notin Wants(r)
<1>1. Course(r).kind \in Kinds
  BY CommandTypes, CourseFacts DEF Inv
<1>2. \A w \in Wants(r) : w[1] \in Kinds \cup {"row"}
  BY <1>1 DEF Wants, UniqueValue, RowLock
<1>3. KeyValue(k)[1] \notin Kinds \cup {"row"}
  BY DEF KeyValue, Kinds
<1>4. QED BY <1>2, <1>3

LEMMA WriteStep ==
  ASSUME Inv, NEW r \in Requests, Write(r)
  PROVE  Inv'
<1>1. PICK label \in {"recheck", "commit"} : Goto(r, label) /\ (label = "recheck" <=> Keyed(r))
  BY DEF Write
<1>2. pc[r] = "write" /\ UNCHANGED <<db, mine>> /\ Lock(r) /\ label \in InFlight
  BY DEF Write, InFlight
<1>3. pc'[r] = label /\ Keyed(r)' = Keyed(r)
  BY <1>1, <1>2 DEF Goto, Inv, TypeOK, mine, Keyed, Course
<1>4. held[r] = {}
  BY <1>2 DEF Inv, Own, LocksOf
<1>5. held'[r] = Wants(r) /\ \A b \in Requests \ {r} : held'[b] = held[b]
  BY <1>2, <1>4 DEF Lock, Inv
<1>6. LocksOf(r)' /\ KeysOf(r)'
  BY <1>1, <1>2, <1>3, <1>5, WriteWants DEF LocksOf, KeysOf
<1>7. Exclusive'
  BY <1>2, <1>5, WriteWants DEF Inv, Exclusive
<1>8. QED BY <1>1, <1>2, <1>6, <1>7, LockStep

LEMMA ClaimKeyStep ==
  ASSUME Inv, NEW r \in Requests, ClaimKey(r)
  PROVE  Inv'
<1>1. /\ pc[r] = "claim" /\ ~Waits(r) /\ keyRow[cmd[r].key] = Nobody /\ Lock(r)
      /\ Goto(r, "commit") /\ UNCHANGED <<db, mine>> /\ "commit" \in InFlight
  BY DEF ClaimKey, InFlight
<1>2. pc'[r] = "commit" /\ Keyed(r)' = Keyed(r) /\ keyRow' = keyRow /\ cmd' = cmd
  BY <1>1 DEF Goto, Inv, TypeOK, mine, db, Keyed, Course
<1>3. Own(r)
  BY DEF Inv
<1>4. Keyed(r)
  BY <1>1, <1>3 DEF Own, KeysOf
<1>5. Wants(r) = {KeyValue(cmd[r].key)}
  BY <1>1 DEF Wants
<1>6. held'[r] = held[r] \cup {KeyValue(cmd[r].key)}
      /\ \A b \in Requests \ {r} : held'[b] = held[b]
  BY <1>1, <1>5 DEF Lock, Inv
<1>7. \A k \in Keys : KeyValue(k) \in held'[r] => k = cmd[r].key
  <2>1. \A k \in Keys : KeyValue(k) \notin held[r]
    BY <1>1, <1>3 DEF Own, LocksOf
  <2>2. \A k, l : KeyValue(k) = KeyValue(l) => k = l
    BY DEF KeyValue
  <2>3. QED BY <1>6, <2>1, <2>2
<1>8. LocksOf(r)'
  BY <1>1, <1>2, <1>4, <1>7 DEF LocksOf
<1>9. KeysOf(r)'
  BY <1>2, <1>6 DEF KeysOf
<1>10. \A b \in Requests \ {r} : KeyValue(cmd[r].key) \notin held[b]
  BY <1>1, <1>5 DEF Waits
<1>11. Exclusive'
  BY <1>6, <1>7, <1>10 DEF Inv, Exclusive
<1>12. QED BY <1>1, <1>8, <1>9, <1>11, LockStep

-----------------------------------------------------------------------------
(* The commit *)

LEMMA FieldTypes ==
  ASSUME Inv, NEW r \in Requests
  PROVE  /\ NewFields(r) \in Columns /\ \A x \in Columns : Over(r, x) \in Columns
         /\ \A x \in DOMAIN rows : FieldsAfter(r, x) \in Columns
<1>1. /\ cmd[r].given \in [Fields -> Values \cup {Unset}]
      /\ copy[r] \in [Fields -> Values \cup {Unset}]
  BY CommandTypes DEF Inv, TypeOK, Columns
<1>2. NewFields(r) \in Columns
  BY <1>1 DEF NewFields, Columns
<1>3. \A x \in Columns : Over(r, x) \in Columns
  BY <1>1 DEF Over, Columns
<1>4. \A x \in DOMAIN rows : rows[x].fields \in [Fields -> Values \cup {Unset}]
  BY DEF Inv, TypeOK, Row, Columns
<1>5. Over(r, copy[r]) \in [Fields -> Values \cup {Unset}]
  BY <1>1, <1>3 DEF Columns
<1>6. \A x \in DOMAIN rows : FieldsAfter(r, x) \in Columns
  BY <1>4, <1>5 DEF FieldsAfter, Columns
<1>7. QED BY <1>2, <1>3, <1>6

\* What a commit writes and what it leaves.
LEMMA CommitBasics ==
  ASSUME Inv, NEW r \in Requests, Commit(r)
  PROVE  /\ pc[r] = "commit" /\ pc'[r] = AfterCommit(r)
         /\ held' = [held EXCEPT ![r] = {}] /\ held'[r] = {}
         /\ \A b \in Requests \ {r} : pc'[b] = pc[b] /\ held'[b] = held[b]
         /\ cmd' = cmd /\ left' = left /\ target' = target /\ copy' = copy /\ at' = at
         /\ rows' = RowsAfter(r)
         /\ Len(book) \in Nat /\ Len(book') = Len(book) + 1
         /\ \A i \in 1..Len(book) : book'[i] = book[i]
         /\ book'[Len(book) + 1] = EntryOf(r) /\ EntryOf(r) \in Entry
         /\ keyRow' = [k \in Keys |-> IF KeyValue(k) \in held[r] THEN r ELSE keyRow[k]]
         /\ audited' = audited \cup {i \in {Len(book) + 1} : RecordsNow(r)}
         /\ TypeOK'
<1>1. /\ pc[r] = "commit" /\ Goto(r, AfterCommit(r))
      /\ audited' = audited \cup {i \in {Len(book) + 1} : RecordsNow(r)}
      /\ held' = [held EXCEPT ![r] = {}] /\ book' = Append(book, EntryOf(r))
      /\ cmd' = cmd /\ left' = left /\ target' = target /\ copy' = copy /\ at' = at
      /\ rows' = RowsAfter(r)
      /\ keyRow' = [k \in Keys |-> IF KeyValue(k) \in held[r] THEN r ELSE keyRow[k]]
  BY DEF Commit, Release, mine
<1>2. held'[r] = {} /\ \A b \in Requests \ {r} : pc'[b] = pc[b] /\ held'[b] = held[b]
  BY <1>1 DEF Goto, Inv, TypeOK
<1>3. pc'[r] = AfterCommit(r)
  BY <1>1 DEF Goto, Inv, TypeOK
<1>4. EntryOf(r) \in Entry
  <2>1. Blank \in Columns /\ copy[r] \in Columns /\ at[r] \in Nat
    BY DEF Inv, TypeOK, Blank, Columns
  <2>2. (IF Inserts(r) THEN r ELSE target[r]) \in RowIds
    BY DEF Inv, TypeOK, Inserts, RowIds
  <2>3. (IF Inserts(r) THEN NewFields(r) ELSE Over(r, copy[r])) \in Columns
    BY <2>1, FieldTypes
  <2>4. QED BY <2>1, <2>2, <2>3 DEF EntryOf, Entry, Op
<1>5. /\ Len(book) \in Nat /\ Len(book') = Len(book) + 1 /\ book' \in Seq(Entry)
      /\ \A i \in 1..Len(book) : book'[i] = book[i]
      /\ book'[Len(book) + 1] = EntryOf(r)
  BY <1>1, <1>4 DEF Inv, TypeOK
<1>6. DOMAIN rows' \subseteq RowIds /\ \A x \in DOMAIN rows' : rows'[x] \in Row
  <2>1. CASE Inserts(r)
    <3>1. [kind |-> Course(r).kind, fields |-> NewFields(r)] \in Row
      BY CommandTypes, CourseFacts, FieldTypes DEF Inv, Row
    <3>2. QED BY <1>1, <2>1, <3>1 DEF RowsAfter, Inv, TypeOK, RowIds
  <2>2. CASE ~Inserts(r)
    <3>1. target[r] \in DOMAIN rows
      BY <2>2 DEF Inserts, Inv, Own, CopyOf
    <3>2. FieldsAfter(r, target[r]) \in Columns
      BY <3>1, FieldTypes
    <3>3. [rows[target[r]] EXCEPT !.fields = FieldsAfter(r, target[r])] \in Row
      BY <3>1, <3>2 DEF Inv, TypeOK, Row
    <3>4. rows' = [rows EXCEPT ![target[r]].fields = FieldsAfter(r, target[r])]
      BY <1>1, <2>2 DEF RowsAfter
    <3>5. DOMAIN rows' = DOMAIN rows
          /\ \A x \in DOMAIN rows : x # target[r] => rows'[x] = rows[x]
      BY <3>4
    <3>6. rows'[target[r]] = [rows[target[r]] EXCEPT !.fields = FieldsAfter(r, target[r])]
      BY <3>1, <3>4
    <3>7. QED BY <3>3, <3>5, <3>6 DEF Inv, TypeOK
  <2>3. QED BY <2>1, <2>2
<1>7. pc' \in [Requests -> InFlight \cup Finished]
  BY <1>1 DEF AfterCommit, Goto, Inv, TypeOK, InFlight, Finished
<1>8. keyRow' \in [Keys -> Requests \cup {Nobody, Elsewhere}]
  BY <1>1 DEF Inv, TypeOK
<1>9. \A b \in Requests : pc'[b] \in Finished => held'[b] = {}
  BY <1>2 DEF Inv, TypeOK
<1>10. audited' \subseteq 1..Len(book')
  BY <1>1, <1>5 DEF Inv, TypeOK
<1>11. TypeOK'
  BY <1>1, <1>5, <1>6, <1>7, <1>8, <1>9, <1>10 DEF Inv, TypeOK
<1>12. QED BY <1>1, <1>2, <1>3, <1>4, <1>5, <1>11

\* A key once taken stays as it is, and one that r takes was free.
LEMMA CommitKeyRow ==
  ASSUME Inv, NEW r \in Requests, Commit(r), NEW k \in Keys
  PROVE  /\ keyRow[k] # Nobody => keyRow'[k] = keyRow[k]
         /\ KeyValue(k) \in held[r] =>
              keyRow'[k] = r /\ keyRow[k] = Nobody /\ Keyed(r) /\ cmd[r].key = k
         /\ KeyValue(k) \notin held[r] => keyRow'[k] = keyRow[k]
<1>1. KeyValue(k) \in held[r] => keyRow[k] = Nobody /\ Keyed(r) /\ cmd[r].key = k
  BY DEF Inv, Own, LocksOf
<1>2. keyRow'[k] = IF KeyValue(k) \in held[r] THEN r ELSE keyRow[k]
  BY CommitBasics
<1>3. QED BY <1>1, <1>2

LEMMA EntryTypes ==
  ASSUME Inv, NEW i \in 1..Len(book)
  PROVE  /\ book[i] \in Entry /\ book[i].by \in Requests /\ book[i].row \in RowIds
         /\ book[i].seen \in Nat
<1>1. book[i] \in Entry
  BY DEF Inv, TypeOK
<1>2. QED BY <1>1 DEF Entry

LEMMA CommitEntry ==
  ASSUME Inv, NEW r \in Requests, Commit(r)
  PROVE  /\ book'[Len(book) + 1].by = r /\ book'[Len(book) + 1].seen = at[r]
         /\ book'[Len(book) + 1].row = (IF Inserts(r) THEN r ELSE target[r])
         /\ book'[Len(book) + 1].op = (IF Inserts(r) THEN "create" ELSE "update")
         /\ book'[Len(book) + 1].before = copy[r]
         /\ book'[Len(book) + 1].after =
              (IF Inserts(r) THEN NewFields(r) ELSE Over(r, copy[r]))
<1>1. book'[Len(book) + 1] = EntryOf(r)
  BY CommitBasics
<1>2. QED BY <1>1 DEF EntryOf, Op

LEMMA CommitDomain ==
  ASSUME Inv, NEW r \in Requests, Commit(r)
  PROVE  DOMAIN rows' = IF Inserts(r) THEN DOMAIN rows \cup {r} ELSE DOMAIN rows
BY CommitBasics DEF RowsAfter

LEMMA CommitKeys ==
  ASSUME Inv, NEW r \in Requests, Commit(r)
  PROVE  Exclusive' /\ Stored' /\ KeysKept' /\ KeyUsed'
<1>1. Exclusive'
  BY CommitBasics DEF Inv, Exclusive
<1>2. \A b \in Requests : Keyed(b)' = Keyed(b) /\ Course(b)' = Course(b)
  BY CommitBasics DEF Keyed, Course
<1>3. Nobody \notin Requests /\ cmd' = cmd
  BY NamesAssumption, CommitBasics
<1>4. Stored'
  BY <1>2, <1>3, CommitKeyRow DEF Inv, Stored
<1>5. KeysKept'
  <2>1. SUFFICES ASSUME NEW k \in Keys, keyRow'[k] \in Requests
                 PROVE  pc'[keyRow'[k]] = "done" /\ keyRow'[k] \in DOMAIN rows'
    BY DEF KeysKept
  <2>2. CASE KeyValue(k) \in held[r]
    <3>1. keyRow'[k] = r /\ Keyed(r)
      BY <2>2, CommitKeyRow
    <3>2. Inserts(r) /\ AfterCommit(r) = "done"
      BY <3>1, KeyedInserts DEF Inserts, UpdatesAfter, AfterCommit
    <3>3. QED BY <3>1, <3>2, CommitBasics, CommitDomain
  <2>3. CASE KeyValue(k) \notin held[r]
    <3>1. keyRow'[k] = keyRow[k] /\ pc[keyRow[k]] = "done" /\ keyRow[k] \in DOMAIN rows
      BY <2>1, <2>3, CommitKeyRow DEF Inv, KeysKept
    <3>2. keyRow[k] \in Requests \ {r}
      BY <2>1, <3>1, CommitBasics
    <3>3. pc'[keyRow[k]] = pc[keyRow[k]] /\ DOMAIN rows \subseteq DOMAIN rows'
      BY <3>2, CommitBasics, CommitDomain
    <3>4. QED BY <3>1, <3>3
  <2>4. QED BY <2>2, <2>3
<1>6. KeyUsed'
  <2>1. SUFFICES ASSUME NEW i \in 1..Len(book'), Keyed(book[i].by)'
                 PROVE  keyRow'[cmd[book'[i].by].key] # Nobody
    BY <1>3 DEF KeyUsed
  <2>2. CASE i \in 1..Len(book)
    <3>1. book'[i] = book[i] /\ book[i].by \in Requests
      BY <2>2, CommitBasics, EntryTypes
    <3>2. Keyed(book[i].by)
      BY <1>2, <2>1, <3>1
    <3>3. keyRow[cmd[book[i].by].key] # Nobody /\ cmd[book[i].by].key \in Keys
      BY <2>2, <3>1, <3>2, CommandTypes DEF Inv, KeyUsed
    <3>4. QED BY <3>1, <3>3, CommitKeyRow
  <2>3. CASE i = Len(book) + 1
    <3>1. book'[i].by = r
      BY <2>3, CommitEntry
    <3>2. Keyed(r) /\ cmd[r].key \in Keys
      BY <1>2, <2>1, <3>1, CommandTypes DEF Inv
    <3>3. keyRow[cmd[r].key] # Nobody \/ KeyValue(cmd[r].key) \in held[r]
      BY <3>2, CommitBasics DEF Inv, Own, KeysOf
    <3>4. QED BY <1>3, <3>1, <3>2, <3>3, CommitKeyRow
  <2>4. Len(book) \in Nat /\ Len(book') = Len(book) + 1
    BY CommitBasics
  <2>5. QED BY <2>2, <2>3, <2>4
<1>7. QED BY <1>1, <1>4, <1>5, <1>6

LEMMA CommitTwice ==
  ASSUME Inv, NEW r \in Requests, Commit(r)
  PROVE  TwiceOnlyIfOverlapped'
<1>1. \A b \in Requests : Keyed(b)' = Keyed(b)
  BY CommitBasics DEF Keyed, Course
<1>2. cmd' = cmd /\ Len(book) \in Nat /\ Len(book') = Len(book) + 1
  BY CommitBasics
<1>3. SUFFICES ASSUME NEW i \in 1..Len(book'), NEW j \in 1..Len(book'), i < j,
                      Keyed(book[i].by)', Keyed(book[j].by)',
                      cmd[book'[i].by].key = cmd[book'[j].by].key
               PROVE  book'[j].seen < i \/ keyRow'[cmd[book'[i].by].key] = Elsewhere
  BY <1>2 DEF TwiceOnlyIfOverlapped
<1>4. i \in 1..Len(book) /\ book'[i] = book[i] /\ book[i].by \in Requests
  BY <1>2, <1>3, CommitBasics, EntryTypes
<1>5. Keyed(book[i].by) /\ cmd[book[i].by].key \in Keys
  BY <1>1, <1>3, <1>4, CommandTypes DEF Inv
<1>6. SUFFICES book'[j].seen < i \/ keyRow[cmd[book[i].by].key] = Elsewhere
  BY <1>4, <1>5, CommitKeyRow, NamesAssumption
<1>7. CASE j \in 1..Len(book)
  <2>1. book'[j] = book[j] /\ book[j].by \in Requests
    BY <1>7, CommitBasics, EntryTypes
  <2>2. Keyed(book[j].by)
    BY <1>1, <1>3, <2>1
  <2>3. QED BY <1>3, <1>4, <1>5, <1>7, <2>1, <2>2 DEF Inv, TwiceOnlyIfOverlapped
<1>8. CASE j = Len(book) + 1
  <2>1. book'[j].by = r /\ book'[j].seen = at[r]
    BY <1>8, CommitEntry
  <2>2. Keyed(r) /\ cmd[book[i].by].key = cmd[r].key
    BY <1>1, <1>3, <1>4, <2>1
  <2>3. SeenOf(r) /\ pc[r] \in InFlight \ {"lookup"} /\ at[r] \in Nat
    BY CommitBasics DEF Inv, TypeOK, Own, InFlight
  <2>4. i \in 1..at[r] => keyRow[cmd[r].key] = Elsewhere
    BY <1>5, <2>2, <2>3 DEF SeenOf
  <2>5. QED BY <1>4, <2>1, <2>2, <2>3, <2>4
<1>9. QED BY <1>2, <1>7, <1>8

\* Column f of row x after a commit, as the book has it.
LEMMA CommitWord ==
  ASSUME Inv, NEW r \in Requests, Commit(r), NEW x, NEW f, NEW n, n = Len(book)
  PROVE  /\ \A m \in 0..n : LastWord(x, f, m)' = LastWord(x, f, m)
         /\ LastWord(x, f, n + 1)' =
              IF /\ x = (IF Inserts(r) THEN r ELSE target[r])
                 /\ (IF Inserts(r) THEN NewFields(r) ELSE Over(r, copy[r]))[f] # copy[r][f]
              THEN (IF Inserts(r) THEN NewFields(r) ELSE Over(r, copy[r]))[f]
              ELSE LastWord(x, f, n)
<1>1. n \in Nat /\ \A i \in 1..n : book'[i] = book[i]
  BY CommitBasics
<1>2. \A m \in 0..n : LastWord(x, f, m)' = LastWord(x, f, m)
  <2>1. ASSUME NEW m \in 0..n PROVE LastWord(x, f, m)' = LastWord(x, f, m)
    <3>1. m \in Nat /\ \A i \in 1..m : book'[i] = book[i]
      BY <1>1
    <3>2. QED BY <3>1, LastWordStays
  <2>2. QED BY <2>1
<1>3. LastWord(x, f, n + 1)' =
        IF Words(n + 1, x, f)' THEN book'[n + 1].after[f] ELSE LastWord(x, f, n)'
  BY <1>1, NextWordHolds DEF NextWord
<1>4. Words(n + 1, x, f)' <=>
        /\ x = (IF Inserts(r) THEN r ELSE target[r])
        /\ (IF Inserts(r) THEN NewFields(r) ELSE Over(r, copy[r]))[f] # copy[r][f]
  BY CommitEntry DEF Words
<1>5. book'[n + 1].after = IF Inserts(r) THEN NewFields(r) ELSE Over(r, copy[r])
  BY CommitEntry
<1>6. LastWord(x, f, n)' = LastWord(x, f, n)
  BY <1>1, <1>2
<1>7. QED BY <1>2, <1>3, <1>4, <1>5, <1>6

\* A row that is not there has never been written about.
LEMMA NoWordYet ==
  ASSUME Inv, NEW r \in Requests, r \notin DOMAIN rows, NEW f, NEW n \in 0..Len(book)
  PROVE  LastWord(r, f, n) = Unset
<1>1. \A i \in 1..n : ~Words(i, r, f)
  BY DEF Inv, RowsThere, Words
<1>2. Said(r, f, n) = {}
  BY <1>1 DEF Said
<1>3. r \notin Existing
  BY NamesAssumption
<1>4. QED BY <1>2, <1>3, LastWordIs DEF AtOpening

\* A commit writes to the row what its entry says of it.
LEMMA CommitRow ==
  ASSUME Inv, NEW r \in Requests, Commit(r), NEW n, n = Len(book),
         NEW x \in DOMAIN rows', NEW f \in Fields
  PROVE  rows'[x].fields[f] = LastWord(x, f, n + 1)'
<1>1. n \in Nat /\ \A y \in DOMAIN rows : rows[y].fields[f] = LastWord(y, f, n)
  BY CommitBasics DEF Inv, NoChangeLost
<1>2. CASE Inserts(r)
  <2>1. /\ copy[r] = Blank /\ r \notin DOMAIN rows
    <3>1. target[r] = Unset /\ Unset # r /\ pc[r] = "commit"
      BY <1>2, NamesAssumption, CommitBasics DEF Inserts, RowIds
    <3>2. QED BY <3>1 DEF Inv, Own, CopyOf, ProgressOf, InFlight
  <2>2. rows' = [y \in DOMAIN rows \cup {r} |->
                   IF y = r THEN [kind |-> Course(r).kind, fields |-> NewFields(r)] ELSE rows[y]]
    BY <1>2, CommitBasics DEF RowsAfter
  <2>3. LastWord(x, f, n + 1)' =
          IF x = r /\ NewFields(r)[f] # Unset THEN NewFields(r)[f] ELSE LastWord(x, f, n)
    BY <1>2, <2>1, CommitWord DEF Blank
  <2>4. CASE x = r
    <3>1. LastWord(r, f, n) = Unset
      BY <1>1, <2>1, NoWordYet
    <3>2. rows'[x].fields[f] = NewFields(r)[f]
      BY <2>2, <2>4
    <3>3. QED BY <2>3, <2>4, <3>1, <3>2
  <2>5. CASE x # r
    BY <1>1, <2>2, <2>3, <2>5
  <2>6. QED BY <2>4, <2>5
<1>3. CASE ~Inserts(r)
  <2>1. rows' = [rows EXCEPT ![target[r]].fields = FieldsAfter(r, target[r])]
        /\ target[r] \in DOMAIN rows
    BY <1>3, CommitBasics DEF RowsAfter, Inserts, Inv, Own, CopyOf
  <2>2. LastWord(x, f, n + 1)' =
          IF x = target[r] /\ Over(r, copy[r])[f] # copy[r][f]
          THEN Over(r, copy[r])[f] ELSE LastWord(x, f, n)
    BY <1>3, CommitWord
  <2>3. CASE x = target[r]
    <3>1. rows'[x] = [rows[x] EXCEPT !.fields = FieldsAfter(r, x)]
      BY <2>1, <2>3
    <3>2. rows[x] \in Row
      BY <2>1, <2>3 DEF Inv, TypeOK
    <3>3. rows'[x].fields = FieldsAfter(r, x)
      BY <3>1, <3>2 DEF Row
    <3>4. FieldsAfter(r, x)[f] = IF Over(r, copy[r])[f] # copy[r][f] THEN Over(r, copy[r])[f]
                                 ELSE rows[x].fields[f]
      BY DEF FieldsAfter
    <3>5. QED BY <1>1, <2>1, <2>2, <2>3, <3>3, <3>4
  <2>4. CASE x # target[r]
    <3>1. rows'[x] = rows[x] /\ x \in DOMAIN rows
      BY <2>1, <2>4
    <3>2. QED BY <1>1, <2>2, <2>4, <3>1
  <2>5. QED BY <2>3, <2>4
<1>4. QED BY <1>2, <1>3

WrittenUpTo(n) ==
  \A x \in DOMAIN rows, f \in Fields : rows[x].fields[f] = LastWord(x, f, n)
Written == \A n : n = Len(book) => (NoChangeLost <=> WrittenUpTo(n))

LEMMA WrittenHolds == Written /\ Written'
<1>1. Written
  BY DEF Written, WrittenUpTo, NoChangeLost
<1>2. QED BY <1>1, PTL

LEMMA CommitNoChangeLost ==
  ASSUME Inv, NEW r \in Requests, Commit(r)
  PROVE  NoChangeLost'
<1>1. PICK n : n = Len(book)
  OBVIOUS
<1>2. WrittenUpTo(n + 1)'
  BY <1>1, CommitRow DEF WrittenUpTo
<1>3. n + 1 = Len(book')
  BY <1>1, CommitBasics
<1>4. QED BY <1>2, <1>3, WrittenHolds DEF Written

\* CopiesLagOnlyByOverlap, entry by entry.
TrailOf(i, x, f) ==
  book[i].row = x /\ book[i].before[f] # LastWord(x, f, i - 1) =>
    \E j \in book[i].seen + 1 .. i - 1 : Words(j, x, f)
TrailByEntry ==
  CopiesLagOnlyByOverlap <=>
    \A i \in 1..Len(book), f \in Fields : \A x : TrailOf(i, x, f)

LEMMA TrailByEntryHolds == TrailByEntry /\ TrailByEntry'
<1>1. TrailByEntry
  BY DEF TrailByEntry, CopiesLagOnlyByOverlap, TrailOf
<1>2. QED BY <1>1, PTL

LEMMA CommitTrail ==
  ASSUME Inv, NEW r \in Requests, Commit(r)
  PROVE  CopiesLagOnlyByOverlap'
<1>1. PICK n : n = Len(book)
  OBVIOUS
<1>2. n \in Nat /\ Len(book') = n + 1 /\ \A i \in 1..n : book'[i] = book[i]
  BY <1>1, CommitBasics
<1>3. \A j \in 1..n : \A x, f : Words(j, x, f)' <=> Words(j, x, f)
  BY <1>2 DEF Words
<1>4. SUFFICES ASSUME NEW i \in 1..n + 1, NEW f \in Fields, NEW x PROVE TrailOf(i, x, f)'
  BY <1>2, TrailByEntryHolds DEF TrailByEntry
<1>5. LastWord(x, f, i - 1)' = LastWord(x, f, i - 1)
  <2>1. i - 1 \in 0..n
    BY <1>2
  <2>2. QED BY <1>1, <2>1, CommitWord
<1>6. CASE i \in 1..n
  <2>1. TrailOf(i, x, f)
    BY <1>1, <1>6, TrailByEntryHolds DEF TrailByEntry, Inv
  <2>2. book[i].seen \in Nat
    BY <1>1, <1>6, EntryTypes
  <2>3. \A j \in book[i].seen + 1 .. i - 1 : j \in 1..n
    BY <1>2, <1>6, <2>2
  <2>4. book'[i] = book[i]
    BY <1>2, <1>6
  <2>5. QED BY <1>3, <1>5, <2>1, <2>3, <2>4 DEF TrailOf
<1>7. CASE i = n + 1
  <2>1. /\ book'[i].row = (IF Inserts(r) THEN r ELSE target[r])
        /\ book'[i].before = copy[r] /\ book'[i].seen = at[r]
    BY <1>1, <1>7, CommitEntry
  <2>2. SUFFICES ASSUME x = (IF Inserts(r) THEN r ELSE target[r]),
                        copy[r][f] # LastWord(x, f, n)
                 PROVE  \E j \in at[r] + 1 .. n : Words(j, x, f)
    <3>1. at[r] \in Nat
      BY DEF Inv, TypeOK
    <3>2. i - 1 = n /\ \A j \in at[r] + 1 .. n : j \in 1..n
      BY <1>2, <1>7, <3>1
    <3>3. QED BY <1>3, <1>5, <2>1, <3>2 DEF TrailOf
  <2>3. CASE Inserts(r)
    <3>1. target[r] = Unset /\ Unset # r /\ pc[r] = "commit"
      BY <2>3, NamesAssumption, CommitBasics DEF Inserts, RowIds
    <3>2. copy[r] = Blank /\ r \notin DOMAIN rows
      BY <3>1 DEF Inv, Own, CopyOf, ProgressOf, InFlight
    <3>3. LastWord(r, f, n) = Unset
      BY <1>1, <1>2, <3>2, NoWordYet
    <3>4. QED BY <2>2, <2>3, <3>2, <3>3 DEF Blank
  <2>4. CASE ~Inserts(r)
    <3>1. copy[r][f] = LastWord(x, f, at[r]) /\ at[r] \in Nat /\ at[r] <= n
      BY <1>1, <2>2, <2>4 DEF Inserts, Inv, TypeOK, Own, CopyOf
    <3>2. QED BY <1>2, <2>2, <3>1, LastWordSame
  <2>5. QED BY <2>3, <2>4
<1>8. QED BY <1>2, <1>6, <1>7

LEMMA CommitRowsThere ==
  ASSUME Inv, NEW r \in Requests, Commit(r)
  PROVE  RowsThere'
<1>1. Len(book) \in Nat /\ Len(book') = Len(book) + 1 /\ \A i \in 1..Len(book) : book'[i] = book[i]
  BY CommitBasics
<1>2. \A i \in 1..Len(book) : book'[i].row \in DOMAIN rows'
  BY <1>1, CommitDomain DEF Inv, RowsThere
<1>3. book'[Len(book) + 1].row \in DOMAIN rows'
  BY CommitEntry, CommitDomain DEF Inserts, Inv, Own, CopyOf
<1>4. QED BY <1>1, <1>2, <1>3 DEF RowsThere

LEMMA CommitCopies ==
  ASSUME Inv, NEW r \in Requests, Commit(r), NEW b \in Requests
  PROVE  CopyOf(b)'
<1>1. /\ Len(book) \in Nat /\ Len(book') = Len(book) + 1 /\ at[b] \in Nat
      /\ at'[b] = at[b] /\ target'[b] = target[b] /\ copy'[b] = copy[b] /\ cmd' = cmd
  BY CommitBasics DEF Inv, TypeOK
<1>2. CopyOf(b)
  BY DEF Inv, Own
<1>3. \A f \in Fields : LastWord(target[b], f, at[b])' = LastWord(target[b], f, at[b])
  <2>1. \A x, f : \A m \in 0..Len(book) : LastWord(x, f, m)' = LastWord(x, f, m)
    BY CommitWord
  <2>2. at[b] \in 0..Len(book)
    BY <1>1, <1>2 DEF CopyOf
  <2>3. QED BY <1>1, <2>1, <2>2
<1>4. DOMAIN rows \subseteq DOMAIN rows'
  BY CommitDomain
<1>5. QED BY <1>1, <1>2, <1>3, <1>4 DEF CopyOf, Course

LEMMA CommitOthers ==
  ASSUME Inv, NEW r \in Requests, Commit(r), NEW b \in Requests \ {r}
  PROVE  Own(b)'
<1>1. /\ Len(book) \in Nat /\ Len(book') = Len(book) + 1 /\ cmd' = cmd
      /\ \A i \in 1..Len(book) : book'[i] = book[i]
      /\ at'[b] = at[b] /\ target'[b] = target[b] /\ pc'[b] = pc[b] /\ held'[b] = held[b]
  BY CommitBasics
<1>2. Own(b)
  BY DEF Inv
<1>3. /\ Course(b)' = Course(b) /\ \A q \in Requests : Keyed(q)' = Keyed(q)
  BY <1>1 DEF Course, Keyed
<1>4. LocksOf(b)'
  <2>1. \A k \in Keys : KeyValue(k) \in held[b] => KeyValue(k) \notin held[r]
    BY DEF Inv, Exclusive
  <2>2. QED BY <1>1, <1>2, <1>3, <2>1, CommitKeyRow DEF Own, LocksOf
<1>5. KeysOf(b)'
  <2>1. Keyed(b) => cmd[b].key \in Keys
    BY CommandTypes DEF Inv
  <2>2. QED BY <1>1, <1>2, <1>3, <2>1, CommitKeyRow DEF Own, KeysOf
<1>6. SeenOf(b)'
  <2>1. SUFFICES ASSUME Keyed(b), pc[b] \in InFlight \ {"lookup"}, NEW i \in 1..at[b],
                        Keyed(book'[i].by), cmd[book'[i].by].key = cmd[b].key
                 PROVE  keyRow'[cmd[b].key] = Elsewhere
    <3>1. \A i \in 1..at[b] : i \in 1..Len(book)
      BY <1>1, <1>2 DEF Own, CopyOf, Inv, TypeOK
    <3>2. \A i \in 1..at[b] : book'[i].by \in Requests
      BY <1>1, <3>1, EntryTypes
    <3>3. \A i \in 1..at[b] : Keyed(book[i].by)' => Keyed(book'[i].by)
      BY <1>3, <3>2
    <3>4. QED BY <1>1, <1>3, <3>3 DEF SeenOf
  <2>2. i \in 1..Len(book)
    BY <1>1, <1>2 DEF Own, CopyOf, Inv, TypeOK
  <2>3. keyRow[cmd[b].key] = Elsewhere
    BY <1>1, <1>2, <2>1, <2>2 DEF Own, SeenOf
  <2>4. cmd[b].key \in Keys
    BY <2>1, CommandTypes DEF Inv
  <2>5. QED BY <2>3, <2>4, CommitKeyRow, NamesAssumption
<1>7. EntriesBy(b)' = EntriesBy(b)
  BY <1>1, CommitEntry DEF EntriesBy
<1>8. OnlyInsert(b)' = OnlyInsert(b)
  BY <1>1, <1>7 DEF OnlyInsert, EntriesBy
<1>9. b \in DOMAIN rows' <=> b \in DOMAIN rows
  BY CommitDomain
<1>10. ProgressOf(b)'
  BY <1>1, <1>2, <1>3, <1>7, <1>8, <1>9 DEF Own, ProgressOf
<1>11. OutcomeOf(b)'
  <2>1. \A j \in EntriesBy(b) : book'[j] = book[j]
    BY <1>1 DEF EntriesBy
  <2>2. QED BY <1>1, <1>2, <1>3, <1>7, <1>8, <1>9, <2>1 DEF Own, OutcomeOf
<1>12. QED BY <1>4, <1>5, <1>6, <1>10, <1>11, CommitCopies DEF Own

LEMMA CommitMine ==
  ASSUME Inv, NEW r \in Requests, Commit(r)
  PROVE  Own(r)'
<1>1. /\ Len(book) \in Nat /\ Len(book') = Len(book) + 1 /\ cmd' = cmd
      /\ \A i \in 1..Len(book) : book'[i] = book[i]
      /\ target'[r] = target[r] /\ held'[r] = {} /\ pc[r] = "commit"
      /\ pc'[r] = AfterCommit(r)
  BY CommitBasics
<1>2. Own(r)
  BY DEF Inv
<1>3. Course(r)' = Course(r) /\ Keyed(r)' = Keyed(r)
  BY <1>1 DEF Course, Keyed
<1>4. \/ AfterCommit(r) = "done"
      \/ AfterCommit(r) = "refresh" /\ ~Keyed(r) /\ Inserts(r) /\ Course(r) = UpdateProfile
      \/ AfterCommit(r) = "appoint" /\ ~Keyed(r) /\ Inserts(r) /\ Course(r) = CreateBusiness
  BY KeyedInserts, CommandTypes, CourseFacts DEF AfterCommit, UpdatesAfter, Inv
<1>5. LocksOf(r)' /\ KeysOf(r)' /\ SeenOf(r)'
  BY <1>1, <1>3, <1>4 DEF LocksOf, KeysOf, SeenOf, InFlight
<1>6. EntriesBy(r)' = EntriesBy(r) \cup {Len(book) + 1}
      /\ \A i \in EntriesBy(r) : book'[i] = book[i] /\ i < Len(book) + 1
  BY <1>1, CommitEntry DEF EntriesBy
<1>7. CASE target[r] # r
  <2>1. EntriesBy(r) = {} /\ r \notin DOMAIN rows
    BY <1>1, <1>2, <1>7 DEF Own, ProgressOf, InFlight
  <2>2. EntriesBy(r)' = {Len(book) + 1}
    BY <1>6, <2>1
  <2>3. Inserts(r) => OnlyInsert(r)' /\ r \in DOMAIN rows'
    BY <2>2, CommitEntry, CommitDomain DEF OnlyInsert
  <2>4. ProgressOf(r)'
    BY <1>1, <1>3, <1>4, <1>7, <2>2, <2>3 DEF ProgressOf, Inserts, InFlight
  <2>5. OutcomeOf(r)'
    BY <1>1, <1>4, <2>2 DEF OutcomeOf
  <2>6. QED BY <1>5, <2>4, <2>5, CommitCopies DEF Own
<1>8. CASE target[r] = r
  <2>1. Course(r) = UpdateProfile /\ OnlyInsert(r)
    BY <1>1, <1>2, <1>8 DEF Own, ProgressOf, InFlight
  <2>2. pc'[r] = "done"
    BY <1>1, <1>8, <1>4, NamesAssumption DEF Inserts, RowIds
  <2>3. ProgressOf(r)'
    BY <2>2 DEF ProgressOf, InFlight
  <2>4. \A j \in EntriesBy(r)' \ {Len(book) + 1} :
          j < Len(book) + 1 /\ book'[j].op = "create" /\ Course(r)' = UpdateProfile
    BY <1>3, <1>6, <2>1 DEF OnlyInsert
  <2>5. OutcomeOf(r)'
    BY <1>6, <2>2, <2>4 DEF OutcomeOf
  <2>6. QED BY <1>5, <2>3, <2>5, CommitCopies DEF Own
<1>9. QED BY <1>7, <1>8

LEMMA CommitAudit ==
  ASSUME Inv, NEW r \in Requests, Commit(r)
  PROVE  Audit'
<1>1. /\ Len(book) \in Nat /\ Len(book') = Len(book) + 1 /\ cmd' = cmd
      /\ \A i \in 1..Len(book) : book'[i] = book[i]
      /\ \A b \in Requests \ {r} : pc'[b] = pc[b]
      /\ audited' = audited \cup {i \in {Len(book) + 1} : RecordsNow(r)}
      /\ pc[r] = "commit" /\ pc'[r] = AfterCommit(r) /\ audited \subseteq 1..Len(book)
  BY CommitBasics DEF Inv, TypeOK
<1>2. ASSUME NEW i \in 1..Len(book) PROVE AuditOf(i)'
  <2>1. AuditOf(i) /\ Author(i)' = Author(i) /\ (i \in audited' <=> i \in audited)
    BY <1>1 DEF Inv, Audit, Author
  <2>2. Author(i) = CreateBusiness => (pc'[book[i].by] = "done" <=> pc[book[i].by] = "done")
    <3>1. CASE book[i].by = r
      <4>1. EntriesBy(r) # {}
        BY <3>1 DEF EntriesBy
      <4>2. Course(r) = UpdateProfile
        BY <1>1, <4>1 DEF Inv, Own, ProgressOf, InFlight
      <4>3. UpdateProfile # CreateBusiness
        BY DEF UpdateProfile, GetOrCreateProfile, CreateBusiness, Insertion
      <4>4. QED BY <3>1, <4>2, <4>3 DEF Author, Course
    <3>2. CASE book[i].by # r
      BY <1>1, <3>2, EntryTypes
    <3>3. QED BY <3>1, <3>2
  <2>3. QED BY <1>1, <2>1, <2>2 DEF AuditOf
<1>3. ASSUME NEW n, n = Len(book) + 1 PROVE AuditOf(n)'
  <2>1. Author(n)' = Course(r) /\ book'[n].by = r /\ book'[n].op = Op(r)
    BY <1>1, <1>3, CommitEntry DEF Author, Course, Op
  <2>2. n \in audited' <=> RecordsNow(r)
    BY <1>1, <1>3
  <2>3. Course(r) = CreateBusiness <=> AfterCommit(r) = "appoint"
    <3>1. Course(r) = CreateBusiness => Inserts(r)
      BY DEF Inv, Own, CopyOf, Inserts, CreateBusiness, Insertion
    <3>2. QED BY <3>1, CommandTypes, CourseFacts DEF AfterCommit, UpdatesAfter, Inv
  <2>4. AfterCommit(r) \in {"done", "refresh", "appoint"}
    BY DEF AfterCommit
  <2>5. AuditOf(n)' <=> (n \in audited' <=> /\ Op(r) \in Course(r).records
                                            /\ Course(r) = CreateBusiness => pc'[r] = "done")
    BY <2>1 DEF AuditOf
  <2>6. QED BY <1>1, <2>2, <2>3, <2>4, <2>5 DEF RecordsNow
<1>4. ASSUME NEW i \in 1..Len(book') PROVE AuditOf(i)'
  BY <1>1, <1>2, <1>3
<1>5. QED BY <1>4 DEF Audit

LEMMA CommitStep ==
  ASSUME Inv, NEW r \in Requests, Commit(r)
  PROVE  Inv'
<1>1. cmd' \in Workloads /\ held' = [b \in Requests |-> held'[b]] /\ TypeOK'
  BY CommitBasics DEF Inv
<1>2. \A b \in Requests : Own(b)'
  BY CommitOthers, CommitMine
<1>3. QED BY <1>1, <1>2, CommitKeys, CommitTwice, CommitNoChangeLost, CommitTrail,
             CommitRowsThere, CommitAudit DEF Inv

-----------------------------------------------------------------------------
(* The rest of create_business, a key used up elsewhere, and the beginning *)

LEMMA AppointStep ==
  ASSUME Inv, NEW r \in Requests, Appoint(r)
  PROVE  Inv'
<1>1. /\ pc[r] = "appoint" /\ Goto(r, "announce") /\ UNCHANGED <<db, mine, held>>
      /\ pc[r] \in InFlight /\ "announce" \in InFlight \cup Finished /\ "announce" \notin Finished
  BY DEF Appoint, InFlight, Finished
<1>2. /\ pc'[r] = "announce" /\ CopyOf(r)' /\ EntriesBy(r)' = EntriesBy(r)
      /\ OnlyInsert(r)' = OnlyInsert(r) /\ Keyed(r)' = Keyed(r) /\ Course(r)' = Course(r)
      /\ rows' = rows /\ book' = book /\ keyRow' = keyRow
      /\ cmd' = cmd /\ target' = target /\ at' = at
  BY <1>1, SameMine
<1>3. Own(r) /\ held' = held
  BY <1>1 DEF Inv
<1>4. target[r] = Unset /\ Unset # r /\ held[r] = {}
  BY <1>1, <1>3, NamesAssumption DEF Own, ProgressOf, LocksOf, RowIds
<1>5. LocksOf(r)' /\ KeysOf(r)' /\ SeenOf(r)'
  <2>1. LocksOf(r)'
    BY <1>2, <1>3, <1>4 DEF LocksOf
  <2>2. KeysOf(r)'
    BY <1>2 DEF KeysOf
  <2>3. SeenOf(r)'
    BY <1>1, <1>2, <1>3 DEF Own, SeenOf, InFlight, Keyed, Course
  <2>4. QED BY <2>1, <2>2, <2>3
<1>6. ProgressOf(r)' /\ OutcomeOf(r)'
  BY <1>1, <1>2, <1>3, <1>4 DEF Own, ProgressOf, OutcomeOf, InFlight
<1>7. Own(r)'
  BY <1>2, <1>5, <1>6 DEF Own
<1>8. QED BY <1>1, <1>7, GotoQuiet DEF Inv, TypeOK, mine

LEMMA AnnounceStep ==
  ASSUME Inv, NEW r \in Requests, Announce(r)
  PROVE  Inv'
<1>1. /\ pc[r] = "announce" /\ Goto(r, "done") /\ audited' = audited \cup EntriesBy(r)
      /\ rows' = rows /\ book' = book /\ keyRow' = keyRow /\ held' = held
      /\ cmd' = cmd /\ left' = left /\ target' = target /\ copy' = copy /\ at' = at
  BY DEF Announce, mine
<1>2. Own(r) /\ pc'[r] = "done" /\ \A b \in Requests \ {r} : pc'[b] = pc[b]
  BY <1>1 DEF Inv, TypeOK, Goto
<1>3. /\ target[r] = Unset /\ Unset # r /\ held[r] = {} /\ Course(r) = CreateBusiness
      /\ OnlyInsert(r) /\ \E i \in EntriesBy(r) : EntriesBy(r) = {i}
  BY <1>1, <1>2, NamesAssumption DEF Own, ProgressOf, LocksOf, RowIds
<1>4. \A b \in Requests : /\ Course(b)' = Course(b) /\ Keyed(b)' = Keyed(b)
                          /\ EntriesBy(b)' = EntriesBy(b) /\ OnlyInsert(b)' = OnlyInsert(b)
  BY <1>1 DEF Course, Keyed, EntriesBy, OnlyInsert
<1>5. TypeOK'
  <2>1. pc' \in [Requests -> InFlight \cup Finished]
    BY <1>1 DEF Inv, TypeOK, Goto, Finished
  <2>2. audited' \subseteq 1..Len(book')
    BY <1>1 DEF Inv, TypeOK, EntriesBy
  <2>3. \A b \in Requests : pc'[b] \in Finished => held'[b] = {}
    BY <1>1, <1>2, <1>3 DEF Inv, TypeOK
  <2>4. QED BY <1>1, <2>1, <2>2, <2>3 DEF Inv, TypeOK
<1>6. cmd' \in Workloads /\ held' = [b \in Requests |-> held'[b]] /\ Exclusive' /\ RowsThere'
  BY <1>1 DEF Inv, Exclusive, RowsThere
<1>7. Stored' /\ KeyUsed'
  BY <1>1 DEF Inv, Stored, KeyUsed, Keyed, Course
<1>8. KeysKept'
  <2>1. \A b \in Requests : pc[b] = "done" => pc'[b] = "done"
    BY <1>1, <1>2
  <2>2. QED BY <1>1, <2>1 DEF Inv, KeysKept
<1>9. NoChangeLost' /\ CopiesLagOnlyByOverlap'
  BY <1>1, LastWordQuiet DEF Inv, NoChangeLost, CopiesLagOnlyByOverlap, Words
<1>10. TwiceOnlyIfOverlapped'
  BY <1>1 DEF Inv, TwiceOnlyIfOverlapped, Keyed, Course
<1>11. ASSUME NEW i \in 1..Len(book) PROVE AuditOf(i)'
  <2>1. AuditOf(i) /\ Author(i)' = Author(i) /\ book[i].by \in Requests
    BY <1>1, EntryTypes DEF Inv, Audit, Author
  <2>2. CASE book[i].by = r
    <3>1. i \in EntriesBy(r) /\ book[i].op = "create" /\ Author(i) = CreateBusiness
      BY <1>3, <2>2 DEF EntriesBy, OnlyInsert, Author, Course
    <3>2. "create" \in CreateBusiness.records
      BY DEF CreateBusiness, Insertion
    <3>3. QED BY <1>1, <1>2, <2>1, <2>2, <3>1, <3>2 DEF AuditOf
  <2>3. CASE book[i].by # r
    <3>1. i \notin EntriesBy(r) /\ pc'[book[i].by] = pc[book[i].by]
      BY <1>2, <2>1, <2>3 DEF EntriesBy
    <3>2. QED BY <1>1, <2>1, <3>1 DEF AuditOf
  <2>4. QED BY <2>2, <2>3
<1>12. Audit'
  BY <1>1, <1>11 DEF Audit
<1>13. ASSUME NEW b \in Requests \ {r} PROVE Own(b)'
  <2>1. Own(b)
    BY DEF Inv
  <2>2. LocksOf(b)' /\ KeysOf(b)' /\ SeenOf(b)'
    BY <1>1, <1>2, <2>1 DEF Own, LocksOf, KeysOf, SeenOf, Keyed, Course
  <2>3. CopyOf(b)'
    BY <1>1, <2>1, LastWordQuiet DEF Own, CopyOf, Course
  <2>4. ProgressOf(b)' /\ OutcomeOf(b)'
    BY <1>1, <1>2, <2>1 DEF Own, ProgressOf, OutcomeOf, OnlyInsert, EntriesBy, Course
  <2>5. QED BY <2>2, <2>3, <2>4 DEF Own
<1>14. Own(r)'
  <2>1. LocksOf(r)' /\ KeysOf(r)' /\ SeenOf(r)'
    BY <1>1, <1>2, <1>3 DEF LocksOf, KeysOf, SeenOf, InFlight
  <2>2. CopyOf(r)'
    BY <1>1, <1>2, LastWordQuiet DEF Own, CopyOf, Course
  <2>3. ProgressOf(r)'
    BY <1>1, <1>2, <1>3 DEF ProgressOf, InFlight
  <2>4. OutcomeOf(r)'
    BY <1>2, <1>3, <1>4 DEF OutcomeOf
  <2>5. QED BY <2>1, <2>2, <2>3, <2>4 DEF Own
<1>15. QED BY <1>5, <1>6, <1>7, <1>8, <1>9, <1>10, <1>12, <1>13, <1>14 DEF Inv

LEMMA StoreElsewhereStep ==
  ASSUME Inv, NEW k \in Keys, StoreElsewhere(k)
  PROVE  Inv'
<1>1. /\ keyRow[k] = Nobody /\ \A r \in Requests : KeyValue(k) \notin held[r]
      /\ keyRow' = [keyRow EXCEPT ![k] = Elsewhere]
      /\ rows' = rows /\ book' = book /\ audited' = audited /\ pc' = pc /\ held' = held
      /\ cmd' = cmd /\ left' = left /\ target' = target /\ copy' = copy /\ at' = at
  BY DEF StoreElsewhere, mine
<1>2. /\ keyRow' \in [Keys -> Requests \cup {Nobody, Elsewhere}]
      /\ keyRow'[k] = Elsewhere /\ \A l \in Keys : l # k => keyRow'[l] = keyRow[l]
      /\ Elsewhere \notin Requests /\ Elsewhere # Nobody
  BY <1>1, NamesAssumption DEF Inv, TypeOK
<1>3. TypeOK'
  BY <1>1, <1>2 DEF Inv, TypeOK
<1>4. \A r \in Requests : Keyed(r)' = Keyed(r) /\ Course(r)' = Course(r)
  BY <1>1 DEF Keyed, Course
<1>5. cmd' \in Workloads /\ held' = [r \in Requests |-> held'[r]] /\ Exclusive' /\ RowsThere'
      /\ Audit'
  BY <1>1 DEF Inv, Exclusive, RowsThere, Audit, AuditOf, Author
<1>6. Stored' /\ KeysKept'
  BY <1>1, <1>2, <1>4 DEF Inv, Stored, KeysKept
<1>7. \A i \in 1..Len(book) : Keyed(book[i].by) => cmd[book[i].by].key \in Keys
  BY EntryTypes, CommandTypes DEF Inv
<1>8. KeyUsed'
  BY <1>1, <1>2, <1>7 DEF Inv, KeyUsed, Keyed, Course
<1>9. NoChangeLost' /\ CopiesLagOnlyByOverlap'
  BY <1>1, LastWordQuiet DEF Inv, NoChangeLost, CopiesLagOnlyByOverlap, Words
<1>10. TwiceOnlyIfOverlapped'
  BY <1>1, <1>2, <1>7 DEF Inv, TwiceOnlyIfOverlapped, Keyed, Course
<1>11. ASSUME NEW r \in Requests PROVE Own(r)'
  <2>1. Own(r)
    BY DEF Inv
  <2>2. Keyed(r) => cmd[r].key \in Keys
    BY CommandTypes DEF Inv
  <2>3. LocksOf(r)'
    BY <1>1, <1>2, <1>4, <2>1 DEF Own, LocksOf
  <2>4. KeysOf(r)'
    BY <1>1, <1>2, <1>4, <2>1, <2>2 DEF Own, KeysOf
  <2>5. SeenOf(r)'
    BY <1>1, <1>2, <2>1, <2>2 DEF Own, SeenOf, Keyed, Course
  <2>6. CopyOf(r)'
    BY <1>1, <2>1, LastWordQuiet DEF Own, CopyOf, Course
  <2>7. ProgressOf(r)' /\ OutcomeOf(r)'
    BY <1>1, <2>1 DEF Own, ProgressOf, OutcomeOf, OnlyInsert, EntriesBy, Course
  <2>8. QED BY <2>3, <2>4, <2>5, <2>6, <2>7 DEF Own
<1>12. QED BY <1>3, <1>5, <1>6, <1>8, <1>9, <1>10, <1>11 DEF Inv

LEMMA InitInv == Init => Inv
<1> SUFFICES ASSUME Init PROVE Inv
  OBVIOUS
<1>1. /\ rows = Opening /\ book = <<>> /\ audited = {} /\ keyRow = [k \in Keys |-> Nobody] /\ cmd \in Workloads
      /\ target = [r \in Requests |-> Unset] /\ copy = [r \in Requests |-> Blank]
      /\ at = [r \in Requests |-> 0] /\ held = [r \in Requests |-> {}]
  BY DEF Init
<1>2. /\ rows \in [Existing -> Row] /\ cmd \in [Requests -> Command] /\ Len(book) = 0
      /\ Blank \in Columns
  BY <1>1, OpeningAssumption, WorkloadsAssumption DEF Blank, Columns
<1>3. /\ pc = [r \in Requests |-> IF Keyed(r) THEN "lookup" ELSE "need"]
      /\ left \in [Requests -> SUBSET Ids]
  BY DEF Init
<1>4. TypeOK
  BY <1>1, <1>2, <1>3 DEF TypeOK, RowIds, InFlight, Finished
<1>5. Exclusive /\ Stored /\ KeyUsed /\ RowsThere /\ KeysKept
  BY <1>1, <1>2, NamesAssumption DEF Exclusive, Stored, KeyUsed, RowsThere, KeysKept
<1>6. NoChangeLost
  <2>1. \A x, f : Said(x, f, 0) = {}
    BY DEF Said
  <2>2. \A x \in Existing, f \in Fields : LastWord(x, f, 0) = Opening[x].fields[f]
    BY <2>1, LastWordIs DEF AtOpening
  <2>3. QED BY <1>1, <1>2, <2>2 DEF NoChangeLost
<1>7. CopiesLagOnlyByOverlap /\ TwiceOnlyIfOverlapped /\ Audit
  BY <1>2 DEF CopiesLagOnlyByOverlap, TwiceOnlyIfOverlapped, Audit
<1>8. ASSUME NEW r \in Requests PROVE Own(r)
  <2>1. pc[r] = (IF Keyed(r) THEN "lookup" ELSE "need") /\ held[r] = {} /\ at[r] = 0
        /\ target[r] = Unset /\ copy[r] = Blank
    BY <1>1, <1>3
  <2>2. EntriesBy(r) = {} /\ r \notin DOMAIN rows /\ Unset # r
    BY <1>1, <1>2, NamesAssumption DEF EntriesBy, RowIds
  <2>3. LocksOf(r) /\ KeysOf(r) /\ SeenOf(r)
    BY <2>1 DEF LocksOf, KeysOf, SeenOf
  <2>4. CopyOf(r)
    BY <1>2, <2>1 DEF CopyOf
  <2>5. ProgressOf(r) /\ OutcomeOf(r)
    BY <2>1, <2>2 DEF ProgressOf, OutcomeOf
  <2>6. QED BY <2>3, <2>4, <2>5 DEF Own
<1>9. QED BY <1>1, <1>4, <1>5, <1>6, <1>7, <1>8 DEF Inv

LEMMA StepInv == Inv /\ [Next]_vars => Inv'
<1> SUFFICES ASSUME Inv, [Next]_vars PROVE Inv'
  OBVIOUS
<1>1. ASSUME NEW r \in Requests, Serve(r) PROVE Inv'
  <2>1. CASE Replay(r)
    BY <2>1, ReplayStep
  <2>2. CASE Proceed(r)
    BY <2>2, ProceedStep
  <2>3. CASE Need(r)
    BY <2>3, NeedStep
  <2>4. CASE RejectReference(r)
    BY <2>4, RollbackStep DEF RejectReference, InFlight
  <2>5. CASE Find(r)
    BY <2>5, FindStep
  <2>6. CASE FindNothing(r)
    BY <2>6, FindNothingStep
  <2>7. CASE RejectFound(r) \/ RejectInvalid(r) \/ WriteClash(r) \/ ClaimClash(r)
    BY <2>7, RollbackStep DEF RejectFound, RejectInvalid, WriteClash, ClaimClash, InFlight
  <2>8. CASE Write(r)
    BY <2>8, WriteStep
  <2>9. CASE Recheck(r)
    BY <2>9, RecheckStep
  <2>10. CASE ClaimKey(r)
    BY <2>10, ClaimKeyStep
  <2>11. CASE Commit(r)
    BY <2>11, CommitStep
  <2>12. CASE Refresh(r)
    BY <2>12, RefreshStep
  <2>13. CASE Appoint(r)
    BY <2>13, AppointStep
  <2>14. CASE Announce(r)
    BY <2>14, AnnounceStep
  <2>15. QED BY <1>1, <2>1, <2>2, <2>3, <2>4, <2>5, <2>6, <2>7, <2>8, <2>9, <2>10, <2>11, <2>12,
                <2>13, <2>14 DEF Serve
<1>2. ASSUME NEW r \in Requests, Crash(r) PROVE Inv'
  BY <1>2, RollbackStep DEF Crash
<1>3. ASSUME NEW k \in Keys, StoreElsewhere(k) PROVE Inv'
  BY <1>3, StoreElsewhereStep
<1>4. CASE UNCHANGED vars
  <2>1. /\ rows' = rows /\ book' = book /\ keyRow' = keyRow /\ pc' = pc /\ cmd' = cmd
        /\ audited' = audited
        /\ left' = left /\ target' = target /\ copy' = copy /\ at' = at /\ held' = held
    BY <1>4 DEF vars
  <2>2. TypeOK' /\ Exclusive' /\ Stored' /\ KeyUsed' /\ RowsThere' /\ KeysKept'
    BY <2>1 DEF Inv, TypeOK, Exclusive, Stored, KeyUsed, RowsThere, KeysKept, Keyed, Course
  <2>3. NoChangeLost' /\ CopiesLagOnlyByOverlap' /\ TwiceOnlyIfOverlapped' /\ Audit'
    BY <2>1, LastWordQuiet
       DEF Inv, NoChangeLost, CopiesLagOnlyByOverlap, TwiceOnlyIfOverlapped, Audit, AuditOf, Author,
           Words, Keyed, Course
  <2>4. ASSUME NEW r \in Requests PROVE Own(r)'
    <3>1. Own(r)
      BY DEF Inv
    <3>2. LocksOf(r)' /\ KeysOf(r)' /\ SeenOf(r)' /\ CopyOf(r)'
      BY <2>1, <3>1, LastWordQuiet
         DEF Own, LocksOf, KeysOf, SeenOf, CopyOf, Keyed, Course
    <3>3. ProgressOf(r)' /\ OutcomeOf(r)'
      BY <2>1, <3>1 DEF Own, ProgressOf, OutcomeOf, OnlyInsert, EntriesBy, Course
    <3>4. QED BY <3>2, <3>3 DEF Own
  <2>5. QED BY <2>1, <2>2, <2>3, <2>4 DEF Inv
<1>5. QED BY <1>1, <1>2, <1>3, <1>4 DEF Next, Quiescent

-----------------------------------------------------------------------------
(* Theorems *)

\* The invariant holds for any number of requests, rows, keys and workloads.
THEOREM Invariant == Spec => []Inv
BY InitInv, StepInv, PTL DEF Spec

\* Types, and a finished request holds no lock (get_session closes its session).
THEOREM TypesOK == Spec => []TypeOK
<1>1. Inv => TypeOK
  BY DEF Inv
<1>2. QED BY <1>1, Invariant, PTL

\* The UPDATE of a row names only the columns that differ from the copy: changes of
\* different columns from stale copies lose nothing of each other.
THEOREM ChangesAreKept == Spec => []NoChangeLost
<1>1. Inv => NoChangeLost
  BY DEF Inv
<1>2. QED BY <1>1, Invariant, PTL

\* What ConfigService.set records as replaced, and what an audit record shows of the
\* row, is what the row held, unless another commit changed the column between the
\* read and the commit.
THEOREM TrailIsTrueButForOverlap == Spec => []TrailBreaksOnlyByOverlap
<1>1. ASSUME Inv PROVE TrailBreaksOnlyByOverlap
  <2>1. SUFFICES ASSUME NEW i \in audited, NEW f \in Fields,
                        \/ book[i].before[f] # LastWord(book[i].row, f, i - 1)
                        \/ book[i].after[f] # LastWord(book[i].row, f, i)
                 PROVE  \E j \in book[i].seen + 1 .. i - 1 : Words(j, book[i].row, f)
    BY DEF TrailBreaksOnlyByOverlap
  <2>2. i \in 1..Len(book) /\ i - 1 \in Nat /\ (i - 1) + 1 = i
    BY <1>1 DEF Inv, TypeOK
  <2>3. SUFFICES ASSUME book[i].before[f] = LastWord(book[i].row, f, i - 1) PROVE FALSE
    BY <1>1, <2>2 DEF Inv, CopiesLagOnlyByOverlap
  <2>4. LastWord(book[i].row, f, i) =
          IF Words(i, book[i].row, f) THEN book[i].after[f] ELSE LastWord(book[i].row, f, i - 1)
    BY <2>2, NextWordHolds DEF NextWord
  <2>5. Words(i, book[i].row, f) <=> book[i].after[f] # book[i].before[f]
    BY DEF Words
  <2>6. QED BY <2>1, <2>3, <2>4, <2>5
<1>2. QED BY <1>1, Invariant, PTL

\* A command that failed has left nothing but the profile that update_profile creates
\* first or a business that was not finished, one that was answered from its key
\* nothing at all, one that took effect did so once, and what is audited is so from
\* its commit on, but for a business, audited when its creation returns.
THEOREM CommandsAreWhole == Spec => []WholeOrNothing
<1>1. Inv => WholeOrNothing
  BY DEF Inv, Own, OutcomeOf, OnlyInsert, KeysKept, Audit, AuditOf, WholeOrNothing
<1>2. QED BY <1>1, Invariant, PTL

\* Two rows are created under one key only by requests that overlap, or when the
\* key has been used up by another service.
THEOREM TwiceNeedsOverlap == Spec => []TwiceOnlyIfOverlapped
<1>1. Inv => TwiceOnlyIfOverlapped
  BY DEF Inv
<1>2. QED BY <1>1, Invariant, PTL

=============================================================================
