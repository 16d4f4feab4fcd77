------------------------------- MODULE Registry -------------------------------
(***************************************************************************)
(* The services that keep single rows: configuration, customers, parties,  *)
(* products, users, businesses and their places.  Their commands share one *)
(* course: look an idempotency key up, check that a row they refer to is   *)
(* there, look for the row itself, then insert it, change it, refuse or    *)
(* answer.  What differs is said by one course per handler.                *)
(*                                                                         *)
(* Every command is a transaction at READ COMMITTED and every await on its *)
(* session is a step (see StockLedger); update_profile is two transactions *)
(* and create_business three.  A row is changed from a copy read without a *)
(* lock, and the UPDATE names only the columns whose value differs from    *)
(* that copy.                                                              *)
(*                                                                         *)
(* Abstracted: the caller is a member of the business (see Access), a row  *)
(* has two identifying and two other columns, a change of slug is left     *)
(* out, and the credential, the event and the customer activity that are   *)
(* written beside a row are its entry in the book.  An audit record is     *)
(* known by the entry it tells of.                                         *)
(***************************************************************************)
EXTENDS Integers, Sequences

CONSTANTS Requests,    \* HTTP requests; a row is named by the request that inserts it
          Existing,    \* rows there are at the start
          Opening,     \* what they hold
          Values,
          Unset,       \* NULL, and a value the request does not give
          Keys,        \* idempotency rows: a scope and a key in it
          NoKey, Nobody,
          Elsewhere,   \* the idempotency row of another service's command
          Workloads    \* what the requests may ask for, together

RowIds == Existing \cup Requests
Kinds == {"config", "profile", "note", "party", "link", "user", "session", "product",
          "service", "category", "business", "branch", "location"}

\* config: key and value; profile: party, credit status and segment; link: party
\* with relationship; user: email and phone; business: slug and name.
Ids == {"id", "alias"}
Fields == Ids \cup {"name", "detail"}
Columns == [Fields -> Values \cup {Unset}]
Blank == [f \in Fields |-> Unset]
Row == [kind: Kinds, fields: Columns]

-----------------------------------------------------------------------------
(* The course of each handler *)

\* A plain insert, without a look for the row; "then" is the step that follows the
\* commit of an insert, "records" what is audited.
Insertion(kind) ==
  [kind |-> kind, needs |-> "nothing", looks |-> "no", found |-> "refuse",
   missing |-> "insert", keyed |-> FALSE, then |-> "done", records |-> {"create"}]
Change(kind) ==
  [Insertion(kind) EXCEPT !.looks = "row", !.found = "update", !.missing = "refuse",
                          !.records = {"update"}]

SetConfig ==
  [Insertion("config") EXCEPT !.looks = "ids", !.found = "update", !.records = {"create", "update"}]
GetOrCreateProfile ==
  [Insertion("profile") EXCEPT !.needs = "link", !.looks = "ids", !.found = "answer"]
\* The profile it creates is committed, and read again, before the update.
UpdateProfile == [GetOrCreateProfile EXCEPT !.found = "update", !.then = "refresh"]
AddNote == [Insertion("note") EXCEPT !.needs = "link", !.records = {}]
CreateParty == Insertion("party")
LinkParty == [Insertion("link") EXCEPT !.needs = "party", !.looks = "ids"]
Register == [Insertion("user") EXCEPT !.looks = "ids", !.keyed = TRUE]
Login == [Insertion("session") EXCEPT !.needs = "user"]
CreateProduct == [Insertion("product") EXCEPT !.keyed = TRUE]
UpdateProduct == Change("product")
CreateService == Insertion("service")
CreateCategory == Insertion("category")
\* The permissions and the Owner role that it commits on the way are in Access.
CreateBusiness == [Insertion("business") EXCEPT !.looks = "ids", !.then = "appoint"]
UpdateBusiness == [Change("business") EXCEPT !.records = {}]
CreateBranch == Insertion("branch")
CreateLocation == [Insertion("location") EXCEPT !.needs = "branch"]

Courses ==
  {SetConfig, GetOrCreateProfile, UpdateProfile, AddNote, CreateParty, LinkParty, Register,
   Login, CreateProduct, UpdateProduct, CreateService, CreateCategory, CreateBusiness,
   UpdateBusiness, CreateBranch, CreateLocation}

\* "on" is the row it refers to, by its name or an identifying column; "row" the
\* one it changes if it does not look for it by such a column; "valid" is FALSE for
\* a blank note, a negative credit limit, a wrong password, an unknown status.
Command == [course: Courses, on: RowIds \cup Values \cup {Unset}, row: RowIds \cup {Unset},
            given: Columns, valid: BOOLEAN, key: Keys \cup {NoKey}]

\* A row that a commit inserted ("before" is Blank), or changed from the copy
\* "before" to "after"; "seen" counts the entries there were when the request read
\* the row, or looked its key up.
Entry == [op: {"create", "update"}, row: RowIds, by: Requests, before: Columns,
          after: Columns, seen: Nat]

ASSUME WorkloadsAssumption == Workloads \subseteq [Requests -> Command]
ASSUME NamesAssumption ==
  /\ Existing \cap Requests = {} /\ Unset \notin Values \cup RowIds
  /\ NoKey \notin Keys /\ Nobody # Elsewhere /\ {Nobody, Elsewhere} \cap Requests = {}
\* The scope of register is the platform's, that of create_product the business's.
ASSUME ScopeAssumption ==
  \A w \in Workloads : \A a, b \in Requests :
    w[a].course = Register /\ w[b].course.keyed /\ w[b].key = w[a].key /\ w[a].key # NoKey
      => w[b].course = Register
ASSUME OpeningAssumption == Opening \in [Existing -> Row]

VARIABLES
  \* committed
  rows,    \* rows[x]: the row x
  book,    \* what the commits have written, in their order
  keyRow,  \* keyRow[k]: the request that stored the idempotency row of k
  audited, \* the entries of the book that have an audit record
  \* per request
  pc, cmd,
  left,    \* the identifying columns it has yet to look for
  target,  \* the row it has found, Unset if it inserts one
  copy,    \* its copy of that row
  at,      \* the length of the book when it read it
  held     \* rows it has updated, unique values it has inserted

db == <<rows, book, keyRow, audited>>
mine == <<cmd, left, target, copy, at>>
vars == <<rows, book, keyRow, audited, pc, cmd, left, target, copy, at, held>>

InFlight == {"lookup", "need", "find", "write", "recheck", "claim", "commit", "refresh",
             "appoint", "announce"}
Finished == {"done", "replayed", "failed"}

Course(r) == cmd[r].course
Keyed(r) == Course(r).keyed /\ cmd[r].key # NoKey

Given(r) == {f \in Fields : cmd[r].given[f] # Unset}

Init ==
  /\ rows = Opening /\ book = <<>> /\ audited = {}
  /\ keyRow = [k \in Keys |-> Nobody]
  /\ cmd \in Workloads
  /\ pc = [r \in Requests |-> IF Keyed(r) THEN "lookup" ELSE "need"]
  /\ left = [r \in Requests |-> IF Course(r).looks = "ids" THEN Given(r) \cap Ids ELSE {}]
  /\ target = [r \in Requests |-> Unset]
  /\ copy = [r \in Requests |-> Blank]
  /\ at = [r \in Requests |-> 0]
  /\ held = [r \in Requests |-> {}]

Goto(r, label) == pc' = [pc EXCEPT ![r] = label]

-----------------------------------------------------------------------------
(* Locks *)

UniqueValue(kind, f, v) == <<kind, f, v>>
RowLock(x) == <<"row", x>>
KeyValue(k) == <<"key", k>>

Inserts(r) == target[r] = Unset

\* What the next statement of r locks.
Wants(r) ==
  CASE pc[r] = "write" /\ Inserts(r) ->
         {UniqueValue(Course(r).kind, f, cmd[r].given[f]) : f \in Given(r) \cap Ids}
    [] pc[r] = "write" /\ ~Inserts(r) -> {RowLock(target[r])}
    [] pc[r] = "claim" -> {KeyValue(cmd[r].key)}
    [] OTHER -> {}

Waits(r) == \E b \in Requests \ {r} : Wants(r) \cap held[b] # {}
Lock(r) == held' = [held EXCEPT ![r] = @ \cup Wants(r)]
Release_KeepLocks(r) == UNCHANGED held
Release(r) == held' = [held EXCEPT ![r] = {}]

Rollback(r) ==
  /\ Goto(r, "failed")
  /\ Release(r)
  /\ UNCHANGED <<db, mine>>

-----------------------------------------------------------------------------
(* The key, the row referred to, and the row itself *)

\* The row of the key answers if its resource is a row of the same table.
HasPrior(r) ==
  /\ keyRow[cmd[r].key] \in Requests
  /\ Course(keyRow[cmd[r].key]).kind = Course(r).kind

Replay(r) ==
  /\ pc[r] = "lookup" /\ HasPrior(r)
  /\ Goto(r, "replayed")
  /\ UNCHANGED <<db, mine, held>>

Proceed(r) ==
  /\ pc[r] = "lookup" /\ ~HasPrior(r)
  /\ at' = [at EXCEPT ![r] = Len(book)]
  /\ Goto(r, "need")
  /\ UNCHANGED <<db, cmd, left, target, copy, held>>

ReferredTo(r) ==
  {x \in DOMAIN rows : rows[x].kind = Course(r).needs
                       /\ cmd[r].on \in {x} \cup {rows[x].fields[f] : f \in Ids}}

Need(r) ==
  /\ pc[r] = "need" /\ (Course(r).needs # "nothing" => ReferredTo(r) # {})
  /\ Goto(r, IF Course(r).looks = "no" THEN "write" ELSE "find")
  /\ UNCHANGED <<db, mine, held>>

RejectReference(r) ==
  /\ pc[r] = "need" /\ Course(r).needs # "nothing" /\ ReferredTo(r) = {}
  /\ Rollback(r)

\* register looks for the email first.
NextLook(r) == IF "id" \in left[r] THEN "id" ELSE "alias"

Matches(r) ==
  {x \in DOMAIN rows :
     /\ rows[x].kind = Course(r).kind
     /\ IF Course(r).looks = "row" THEN x = cmd[r].row
        ELSE left[r] # {} /\ rows[x].fields[NextLook(r)] = cmd[r].given[NextLook(r)]}

Find(r) ==
  /\ pc[r] = "find" /\ Course(r).found \in {"update", "answer"}
  /\ \E x \in Matches(r) :
       /\ target' = [target EXCEPT ![r] = x]
       /\ copy' = [copy EXCEPT ![r] = rows[x].fields]
       /\ at' = [at EXCEPT ![r] = Len(book)]
  /\ Goto(r, IF Course(r).found = "update" THEN "write" ELSE "done")
  /\ UNCHANGED <<db, cmd, left, held>>

FindNothing(r) ==
  /\ pc[r] = "find" /\ Matches(r) = {} /\ Course(r).missing = "insert"
  /\ left' = [left EXCEPT ![r] = @ \ {NextLook(r)}]
  /\ Goto(r, IF left'[r] = {} THEN "write" ELSE "find")
  /\ UNCHANGED <<db, cmd, target, copy, at, held>>

RejectFound(r) ==
  /\ pc[r] = "find"
  /\ (IF Matches(r) = {} THEN Course(r).missing ELSE Course(r).found) = "refuse"
  /\ Rollback(r)

-----------------------------------------------------------------------------
(* INSERT and UPDATE *)

UpdatesAfter_AnyUpdate(r) == Inserts(r) /\ Course(r).found = "update"
\* The insert of r is committed before its update.
UpdatesAfter(r) == Inserts(r) /\ Course(r).then = "refresh"

\* What is wrong with an update is not noticed while the row is created for it.
RejectInvalid(r) ==
  /\ pc[r] = "write" /\ ~cmd[r].valid /\ ~UpdatesAfter(r)
  /\ Rollback(r)

Taken(r) ==
  /\ Inserts(r)
  /\ \E x \in DOMAIN rows, f \in Given(r) \cap Ids :
       rows[x].kind = Course(r).kind /\ rows[x].fields[f] = cmd[r].given[f]

Write(r) ==
  /\ pc[r] = "write" /\ (cmd[r].valid \/ UpdatesAfter(r))
  /\ ~Waits(r) /\ ~Taken(r)
  /\ Lock(r)
  /\ Goto(r, IF Keyed(r) THEN "recheck" ELSE "commit")
  /\ UNCHANGED <<db, mine>>

\* The unique index of the table: two commands saw that the row was missing.
WriteClash(r) ==
  /\ pc[r] = "write" /\ (cmd[r].valid \/ UpdatesAfter(r))
  /\ ~Waits(r) /\ Taken(r)
  /\ Rollback(r)

-----------------------------------------------------------------------------
(* idem.store and the commit *)

Recheck_NoStore(r) ==
  /\ pc[r] = "recheck"
  /\ Goto(r, "commit")
  /\ UNCHANGED <<db, mine, held>>
Recheck(r) ==
  /\ pc[r] = "recheck"
  /\ Goto(r, IF keyRow[cmd[r].key] = Nobody THEN "claim" ELSE "commit")
  /\ UNCHANGED <<db, mine, held>>

ClaimKey(r) ==
  /\ pc[r] = "claim" /\ ~Waits(r) /\ keyRow[cmd[r].key] = Nobody
  /\ Lock(r)
  /\ Goto(r, "commit")
  /\ UNCHANGED <<db, mine>>

ClaimClash(r) ==
  /\ pc[r] = "claim" /\ ~Waits(r) /\ keyRow[cmd[r].key] # Nobody
  /\ Rollback(r)

\* The values of the command over a copy.
Over(r, fields) == [f \in Fields |-> IF f \in Given(r) THEN cmd[r].given[f] ELSE fields[f]]

\* What a new row gets from the command.
NewFields(r) ==
  [f \in Fields |-> IF f \in Ids \/ ~UpdatesAfter(r) THEN cmd[r].given[f] ELSE Unset]

FieldsAfter_WholeCopy(r, x) == Over(r, copy[r])
\* UPDATE ... SET the columns that differ from the copy.
FieldsAfter(r, x) ==
  [f \in Fields |-> IF Over(r, copy[r])[f] # copy[r][f] THEN Over(r, copy[r])[f]
                    ELSE rows[x].fields[f]]

RowsAfter(r) ==
  IF Inserts(r)
  THEN [x \in DOMAIN rows \cup {r} |->
          IF x = r THEN [kind |-> Course(r).kind, fields |-> NewFields(r)] ELSE rows[x]]
  ELSE [rows EXCEPT ![target[r]].fields = FieldsAfter(r, target[r])]

Op(r) == IF Inserts(r) THEN "create" ELSE "update"

EntryOf_BeforeTakenLate(r) ==
  [op |-> Op(r), row |-> IF Inserts(r) THEN r ELSE target[r], by |-> r,
   before |-> IF Inserts(r) THEN Blank ELSE Over(r, copy[r]),
   after |-> IF Inserts(r) THEN NewFields(r) ELSE Over(r, copy[r]), seen |-> at[r]]
EntryOf(r) ==
  [op |-> Op(r), row |-> IF Inserts(r) THEN r ELSE target[r], by |-> r, before |-> copy[r],
   after |-> IF Inserts(r) THEN NewFields(r) ELSE Over(r, copy[r]), seen |-> at[r]]

AfterCommit(r) ==
  CASE UpdatesAfter(r) -> "refresh"
    [] Inserts(r) /\ Course(r).then = "appoint" -> "appoint"
    [] OTHER -> "done"

\* record_activity is part of the commit but for a business.
RecordsNow(r) == Op(r) \in Course(r).records /\ AfterCommit(r) # "appoint"

Commit(r) ==
  /\ pc[r] = "commit"
  /\ Goto(r, AfterCommit(r))
  /\ rows' = RowsAfter(r)
  /\ book' = Append(book, EntryOf(r))
  /\ audited' = audited \cup {i \in {Len(book) + 1} : RecordsNow(r)}
  /\ keyRow' = [k \in Keys |-> IF KeyValue(k) \in held[r] THEN r ELSE keyRow[k]]
  /\ Release(r)
  /\ UNCHANGED mine

\* The profile just created is read again.
Refresh(r) ==
  /\ pc[r] = "refresh"
  /\ target' = [target EXCEPT ![r] = r]
  /\ copy' = [copy EXCEPT ![r] = rows[r].fields]
  /\ at' = [at EXCEPT ![r] = Len(book)]
  /\ Goto(r, "write")
  /\ UNCHANGED <<db, cmd, left, held>>

EntriesBy(r) == {i \in 1..Len(book) : book[i].by = r}

\* create_business goes on: bootstrap_owner's second commit, and then its own.
Appoint(r) ==
  /\ pc[r] = "appoint"
  /\ Goto(r, "announce")
  /\ UNCHANGED <<db, mine, held>>

Announce(r) ==
  /\ pc[r] = "announce"
  /\ audited' = audited \cup EntriesBy(r)
  /\ Goto(r, "done")
  /\ UNCHANGED <<rows, book, keyRow, mine, held>>

-----------------------------------------------------------------------------
\* The process, the connection or the client goes away before the last commit.
Crash(r) == pc[r] \in InFlight /\ Rollback(r)

Serve(r) ==
  \/ Replay(r) \/ Proceed(r) \/ Need(r) \/ RejectReference(r)
  \/ Find(r) \/ FindNothing(r) \/ RejectFound(r)
  \/ RejectInvalid(r) \/ Write(r) \/ WriteClash(r)
  \/ Recheck(r) \/ ClaimKey(r) \/ ClaimClash(r) \/ Commit(r) \/ Refresh(r)
  \/ Appoint(r) \/ Announce(r)

\* A command of another service uses the key; register has a scope of its own.
StoreElsewhere(k) ==
  /\ keyRow[k] = Nobody /\ \A r \in Requests : KeyValue(k) \notin held[r]
  /\ \A r \in Requests : cmd[r].key = k => Course(r) # Register
  /\ keyRow' = [keyRow EXCEPT ![k] = Elsewhere]
  /\ UNCHANGED <<rows, book, audited, pc, mine, held>>

Quiescent == (\A r \in Requests : pc[r] \in Finished) /\ UNCHANGED vars

Next ==
  \/ \E r \in Requests : Serve(r) \/ Crash(r)
  \/ \E k \in Keys : StoreElsewhere(k)
  \/ Quiescent

Spec == Init /\ [][Next]_vars

\* As in StockLedger: requests run when their statement has returned.
FairSpec == Spec /\ \A r \in Requests : WF_vars(Serve(r))

-----------------------------------------------------------------------------
(* Properties *)

\* Types, and a finished request holds no lock.
TypeOK ==
  /\ DOMAIN rows \subseteq RowIds /\ \A x \in DOMAIN rows : rows[x] \in Row
  /\ book \in Seq(Entry) /\ audited \subseteq 1..Len(book)
  /\ keyRow \in [Keys -> Requests \cup {Nobody, Elsewhere}]
  /\ pc \in [Requests -> InFlight \cup Finished]
  /\ cmd \in [Requests -> Command]
  /\ left \in [Requests -> SUBSET Ids]
  /\ target \in [Requests -> RowIds \cup {Unset}]
  /\ copy \in [Requests -> Columns]
  /\ at \in [Requests -> Nat]
  /\ \A r \in Requests : pc[r] \in Finished => held[r] = {}

\* Entry i means to change column f of row x.
Words(i, x, f) == book[i].row = x /\ book[i].after[f] # book[i].before[f]

\* Column f of row x as the first n entries leave it.
LastWord(x, f, n) ==
  LET said == {i \in 1..n : Words(i, x, f)}
  IN  IF said # {} THEN book[CHOOSE i \in said : \A j \in said : j <= i].after[f]
      ELSE IF x \in Existing THEN Opening[x].fields[f] ELSE Unset

\* Requests that change different columns of one row from stale copies of it lose
\* nothing of each other: a column holds the last value anyone meant to change it
\* to.  (Someone who gives the value its copy already has changes nothing, even if
\* the column has changed since.)
NoChangeLost ==
  \A x \in DOMAIN rows, f \in Fields : rows[x].fields[f] = LastWord(x, f, Len(book))

Author(i) == cmd[book[i].by].course

\* Audit records that show the row, and those that show what it replaces: only
\* ConfigService.set passes a "before".
ShowsAfter(i) == Author(i).kind \notin {"profile", "user", "session"}
ShowsBefore(i) == Author(i) = SetConfig /\ book[i].op = "update"

\* An audit record tells what the row held before and after its commit, unless
\* another commit changed that column between the read and the commit: of a stale
\* copy both what it replaces and, of the columns that the command leaves alone,
\* what it shows are untrue.
TrailBreaksOnlyByOverlap ==
  \A i \in audited, f \in Fields :
    \/ ShowsBefore(i) /\ book[i].before[f] # LastWord(book[i].row, f, i - 1)
    \/ ShowsAfter(i) /\ book[i].after[f] # LastWord(book[i].row, f, i)
    => \E j \in book[i].seen + 1 .. i - 1 : Words(j, book[i].row, f)

\* A command that failed has left nothing - no row, no key, no entry - but the
\* profile that an update created first, or a business that was not finished; one
\* that was answered from a key has left nothing at all; one that took effect did
\* so once.  What is audited is so from its commit on, but for a business, whose
\* audit record appears when its creation returns, and never if it fails.
WholeOrNothing ==
  /\ \A r \in Requests :
       /\ pc[r] = "replayed" => EntriesBy(r) = {}
       /\ pc[r] = "failed" =>
            /\ r \in DOMAIN rows => Course(r) \in {UpdateProfile, CreateBusiness}
            /\ \A i \in EntriesBy(r) : book[i].op = "create" /\ book[i].row = r
       /\ pc[r] = "done" /\ Course(r) # GetOrCreateProfile =>
            \E i \in EntriesBy(r) : \A j \in EntriesBy(r) \ {i} :
              j < i /\ book[j].op = "create" /\ Course(r) = UpdateProfile
  /\ \A i \in 1..Len(book) : i \in audited <=>
       /\ book[i].op \in Author(i).records
       /\ Author(i) = CreateBusiness => pc[book[i].by] = "done"
  /\ \A k \in Keys : keyRow[k] \in Requests =>
       pc[keyRow[k]] = "done" /\ keyRow[k] \in DOMAIN rows

\* Two rows are created under one key only by requests that overlap, or when the
\* key has been used up by another service.
TwiceOnlyIfOverlapped ==
  \A i, j \in 1..Len(book) :
    LET a == book[i].by
        b == book[j].by
    IN  /\ i < j /\ Keyed(a) /\ Keyed(b) /\ cmd[a].key = cmd[b].key
        => book[j].seen < i \/ keyRow[cmd[a].key] = Elsewhere

EveryRequestEnds == \A r \in Requests : <>(pc[r] \in Finished)

=============================================================================
