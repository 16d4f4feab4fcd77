------------------------------- MODULE Journals -------------------------------
(***************************************************************************)
(* AccountingService (core_platform/accounting/service.py): the chart of   *)
(* accounts of one business, its journals, reversals and allocations, as   *)
(* several transactions post to them at the same time.                     *)
(*                                                                         *)
(* Transactions and steps are those of the other request modules.  The     *)
(* services that post an entry within a longer transaction do so in        *)
(* SalesDocuments and PurchaseReceipts; here the posting is the request.   *)
(*                                                                         *)
(* A request gives amounts as finely as it likes.  They are counted here   *)
(* in the finest units that any of them uses; a column holds multiples of  *)
(* Unit of these (four decimal places) and rounds to them, after           *)
(* post_journal has checked the amounts as they were given.                *)
(*                                                                         *)
(* Abstracted: an entry's source is the request that posts it, no amount   *)
(* exceeds its column, and the FinancialEntry row of an entry is the       *)
(* "what" of its journal.                                                  *)
(***************************************************************************)
EXTENDS Integers, FiniteSets, Functions, Sequences

CONSTANTS Requests,    \* postings; they name the journal they create
          Existing,    \* journals there are at the start
          NoEntry,
          Keys, NoKey, Nobody,
          Elsewhere,   \* the idempotency row of another service's command
          Unit,        \* how many of the finest units make one of a column's
          Workloads,   \* what the requests may ask for, together
          Books        \* accounts, journals and allocations at the start

Chart == <<"cash", "receivable", "payable", "tax", "revenue", "returns", "purchases">>
Positions == 1..7
Codes == {Chart[i] : i \in Positions}

Ids == Existing \cup Requests
EntryTypes == {"revenue", "receipt", "return", "liability", "payment"}
Paying == {"receipt", "payment"}

\* Numeric(18, 4): to the nearest multiple, a tie away from zero.
Rounded(n) ==
  LET rest == n % Unit
  IN IF 2 * rest < Unit THEN n - rest ELSE n - rest + Unit

Storable == {n \in Nat : n % Unit = 0}

InputLine == [account: Codes, debit: Int, credit: Int]
Line == [account: Codes, debit: Storable, credit: Storable]

\* post_journal: a line has one positive side, and the sides add up to the same.
Sided(l) == /\ l.debit >= 0 /\ l.credit >= 0
            /\ (l.debit = 0) # (l.credit = 0)

Debits(lines) == SumFunction([i \in DOMAIN lines |-> lines[i].debit])
Credits(lines) == SumFunction([i \in DOMAIN lines |-> lines[i].credit])

Balanced(lines) == Debits(lines) = Credits(lines) /\ Debits(lines) > 0

Postable(lines) == (\A i \in DOMAIN lines : Sided(lines[i])) /\ Balanced(lines)

\* What the columns make of the lines.
Stored(lines) ==
  [i \in DOMAIN lines |->
     [account |-> lines[i].account,
      debit |-> Rounded(lines[i].debit), credit |-> Rounded(lines[i].credit)]]

Exact(lines) == Stored(lines) = lines

\* Rounding may move each line by half a unit, but both of two lines by the same.
Near(lines) ==
  LET gap == Debits(lines) - Credits(lines)
  IN /\ 2 * gap <= Unit * Len(lines) /\ -(2 * gap) <= Unit * Len(lines)
     /\ Len(lines) = 2 => gap = 0

\* "saw" are the journals there were when its request first read.
Journal == [no: Nat \ {0}, what: EntryTypes \cup {"other"}, lines: Seq(Line),
            status: {"posted", "reversed"}, reverses: Ids \cup {NoEntry},
            reversedBy: Ids \cup {NoEntry}, saw: SUBSET Ids]

Allocation == [by: Ids, journal: Ids, amount: Storable]

\* "what" and the amounts are those of an entry, "lines" those of a free
\* journal, "of" is the journal to reverse or allocate.
Command == [op: {"entry", "journal", "reverse", "allocate"}, what: EntryTypes,
            amount: Int, tax: Int, lines: Seq(InputLine),
            of: Ids \cup {NoEntry}, key: Keys \cup {NoKey}]

ASSUME UnitAssumption == Unit \in Nat \ {0}
ASSUME WorkloadsAssumption == Workloads \subseteq [Requests -> Command]
ASSUME NamesAssumption ==
  /\ NoKey \notin Keys /\ Nobody # Elsewhere
  /\ Nobody \notin Requests /\ Elsewhere \notin Requests
  /\ Existing \cap Requests = {} /\ NoEntry \notin Ids
ASSUME FiniteAssumption == IsFiniteSet(Requests) /\ IsFiniteSet(Existing)

\* Books are those of a new business, or have the whole chart and journals that
\* were posted one after the other, none of them reversed.
Opening(b) ==
  /\ b.accounts \in {{}, Codes}
  /\ DOMAIN b.journals \subseteq Existing /\ \A x \in DOMAIN b.journals : b.journals[x] \in Journal
  /\ {b.journals[x].no : x \in DOMAIN b.journals} = 1..Cardinality(DOMAIN b.journals)
  /\ \A x \in DOMAIN b.journals :
       LET j == b.journals[x] IN
         /\ j.status = "posted" /\ j.reverses = NoEntry
         /\ \A i \in DOMAIN j.lines : j.lines[i].account \in b.accounts
         /\ Near(j.lines)
  /\ \A x \in DOMAIN b.journals : b.journals[x].what \notin Paying
  /\ b.allocations = {}
ASSUME BooksAssumption == \A b \in Books : Opening(b)

VARIABLES
  \* committed
  accounts,     \* codes of the chart that exist
  journals,     \* journal entries with their lines
  allocations,  \* payment allocations
  keyRow,       \* keyRow[k]: the request that stored the idempotency row of k
  \* per request
  pc, cmd,
  saw,          \* the journals there were when it first read
  code,         \* the position in the chart of the account it adds
  num,          \* the number it has computed
  held          \* rows it has written and unique keys it has inserted

db == <<accounts, journals, allocations, keyRow>>
vars == <<accounts, journals, allocations, keyRow, pc, cmd, saw, code, num, held>>

InFlight == {"lookup", "chart", "account", "original", "count", "insert", "mark",
             "recheck", "claim", "commit"}
Finished == {"done", "replayed", "refused", "clashed", "crashed"}

\* Only entries and free journals take a key.
Keyed(c) == c.key # NoKey /\ c.op \in {"entry", "journal"}

\* The first statement of an operation after the lookup.
Start(c) ==
  CASE c.op = "entry" -> "chart"
    [] c.op = "journal" -> "count"
    [] OTHER -> "original"

First(c) == IF Keyed(c) THEN "lookup" ELSE Start(c)

Init ==
  /\ \E b \in Books : accounts = b.accounts /\ journals = b.journals /\ allocations = b.allocations
  /\ keyRow = [k \in Keys |-> Nobody]
  /\ cmd \in Workloads
  /\ pc = [r \in Requests |-> First(cmd[r])]
  /\ saw = [r \in Requests |-> {}]
  /\ code = [r \in Requests |-> 1]
  /\ num = [r \in Requests |-> 0]
  /\ held = [r \in Requests |-> {}]

Goto(r, label) == pc' = [pc EXCEPT ![r] = label]
Look(r) ==
  saw' = IF pc[r] = First(cmd[r]) THEN [saw EXCEPT ![r] = DOMAIN journals] ELSE saw

-----------------------------------------------------------------------------
(* Locks: rows a request has updated and unique values it has inserted *)

AccountCode(c) == <<"account", c>>
Number(n) == <<"number", n>>
EntryRow(x) == <<"entry", x>>
KeyValue(k) == <<"key", k>>

Rows ==
  ({"account"} \X Codes) \cup ({"number"} \X Nat)
  \cup ({"entry"} \X (Ids \cup {NoEntry})) \cup ({"key"} \X (Keys \cup {NoKey}))

\* What the next statement of r locks.
Wants(r) ==
  CASE pc[r] = "account" -> {AccountCode(Chart[code[r]])}
    [] pc[r] = "insert" -> {Number(num[r])}
    [] pc[r] = "mark" -> {EntryRow(cmd[r].of)}
    [] pc[r] = "claim" -> {KeyValue(cmd[r].key)}
    [] OTHER -> {}

Waits(r) == \E b \in Requests \ {r} : Wants(r) \cap held[b] # {}

\* The statement at label "at" gets its locks and is done.
Write(r, at, next) ==
  /\ pc[r] = at /\ ~Waits(r)
  /\ held' = [held EXCEPT ![r] = @ \cup Wants(r)]
  /\ Goto(r, next)
  /\ UNCHANGED <<db, cmd, saw, code, num>>

Release(r) == held' = [held EXCEPT ![r] = {}]

End(r, outcome) ==
  /\ Goto(r, outcome)
  /\ Release(r)
  /\ UNCHANGED <<db, cmd, saw, code, num>>

-----------------------------------------------------------------------------
(* idem.lookup and the amounts *)

\* The row answers if its resource is of the kind the operation loads.
HasPrior(r) ==
  /\ keyRow[cmd[r].key] \in Requests
  /\ cmd[keyRow[cmd[r].key]].op = cmd[r].op

Replay(r) == pc[r] = "lookup" /\ HasPrior(r) /\ End(r, "replayed")

Proceed(r) ==
  /\ pc[r] = "lookup" /\ ~HasPrior(r)
  /\ Look(r)
  /\ Goto(r, Start(cmd[r]))
  /\ UNCHANGED <<db, cmd, code, num, held>>

Amiss(r) ==
  \/ cmd[r].op \in {"entry", "allocate"} /\ cmd[r].amount <= 0
  \/ cmd[r].op = "entry" /\ cmd[r].tax < 0

RejectAmount(r) == pc[r] = Start(cmd[r]) /\ Amiss(r) /\ End(r, "refused")

-----------------------------------------------------------------------------
(* ensure_chart_of_accounts, from one missing account to the next *)

Missing(r) == {i \in Positions : Chart[i] \notin accounts /\ AccountCode(Chart[i]) \notin held[r]}

IsNext_ByType(r, i) ==
  i \in Missing(r) /\ \A j \in Missing(r) : IF cmd[r].what = "payment" THEN j <= i ELSE i <= j
IsNext(r, i) == i \in Missing(r) /\ \A j \in Missing(r) : i <= j

Ensured_BalanceSheet(r) == Missing(r) \cap 1..4 = {}
Ensured(r) == Missing(r) = {}

FindMissing(r) ==
  /\ pc[r] = "chart" /\ ~Amiss(r) /\ ~Ensured(r)
  /\ Look(r)
  /\ \E i \in Positions : IsNext(r, i) /\ code' = [code EXCEPT ![r] = i]
  /\ Goto(r, "account")
  /\ UNCHANGED <<db, cmd, num, held>>

\* uq_account_biz_code
AddAccount(r) == Chart[code[r]] \notin accounts /\ Write(r, "account", "chart")

AccountClash(r) ==
  pc[r] = "account" /\ ~Waits(r) /\ Chart[code[r]] \in accounts /\ End(r, "clashed")

FindWhole(r) ==
  /\ pc[r] = "chart" /\ ~Amiss(r) /\ Ensured(r)
  /\ Look(r)
  /\ Goto(r, "count")
  /\ UNCHANGED <<db, cmd, code, num, held>>

-----------------------------------------------------------------------------
(* The journal to reverse or allocate, and the lines of the new one *)

Reversible_Any(x) == TRUE
Reversible(x) == journals[x].status = "posted"

Present(r) ==
  /\ cmd[r].of \in DOMAIN journals
  /\ cmd[r].op = "reverse" => Reversible(cmd[r].of)

LoadOriginal(r) ==
  /\ pc[r] = "original" /\ ~Amiss(r) /\ Present(r)
  /\ Look(r)
  /\ Goto(r, IF cmd[r].op = "reverse" THEN "count" ELSE "commit")
  /\ UNCHANGED <<db, cmd, code, num, held>>

RejectOriginal(r) == pc[r] = "original" /\ ~Present(r) /\ End(r, "refused")

Debit(c, n) == [account |-> c, debit |-> n, credit |-> 0]
Credit(c, n) == [account |-> c, debit |-> 0, credit |-> n]

EntryLines_NetOfTax(what, n, tax) ==
  IF what = "return" THEN <<Debit("returns", n), Credit("receivable", n - tax)>>
  ELSE <<Debit("receivable", n), Credit("revenue", n)>>
EntryLines(what, n, tax) ==
  CASE what = "revenue" -> <<Debit("receivable", n + tax), Credit("revenue", n)>>
                           \o (IF tax > 0 THEN <<Credit("tax", tax)>> ELSE <<>>)
    [] what = "receipt" -> <<Debit("cash", n), Credit("receivable", n)>>
    [] what = "return" -> <<Debit("returns", n), Credit("receivable", n + tax)>>
                          \o (IF tax > 0 THEN <<Debit("tax", tax)>> ELSE <<>>)
    [] what = "liability" -> <<Debit("purchases", n), Credit("payable", n)>>
    [] what = "payment" -> <<Debit("payable", n), Credit("cash", n)>>

Mirror(lines) ==
  [i \in DOMAIN lines |->
     [account |-> lines[i].account, debit |-> lines[i].credit, credit |-> lines[i].debit]]

NewLines(r) ==
  CASE cmd[r].op = "entry" -> EntryLines(cmd[r].what, cmd[r].amount, cmd[r].tax)
    [] cmd[r].op = "journal" -> cmd[r].lines
    [] cmd[r].op = "reverse" -> Mirror(journals[cmd[r].of].lines)

-----------------------------------------------------------------------------
(* post_journal: number, entry, mark of the original, key, commit *)

NextNumber_Drawn == Cardinality(DOMAIN journals) + 1 + Cardinality({r \in Requests : held[r] # {}})
NextNumber_NotNext == Cardinality(DOMAIN journals)
NextNumber == Cardinality(DOMAIN journals) + 1

RejectLines(r) == pc[r] = "count" /\ ~Postable(NewLines(r)) /\ End(r, "refused")

Count(r) ==
  /\ pc[r] = "count" /\ Postable(NewLines(r))
  /\ Look(r)
  /\ num' = [num EXCEPT ![r] = NextNumber]
  /\ Goto(r, "insert")
  /\ UNCHANGED <<db, cmd, code, held>>

Numbers == {journals[x].no : x \in DOMAIN journals}

AfterInsert(r) ==
  IF cmd[r].op = "reverse" THEN "mark" ELSE IF Keyed(cmd[r]) THEN "recheck" ELSE "commit"

\* The lines' accounts are foreign keys; the entry goes first.
Charted(r) ==
  \A i \in DOMAIN NewLines(r) :
    LET c == NewLines(r)[i].account IN c \in accounts \/ AccountCode(c) \in held[r]

\* uq_journal_biz_number
Insert(r) ==
  /\ pc[r] = "insert" /\ num[r] \notin Numbers /\ Charted(r)
  /\ Write(r, "insert", AfterInsert(r))

RejectAccounts(r) ==
  pc[r] = "insert" /\ ~Waits(r) /\ num[r] \notin Numbers /\ ~Charted(r) /\ End(r, "refused")

InsertClash(r) ==
  pc[r] = "insert" /\ ~Waits(r) /\ num[r] \in Numbers /\ End(r, "clashed")

\* The original is written by primary key, whatever has become of it.
Mark(r) == Write(r, "mark", "commit")

Recheck(r) ==
  /\ pc[r] = "recheck"
  /\ Goto(r, IF keyRow[cmd[r].key] = Nobody THEN "claim" ELSE "commit")
  /\ UNCHANGED <<db, cmd, saw, code, num, held>>

ClaimKey(r) ==
  /\ pc[r] = "claim" /\ keyRow[cmd[r].key] = Nobody
  /\ Write(r, "claim", "commit")

ClaimClash(r) ==
  pc[r] = "claim" /\ ~Waits(r) /\ keyRow[cmd[r].key] # Nobody /\ End(r, "clashed")

Posts(r) == cmd[r].op # "allocate"

What(r) ==
  CASE cmd[r].op = "entry" -> cmd[r].what
    [] cmd[r].op = "journal" -> "other"
    [] cmd[r].op = "reverse" -> journals[cmd[r].of].what

NewJournal(r) ==
  [no |-> num[r], what |-> What(r), lines |-> Stored(NewLines(r)), status |-> "posted",
   reverses |-> IF cmd[r].op = "reverse" THEN cmd[r].of ELSE NoEntry,
   reversedBy |-> NoEntry, saw |-> saw[r]]

Marked(j, r) == [j EXCEPT !.status = "reversed", !.reversedBy = r]

JournalsAfter(r) ==
  [x \in DOMAIN journals \cup {q \in {r} : Posts(q)} |->
     IF x = r THEN NewJournal(r)
     ELSE IF EntryRow(x) \in held[r] THEN Marked(journals[x], r) ELSE journals[x]]

\* post_entry allocates what pays to the entry's own source.
NewAllocations(r) ==
  CASE cmd[r].op = "allocate" -> {[by |-> r, journal |-> cmd[r].of, amount |-> Rounded(cmd[r].amount)]}
    [] cmd[r].op = "entry" /\ cmd[r].what \in Paying ->
         {[by |-> r, journal |-> r, amount |-> Rounded(cmd[r].amount)]}
    [] OTHER -> {}

Commit(r) ==
  /\ pc[r] = "commit"
  /\ Goto(r, "done")
  /\ accounts' = accounts \cup {c \in Codes : AccountCode(c) \in held[r]}
  /\ journals' = JournalsAfter(r)
  /\ allocations' = allocations \cup NewAllocations(r)
  /\ keyRow' = [k \in Keys |-> IF KeyValue(k) \in held[r] THEN r ELSE keyRow[k]]
  /\ Release(r)
  /\ UNCHANGED <<cmd, saw, code, num>>

\* The process, the connection or the client goes away before the commit.
Crash(r) == pc[r] \in InFlight /\ End(r, "crashed")

-----------------------------------------------------------------------------
Serve(r) ==
  \/ Replay(r) \/ Proceed(r) \/ RejectAmount(r)
  \/ FindMissing(r) \/ AddAccount(r) \/ AccountClash(r) \/ FindWhole(r)
  \/ LoadOriginal(r) \/ RejectOriginal(r)
  \/ RejectLines(r) \/ Count(r) \/ Insert(r) \/ RejectAccounts(r) \/ InsertClash(r) \/ Mark(r)
  \/ Recheck(r) \/ ClaimKey(r) \/ ClaimClash(r) \/ Commit(r)

\* A command of another service uses the key.
StoreElsewhere(k) ==
  /\ keyRow[k] = Nobody /\ \A r \in Requests : KeyValue(k) \notin held[r]
  /\ keyRow' = [keyRow EXCEPT ![k] = Elsewhere]
  /\ UNCHANGED <<accounts, journals, allocations, pc, cmd, saw, code, num, held>>

Quiescent == (\A r \in Requests : pc[r] \in Finished) /\ UNCHANGED vars

Next ==
  \/ \E r \in Requests : Serve(r) \/ Crash(r)
  \/ \E k \in Keys : StoreElsewhere(k)
  \/ Quiescent

Spec == Init /\ [][Next]_vars

\* As in StockLedger: requests run when their statement has returned.
FairSpec == Spec /\ \A r \in Requests : WF_vars(Serve(r))

-----------------------------------------------------------------------------
(* Properties *)

\* Types, and a finished request holds no lock.
TypeOK ==
  /\ accounts \subseteq Codes
  /\ DOMAIN journals \subseteq Ids /\ \A x \in DOMAIN journals : journals[x] \in Journal
  /\ allocations \subseteq Allocation
  /\ keyRow \in [Keys -> Requests \cup {Nobody, Elsewhere}]
  /\ pc \in [Requests -> InFlight \cup Finished]
  /\ cmd \in [Requests -> Command]
  /\ saw \in [Requests -> SUBSET Ids]
  /\ code \in [Requests -> Positions]
  /\ num \in [Requests -> Nat]
  /\ held \in [Requests -> SUBSET Rows]
  /\ \A r \in Requests : pc[r] \in Finished => held[r] = {}

\* post_journal finds nothing to refuse in the lines of an entry that post_entry has
\* accepted, of whatever type, amount and tax.  What the columns make of a journal
\* balances if they hold its amounts as they were given, as they do a reversal's, and
\* then it can be reversed.  Otherwise its sides come apart, by no more than half a
\* unit for each line, and not if there are two.
EntriesBalance ==
  /\ \A r \in Requests : pc[r] = "count" =>
       /\ cmd[r].op = "entry" => Postable(NewLines(r))
       /\ cmd[r].op = "reverse" /\ cmd[r].of \in Requests /\ Exact(NewLines(cmd[r].of)) =>
            Postable(NewLines(r))
  /\ \A x \in DOMAIN journals :
       /\ x \in Requests /\ Exact(NewLines(x)) => Postable(journals[x].lines)
       /\ Near(journals[x].lines)

HoldsNumber(r) == Number(num[r]) \in held[r]

\* Numbers are counted without a lock, and yet at most one transaction at a time
\* has a journal to commit, it has the next number, and the numbers have no gap.
OnePoster ==
  /\ Numbers = 1..Cardinality(DOMAIN journals)
  /\ \A r, q \in Requests : HoldsNumber(r) /\ HoldsNumber(q) => r = q
  /\ \A r \in Requests : HoldsNumber(r) => num[r] = NextNumber

Own(x) == {a \in allocations : a.by = x}

\* First use creates the whole chart or nothing, a journal has lines on existing
\* accounts only, what pays is allocated once with its stored amount, and nothing
\* is allocated from a journal that is not there.
PostingIsWhole ==
  /\ accounts \in {{}, Codes}
  /\ \A x \in DOMAIN journals : \A i \in DOMAIN journals[x].lines :
       journals[x].lines[i].account \in accounts
  /\ \A x \in DOMAIN journals : journals[x].what \in Paying /\ journals[x].reverses = NoEntry =>
       \E a \in allocations :
         /\ Own(x) = {a} /\ a.journal = x
         /\ \E i \in DOMAIN journals[x].lines :
              journals[x].lines[i] \in {Debit("cash", a.amount), Debit("payable", a.amount)}
  /\ \A a \in allocations : a.journal \in DOMAIN journals

Compensates(y, x) == y \in DOMAIN journals /\ journals[y].reverses = x

\* A journal is marked reversed exactly when a journal with its lines mirrored
\* compensates it, and points to the last such journal; a second one was posted
\* only by a request that read the original before the first was committed.
ReversalIsExact ==
  \A x \in DOMAIN journals :
    /\ journals[x].status = "reversed" => Compensates(journals[x].reversedBy, x)
    /\ \A y \in Ids : Compensates(y, x) =>
         /\ journals[x].status = "reversed"
         /\ journals[y].lines = Mirror(journals[x].lines)
         /\ journals[y].no <= journals[journals[x].reversedBy].no
         /\ \A z \in Ids : Compensates(z, x) /\ journals[z].no < journals[y].no =>
              z \notin journals[y].saw

\* A request fails on a unique index (the chart's first use, the next number, the
\* key) only if another one has posted, or used the key, since it first read.
ClashMeansProgress ==
  \A r \in Requests : pc[r] = "clashed" =>
    \/ DOMAIN journals \ saw[r] # {}
    \/ Keyed(cmd[r]) /\ keyRow[cmd[r].key] = Elsewhere

\* Every request ends, although the chart's accounts, the number, the original
\* and the key are locked one after the other: no two wait for each other, and
\* the deadlock detector is never needed.
EveryRequestEnds == \A r \in Requests : <>(pc[r] \in Finished)

=============================================================================
