# tawala-core in TLA+

Tawala Core is the FastAPI backend of a multi-business shop platform. Its
services keep stock, commercial documents, journals and domain events in
PostgreSQL, and the HTTP layer runs any number of requests at the same time
against the same rows. This directory specifies what those services do under
concurrency and failure, checks it with TLC and proves the main results with
TLAPS. `PROJECT.json` is the machine-readable index: which definition models
which lines, what each run checks, which changed definition (mutant) breaks each
property.

## How to run

    tlc -workers 2 -config MCStockLedger_mixed.cfg MCStockLedger
    tlapm StockLedgerProofs.tla

A run whose name is listed with `"expect": "violation"` in `PROJECT.json` ends
with a counterexample: it refutes a sentence of the documentation.

## Inventory

Every service method runs in one `AsyncSession`: one PostgreSQL transaction at
READ COMMITTED, committed by the method and rolled back by any exception or by
the end of the session (`db/session.py`). No service takes an explicit row lock
except the outbox publisher. All hard behaviour comes from that: what a method
read may be stale when it writes.

| Component | State | Operations | Talks to | What is hard, what makes it correct |
|---|---|---|---|---|
| Inventory | stock level per product and location, append-only movements | receive, issue, adjust, transfer | called by Sales, Purchasing | lost updates, stale shortage check, half transfers, lock cycles; levels never negative and equal to the last movement, transfers whole |
| Idempotency helpers | one row per (scope, key) | lookup, store | every command | overlapping retries, keys shared by operations; key and effect together, a later retry without effect |
| Events and outbox | event, outbox entry with status, attempts, next attempt | emit; claim, deliver, mark; worker loop | every mutation emits; consumers outside | crash between delivery and commit, several workers, back-off, row policy; at-least-once, decided once, bounded, eventually decided |
| Sales | documents, lines, payments | create, convert, finalize, pay, return, cancel | Inventory, Accounting, events | decisions on stale status, numbering by count, multi-row effects; every command whole and legal when judged, posted once up to overlap |
| Accounting | accounts, journals with lines, allocations | post, reverse, allocate, chart | called by Sales, Purchasing | numbering by count, double reversal, first-use race, rounding after the check; balanced up to rounding, reversed once |
| Purchasing | orders with lines, receipts, payments | create, confirm, cancel, receive, pay | Inventory, Accounting | over-receipt, cancellation against receipt, double receipt |
| Security | memberships, roles, permissions, scopes | invite, activate, suspend, revoke, assign | every request | revoked members coming back, an invitation repeated after a revocation, permission checked once per request |
| Entitlements | capability grants, soft deleted | seed, grant, revoke, require | request dependencies | grant after revoke |
| Organization | businesses, branches, locations | create business in three commits, change it, add branches and locations | Security | partial creation, two businesses with one slug |
| Identity | users, credentials, sessions | register, login, logout, resolve | request dependencies | two users with one email or phone, session end |
| Audit and activity | append-only records | record | every mutation | same transaction as the mutation |
| Configuration | one row per key | get, set | settings of a business | insert after a look that found nothing, change from a stale copy; no change lost, trail true |
| CRM | profiles, notes | read or create a profile, update it (two commits), note | Parties, Sales | two creators, half an update |
| Catalog | products, services, categories | create (keyed), update | Sales, Purchasing | a product created twice by a retry, columns changed from stale copies |
| Parties | parties, links | create, link | Sales, Purchasing, CRM | the same link made twice |
| Reporting | none | queries, some of two or more statements | reads everything | sales committed between the statements or at midnight; a report equals the books |
| Routes, schemas, models, migrations, settings | none of their own | parsing, wiring | — | — |

`PROJECT.json` lists every component with its status and every hazard at its
line with the property that covers it, or a note when none does yet.

## Modules

### Stock: `StockLedger` implements `BalanceLedger`

`StockLedger` is `InventoryService` with the idempotency helpers. A request
walks through `lookup` (idem.lookup and validation), `read` and `insert`
(`_get_or_create_level`), `write` (`_apply_delta`: the UPDATE with its row
lock), `recheck` and `claim` (`idem.store`) and `commit`. Each step is one
awaited statement, so TLC and the proofs see every interleaving of statements.
Row locks, the two unique indexes, lock waits and the deadlock detector are
PostgreSQL's and marked external. `Crash` rolls back at any step.

A transfer runs `read`/`write` twice, source first. `log` holds one posting per
committed command; it stands for the movements of that command and the audit,
event and outbox rows of the same transaction. A posting remembers what
`_apply_delta` wrote as `quantity_before` and how long the log was when it read
it (`at`), which is what lets properties speak of stale reads. `Workloads` says which
commands the requests may have together; the proofs hold for every set of them.

`BalanceLedger` is the promise in five conjuncts: whole postings, each computed
from *some* committed balance of its cell, none ending below zero, transfers
neutral, one posting per request. It is weaker than a serial ledger on purpose:
the code is not serial (run `stock_audit_chain`).

### Documents: `SalesDocuments` implements `SaleBook`

`SalesService` with the parts of Inventory, Accounting and the idempotency
helpers it calls. A request reads its document once (`load`), judges that copy
with the transition table, moves each line's stock (`lines`, `write`), computes
a number by counting rows (`count`), inserts the numbered row (`insert`), writes
the status by primary key (`mark`), stores its key and commits. `insert` also
stamps `finalized_at`, because the code takes the time there and then waits for
the document's row. Created documents are named by the request that creates
them, so a later request may finalize what an earlier one made. `StoreElsewhere`
lets another service take a key at any time.

A `report` is one of the readers of `ReportingService` and of the purchase history
of `CrmService`: it finds the finalized invoices of a day (`Find`) and then reads
their lines in one statement or one per invoice (`SumLines`). `Midnight` lets the
day end at any time.

`book` has one entry per commit, which stands for the journal entry, the stock
movements, the payment row and the written status of that transaction.
`SaleBook` is the promise: each entry is whole (the document made or the status
written, and every line moved or none) and was legal for the document as the first
`seen` entries had left it. Like `BalanceLedger` it is weaker than a serial book
on purpose, since the code judges copies; what follows from it all the same is
stated at its end: a second finalization or a lost status needs an overlap.

Abstracted: each line is one unit of a product whose level row exists, a
document has one location or none, amounts are positive or not, the parties
exist and the chart of accounts is there. `void` is in the table of transitions
but no operation makes it.

### Purchases: `PurchaseReceipts`

`PurchasingService` in the same step structure. Confirming, cancelling,
receiving and paying judge a copy of the order (`order`) and, where the code
loads them, of its lines (`lines`). A finalization takes the receipt's lines one
after the other: stock level (`level`, `write`), then `quantity_received` as an
absolute value computed from the copy (`line`), in any order because the code
sorts nothing; then the liability (`count`, `insert`), the receipt and the order
(`markReceipt`, `markOrder`, flushed by the statements that follow), key, commit.
`markOrder` locks the row in any case, since `touch()` changes it, but writes the
status only when it differs from the copy, as the ORM does: this is why an order
cancelled in the meantime may stay cancelled.

Abstracted: one line per product and per order line, level rows exist, costs are
positive or not, amounts paid are positive, the supplier is linked. A journal
remembers whose it is, which products its transaction moved and how many journals
there were when it read the lines.

### Books: `Journals`

`AccountingService`, with the posting as a request of its own; Sales and
Purchasing post within longer transactions in their own modules. A keyed request
looks its key up (`lookup`). An entry then creates the accounts the chart lacks,
one SELECT and one INSERT each (`chart`, `account`); a reversal or a stand-alone
allocation loads the journal it is about (`original`). What posts counts the
journals (`count`), inserts the numbered row with its lines (`insert`), a
reversal marks the original by primary key (`mark`), and the key is stored
(`recheck`, `claim`) before the commit. Accounts, numbers, originals and keys are
locked until then. Requests name the journals they create, so one request may
reverse or allocate what another has just posted.

Amounts have any number of decimal places (`schemas/sales.py`,
`schemas/purchasing.py` and the services bound them from below only), while
`journal_lines.debit` and `.credit` are `Numeric(18, 4)` (`models/accounting.py`).
So amounts are counted in units finer than the columns': `Unit` of them make one
ten-thousandth. `post_journal` checks the lines as they were given (`Postable` of
`NewLines`), and the row it commits holds what the columns make of them (`Stored`,
`Rounded`: to the nearest, ties away from zero, as PostgreSQL does). A reversal and
the amount of an allocation work on the rounded values. The accounts of the lines
are foreign keys: an unknown one is refused when the lines are flushed, after the
number has been taken (`RejectAccounts`).

Abstracted: the source of an entry is its
request; the `FinancialEntry` row of an entry is the `what` of its journal;
accounts are never deleted, so consecutive SELECTs that find their account are
one step; the target of an allocation, currencies and parties are left out. The
module has no deadlock detector: `EveryRequestEnds` shows that none is needed,
because every request locks in the same order.

### Who may act: `Access`

A request resolves its session (`resolve_user`), its membership, scopes and roles
(`build_tenant_context`), its permission (`require_perms`) and, for work that
needs one, its capability (`require_capability`): labels `session`, `member`,
`scopes`, `roles`, `codes`, `capability`, one statement each. Then it acts on what
it has read. An operation of the membership, role, authorization and entitlement
services loads its row (`load`), flushes it (`write`, where it may wait or clash)
and commits. Activation asks for a session only. `create_business` seeds missing
permissions one by one (`seed`, `permission`) and commits three times: with the
permissions the business and its member (`Found`), then the Owner role
(`Appoint`), then the event (`Announce`); it may crash between any two.

Everything a decision depends on is kept in `past`, one record per commit, so that
a property can say when something was true. A business and its Owner role are
named by the request that creates them, and so is a new role. An invitation may
carry an idempotency key (`lookup`, `recheck`, `claim`): the key remembers the
request that stored it, and its row answers as long as the membership is there,
whatever its status has become. A key that another service has used
(`StoreElsewhere`) names a row that is no membership: `invite` goes on as if it
were new, and `idem.store` keeps the other service's row.

Abstracted: one session per user, which may end; branches stand for branches and
locations; a command names a member of its own business; slugs, the seeding of
the capability catalogue, limits and validity windows are left out. The routes of
suspend and revoke commit before they compare the membership's business and answer
403; as commands name members of their own business, that comparison always
succeeds here. The row policy is represented in `Outbox` only.

### Rows: `Registry`

The services that keep single rows, `ConfigurationService`, `CrmService`,
`CatalogService`, `PartyService`, the registration and login of `IdentityService`
and the plain operations of `OrganizationService`, differ in what they look for
before they write and not in how they write. So a handler is a `course`: the
table, the row it refers to, what it looks for (nothing, the row by its
identifying columns one after the other, or the row by its name), what it does
when that is there or missing (`update`, `answer`, `insert`, `refuse`), and whether
it takes a key. A request walks through `lookup`, `need`, `find`, `write`,
`recheck`, `claim` and `commit`. Two handlers go on after a commit: `update_profile`
commits the profile it had to create, reads it again (`refresh`) and then writes its
values; `create_business` has committed business and member with the permissions,
commits the Owner role (`Appoint`) and then its audit record (`Announce`), and may
fail before either. A row is changed from a copy, and the UPDATE names the columns that differ from that
copy (`FieldsAfter`), as the ORM's does: this is why two writers of different
columns of one row do not lose each other's values.

`book` has one entry per commit, with what the request believed it replaced
(`before`) and wrote (`after`). It also stands for the credential, event
and customer activity rows of the same transaction. `audited` are the entries that
have an audit record: a course `records` creations, updates, both or none
(`update_profile` and `update_business` write no record of an update). Only
`ConfigService.set` passes a `before`, and records of profiles, users and sessions
show no columns; `ShowsBefore` and `ShowsAfter` say so.

Abstracted: the membership check of the caller (see `Access`), two identifying
and two other columns per table, a refused value (`valid`) whatever the reason.
`register` inserts email and phone in one statement, and its keys have a scope of
their own (`StoreElsewhere` leaves them alone). There is no deadlock detector:
`EveryRequestEnds` shows that none is needed, because a request that waits for a
key already holds its row and nobody takes them the other way round.

### Events: `Outbox` implements `EventDelivery`

`EventService.emit` stages an event and its entry in the transaction of a
mutation (`EndMutation` commits or aborts it). Each worker claims the oldest
claimable entries that nobody has locked (`FOR UPDATE SKIP LOCKED`), delivers
them one by one, and commits marks and attempts for the whole batch. A delivery
is outside the database, so `RollbackBatch` undoes everything but `sent`; a
failed delivery may or may not have reached the consumer. Time is abstracted to
"the back-off has passed" (`FallsDue`). `Readable` are the events the worker's
database role may see.

`EventDelivery` is the promise to consumers: delivered only after the mutation
committed, decided once, published only after a delivery, nothing after the
decision.

## Runs

| Run | Question | Answer |
|---|---|---|
| `stock_mixed` | three unkeyed commands of any kind on a stocked and an empty cell; or three keyed ones, a key shared by operations, a key of another service, an unknown location | trail, refinement and termination hold; key and effect are atomic; a retry after success is without effect, with two exceptions the property names |
| `stock_audit_chain` | is the movement table alone a continuous trail? | no: two requests that read one level leave a gap, the first update is lost |
| `stock_key_race` | is a retry always without effect? | no: one that overlaps the first attempt posts again |
| `sales_lifecycle` | three requests in fifteen workloads over quotes, orders, invoices, returns and reports | every commit is a whole, legal entry of the book; numbers are dense; reports agree with the books; every request ends |
| `sales_finalized_twice` | is an invoice finalized once? | no: two overlapping requests both issue and both post |
| `purchase_receipts` | up to four requests in ten workloads over orders in every status and receipts that do not all fit | totals never exceed the order; totals, status, stock and liabilities agree unless receipts overlap; every request ends |
| `purchase_cancel_race` | has a cancelled order no goods? | no: a receipt finalized after the lines were read is not seen |
| `journal_postings` | three postings, reversals and allocations in 89 workloads, on a new business and on one with an invoice | every entry balances as given, and as stored up to rounding; numbers, chart, allocations and reversals stay exact; who fails has lost to somebody; every request ends |
| `access_decisions` | three requests in 25 meetings: work against suspension, revocation, scope, logout and withdrawal; an invitation and its retry; roles; creations | decisions are right and dated; revoked members, repeated invitations, withdrawn capabilities and owners are what the properties say; every request ends |
| `registry_rows` | three commands on single rows in sixteen workloads: first writers of one key, updates from stale copies, one email, phone, slug, link or key twice | no change is lost, the trail breaks only by overlap, a failure leaves nothing but a profile or an unfinished business, every request ends |
| `outbox_delivery` | three events, two workers, failures and a lost batch | the promise is kept, redelivery is bounded, every event is decided |
| `outbox_row_policy` | the worker as it is configured, under the row policy | nothing is ever delivered: pending entries stay pending |

### Properties

*Stock.* `NeverNegative` and `LevelFollowsLog` are safety under stale reads; they
and `TransferIsWhole` are proved, so no run repeats them.
`SequentialChain` is exactly the continuity that remains: a posting that read
after its predecessor committed continues the trail. `AuditChain` drops the
condition and is refuted. `RefinesLedger` covers partial
failure; `KeyRecordsEffect`, `RetryAfterSuccess` and the refuted `KeyedOnce`
cover idempotency in the same conditional and unconditional forms.

*Sales.* `RefinesBook` says that the transaction of many statements is one entry of
the book: status, stock, journal and successor together, judged by a state the
document really had. `NumbersDense` says that counting without a lock still
numbers in commit order, because the unique index lets only one request of a
business take the next number. `OnceIfSequential` and `LostOnlyToOverlap` say how
far a stale status can go: a second finalization, or a cancellation of a posted
invoice, needs a request that read the document before the first one committed.
`FinalizedOnce` drops that condition and is refuted. `ReportMatchesBooks` relates
a report to the entries: every invoice it counts is a posted sale of that day
with the lines that left the stock, and it misses a sale only when the invoice
was written again by a request that had overlapped it. `ClosedDayMissesOne` is
about midnight: `finalized_at` is taken some statements before the commit, so a
report of a day that is over may still miss a sale of it. It can miss only one,
because the stamp is taken under the lock of the next journal number.

*Purchases.* `NeverOverReceived` survives overlapping receipts because each
total comes from a total that left room; what overlap does break is the link
between totals and stock, so `TotalsFollowReceipts` states it for orders whose
receipts each saw the ones before, together with the only statuses that may then
disagree: those a confirmation or a cancellation writes that had read the order
before any goods came. A late confirmation needs four requests (two confirm one
draft, a receipt is made and finalized between their commits). `ReceiptIsPosted` relates receipt, stock and liability of one
transaction, and a payment to an earlier liability.
`CancelledHasNoGoods` is the refuted promise of `cancel_order`.

*Books.* `EntriesBalance` is double entry. What `post_journal` checks
is never a surprise to `post_entry`, for every entry type, amount and tax that it
lets through. What the journal then holds balances, and can be reversed, if the
columns hold the amounts as they were given; that is so for every reversal. If they
do not, the property says how far the sides can come apart: half a unit of the
column for each line, and not at all if there are two lines, as both are rounded
alike. It does not say that stored journals balance, because they need not (see
"Where code and documents differ"). `OnePoster` says why counting without a lock is safe
for numbers. `PostingIsWhole` relates chart, lines, journals and allocations:
all of a posting or nothing. `ReversalIsExact` relates an original and its
mirrors; the code does post two mirrors when two reversals overlap ("Journal
already reversed" is judged on a copy), so the property states what then holds:
the second one read the original before the first was committed, and the original
points to the last. `ClashMeansProgress` bounds what concurrency costs: a posting
that fails on a unique index has lost to a request that got through.

*Access.* A decision is never taken back: `DecisionIsDated` says that every check
was true at moments since the request resolved its
session, so what it outlives it has overlapped: the membership before what is
decided for the member, the permission before the capability. It leaves open when
the scope is decided, on which code and contracts differ (see below). `RevokedStaysOut` says that
`activate` refuses a revoked member up to an overlap; it says "through another
status" because `suspend` takes a revoked membership, after which activation is
allowed without an invitation. It allows that path and shows that there is no other. `WithdrawalIsFinal` is as strong as it sounds:
after `revoke` the unique row of the grant is soft deleted, `grant` does not find
it, inserts and fails, for ever. `OwnersHoldAll` covers the three commits and the
race of creations when permissions are missing, all of them or those that a release
has added: all are there before a business has a member, an Owner role is complete when
it appears, and only a creation that has not returned can leave a business
without one.

`RepeatedInviteIsOne` is about an invitation sent again with its key: what happened
to the membership in between (accepted, suspended, revoked) stays, unless the
retry overlapped or another service had used the key.

*Rows.* `NoChangeLost` says that a column holds the last value anyone meant to
change it to, although every writer writes from a copy. CORE_CONTRACTS.md §9
calls the configuration "last-write-wins"; this is the precise form of it, since a
writer that gives the value its copy already has writes nothing and does not win.
`TrailBreaksOnlyByOverlap` asks the same of the audit records that show columns: the
"before" of `ConfigService.set`, and the "after" of every creation and update that
records one, are what the row held, unless somebody changed that column between read
and commit. A stale copy makes the "after" untrue of columns the command leaves
alone, as `update_product` records the whole copy.
`WholeOrNothing` relates outcomes to rows: a failed request has left no row, key
or entry, with the two exceptions the code makes, the profile that `update_profile`
commits before it looks at the values, and a business whose creation stopped after
the first of its commits. The audit record is in the commit of what it records, but
that of a business is in the last of three: it is there if and only if
the creation has returned.
`TwiceOnlyIfOverlapped` is what the keys of
`create_product` and `register` are worth: two rows under one key need an overlap,
or another service that has used the key.

*Outbox.* `DeliveryBound`, `KeepsPromise` and `EventuallySettled`, as above.

### Bounds, and why they are enough

- Requests: three (four for purchases). Every conflict of the code is between two
  transactions; the third one observes, closes a wait or commits in between. Each request runs one
  command, its retry is another request.
- Cells: two (opposite transfers need two) and, with keys, a third one whose
  location is unknown. Opening stock 2 lets one issue succeed and two overlap.
- `stock_mixed` has one workload per multiset of three commands of a menu of seven
  (`Meetings`): nothing in the module tells requests apart, so the other orders
  are renamings of these.
- `sales_lifecycle` starts from fifteen workloads instead of all combinations of
  commands: each workload is a set of three requests that touch the same
  document, key or product, listed with its meaning in `MCSalesDocuments`. `LastDay` = 2: a report of the
  first day is made on that day, across midnight, or after it.
- `purchase_receipts` does the same with ten workloads; one of them needs a fourth
  request, which asks for a receipt that is not there in the others. The open order has two
  of one product and one of another: receipts of one, two and both lines make
  fitting, partial and excessive sums, and two orders of lines deadlock.
- `journal_postings`: nine workloads of three requests that meet at one journal,
  key, number or chart, each with its meaning in `MCJournals`, and every entry
  type with amounts of 1, 2, 4 and 5 and taxes of 0, 1, 2 and 4 finest units. `Unit`
  is 4, so that these are rounded to nothing, up from a tie, not at all and down, alone
  and together. Seven accounts are the real chart.
- `registry_rows`: sixteen workloads, each with its meaning in `MCRegistry`; two
  ordinary columns, so that writers can differ in one and agree in the other, and
  two identifying ones, since a user has an email and a phone.
- `access_decisions`: 25 meetings of three requests, each with its meaning and its
  state of the books in `MCAccess`: two permissions (one to manage, one to work)
  so that seeding has an order, two branches so that a scope can exclude one.
- Outbox: three events and batches of two, so that a batch leaves one event to
  the other worker; two attempts, so that failure, back-off and giving up occur;
  one rolled back batch (`MaxCrashes`), the only counter that bounds behaviour.
- Stock, sales, purchases, books, access and rows need no counter bounds: a request ends after its one command.
- No run uses `SYMMETRY`: most of them check liveness.

### Fairness

`FairSpec` of the request modules is weak fairness of each request's own steps:
the event loop resumes a coroutine whose statement has returned, PostgreSQL
grants queued locks and aborts one member of a deadlock. A step that waits for
a lock is not enabled, so nothing is assumed about a request that waits for ever;
that it does not is what `EveryRequestEnds` shows. Crashes are never fair.
`FairSpec` of `Outbox` is weak fairness of each worker (`--loop`) and of the
passing of a back-off. That a mutation ends is not assumed.

## Proofs

`StockLedgerProofs`, `SalesDocumentsProofs`, `PurchaseReceiptsProofs`,
`JournalsProofs`, `AccessProofs`, `RegistryProofs` and `OutboxProofs` prove every
safety property that a passing run checks, and the three refinements. They
hold for every value of the constants that satisfies the modules' `ASSUME`s: any
number of requests, cells, documents, keys, commands, journals, members, rows, workers and events.

*Stock.* `NeverNegative` is not inductive: nothing in it says why a stale
read is harmless. The invariant `LedgerInv` adds where a request is in its
command (`Progress`), that row locks are exclusive (`RowLocks`), that what a
request has read was a committed balance at that time and that what it has
written is not negative (`Reads`), and that only finished requests are in the log
(`PostedAreDone`, `PostedReads`). `LevelFollowsLog` is part of it: each read is a
committed balance because the level always is one. From it follow type
correctness, the safety properties and `LedgerRefinement` (initial states map to
initial states, each step to one posting or a stutter). The key properties need a
second invariant, `KeyInv`, proved on top of it.

*Sales.* All safety properties of the module are theorems. They rest on four
assumptions about the business at the start, which TLC evaluates for the
instances: its book and documents agree (`BookAssumption`, `SalesAssumption`), its
numbers are dense (`NumbersAssumption`), and constants have their types. The
argument goes in layers, each proved on top of the ones before:

- `SalesInv`: where a request is in its command and what it has locked and moved
  there (`Place`), that its copy is the document as the first `seen` entries had
  left it and passes the checks (`Copy`), and that the status of a document can be
  read off the book (`Recorded`). It is enough for `BookRefinement`: `CommitFacts`
  says what a commit does to book and documents, and `CommitRecords` finds in it
  the entry of `SaleBook`.
- `SoundInv`: who judged a draft has seen no entry that writes the document's
  status (`DraftIsUnwritten`), since nothing makes a document a draft again. Hence
  `OnceIfSequential` and `LostOnlyToOverlap`.
- `NumberInv`: a number that is computed is at most the next one, an inserted one is
  the next, and two requests never hold a number of one series (`Numbering`): the
  second would wait for the first's unique value, or clash once it is committed.
  Hence `NumbersDense`.
- `ClosedInv`: after the first late sale of a closed day no request in flight
  carries a stamp of that day, because a stamp is taken with a journal number and
  `NumberInv` allows one at a time. Hence `ClosedDayMissesOne`.
- `ReportInv`: documents and book agree at any time (`SalesAgree`), so also when a
  report looked (`Accounted`); entries made later change nothing it has counted.
  Hence `ReportMatchesBooks`.

*Books.* None of the properties is inductive: what a request posts depends on
what it read several statements ago. `JournalsInv` adds, for each request, where
it can be and what it has checked by then (`Place`: an entry past the chart has
every account, committed or locked by itself), what it holds there (`Lock`: a
number it holds is the next one, and everything that posts and has passed
`insert` holds it), and what others may have done since it first read (`Race`: a
number that is taken, an account that exists by now, or a key that is used means
a journal it did not see). With exclusive locks (`Exclusive`) this makes posters
one after the other: a commit changes the next number only when nobody else
holds one. `Recorded` holds the properties of the committed rows. The commit is
proved field by field (`CommitType`, `CommitNumbers`, `CommitPosting`,
`CommitReversal`, `CommitOthers`), every other step by `OwnStep` or `EndStep`,
which say once why a step of one request leaves the others alone. Five
theorems follow: types, `OnePoster`, `PostingIsWhole`, `ReversalIsExact`,
`ClashMeansProgress`. `BooksBalance`, proved on top, adds that whatever is past
`post_journal`'s checks has lines that they accept (`Postable`) and that a journal
holds what the columns make of these: an entry by the table of its lines
(`EntryLinesBalance`), a reversal because mirroring exchanges the two sums
(`MirrorPostable`) and rounding leaves a column's values alone (`StoredAgain`).
`RoundedFacts` bounds what rounding does to one amount, `SumsWithin` what it does to
a sum, and `StoredNear` combines them to the bound of `EntriesBalance`, for every
`Unit`. `ReversalsBalance` is the part of it that needs no condition.

*Sums.* `SumLemmas` is what those two modules need to know of a fold: the community
modules define `SumFunctionOnSet` by a recursion over an element that CHOOSE
picks. The lemmas show that the recursion has a solution, that any element may be
taken out first, and hence that one element more adds its value (`SumAdd`) and that
sums of terms that each move a little move by that much for each term (`SumsWithin`). Induction is by the
smallest counterexample in Nat, which needs no theorem with an operator parameter.

*Purchases.* `Inv` has for each request where it can be (`Place`), what it has
locked there (`Lock`: it holds a level and a line together, and only for lines
that fit its copy), that the journal number it holds is the next one (`Serial`),
what its copies still say (`Copies`: quantities ordered never change; the totals
it read are the totals unless a receipt of the order was committed since), and
that a confirmation or cancellation has read before the first receipt (`Ahead`).
`Entered` and `Totals` are about the committed rows. Numbers are what makes the
argument work: a receipt commits its liability with the next journal number, so
"who has seen what" is a comparison of numbers. `NeverOverReceived` does not need
it: a line is written only while its row lock is held, to a total that fits the
quantity ordered. `TotalsFollowReceipts` does, and `SumAdd`: a finalization that
has seen all earlier ones adds its receipt to the sum. The opening rows must be
what sequential requests leave (`PastAssumption`, evaluated by TLC), and there is
a product. The commit is proved table by table (`CommitOrders`, `CommitReceipts`,
`CommitReceived`, `CommitJournals`), then part by part of the invariant.

*Access.* `Inv` says of each request which moments of `past` it has read and that
what it has resolved was true then, in order (`DatedOf`), what its copy of a row
was, what it holds, how far a creation has come (`CreatingOf`), and of the
committed books that they are the last record of `past` and that grants follow
from the commands that have returned (`GrantsInv`). Records of `past` never change
and the lists only grow, so most of it is kept by every step; the work is in the
commits, one lemma for each kind of row. A run opens with books that hold
together: roles and scopes belong to members and roles there are, and a role
holds only permissions that have been seeded (`ScenesAssumption`).

*Rows.* `Inv` says of each request that its copy of a row is what the book said of
that row when the request read it (`CopyOf`), that a request that has not committed
has left nothing (`ProgressOf`, `OutcomeOf`), that the key it looked up without an
answer was not in the book then (`SeenOf`), and that a key once taken stays taken
(`KeyUsed`, `KeysKept`). `NoChangeLost` follows from the columns that `FieldsAfter`
names: a column that a writer leaves out keeps the value of a later entry.
No other course shares a key with a registration, whose keys have the platform's
scope where those of a product have the business's (`ScopeAssumption`).
`TrailBreaksOnlyByOverlap` and `TwiceOnlyIfOverlapped` compare positions in
the book (and what is audited is part of it): what was committed when a request read, and what since.

*Outbox.* `OutboxInv` adds that no entry is in two batches (`Exclusive`), that a
batch holds what it has delivered, failed and still has, all of it claimable
(`Batches`), that an entry never decided has no attempts (`Fresh`), and that
deliveries are counted attempts or rolled back batches (`Counted`). `DeliveryBound` and
the refinement `KeepsPromiseHolds` follow.

What the proofs have changed in the modules: the property about order totals was
false for four requests (a late confirmation overwrites "partial" or "received"), which three
requests cannot show; it now says so and a workload of `purchase_receipts` reaches
the case. Two arms of a CASE in `Access` (`AfterContext`) overlapped, which TLC
resolves by order and TLA+ leaves open; they are disjoint now.

*Only model-checked:* liveness (`EveryRequestEnds`, `EventuallySettled`), because
the proof system handles neither fairness nor ENABLED; and the five refuted
properties, which are counterexamples.

## Findings

1. An idempotency key does not stop a retry that overlaps the first attempt
   (`stock_key_race`): `idem.store` returns the other request's row and the
   second effect commits.
2. Stock updates are lost when two requests read one level (`stock_audit_chain`):
   `version` is incremented but never compared.
3. An invoice can be finalized twice (`sales_finalized_twice`).
4. The worker sets no tenant, so for a role under the row policy it publishes
   nothing (`outbox_row_policy`).
5. An order can be cancelled although its goods were received
   (`purchase_cancel_race`): the check is made on copies.

## Where code and documents differ, without a run that refutes

These came up while modelling. The properties are about what the code does and are
worded so that neither reading is taken for granted.

- *Order of the checks.* `CORE_CONTRACTS.md:362-366` and `DOMAIN_CONTRACTS.md:133-135`
  put the scope last: membership, permission, entitlement, scope. The code refuses a
  branch out of scope before it reads any role (`security/service.py:384-407`), and a
  capability after both (`api/deps.py:129-150`). `Access` has the steps in the code's
  order. Each of them denies by default and no step changes anything, so the order
  decides which refusal a caller sees, and which check is the oldest when the request
  acts; `DecisionIsDated` leaves it open.
- *A balanced journal.* `post_journal` is to "post a balanced journal"
  (`accounting/service.py:117`) and refuses a line of nothing (`:136`), but it
  looks at the amounts before `Numeric(18, 4)` rounds them
  (`models/accounting.py:95-100`). An amount of 0.00001 is stored as two lines of 0,
  which the constraint `ck_journal_line_debit_xor_credit` (`alembic/versions/20260921_0007_accounting_core.py:107`)
  admits against its name; 1.00005 with a tax of 0.00005 is stored as a debit of
  1.0001 and credits of 1.0002. Such a journal cannot be reversed, since
  `reverse_journal` reads the stored lines and `post_journal` then refuses them.
  `EntriesBalance` states what is true of both; `MCJournals` has a workload of either.
- *Audited updates.* `CORE_CONTRACTS.md:179-183` counts "organization create/update
  paths" among the audited mutations; `update_business` (`organization/service.py:100-112`)
  writes no record, and nor does `update_profile` (`crm/service.py:120-163`).
  `create_business` writes its record two commits after the business, where
  the same place asks for one unit of work.
- *One effect per key.* Beyond the overlap of finding 1, an invitation whose key another
  service has used is never remembered (`security/service.py:57-60`): the same request
  later invites again. `RepeatedInviteIsOne` and the other key properties name
  the case.

## Not modelled, and why

- Reporting beyond the daily, product and customer sums: the counts of stock, orders,
  receipts, payments and journals are single queries, and the listing queries
  change no state.
- A change of slug by `update_business`: it writes the slug without looking for
  another business that has it, and fails on the unique index; the updates of
  `Registry` change no identifying column. The race is that of `create_business`.
- The refusal of a payment by `record_payment` of Purchasing because its amount is not
  positive: the amounts of `PurchaseReceipts`' payments are.
- Properties the code does not promise: payments are not bounded by an invoice's
  total, nor returns by what was sold, and back-off and several workers deliver
  events of one aggregate out of order.
- Decimal arithmetic of quantities and prices: they are integers, the code never
  divides them. The rounding of journal amounts is modelled in `Journals` only.
- HTTP parsing, password hashing, log format, settings.
- Reserved quantities: no operation of the service writes them.
- PostgreSQL itself, beyond row locks, unique indexes, READ COMMITTED snapshots
  per statement and deadlock detection.

## Plan

The components whose operations change state are modelled and their safety
properties are proved. What is left, in order:

1. **Abstract receipt**: what `PurchaseReceipts` promises of an order, as `SaleBook`
   does for a document, with the refinement proved from `Inv`.
2. **Composition**: a sale that emits its event, with the outbox, and the postings
   of `Journals` inside a sale, so that double entry and delivery hold across
   services; today the two meet in the entries of the books.
3. **Operators**: the fold lemmas of `SumLemmas` applied to the trial balance, the
   sum over all journals of an account.
