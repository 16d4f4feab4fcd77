------------------------------ MODULE StockLedger ------------------------------
(***************************************************************************)
(* InventoryService (core_platform/inventory/service.py) with the          *)
(* idempotency helpers (core_platform/shared/idempotency.py), as several   *)
(* HTTP requests run it at the same time.                                  *)
(*                                                                         *)
(* Each request is one AsyncSession, hence one PostgreSQL transaction at   *)
(* READ COMMITTED.  Every await on the session is a step of its own:       *)
(*   - a SELECT returns what is committed and takes no lock;               *)
(*   - the service computes the new on-hand in Python and flushes it as an *)
(*     absolute value, UPDATE ... WHERE id = ..., which holds the row lock *)
(*     until the transaction ends, and waits for another holder;           *)
(*   - an INSERT of a unique key waits for an uncommitted one of the same  *)
(*     key and fails when that one commits;                                *)
(*   - any exception, lost connection or deadlock rolls back everything.   *)
(***************************************************************************)
EXTENDS Integers, Sequences

CONSTANTS Requests,   \* HTTP requests, one session each; a client's retry is another one
          Cells,      \* (product, location) pairs of one business
          Known,      \* those whose product and location exist in the business
          Stocked,    \* those that already have a stock_levels row
          Opening,    \* their committed on-hand
          Keys,       \* idempotency keys of the business
          NoKey,      \* a request without a key
          TakenKeys,  \* those whose row another service's command has stored
          Nobody,     \* no idempotency row
          Elsewhere,  \* the row of another service's command
          Commands,   \* the commands clients send
          Workloads   \* which commands the requests carry, together

Ops == {"receive", "issue", "adjust", "transfer"}

\* "qty" is the quantity, or the counted on-hand of an adjust; "to" is the
\* destination of a transfer and repeats "cell" otherwise.
Command == [op: Ops, cell: Cells, to: Cells, qty: Int, key: Keys \cup {NoKey}]

ASSUME CommandsAssumption ==
  /\ Commands \subseteq Command
  /\ \A k \in Commands : k.op # "transfer" => k.to = k.cell
ASSUME WorkloadsAssumption == Workloads \subseteq [Requests -> Commands]
ASSUME NullsAssumption ==
  /\ NoKey \notin Keys
  /\ Nobody \notin Requests /\ Elsewhere \notin Requests /\ Nobody # Elsewhere
ASSUME CellsAssumption == Known \subseteq Cells /\ Stocked \subseteq Cells
ASSUME OpeningAssumption ==
  /\ Opening \in [Cells -> Nat]
  /\ \A c \in Cells \ Stocked : Opening[c] = 0

VARIABLES
  \* committed
  present,  \* cells with a stock_levels row
  stock,    \* quantity_on_hand (0 where there is no row)
  log,      \* postings in commit order; one stands for its stock_movements,
            \* audit, event and outbox rows
  keyRow,   \* keyRow[k]: the request that stored the idempotency row of k
  \* per request
  pc, cmd,
  seen,     \* seen[r][c]: on-hand value r read, and Len(log) when it did
  since,    \* Len(log) when r looked its key up
  \* uncommitted
  wrote,    \* cells whose row r has updated, and therefore locked
  made,     \* cells whose row r has inserted
  staged    \* requests that have inserted their idempotency row

db == <<present, stock, log, keyRow>>
vars == <<present, stock, log, keyRow, pc, cmd, seen, since, wrote, made, staged>>

Ledger == INSTANCE BalanceLedger

InFlight == {"lookup", "read", "insert", "write", "recheck", "claim", "commit"}
Finished == {"done", "replayed", "failed"}
NotRead == [val |-> 0, at |-> 0]

Init ==
  /\ present = Stocked
  /\ stock = Opening
  /\ log = <<>>
  /\ keyRow = [k \in Keys |-> IF k \in TakenKeys THEN Elsewhere ELSE Nobody]
  /\ pc = [r \in Requests |-> "lookup"]
  /\ cmd \in Workloads
  /\ seen = [r \in Requests |-> [c \in Cells |-> NotRead]]
  /\ since = [r \in Requests |-> 0]
  /\ wrote = [r \in Requests |-> {}]
  /\ made = [r \in Requests |-> {}]
  /\ staged = {}

Goto(r, label) == pc' = [pc EXCEPT ![r] = label]

-----------------------------------------------------------------------------
(* The arithmetic of a command *)

\* A transfer writes its source first, then its destination.
Cell(r) == IF cmd[r].cell \in wrote[r] THEN cmd[r].to ELSE cmd[r].cell

LastCell(r) == cmd[r].op = "transfer" => cmd[r].cell \in wrote[r]

Delta(r, c) ==
  CASE cmd[r].op = "receive" -> cmd[r].qty
    [] cmd[r].op = "issue" -> -cmd[r].qty
    [] cmd[r].op = "adjust" -> cmd[r].qty - seen[r][c].val
    [] cmd[r].op = "transfer" -> IF c = cmd[r].cell THEN -cmd[r].qty ELSE cmd[r].qty

Overdraws(r, c) == seen[r][c].val + Delta(r, c) < 0

IllFormed(r) == cmd[r].op = "transfer" /\ cmd[r].to = cmd[r].cell

Valid(r) ==
  /\ {cmd[r].cell, cmd[r].to} \subseteq Known
  /\ IF cmd[r].op = "adjust" THEN cmd[r].qty >= 0 ELSE cmd[r].qty > 0

-----------------------------------------------------------------------------
(* Waiting for another transaction *)

HoldsRow(b, c) == c \in wrote[b]

SameKey(a, b) == cmd[a].key = cmd[b].key

\* Request r cannot go on before b ends.
WaitsFor(r, b) ==
  /\ r # b
  /\ \/ pc[r] = "write" /\ ~Overdraws(r, Cell(r)) /\ HoldsRow(b, Cell(r))
     \/ pc[r] = "insert" /\ Cell(r) \in made[b]
     \/ pc[r] = "claim" /\ b \in staged /\ SameKey(r, b)

Waits(r) == \E b \in Requests : WaitsFor(r, b)

InDeadlock_Undetected(r) == FALSE
\* r is on a cycle of waiting transactions: each of S waits for one of S, and
\* is waited for by one of S.
InDeadlock(r) ==
  \E S \in SUBSET Requests :
    /\ r \in S
    /\ \A a \in S : (\E b \in S : WaitsFor(a, b)) /\ (\E b \in S : WaitsFor(b, a))

Release(r) ==
  /\ wrote' = [wrote EXCEPT ![r] = {}]
  /\ made' = [made EXCEPT ![r] = {}]
  /\ staged' = staged \ {r}

Rollback(r) ==
  /\ Goto(r, "failed")
  /\ Release(r)
  /\ UNCHANGED <<db, cmd, seen, since>>

-----------------------------------------------------------------------------
(* idem.lookup at the head of every command *)

\* The row answers only if its resource is a stock movement: any operation of
\* this service answers a receive, issue or adjust; a transfer needs the two
\* movement ids only a transfer records.
HasPrior_Never(r) == FALSE
HasPrior(r) ==
  /\ cmd[r].key # NoKey
  /\ keyRow[cmd[r].key] \in Requests
  /\ cmd[r].op = "transfer" => cmd[keyRow[cmd[r].key]].op = "transfer"

\* transfer() refuses equal locations before it looks the key up.
Refuse(r) == pc[r] = "lookup" /\ IllFormed(r) /\ Rollback(r)

Replay(r) ==
  /\ pc[r] = "lookup" /\ ~IllFormed(r) /\ HasPrior(r)
  /\ Goto(r, "replayed")
  /\ Release(r)
  /\ UNCHANGED <<db, cmd, seen, since>>

Reject(r) == pc[r] = "lookup" /\ ~IllFormed(r) /\ ~HasPrior(r) /\ ~Valid(r) /\ Rollback(r)

Proceed(r) ==
  /\ pc[r] = "lookup" /\ ~IllFormed(r) /\ ~HasPrior(r) /\ Valid(r)
  /\ Goto(r, "read")
  /\ since' = [since EXCEPT ![r] = Len(log)]
  /\ UNCHANGED <<db, cmd, seen, wrote, made, staged>>

-----------------------------------------------------------------------------
(* _get_or_create_level and _apply_delta, once per cell *)

ReadLevel(r) ==
  /\ pc[r] = "read"
  /\ Goto(r, IF Cell(r) \in present THEN "write" ELSE "insert")
  /\ seen' = [seen EXCEPT ![r][Cell(r)] =
                [val |-> stock[Cell(r)], at |-> Len(log)]]
  /\ UNCHANGED <<db, cmd, since, wrote, made, staged>>

InsertLevel(r) ==
  /\ pc[r] = "insert" /\ ~Waits(r) /\ Cell(r) \notin present
  /\ Goto(r, "write")
  /\ made' = [made EXCEPT ![r] = @ \cup {Cell(r)}]
  /\ UNCHANGED <<db, cmd, seen, since, wrote, staged>>

\* uq_stock_level_biz_product_location: someone else created the row.
InsertClash(r) ==
  /\ pc[r] = "insert" /\ ~Waits(r) /\ Cell(r) \in present
  /\ Rollback(r)

RejectShortage(r) ==
  /\ pc[r] = "write" /\ Overdraws(r, Cell(r))
  /\ Rollback(r)

AfterWrite_EachCell(r) == "commit"
AfterWrite(r) ==
  IF ~LastCell(r) THEN "read"
  ELSE IF cmd[r].key = NoKey THEN "commit" ELSE "recheck"

WriteLevel(r) ==
  /\ pc[r] = "write" /\ ~Overdraws(r, Cell(r)) /\ ~Waits(r)
  /\ wrote' = [wrote EXCEPT ![r] = @ \cup {Cell(r)}]
  /\ Goto(r, AfterWrite(r))
  /\ UNCHANGED <<db, cmd, seen, since, made, staged>>

-----------------------------------------------------------------------------
(* idem.store and the commit *)

\* store() looks again; a row that has appeared is returned without an error.
Recheck(r) ==
  /\ pc[r] = "recheck"
  /\ Goto(r, IF keyRow[cmd[r].key] = Nobody THEN "claim" ELSE "commit")
  /\ UNCHANGED <<db, cmd, seen, since, wrote, made, staged>>

ClaimKey(r) ==
  /\ pc[r] = "claim" /\ ~Waits(r) /\ keyRow[cmd[r].key] = Nobody
  /\ Goto(r, "commit")
  /\ staged' = staged \cup {r}
  /\ UNCHANGED <<db, cmd, seen, since, wrote, made>>

\* uq_idempotency_scope_key: the row appeared while the INSERT waited.
ClaimClash(r) ==
  /\ pc[r] = "claim" /\ ~Waits(r) /\ keyRow[cmd[r].key] # Nobody
  /\ Rollback(r)

PostingOf(r) ==
  [by |-> r, touched |-> wrote[r], names |-> {cmd[r].cell, cmd[r].to}, since |-> since[r],
   before |-> [c \in Cells |-> seen[r][c].val],
   at |-> [c \in Cells |-> seen[r][c].at],
   delta |-> [c \in Cells |-> Delta(r, c)]]

\* An UPDATE sets only the attributes that changed: an adjust that finds what
\* it counted leaves quantity_on_hand alone.
NewStock_AllCells(r) == [c \in Cells |-> seen[r][c].val + Delta(r, c)]
NewStock(r) ==
  [c \in Cells |-> IF c \in wrote[r] /\ Delta(r, c) # 0
                   THEN seen[r][c].val + Delta(r, c) ELSE stock[c]]

NewKeyRow_NotStored(r) == keyRow
NewKeyRow(r) ==
  [k \in Keys |-> IF r \in staged /\ k = cmd[r].key THEN r ELSE keyRow[k]]

Commit(r) ==
  /\ pc[r] = "commit"
  /\ Goto(r, "done")
  /\ present' = present \cup made[r]
  /\ stock' = NewStock(r)
  /\ log' = Append(log, PostingOf(r))
  /\ keyRow' = NewKeyRow(r)
  /\ Release(r)
  /\ UNCHANGED <<cmd, seen, since>>

-----------------------------------------------------------------------------
\* PostgreSQL aborts one transaction of a deadlock.
DeadlockVictim(r) == InDeadlock(r) /\ Rollback(r)

\* The process, the connection or the client goes away before the commit.
Crash(r) == pc[r] \in InFlight /\ Rollback(r)

Serve(r) ==
  \/ Refuse(r) \/ Replay(r) \/ Reject(r) \/ Proceed(r)
  \/ ReadLevel(r) \/ InsertLevel(r) \/ InsertClash(r)
  \/ RejectShortage(r) \/ WriteLevel(r)
  \/ Recheck(r) \/ ClaimKey(r) \/ ClaimClash(r)
  \/ Commit(r) \/ DeadlockVictim(r)

\* Every request has been answered.
Quiescent == (\A r \in Requests : pc[r] \in Finished) /\ UNCHANGED vars

Next == (\E r \in Requests : Serve(r) \/ Crash(r)) \/ Quiescent

Spec == Init /\ [][Next]_vars

\* The event loop runs every request whose statement has returned, and the
\* lock queues of PostgreSQL are first come, first served.
FairSpec == Spec /\ \A r \in Requests : WF_vars(Serve(r))

-----------------------------------------------------------------------------
(* Properties *)

\* Types, and a finished request holds no lock and no uncommitted row.
TypeOK ==
  /\ present \in SUBSET Cells
  /\ stock \in [Cells -> Int]
  /\ log \in Seq(Ledger!Posting)
  /\ keyRow \in [Keys -> Requests \cup {Nobody, Elsewhere}]
  /\ pc \in [Requests -> InFlight \cup Finished]
  /\ cmd \in [Requests -> Commands]
  /\ seen \in [Requests -> [Cells -> [val: Int, at: Nat]]]
  /\ since \in [Requests -> Nat]
  /\ wrote \in [Requests -> SUBSET Cells]
  /\ made \in [Requests -> SUBSET Cells]
  /\ staged \in SUBSET Requests
  /\ \A r \in Requests : pc[r] \in Finished =>
       wrote[r] = {} /\ made[r] = {} /\ r \notin staged

\* quantity_on_hand never goes below zero, although two requests may each
\* have checked the same on-hand (DOMAIN_CONTRACTS.md: negative stock policy).
NeverNegative == \A c \in Cells : stock[c] >= 0

\* The authoritative level is the "after" of the last committed movement that
\* moved the cell: no commit, in whatever order the row locks were granted,
\* leaves level and audit trail with different last words.
LevelFollowsLog ==
  \A c \in Cells : Ledger!IsBalance(log, stock[c], Len(log), c)

\* A request that read a cell after the previous movement had committed
\* continues the audit trail without a gap: its "before" is that "after".
SequentialChain ==
  \A i, j \in 1..Len(log) : \A c \in Cells :
    /\ i < j /\ Ledger!Moves(log, i, c) /\ c \in log[j].touched
    /\ \A m \in 1..Len(log) : i < m /\ m < j => ~Ledger!Moves(log, m, c)
    /\ log[j].at[c] >= i
    => log[j].before[c] = Ledger!After(log, i, c)

\* What the audit trail is for: read alone, it is continuous for every cell.
\* Concurrent requests break it (the UPDATE of one overwrites the other's).
AuditChain ==
  \A i, j \in 1..Len(log) : \A c \in Cells :
    /\ i < j /\ Ledger!Moves(log, i, c) /\ c \in log[j].touched
    /\ \A m \in 1..Len(log) : i < m /\ m < j => ~Ledger!Moves(log, m, c)
    => log[j].before[c] = Ledger!After(log, i, c)

\* A committed transfer has moved both its cells, by opposite amounts.
TransferIsWhole ==
  \A i \in 1..Len(log) :
    LET k == cmd[log[i].by]
    IN  k.op = "transfer" =>
          /\ log[i].touched = {k.cell, k.to}
          /\ log[i].delta[k.cell] = -log[i].delta[k.to]

\* A key is recorded exactly when a command that carried it has taken effect:
\* the row and the effect commit together or not at all.
KeyRecordsEffect ==
  \A k \in Keys :
    /\ keyRow[k] \in Requests =>
         cmd[keyRow[k]].key = k /\ \E i \in 1..Len(log) : log[i].by = keyRow[k]
    /\ (\E i \in 1..Len(log) : cmd[log[i].by].key = k) => keyRow[k] # Nobody

\* A client that retries a key after the first attempt has committed gets no
\* second effect - unless the recorded command's resource does not answer it:
\* a transfer after another operation, or a key another service has used.
RetryAfterSuccess ==
  \A i, j \in 1..Len(log) :
    LET k == cmd[log[j].by].key
    IN  /\ i < j /\ k # NoKey /\ cmd[log[i].by].key = k
        /\ log[j].since >= i
        => \/ keyRow[k] = Elsewhere
           \/ cmd[log[j].by].op = "transfer" /\ cmd[keyRow[k]].op # "transfer"

\* CORE_CONTRACTS.md: duplicate requests with the same key must not create
\* duplicate business effects.  Two that overlap do.
KeyedOnce ==
  \A i, j \in 1..Len(log) :
    cmd[log[i].by].key # NoKey /\ cmd[log[i].by].key = cmd[log[j].by].key => i = j

\* Every step of the service is a posting of the stale-balance ledger, or
\* leaves it alone.
RefinesLedger == Ledger!Spec

\* Row locks, unique keys and deadlocks never leave a request without answer.
EveryRequestEnds == \A r \in Requests : <>(pc[r] \in Finished)

=============================================================================
