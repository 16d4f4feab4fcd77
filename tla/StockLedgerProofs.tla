--------------------------- MODULE StockLedgerProofs ---------------------------
(***************************************************************************)
(* Theorems about StockLedger, for any number of requests, cells, keys and *)
(* commands.                                                               *)
(***************************************************************************)
EXTENDS StockLedger, TLAPS

-----------------------------------------------------------------------------
(* The inductive invariant *)

Writing(r) == pc[r] \in {"read", "insert", "write"}
Written(r) == pc[r] \in {"recheck", "claim", "commit"}

\* Where a request is in its command: a transfer writes two different cells,
\* one after the other, everything else writes one.
Progress ==
  \A r \in Requests :
    /\ pc[r] # "lookup" /\ pc[r] \in InFlight => ~IllFormed(r)
    /\ pc[r] = "lookup" => wrote[r] = {}
    /\ Writing(r) => \/ wrote[r] = {}
                     \/ cmd[r].op = "transfer" /\ wrote[r] = {cmd[r].cell}
    /\ Written(r) => wrote[r] = {cmd[r].cell, cmd[r].to}

\* Row locks are exclusive.
RowLocks == \A a, b \in Requests : a # b => wrote[a] \cap wrote[b] = {}

\* c is a cell whose on-hand r has read for its command.
HasRead(r, c) == c \in wrote[r] \/ (pc[r] \in {"insert", "write"} /\ c = Cell(r))

\* What a request has read was a committed balance, and what it has written
\* is not negative.
Reads ==
  \A r \in Requests : \A c \in Cells :
    /\ seen[r][c].at <= Len(log)
    /\ HasRead(r, c) => Ledger!IsBalance(log, seen[r][c].val, seen[r][c].at, c)
    /\ c \in wrote[r] => seen[r][c].val + Delta(r, c) >= 0

\* Only finished requests are in the log.
PostedAreDone == \A i \in 1..Len(log) : pc[log[i].by] = "done"

\* What a posting was computed from was committed before it.
PostedReads ==
  \A i \in 1..Len(log) : \A c \in log[i].touched :
    log[i].at[c] < i /\ Ledger!IsBalance(log, log[i].before[c], log[i].at[c], c)

LedgerInv ==
  /\ TypeOK
  /\ Progress
  /\ RowLocks
  /\ Reads
  /\ PostedAreDone
  /\ NeverNegative
  /\ LevelFollowsLog
  /\ PostedReads
  /\ TransferIsWhole

-----------------------------------------------------------------------------
(* Type correctness *)

LEMMA CommandType ==
  ASSUME TypeOK, NEW r \in Requests
  PROVE  /\ cmd[r] \in Commands
         /\ cmd[r].op \in Ops /\ cmd[r].cell \in Cells /\ cmd[r].to \in Cells
         /\ cmd[r].qty \in Int /\ cmd[r].key \in Keys \cup {NoKey}
         /\ Cell(r) \in Cells
  BY CommandsAssumption DEF TypeOK, Command, Cell

LEMMA DeltaType ==
  ASSUME TypeOK, NEW r \in Requests, NEW c \in Cells
  PROVE  Delta(r, c) \in Int /\ seen[r][c].val \in Int /\ seen[r][c].at \in Nat
<1>1. seen[r][c].val \in Int /\ seen[r][c].at \in Nat
  BY DEF TypeOK
<1>2. cmd[r].qty \in Int /\ cmd[r].op \in Ops
  BY CommandType
<1>. QED  BY <1>1, <1>2 DEF Delta, Ops

LEMMA PostingType ==
  ASSUME TypeOK, NEW r \in Requests
  PROVE  PostingOf(r) \in Ledger!Posting
<1>1. \A c \in Cells : Delta(r, c) \in Int /\ seen[r][c].val \in Int /\ seen[r][c].at \in Nat
  BY DeltaType
<1>2. cmd[r].cell \in Cells /\ cmd[r].to \in Cells
  BY CommandType
<1>. QED  BY <1>1, <1>2 DEF PostingOf, Ledger!Posting, TypeOK

LEMMA RollbackType ==
  ASSUME TypeOK, NEW r \in Requests, Rollback(r)
  PROVE  TypeOK'
  BY DEF TypeOK, Rollback, Goto, Release, db, InFlight, Finished

LEMMA TypeStep == TypeOK /\ [Next]_vars => TypeOK'
<1> SUFFICES ASSUME TypeOK, [Next]_vars PROVE TypeOK'
  OBVIOUS
<1>1. CASE UNCHANGED vars
  BY <1>1 DEF TypeOK, vars
<1>2. ASSUME NEW r \in Requests, Replay(r) PROVE TypeOK'
  BY <1>2 DEF TypeOK, Replay, Goto, Release, db, InFlight, Finished
<1>3. ASSUME NEW r \in Requests, Proceed(r) PROVE TypeOK'
  BY <1>3 DEF TypeOK, Proceed, Goto, db, InFlight, Finished
<1>4. ASSUME NEW r \in Requests, ReadLevel(r) PROVE TypeOK'
  <2>1. Cell(r) \in Cells
    BY CommandType
  <2>2. [val |-> stock[Cell(r)], at |-> Len(log)] \in [val: Int, at: Nat]
    BY <2>1 DEF TypeOK
  <2>. QED  BY <1>4, <2>1, <2>2 DEF TypeOK, ReadLevel, Goto, db, InFlight, Finished
<1>5. ASSUME NEW r \in Requests, InsertLevel(r) PROVE TypeOK'
  <2>1. Cell(r) \in Cells
    BY CommandType
  <2>. QED  BY <1>5, <2>1 DEF TypeOK, InsertLevel, Goto, db, InFlight, Finished
<1>6. ASSUME NEW r \in Requests, WriteLevel(r) PROVE TypeOK'
  <2>1. Cell(r) \in Cells
    BY CommandType
  <2>2. AfterWrite(r) \in InFlight
    BY DEF AfterWrite, InFlight
  <2>. QED  BY <1>6, <2>1, <2>2 DEF TypeOK, WriteLevel, Goto, db, InFlight, Finished
<1>7. ASSUME NEW r \in Requests, Recheck(r) PROVE TypeOK'
  BY <1>7 DEF TypeOK, Recheck, Goto, db, InFlight, Finished
<1>8. ASSUME NEW r \in Requests, ClaimKey(r) PROVE TypeOK'
  BY <1>8 DEF TypeOK, ClaimKey, Goto, db, InFlight, Finished
<1>9. ASSUME NEW r \in Requests, Commit(r) PROVE TypeOK'
  <2>1. log' \in Seq(Ledger!Posting)
    BY <1>9, PostingType DEF TypeOK, Commit
  <2>2. stock' \in [Cells -> Int]
    BY <1>9, DeltaType DEF TypeOK, Commit, NewStock
  <2>3. keyRow' \in [Keys -> Requests \cup {Nobody, Elsewhere}]
    BY <1>9 DEF TypeOK, Commit, NewKeyRow
  <2>4. present' \in SUBSET Cells
    BY <1>9 DEF TypeOK, Commit
  <2>. QED  BY <1>9, <2>1, <2>2, <2>3, <2>4 DEF TypeOK, Commit, Goto, Release, InFlight, Finished
<1>10. ASSUME NEW r \in Requests, Rollback(r) PROVE TypeOK'
  BY <1>10, RollbackType
<1>. QED
  BY <1>1, <1>2, <1>3, <1>4, <1>5, <1>6, <1>7, <1>8, <1>9, <1>10
     DEF Next, Serve, Refuse, Reject, InsertClash, RejectShortage, ClaimClash,
         DeadlockVictim, Crash, Quiescent

\* The state of the service has the types its code relies on, and a finished
\* request leaves no row lock and no uncommitted row behind.
THEOREM TypeCorrect == Spec => []TypeOK
<1>1. Init => TypeOK
  BY WorkloadsAssumption, OpeningAssumption, CellsAssumption
     DEF Init, TypeOK, InFlight, Finished, NotRead
<1>. QED  BY <1>1, TypeStep, PTL DEF Spec

-----------------------------------------------------------------------------
(* Balances of a ledger that grows *)

LEMMA BalanceKept ==
  ASSUME NEW l \in Seq(Ledger!Posting), NEW p \in Ledger!Posting,
         NEW v, NEW c, NEW n \in 0..Len(l), Ledger!IsBalance(l, v, n, c)
  PROVE  Ledger!IsBalance(Append(l, p), v, n, c)
<1>1. \A i \in 1..n : Append(l, p)[i] = l[i]
  OBVIOUS
<1>. QED
  BY <1>1 DEF Ledger!IsBalance, Ledger!Moves, Ledger!After

LEMMA BalanceMoved ==
  ASSUME NEW l \in Seq(Ledger!Posting), NEW p \in Ledger!Posting, NEW c,
         c \in p.touched, p.delta[c] # 0
  PROVE  Ledger!IsBalance(Append(l, p), p.before[c] + p.delta[c], Len(l) + 1, c)
<1>1. Append(l, p)[Len(l) + 1] = p /\ Len(l) + 1 \in 1..(Len(l) + 1)
  OBVIOUS
<1>2. ~ \E j \in 1..(Len(l) + 1) : j > Len(l) + 1
  OBVIOUS
<1>. QED
  BY <1>1, <1>2 DEF Ledger!IsBalance, Ledger!Moves, Ledger!After

LEMMA BalanceSame ==
  ASSUME NEW l \in Seq(Ledger!Posting), NEW p \in Ledger!Posting, NEW v, NEW c,
         ~(c \in p.touched /\ p.delta[c] # 0), Ledger!IsBalance(l, v, Len(l), c)
  PROVE  Ledger!IsBalance(Append(l, p), v, Len(l) + 1, c)
<1>1. \A i \in 1..Len(l) : Append(l, p)[i] = l[i]
  OBVIOUS
<1>2. Append(l, p)[Len(l) + 1] = p
  OBVIOUS
<1>3. 1..(Len(l) + 1) = (1..Len(l)) \cup {Len(l) + 1}
  OBVIOUS
<1>. QED
  BY <1>1, <1>2, <1>3 DEF Ledger!IsBalance, Ledger!Moves, Ledger!After

-----------------------------------------------------------------------------
(* The steps keep the invariant *)

LEMMA ProgressStep == TypeOK /\ Progress /\ [Next]_vars => Progress'
<1> SUFFICES ASSUME TypeOK, Progress, [Next]_vars PROVE Progress'
  OBVIOUS
<1> USE DEF Progress, Writing, Written, IllFormed, LastCell, InFlight
<1>1. CASE UNCHANGED vars
  BY <1>1 DEF vars
<1>2. ASSUME NEW r \in Requests, Replay(r) PROVE Progress'
  BY <1>2 DEF TypeOK, Replay, Goto, Release, db
<1>3. ASSUME NEW r \in Requests, Proceed(r) PROVE Progress'
  BY <1>3 DEF TypeOK, Proceed, Goto, db
<1>4. ASSUME NEW r \in Requests, ReadLevel(r) PROVE Progress'
  BY <1>4 DEF TypeOK, ReadLevel, Goto, db
<1>5. ASSUME NEW r \in Requests, InsertLevel(r) PROVE Progress'
  BY <1>5 DEF TypeOK, InsertLevel, Goto, db
<1>6. ASSUME NEW r \in Requests, WriteLevel(r) PROVE Progress'
  <2>1. cmd[r].op # "transfer" => cmd[r].to = cmd[r].cell
    BY CommandType, CommandsAssumption
  <2>. QED  BY <1>6, <2>1 DEF TypeOK, WriteLevel, AfterWrite, Cell, Goto, db
<1>7. ASSUME NEW r \in Requests, Recheck(r) PROVE Progress'
  BY <1>7 DEF TypeOK, Recheck, Goto, db
<1>8. ASSUME NEW r \in Requests, ClaimKey(r) PROVE Progress'
  BY <1>8 DEF TypeOK, ClaimKey, Goto, db
<1>9. ASSUME NEW r \in Requests, Commit(r) PROVE Progress'
  BY <1>9 DEF TypeOK, Commit, Goto, Release
<1>10. ASSUME NEW r \in Requests, Rollback(r) PROVE Progress'
  BY <1>10 DEF TypeOK, Rollback, Goto, Release, db
<1>. QED
  BY <1>1, <1>2, <1>3, <1>4, <1>5, <1>6, <1>7, <1>8, <1>9, <1>10
     DEF Next, Serve, Refuse, Reject, InsertClash, RejectShortage, ClaimClash,
         DeadlockVictim, Crash, Quiescent

LEMMA RowLocksStep == TypeOK /\ RowLocks /\ [Next]_vars => RowLocks'
<1> SUFFICES ASSUME TypeOK, RowLocks, [Next]_vars PROVE RowLocks'
  OBVIOUS
<1>1. CASE UNCHANGED wrote
  BY <1>1 DEF RowLocks
<1>2. ASSUME NEW r \in Requests, WriteLevel(r) PROVE RowLocks'
  <2>1. \A b \in Requests : b # r => Cell(r) \notin wrote[b]
    BY <1>2 DEF WriteLevel, Waits, WaitsFor, HoldsRow
  <2>2. wrote' = [wrote EXCEPT ![r] = @ \cup {Cell(r)}]
    BY <1>2 DEF WriteLevel
  <2>. QED  BY <2>1, <2>2 DEF RowLocks, TypeOK
<1>3. ASSUME NEW r \in Requests, Release(r) PROVE RowLocks'
  BY <1>3 DEF RowLocks, TypeOK, Release
<1>. QED
  BY <1>1, <1>2, <1>3
     DEF Next, Serve, Refuse, Replay, Reject, Proceed, ReadLevel, InsertLevel,
         InsertClash, RejectShortage, Recheck, ClaimKey, ClaimClash, Commit,
         DeadlockVictim, Crash, Rollback, Quiescent, vars

\* A step that reads nothing and posts nothing.
LEMMA LocalReads ==
  ASSUME Reads, UNCHANGED <<log, cmd, seen>>,
         \A q \in Requests : \A c \in Cells :
           /\ HasRead(q, c)' => HasRead(q, c)
           /\ c \in wrote'[q] => c \in wrote[q]
  PROVE  Reads'
<1>1. \A q \in Requests : \A c \in Cells : Delta(q, c)' = Delta(q, c)
  BY DEF Delta
<1>. QED  BY <1>1 DEF Reads

LEMMA ReadsStep ==
  TypeOK /\ Progress /\ Reads /\ LevelFollowsLog /\ [Next]_vars => Reads'
<1> SUFFICES ASSUME TypeOK, Progress, Reads, LevelFollowsLog, [Next]_vars
             PROVE  Reads'
  OBVIOUS
<1>1. CASE UNCHANGED vars
  BY <1>1 DEF vars, Reads, HasRead, Cell, Delta
<1>2. ASSUME NEW r \in Requests, Replay(r) \/ Rollback(r) PROVE Reads'
  <2>1. /\ UNCHANGED <<log, cmd, seen>> /\ Release(r)
        /\ pc' = [pc EXCEPT ![r] = pc'[r]] /\ pc'[r] \in Finished
    BY <1>2 DEF TypeOK, Replay, Rollback, Goto, db, Finished
  <2>2. \A q \in Requests : \A c \in Cells :
          /\ HasRead(q, c)' => HasRead(q, c)
          /\ c \in wrote'[q] => c \in wrote[q]
    BY <2>1 DEF TypeOK, Release, HasRead, Cell, Finished
  <2>. QED  BY <2>1, <2>2, LocalReads
<1>3. ASSUME NEW r \in Requests, Proceed(r) PROVE Reads'
  BY <1>3 DEF TypeOK, Proceed, Goto, db, Reads, HasRead, Cell, Delta
<1>4. ASSUME NEW r \in Requests, ReadLevel(r) PROVE Reads'
  <2>1. Cell(r) \in Cells
    BY CommandType
  <2>2. Cell(r) \notin wrote[r]
    BY <1>4 DEF ReadLevel, Progress, Writing, IllFormed, InFlight, Cell
  <2>3. UNCHANGED <<log, cmd, wrote>> /\ pc' = [pc EXCEPT ![r] = pc'[r]]
    BY <1>4 DEF ReadLevel, Goto, db, TypeOK
  <2>4. seen' = [seen EXCEPT ![r][Cell(r)] = [val |-> stock[Cell(r)], at |-> Len(log)]]
    BY <1>4 DEF ReadLevel
  <2>5. Ledger!IsBalance(log, stock[Cell(r)], Len(log), Cell(r))
    BY <2>1 DEF LevelFollowsLog
  <2>6. Len(log) \in Nat
    BY DEF TypeOK
  <2>7. ASSUME NEW q \in Requests, NEW c \in Cells, q # r \/ c # Cell(r)
        PROVE  /\ seen'[q][c] = seen[q][c]
               /\ Delta(q, c)' = Delta(q, c)
               /\ HasRead(q, c)' => HasRead(q, c)
    <3>1. seen'[q][c] = seen[q][c]
      BY <2>1, <2>4, <2>7 DEF TypeOK
    <3>2. Delta(q, c)' = Delta(q, c)
      BY <2>3, <3>1 DEF Delta
    <3>3. HasRead(q, c)' => HasRead(q, c)
      BY <2>3, <2>7 DEF TypeOK, HasRead, Cell
    <3>. QED  BY <3>1, <3>2, <3>3
  <2>8. seen'[r][Cell(r)] = [val |-> stock[Cell(r)], at |-> Len(log)]
    BY <2>1, <2>4 DEF TypeOK
  <2>. QED  BY <2>1, <2>2, <2>3, <2>5, <2>6, <2>7, <2>8 DEF Reads, Cell
<1>5. ASSUME NEW r \in Requests, InsertLevel(r) PROVE Reads'
  BY <1>5 DEF TypeOK, InsertLevel, Goto, db, Reads, HasRead, Cell, Delta
<1>6. ASSUME NEW r \in Requests, WriteLevel(r) PROVE Reads'
  <2>1. Cell(r) \in Cells /\ seen[r][Cell(r)].val + Delta(r, Cell(r)) >= 0
    BY <1>6, CommandType, DeltaType DEF WriteLevel, Overdraws
  <2>2. UNCHANGED <<log, cmd, seen>>
    BY <1>6 DEF WriteLevel, db
  <2>3. ASSUME NEW q \in Requests, NEW c \in Cells
        PROVE  /\ HasRead(q, c)' => HasRead(q, c)
               /\ c \in wrote'[q] => c \in wrote[q] \/ (q = r /\ c = Cell(r))
    BY <1>6 DEF WriteLevel, AfterWrite, Goto, TypeOK, HasRead, Cell
  <2>4. \A q \in Requests : \A c \in Cells : Delta(q, c)' = Delta(q, c)
    BY <2>2 DEF Delta
  <2>. QED  BY <2>1, <2>2, <2>3, <2>4 DEF Reads
<1>7. ASSUME NEW r \in Requests, Recheck(r) \/ ClaimKey(r) PROVE Reads'
  <2>1. /\ UNCHANGED <<log, cmd, seen, wrote>>
        /\ pc' = [pc EXCEPT ![r] = pc'[r]] /\ pc'[r] \in {"claim", "commit"}
    BY <1>7 DEF TypeOK, Recheck, ClaimKey, Goto, db
  <2>2. \A q \in Requests : \A c \in Cells :
          /\ HasRead(q, c)' => HasRead(q, c)
          /\ c \in wrote'[q] => c \in wrote[q]
    BY <2>1 DEF TypeOK, HasRead, Cell
  <2>. QED  BY <2>1, <2>2, LocalReads
<1>8. ASSUME NEW r \in Requests, Commit(r) PROVE Reads'
  <2>1. PostingOf(r) \in Ledger!Posting
    BY PostingType
  <2>2. log \in Seq(Ledger!Posting) /\ Len(log) \in Nat
    BY DEF TypeOK
  <2>3. log' = Append(log, PostingOf(r)) /\ Len(log') = Len(log) + 1
    BY <1>8, <2>1, <2>2 DEF Commit
  <2>4. UNCHANGED <<cmd, seen>>
    BY <1>8 DEF Commit
  <2>5. ASSUME NEW q \in Requests, NEW c \in Cells
        PROVE  /\ HasRead(q, c)' => HasRead(q, c)
               /\ c \in wrote'[q] => c \in wrote[q]
               /\ Delta(q, c)' = Delta(q, c)
    BY <1>8 DEF Commit, Goto, Release, TypeOK, HasRead, Cell, Delta
  <2>6. ASSUME NEW q \in Requests, NEW c \in Cells, HasRead(q, c)
        PROVE  Ledger!IsBalance(log', seen[q][c].val, seen[q][c].at, c)
    <3>1. seen[q][c].at \in 0..Len(log)
      BY <2>2, DeltaType DEF Reads
    <3>2. Ledger!IsBalance(log, seen[q][c].val, seen[q][c].at, c)
      BY <2>6 DEF Reads
    <3>. QED  BY <2>1, <2>2, <2>3, <3>1, <3>2, BalanceKept
  <2>7. \A q \in Requests : \A c \in Cells : seen[q][c].at \in Nat
    BY DeltaType
  <2>. QED  BY <2>2, <2>3, <2>4, <2>5, <2>6, <2>7 DEF Reads
<1>. QED
  BY <1>1, <1>2, <1>3, <1>4, <1>5, <1>6, <1>7, <1>8
     DEF Next, Serve, Refuse, Reject, InsertClash, RejectShortage, ClaimClash,
         DeadlockVictim, Crash, Quiescent

LEMMA PostedStep == TypeOK /\ PostedAreDone /\ [Next]_vars => PostedAreDone'
<1> SUFFICES ASSUME TypeOK, PostedAreDone, [Next]_vars PROVE PostedAreDone'
  OBVIOUS
<1>1. \A i \in 1..Len(log) : log[i].by \in Requests
  <2>1. \A i \in 1..Len(log) : log[i] \in Ledger!Posting
    BY DEF TypeOK
  <2>. QED  BY <2>1 DEF Ledger!Posting
<1>2. ASSUME NEW r \in Requests, pc[r] \in InFlight, UNCHANGED log,
             pc' = [pc EXCEPT ![r] = pc'[r]]
      PROVE  PostedAreDone'
  BY <1>1, <1>2 DEF PostedAreDone, InFlight, TypeOK
<1>3. ASSUME NEW r \in Requests, Commit(r) PROVE PostedAreDone'
  <2>1. log' = Append(log, PostingOf(r)) /\ log \in Seq(Ledger!Posting)
        /\ PostingOf(r) \in Ledger!Posting /\ PostingOf(r).by = r
    BY <1>3, PostingType DEF Commit, TypeOK, PostingOf
  <2>2. \A i \in 1..Len(log') :
          log'[i] = IF i <= Len(log) THEN log[i] ELSE PostingOf(r)
    BY <2>1
  <2>3. pc' = [pc EXCEPT ![r] = "done"]
    BY <1>3 DEF Commit, Goto
  <2>. QED  BY <1>1, <2>1, <2>2, <2>3 DEF PostedAreDone, TypeOK
<1>4. CASE UNCHANGED <<pc, log>>
  BY <1>4 DEF PostedAreDone
<1>. QED
  BY <1>2, <1>3, <1>4
     DEF Next, Serve, Refuse, Replay, Reject, Proceed, ReadLevel, InsertLevel,
         InsertClash, RejectShortage, WriteLevel, Recheck, ClaimKey, ClaimClash,
         DeadlockVictim, Crash, InDeadlock, WaitsFor, Rollback, Quiescent, vars,
         Goto, db, InFlight, TypeOK

\* Everything a commit needs to know about the posting it appends.
LEMMA CommitFacts ==
  ASSUME LedgerInv, NEW r \in Requests, Commit(r)
  PROVE  /\ log \in Seq(Ledger!Posting) /\ Len(log) \in Nat
         /\ PostingOf(r) \in Ledger!Posting
         /\ log' = Append(log, PostingOf(r)) /\ Len(log') = Len(log) + 1
         /\ log'[Len(log) + 1] = PostingOf(r)
         /\ \A i \in 1..Len(log) : log'[i] = log[i]
         /\ wrote[r] = {cmd[r].cell, cmd[r].to}
         /\ \A c \in wrote[r] :
              /\ c \in Cells
              /\ seen[r][c].at <= Len(log) /\ seen[r][c].at \in Nat
              /\ Ledger!IsBalance(log, seen[r][c].val, seen[r][c].at, c)
              /\ seen[r][c].val + Delta(r, c) >= 0
<1>1. PostingOf(r) \in Ledger!Posting /\ log \in Seq(Ledger!Posting)
  BY PostingType DEF LedgerInv, TypeOK
<1>2. log' = Append(log, PostingOf(r))
  BY DEF Commit
<1>3. wrote[r] = {cmd[r].cell, cmd[r].to}
  BY DEF Commit, LedgerInv, Progress, Written
<1>4. wrote[r] \in SUBSET Cells /\ \A c \in Cells : seen[r][c].at \in Nat
  BY DEF LedgerInv, TypeOK
<1>. QED  BY <1>1, <1>2, <1>3, <1>4 DEF LedgerInv, Reads, HasRead

LEMMA LevelStep == LedgerInv /\ [Next]_vars => NeverNegative' /\ LevelFollowsLog'
<1> SUFFICES ASSUME LedgerInv, [Next]_vars PROVE NeverNegative' /\ LevelFollowsLog'
  OBVIOUS
<1>1. CASE UNCHANGED <<stock, log>>
  BY <1>1 DEF LedgerInv, NeverNegative, LevelFollowsLog
<1>2. ASSUME NEW r \in Requests, Commit(r), NEW c \in Cells
      PROVE  stock'[c] >= 0 /\ Ledger!IsBalance(log', stock'[c], Len(log'), c)
  <2> DEFINE p == PostingOf(r)
  <2>1. /\ log \in Seq(Ledger!Posting) /\ p \in Ledger!Posting
        /\ log' = Append(log, p) /\ Len(log') = Len(log) + 1
    BY <1>2, CommitFacts
  <2>2. p.touched = wrote[r] /\ p.before[c] = seen[r][c].val /\ p.delta[c] = Delta(r, c)
    BY DEF PostingOf
  <2>3. CASE c \in wrote[r] /\ Delta(r, c) # 0
    <3>1. stock'[c] = p.before[c] + p.delta[c] /\ stock'[c] >= 0
      BY <1>2, <2>2, <2>3, CommitFacts DEF Commit, NewStock
    <3>. HIDE DEF p
    <3>. QED  BY <2>1, <2>2, <2>3, <3>1, BalanceMoved
  <2>4. CASE ~(c \in wrote[r] /\ Delta(r, c) # 0)
    <3>1. stock'[c] = stock[c]
      BY <1>2, <2>4 DEF Commit, NewStock
    <3>2. stock[c] >= 0 /\ Ledger!IsBalance(log, stock[c], Len(log), c)
      BY DEF LedgerInv, NeverNegative, LevelFollowsLog
    <3>. HIDE DEF p
    <3>. QED  BY <2>1, <2>2, <2>4, <3>1, <3>2, BalanceSame
  <2>. QED  BY <2>3, <2>4
<1>. QED
  BY <1>1, <1>2
     DEF Next, Serve, Refuse, Replay, Reject, Proceed, ReadLevel, InsertLevel,
         InsertClash, RejectShortage, WriteLevel, Recheck, ClaimKey, ClaimClash,
         DeadlockVictim, Crash, Rollback, Quiescent, vars, db,
         NeverNegative, LevelFollowsLog

LEMMA PostedReadsStep == LedgerInv /\ [Next]_vars => PostedReads' /\ TransferIsWhole'
<1> SUFFICES ASSUME LedgerInv, [Next]_vars PROVE PostedReads' /\ TransferIsWhole'
  OBVIOUS
<1>1. CASE UNCHANGED <<log, cmd>>
  BY <1>1 DEF LedgerInv, PostedReads, TransferIsWhole
<1>2. ASSUME NEW r \in Requests, Commit(r) PROVE PostedReads'
  <2> DEFINE p == PostingOf(r)
  <2>0. /\ log \in Seq(Ledger!Posting) /\ p \in Ledger!Posting /\ Len(log) \in Nat
        /\ log' = Append(log, p)
        /\ \A i \in 1..Len(log) : log'[i] = log[i]
    BY <1>2, CommitFacts
  <2>1. ASSUME NEW i \in 1..Len(log), NEW c \in log[i].touched
        PROVE  /\ log'[i] = log[i] /\ log[i].at[c] < i
               /\ Ledger!IsBalance(log', log[i].before[c], log[i].at[c], c)
    <3>1. log[i] \in Ledger!Posting /\ log'[i] = log[i]
      BY <2>0
    <3>2. log[i].at[c] < i /\ Ledger!IsBalance(log, log[i].before[c], log[i].at[c], c)
      BY DEF LedgerInv, PostedReads
    <3>3. log[i].at[c] \in 0..Len(log)
      <4>1. c \in Cells /\ log[i].at \in [Cells -> Nat]
        BY <3>1 DEF Ledger!Posting
      <4>. QED  BY <2>0, <3>2, <4>1
    <3>. HIDE DEF p
    <3>. QED  BY <2>0, <3>1, <3>2, <3>3, BalanceKept
  <2>2. ASSUME NEW c \in p.touched
        PROVE  /\ p.at[c] < Len(log) + 1
               /\ Ledger!IsBalance(log', p.before[c], p.at[c], c)
    <3>1. c \in wrote[r] /\ c \in Cells
      BY <1>2, CommitFacts DEF PostingOf
    <3>2. p.at[c] = seen[r][c].at /\ p.before[c] = seen[r][c].val
      BY <3>1 DEF PostingOf
    <3>3. /\ seen[r][c].at \in 0..Len(log) /\ Len(log) \in Nat
          /\ Ledger!IsBalance(log, seen[r][c].val, seen[r][c].at, c)
      BY <1>2, <3>1, CommitFacts
    <3>. HIDE DEF p
    <3>. QED  BY <2>0, <3>2, <3>3, BalanceKept
  <2>3. Len(log') = Len(log) + 1 /\ log'[Len(log) + 1] = p /\ Len(log) \in Nat
    BY <1>2, CommitFacts
  <2>. HIDE DEF p
  <2>4. ASSUME NEW i \in 1..Len(log'), NEW c \in log'[i].touched
        PROVE  /\ log'[i].at[c] < i
               /\ Ledger!IsBalance(log', log'[i].before[c], log'[i].at[c], c)
    <3>1. CASE i \in 1..Len(log)
      BY <2>0, <2>1, <3>1
    <3>2. CASE i = Len(log) + 1
      BY <2>2, <2>3, <3>2
    <3>. QED  BY <2>3, <3>1, <3>2
  <2>. QED  BY <2>4 DEF PostedReads
<1>3. ASSUME NEW r \in Requests, Commit(r) PROVE TransferIsWhole'
  <2>1. UNCHANGED cmd
    BY <1>3 DEF Commit
  <2>2. cmd[r].op = "transfer" => cmd[r].cell # cmd[r].to
    BY <1>3 DEF Commit, LedgerInv, Progress, IllFormed, InFlight
  <2>3. cmd[r].cell \in Cells /\ cmd[r].to \in Cells /\ cmd[r].qty \in Int
    BY CommandType DEF LedgerInv
  <2>4. cmd[r].op = "transfer" =>
          /\ PostingOf(r).touched = {cmd[r].cell, cmd[r].to}
          /\ PostingOf(r).delta[cmd[r].cell] = -PostingOf(r).delta[cmd[r].to]
    BY <1>3, <2>2, <2>3, CommitFacts DEF PostingOf, Delta
  <2>5. PostingOf(r).by = r
    BY DEF PostingOf
  <2>6. \A i \in 1..Len(log') :
          log'[i] = IF i <= Len(log) THEN log[i] ELSE PostingOf(r)
    BY <1>3, CommitFacts
  <2>. QED
    BY <1>3, <2>1, <2>4, <2>5, <2>6, CommitFacts DEF LedgerInv, TransferIsWhole
<1>. QED
  BY <1>1, <1>2, <1>3
     DEF Next, Serve, Refuse, Replay, Reject, Proceed, ReadLevel, InsertLevel,
         InsertClash, RejectShortage, WriteLevel, Recheck, ClaimKey, ClaimClash,
         DeadlockVictim, Crash, Rollback, Quiescent, vars, db,
         PostedReads, TransferIsWhole

LEMMA LedgerInvStep == LedgerInv /\ [Next]_vars => LedgerInv'
  BY TypeStep, ProgressStep, RowLocksStep, ReadsStep, PostedStep, LevelStep,
     PostedReadsStep DEF LedgerInv

LEMMA LedgerInvInit == Init => LedgerInv
<1> SUFFICES ASSUME Init PROVE LedgerInv
  OBVIOUS
<1>1. TypeOK
  BY WorkloadsAssumption, OpeningAssumption, CellsAssumption
     DEF Init, TypeOK, InFlight, Finished, NotRead
<1>2. Progress /\ RowLocks /\ Reads
  BY DEF Init, Progress, RowLocks, Reads, HasRead, Writing, Written, NotRead
<1>3. PostedAreDone /\ PostedReads /\ TransferIsWhole
  BY DEF Init, PostedAreDone, PostedReads, TransferIsWhole
<1>4. NeverNegative /\ LevelFollowsLog
  BY OpeningAssumption DEF Init, NeverNegative, LevelFollowsLog, Ledger!IsBalance
<1>. QED  BY <1>1, <1>2, <1>3, <1>4 DEF LedgerInv

LEMMA LedgerInvariant == Spec => []LedgerInv
  BY LedgerInvInit, LedgerInvStep, PTL DEF Spec

-----------------------------------------------------------------------------
(* The theorems *)

\* No interleaving of checks, waits and commits drives an on-hand below zero.
THEOREM NeverNegativeHolds == Spec => []NeverNegative
<1>1. LedgerInv => NeverNegative
  BY DEF LedgerInv
<1>. QED  BY <1>1, LedgerInvariant, PTL

\* Level and audit trail always end with the same word.
THEOREM LevelFollowsLogHolds == Spec => []LevelFollowsLog
<1>1. LedgerInv => LevelFollowsLog
  BY DEF LedgerInv
<1>. QED  BY <1>1, LedgerInvariant, PTL

\* A transfer is committed with both its movements.
THEOREM TransferIsWholeHolds == Spec => []TransferIsWhole
<1>1. LedgerInv => TransferIsWhole
  BY DEF LedgerInv
<1>. QED  BY <1>1, LedgerInvariant, PTL

\* Between requests that do not overlap the audit trail has no gap: a lost
\* update needs a read that precedes the other's commit.
THEOREM SequentialChainHolds == Spec => []SequentialChain
<1>1. LedgerInv => SequentialChain
  <2> SUFFICES ASSUME LedgerInv, NEW i \in 1..Len(log), NEW j \in 1..Len(log),
                      NEW c \in Cells, i < j, Ledger!Moves(log, i, c),
                      c \in log[j].touched,
                      \A m \in 1..Len(log) : i < m /\ m < j => ~Ledger!Moves(log, m, c),
                      log[j].at[c] >= i
               PROVE  log[j].before[c] = Ledger!After(log, i, c)
    BY DEF SequentialChain
  <2> DEFINE n == log[j].at[c]
  <2>1. n < j /\ Ledger!IsBalance(log, log[j].before[c], n, c)
    BY DEF LedgerInv, PostedReads
  <2>2. Len(log) \in Nat /\ n \in Nat
    <3>1. log[j] \in Ledger!Posting
      BY DEF LedgerInv, TypeOK
    <3>2. log[j].at \in [Cells -> Nat]
      BY <3>1 DEF Ledger!Posting
    <3>3. Len(log) \in Nat
      BY DEF LedgerInv, TypeOK
    <3>. QED  BY <3>2, <3>3
  <2> HIDE DEF n
  <2>3. i \in 1..n
    BY <2>2 DEF n
  <2>4. PICK k \in 1..n : /\ Ledger!Moves(log, k, c)
                          /\ log[j].before[c] = Ledger!After(log, k, c)
                          /\ \A m \in 1..n : m > k => ~Ledger!Moves(log, m, c)
    BY <2>1, <2>3 DEF Ledger!IsBalance
  <2>5. k = i
    BY <2>1, <2>2, <2>3, <2>4
  <2>. QED  BY <2>4, <2>5
<1>. QED  BY <1>1, LedgerInvariant, PTL

\* The service implements the stale-balance ledger.
THEOREM LedgerRefinement == Spec => RefinesLedger
<1>1. Init => Ledger!Init
  BY DEF Init, Ledger!Init
<1>2. LedgerInv /\ [Next]_vars => [Ledger!Post]_<<stock, log>>
  <2> SUFFICES ASSUME LedgerInv, [Next]_vars
               PROVE  [Ledger!Post]_<<stock, log>>
    OBVIOUS
  <2>1. CASE UNCHANGED <<stock, log>>
    BY <2>1
  <2>2. ASSUME NEW r \in Requests, Commit(r) PROVE Ledger!Post
    <3> DEFINE p == log'[Len(log) + 1]
    <3>1. /\ log' = Append(log, p) /\ Len(log') = Len(log) + 1
          /\ p = PostingOf(r) /\ p \in Ledger!Posting
      BY <2>2, CommitFacts
    <3>2. p.touched = wrote[r] /\ p.names = {cmd[r].cell, cmd[r].to} /\ p.by = r
      BY <3>1 DEF PostingOf
    <3>3. \A i \in 1..Len(log) : log[i].by # p.by
      BY <2>2, <3>2 DEF Commit, LedgerInv, PostedAreDone
    <3>4. \A c \in p.touched :
            /\ p.at[c] <= Len(log)
            /\ Ledger!IsBalance(log, p.before[c], p.at[c], c)
            /\ p.before[c] + p.delta[c] >= 0
      <4>1. \A c \in wrote[r] :
              /\ c \in Cells
              /\ seen[r][c].at <= Len(log)
              /\ Ledger!IsBalance(log, seen[r][c].val, seen[r][c].at, c)
              /\ seen[r][c].val + Delta(r, c) >= 0
        BY <2>2, CommitFacts
      <4>2. \A c \in Cells : /\ p.at[c] = seen[r][c].at
                             /\ p.before[c] = seen[r][c].val
                             /\ p.delta[c] = Delta(r, c)
        BY <3>1 DEF PostingOf
      <4> HIDE DEF p
      <4>. QED  BY <3>2, <4>1, <4>2
    <3>5. \A c, d \in p.touched : c # d => p.delta[c] + p.delta[d] = 0
      <4>1. cmd[r].op # "transfer" => cmd[r].to = cmd[r].cell
        BY CommandType, CommandsAssumption DEF LedgerInv
      <4>2. wrote[r] = {cmd[r].cell, cmd[r].to} /\ wrote[r] \in SUBSET Cells
        BY <2>2, CommitFacts DEF LedgerInv, TypeOK
      <4>3. cmd[r].qty \in Int
        BY CommandType DEF LedgerInv
      <4>. QED  BY <3>1, <3>2, <4>1, <4>2, <4>3 DEF PostingOf, Delta
    <3>6. stock' = [c \in Cells |-> IF c \in p.touched /\ p.delta[c] # 0
                                    THEN p.before[c] + p.delta[c]
                                    ELSE stock[c]]
      BY <2>2, <3>1 DEF Commit, NewStock, PostingOf
    <3>7. p.touched = p.names
      BY <2>2, <3>2, CommitFacts
    <3> HIDE DEF p
    <3>. QED  BY <3>1, <3>3, <3>4, <3>5, <3>6, <3>7 DEF Ledger!Post, p
  <2>. QED
    BY <2>1, <2>2
       DEF Next, Serve, Refuse, Replay, Reject, Proceed, ReadLevel, InsertLevel,
           InsertClash, RejectShortage, WriteLevel, Recheck, ClaimKey, ClaimClash,
           DeadlockVictim, Crash, Rollback, Quiescent, vars, db
<1>. QED
  BY <1>1, <1>2, LedgerInvariant, PTL DEF Spec, RefinesLedger, Ledger!Spec

-----------------------------------------------------------------------------
(* Idempotency keys *)

\* The recorded row of r's key does not answer r.
Unanswered(r) ==
  \/ keyRow[cmd[r].key] = Elsewhere
  \/ cmd[r].op = "transfer" /\ cmd[keyRow[cmd[r].key]].op # "transfer"

\* An uncommitted key row belongs to a request about to commit, no other has
\* one for that key and none is committed.
StagedKeys ==
  /\ \A r \in staged : /\ pc[r] = "commit" /\ cmd[r].key # NoKey
                       /\ keyRow[cmd[r].key] = Nobody
  /\ \A a, b \in staged : a # b => cmd[a].key # cmd[b].key

\* A keyed request commits with its own row or beside an existing one.
KeyedCommits ==
  \A r \in Requests :
    /\ pc[r] \in {"recheck", "claim"} => cmd[r].key # NoKey
    /\ pc[r] = "commit" /\ cmd[r].key # NoKey =>
         r \in staged \/ keyRow[cmd[r].key] # Nobody

\* A request that went on although its key had taken effect had no answer.
LookedUp ==
  \A r \in Requests :
    pc[r] \in InFlight \ {"lookup"} =>
      /\ since[r] <= Len(log)
      /\ \A i \in 1..Len(log) :
           i <= since[r] /\ cmd[r].key # NoKey /\ cmd[log[i].by].key = cmd[r].key
             => Unanswered(r)

KeyInv ==
  /\ StagedKeys
  /\ KeyedCommits
  /\ LookedUp
  /\ KeyRecordsEffect
  /\ RetryAfterSuccess

LEMMA LogTypes ==
  ASSUME TypeOK
  PROVE  Len(log) \in Nat /\ \A i \in 1..Len(log) : log[i].by \in Requests
<1>1. \A i \in 1..Len(log) : log[i] \in Ledger!Posting
  BY DEF TypeOK
<1>. QED  BY <1>1 DEF Ledger!Posting, TypeOK

\* A step that leaves the committed rows and the look-ups alone and moves r
\* between look-up and key check, or to its end.
LEMMA QuietKeys ==
  ASSUME TypeOK, KeyInv, NEW r \in Requests, UNCHANGED <<db, cmd, since>>,
         pc' = [pc EXCEPT ![r] = pc'[r]],
         \/ pc'[r] \in Finished
         \/ pc[r] \in {"read", "insert"} /\ pc'[r] \in {"insert", "write"},
         staged' = staged \ {r}
  PROVE  KeyInv'
<1> USE DEF db, KeyInv
<1>1. StagedKeys'
  BY DEF StagedKeys, TypeOK
<1>2. KeyedCommits'
  BY DEF KeyedCommits, TypeOK, Finished
<1>3. LookedUp'
  <2>1. \A q \in Requests : pc'[q] \in InFlight \ {"lookup"}
                              => pc[q] \in InFlight \ {"lookup"}
    BY DEF TypeOK, InFlight, Finished
  <2>2. \A q \in Requests : Unanswered(q)' = Unanswered(q)
    BY DEF Unanswered
  <2>. QED  BY <2>1, <2>2 DEF LookedUp
<1>4. KeyRecordsEffect' /\ RetryAfterSuccess'
  BY DEF KeyRecordsEffect, RetryAfterSuccess
<1>. QED  BY <1>1, <1>2, <1>3, <1>4

LEMMA ProceedKeys ==
  ASSUME TypeOK, KeyInv, NEW r \in Requests, Proceed(r)
  PROVE  KeyInv'
<1> USE DEF db, KeyInv, Proceed, Goto
<1>1. StagedKeys' /\ KeyedCommits'
  BY DEF StagedKeys, KeyedCommits, TypeOK
<1>2. LookedUp'
  <2>1. ASSUME NEW i \in 1..Len(log), cmd[r].key # NoKey,
               cmd[log[i].by].key = cmd[r].key
        PROVE  Unanswered(r)
    <3>1. cmd[r].key \in Keys
      BY <2>1, CommandType
    <3>2. keyRow[cmd[r].key] # Nobody
      BY <2>1, <3>1 DEF KeyRecordsEffect
    <3>. QED  BY <2>1, <3>1, <3>2 DEF HasPrior, Unanswered, TypeOK
  <2>2. Unanswered(r)' = Unanswered(r)
    BY DEF Unanswered
  <2>3. since'[r] = Len(log) /\ Len(log) \in Nat
    BY DEF TypeOK
  <2>4. ASSUME NEW q \in Requests, q # r
        PROVE  pc'[q] = pc[q] /\ since'[q] = since[q] /\ Unanswered(q)' = Unanswered(q)
    BY <2>4 DEF TypeOK, Unanswered
  <2>. QED  BY <2>1, <2>2, <2>3, <2>4 DEF LookedUp
<1>3. KeyRecordsEffect' /\ RetryAfterSuccess'
  BY DEF KeyRecordsEffect, RetryAfterSuccess
<1>. QED  BY <1>1, <1>2, <1>3

LEMMA ClaimKeys ==
  ASSUME TypeOK, KeyInv, NEW r \in Requests, WriteLevel(r) \/ Recheck(r) \/ ClaimKey(r)
  PROVE  KeyInv'
<1> USE DEF db, KeyInv, Goto
<1>1. UNCHANGED <<db, cmd, since>> /\ pc' = [pc EXCEPT ![r] = pc'[r]]
      /\ pc[r] \in InFlight \ {"lookup"}
  BY DEF WriteLevel, Recheck, ClaimKey, TypeOK, InFlight
<1>2. CASE WriteLevel(r)
  BY <1>1, <1>2
     DEF WriteLevel, AfterWrite, StagedKeys, KeyedCommits, LookedUp, Unanswered,
         KeyRecordsEffect, RetryAfterSuccess, TypeOK
<1>3. CASE Recheck(r)
  BY <1>1, <1>3
     DEF Recheck, StagedKeys, KeyedCommits, LookedUp, Unanswered,
         KeyRecordsEffect, RetryAfterSuccess, TypeOK
<1>4. CASE ClaimKey(r)
  <2>1. \A b \in staged : b # r /\ cmd[b].key # cmd[r].key
    BY <1>4 DEF ClaimKey, Waits, WaitsFor, SameKey, StagedKeys, TypeOK
  <2>2. cmd[r].key # NoKey /\ keyRow[cmd[r].key] = Nobody
    BY <1>4 DEF ClaimKey, KeyedCommits
  <2>3. StagedKeys' /\ KeyedCommits'
    BY <1>1, <1>4, <2>1, <2>2 DEF ClaimKey, StagedKeys, KeyedCommits, TypeOK
  <2>4. LookedUp' /\ KeyRecordsEffect' /\ RetryAfterSuccess'
    BY <1>1, <1>4
       DEF ClaimKey, LookedUp, Unanswered, KeyRecordsEffect, RetryAfterSuccess,
           TypeOK, InFlight
  <2>. QED  BY <2>3, <2>4
<1>. QED  BY <1>2, <1>3, <1>4

LEMMA CommitKeys ==
  ASSUME LedgerInv, KeyInv, NEW r \in Requests, Commit(r)
  PROVE  KeyInv'
<1> DEFINE key == cmd[r].key
<1>1. /\ TypeOK /\ Len(log) \in Nat /\ Len(log') = Len(log) + 1
      /\ \A i \in 1..Len(log) : log[i].by \in Requests /\ log'[i] = log[i]
      /\ log'[Len(log) + 1] = PostingOf(r)
      /\ PostingOf(r).by = r /\ PostingOf(r).since = since[r]
  BY CommitFacts, LogTypes DEF LedgerInv, PostingOf
<1>2. /\ UNCHANGED <<cmd, since>> /\ pc[r] = "commit"
      /\ pc' = [pc EXCEPT ![r] = "done"] /\ staged' = staged \ {r}
  BY DEF Commit, Goto, Release
<1>3. \A k \in Keys : keyRow'[k] = IF r \in staged /\ k = key THEN r ELSE keyRow[k]
  BY DEF Commit, NewKeyRow
<1>4. r \in staged => key \in Keys /\ keyRow[key] = Nobody
  BY <1>1, CommandType DEF KeyInv, StagedKeys
<1>5. \A q \in Requests : cmd[q].key # NoKey => cmd[q].key \in Keys
  BY <1>1, CommandType
\* A committed key row never changes.
<1>6. \A k \in Keys : keyRow[k] # Nobody => keyRow'[k] = keyRow[k]
  BY <1>3, <1>4
<1>7. key # NoKey => key \in Keys /\ keyRow'[key] # Nobody
  BY <1>2, <1>3, <1>5, <1>6, NullsAssumption DEF KeyInv, KeyedCommits
<1>8. \A i \in 1..Len(log) : cmd[log[i].by].key # NoKey =>
        /\ cmd[log[i].by].key \in Keys
        /\ keyRow[cmd[log[i].by].key] # Nobody
  BY <1>1, <1>5 DEF KeyInv, KeyRecordsEffect
<1>9. \A i \in 1..Len(log') : i \in 1..Len(log) \/ i = Len(log) + 1
  BY <1>1
<1>10. StagedKeys'
  <2>1. \A q \in staged' : q \in staged /\ q # r /\ q \in Requests
    BY <1>1, <1>2 DEF TypeOK
  <2>2. \A q \in staged' : cmd[q].key \in Keys /\ keyRow'[cmd[q].key] = Nobody
    BY <1>3, <1>5, <2>1 DEF KeyInv, StagedKeys
  <2>. QED  BY <1>1, <1>2, <2>1, <2>2 DEF KeyInv, StagedKeys, TypeOK
<1>11. KeyedCommits'
  BY <1>1, <1>2, <1>5, <1>6 DEF KeyInv, KeyedCommits, TypeOK
<1>12. LookedUp'
  <2>1. ASSUME NEW q \in Requests, q # r, pc[q] \in InFlight \ {"lookup"},
               NEW i \in 1..Len(log'), i <= since[q], cmd[q].key # NoKey,
               cmd[log'[i].by].key = cmd[q].key
        PROVE  Unanswered(q)'
    <3>1. i \in 1..Len(log) /\ log'[i] = log[i]
      BY <1>1, <1>9, <2>1 DEF KeyInv, LookedUp, TypeOK
    <3>2. Unanswered(q)
      BY <2>1, <3>1 DEF KeyInv, LookedUp
    <3>3. cmd[q].key \in Keys /\ keyRow'[cmd[q].key] = keyRow[cmd[q].key]
      BY <1>5, <1>6, <1>8, <2>1, <3>1
    <3>. QED  BY <1>2, <3>2, <3>3 DEF Unanswered
  <2>2. \A q \in Requests : pc'[q] \in InFlight \ {"lookup"} => q # r /\ pc'[q] = pc[q]
    BY <1>1, <1>2 DEF TypeOK, InFlight
  <2>3. \A q \in Requests : pc'[q] \in InFlight \ {"lookup"} => since'[q] <= Len(log')
    BY <1>1, <1>2, <2>2 DEF KeyInv, LookedUp, TypeOK
  <2>. QED  BY <1>2, <2>1, <2>2, <2>3 DEF LookedUp
<1>13. KeyRecordsEffect'
  <2>1. ASSUME NEW k \in Keys, keyRow'[k] \in Requests
        PROVE  /\ cmd[keyRow'[k]].key = k
               /\ \E i \in 1..Len(log') : log'[i].by = keyRow'[k]
    <3>1. CASE r \in staged /\ k = key
      <4>1. keyRow'[k] = r
        BY <1>3, <3>1
      <4>2. Len(log) + 1 \in 1..Len(log')
        BY <1>1
      <4>. QED  BY <1>1, <3>1, <4>1, <4>2
    <3>2. CASE ~(r \in staged /\ k = key)
      <4>1. keyRow'[k] = keyRow[k]
        BY <1>3, <3>2
      <4>2. PICK i \in 1..Len(log) : log[i].by = keyRow[k]
        BY <2>1, <4>1 DEF KeyInv, KeyRecordsEffect
      <4>3. i \in 1..Len(log') /\ log'[i].by = keyRow'[k]
        BY <1>1, <4>1, <4>2
      <4>. QED  BY <2>1, <4>1, <4>3 DEF KeyInv, KeyRecordsEffect
    <3>. QED  BY <3>1, <3>2
  <2>2. ASSUME NEW k \in Keys, NEW i \in 1..Len(log'), cmd[log'[i].by].key = k
        PROVE  keyRow'[k] # Nobody
    <3>1. CASE i \in 1..Len(log)
      BY <1>1, <1>6, <2>2, <3>1 DEF KeyInv, KeyRecordsEffect
    <3>2. CASE i = Len(log) + 1
      BY <1>1, <1>7, <2>2, <3>2, NullsAssumption
    <3>. QED  BY <1>9, <3>1, <3>2
  <2>. QED  BY <1>2, <2>1, <2>2 DEF KeyRecordsEffect
<1>14. RetryAfterSuccess'
  <2> SUFFICES ASSUME NEW i \in 1..Len(log'), NEW j \in 1..Len(log'), i < j,
                      cmd[log'[j].by].key # NoKey,
                      cmd[log'[i].by].key = cmd[log'[j].by].key,
                      log'[j].since >= i
               PROVE  \/ keyRow'[cmd[log'[j].by].key] = Elsewhere
                      \/ /\ cmd[log'[j].by].op = "transfer"
                         /\ cmd[keyRow'[cmd[log'[j].by].key]].op # "transfer"
    BY <1>2 DEF RetryAfterSuccess
  <2>1. i \in 1..Len(log) /\ log'[i] = log[i]
    BY <1>1
  <2>2. keyRow'[cmd[log'[j].by].key] = keyRow[cmd[log'[j].by].key]
    BY <1>6, <1>8, <2>1
  <2>3. CASE j \in 1..Len(log)
    BY <1>1, <2>1, <2>2, <2>3 DEF KeyInv, RetryAfterSuccess
  <2>4. CASE j = Len(log) + 1
    <3>1. log'[j].by = r /\ log'[j].since = since[r]
      BY <1>1, <2>4
    <3>2. since[r] >= i /\ since[r] \in Nat
      BY <1>1, <3>1 DEF TypeOK
    <3>3. Unanswered(r)
      BY <1>2, <2>1, <3>1, <3>2 DEF KeyInv, LookedUp, InFlight
    <3>. QED  BY <2>2, <3>1, <3>3 DEF Unanswered
  <2>. QED  BY <1>9, <2>3, <2>4
<1>. QED  BY <1>10, <1>11, <1>12, <1>13, <1>14 DEF KeyInv

LEMMA KeyInvStep == LedgerInv /\ KeyInv /\ [Next]_vars => KeyInv'
<1> SUFFICES ASSUME LedgerInv, TypeOK, KeyInv, [Next]_vars PROVE KeyInv'
  BY DEF LedgerInv
<1>1. CASE UNCHANGED vars
  BY <1>1 DEF vars, KeyInv, StagedKeys, KeyedCommits, LookedUp, Unanswered,
              KeyRecordsEffect, RetryAfterSuccess
<1>2. ASSUME NEW r \in Requests,
             Replay(r) \/ ReadLevel(r) \/ InsertLevel(r) \/ Rollback(r)
      PROVE  KeyInv'
  <2>1. UNCHANGED <<db, cmd, since>> /\ pc' = [pc EXCEPT ![r] = pc'[r]]
    BY <1>2 DEF Replay, ReadLevel, InsertLevel, Rollback, Goto, TypeOK
  <2>2. \/ pc'[r] \in Finished /\ staged' = staged \ {r}
        \/ /\ pc[r] \in {"read", "insert"} /\ pc'[r] \in {"insert", "write"}
           /\ UNCHANGED staged
    BY <1>2 DEF Replay, ReadLevel, InsertLevel, Rollback, Goto, Release, TypeOK, Finished
  <2>3. staged' = staged \ {r}
    BY <2>2 DEF KeyInv, StagedKeys
  <2>. QED  BY <2>1, <2>2, <2>3, QuietKeys
<1>. QED
  BY <1>1, <1>2, ProceedKeys, ClaimKeys, CommitKeys
     DEF Next, Serve, Refuse, Reject, InsertClash, RejectShortage, ClaimClash,
         DeadlockVictim, Crash, Quiescent

LEMMA KeyInvariant == Spec => []KeyInv
<1>1. Init => KeyInv
  BY NullsAssumption
     DEF Init, KeyInv, StagedKeys, KeyedCommits, LookedUp, KeyRecordsEffect,
         RetryAfterSuccess, InFlight
<1>. QED  BY <1>1, KeyInvStep, LedgerInvariant, PTL DEF Spec

\* The idempotency row and the effect it stands for commit together.
THEOREM KeyRecordsEffectHolds == Spec => []KeyRecordsEffect
<1>1. KeyInv => KeyRecordsEffect
  BY DEF KeyInv
<1>. QED  BY <1>1, KeyInvariant, PTL

\* A retry after success has no second effect, with the two exceptions the
\* property names.
THEOREM RetryAfterSuccessHolds == Spec => []RetryAfterSuccess
<1>1. KeyInv => RetryAfterSuccess
  BY DEF KeyInv
<1>. QED  BY <1>1, KeyInvariant, PTL
=============================================================================
