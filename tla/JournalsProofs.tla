---------------------------- MODULE JournalsProofs ----------------------------
(* Proofs about Journals, for any requests, keys, workloads and books. *)
EXTENDS Journals, SumLemmas

(***************************************************************************)
(* The inductive invariant.  Place says where a request can be in its      *)
(* operation and what it has checked by then, Lock what it holds there,    *)
(* Race what may have happened since it first read.                        *)
(***************************************************************************)
Late == {"mark", "recheck", "claim", "commit"}
Lost(q) == DOMAIN journals \ saw[q] # {}

Place(q) ==
  /\ pc[q] = "lookup" => Keyed(cmd[q])
  /\ pc[q] \in {"chart", "account"} => cmd[q].op = "entry"
  /\ pc[q] = "original" => cmd[q].op \in {"reverse", "allocate"}
  /\ pc[q] \in {"count", "insert", "mark", "recheck", "claim"} => Posts(q)
  /\ pc[q] = "mark" => cmd[q].op = "reverse"
  /\ pc[q] \in {"recheck", "claim"} => Keyed(cmd[q])
  /\ cmd[q].op = "entry" /\ pc[q] \in {"account", "count", "insert"} \cup Late => ~Amiss(q)
  /\ cmd[q].op = "allocate" /\ pc[q] \in Late => ~Amiss(q)
  /\ cmd[q].op = "entry" /\ pc[q] \in {"count", "insert"} \cup Late =>
       \A c \in Codes : c \in accounts \/ AccountCode(c) \in held[q]
  /\ cmd[q].op = "journal" /\ pc[q] \in {"insert"} \cup Late =>
       \A i \in DOMAIN cmd[q].lines : Sided(cmd[q].lines[i])
  /\ cmd[q].op = "journal" /\ pc[q] \in Late =>
       \A i \in DOMAIN cmd[q].lines : cmd[q].lines[i].account \in accounts
  /\ cmd[q].op \in {"reverse", "allocate"} /\ pc[q] \in {"count", "insert"} \cup Late =>
       cmd[q].of \in DOMAIN journals

Lock(q) ==
  /\ \A n : Number(n) \in held[q] => n = num[q] /\ pc[q] \in Late /\ num[q] = NextNumber
  /\ Posts(q) /\ pc[q] \in Late => Number(num[q]) \in held[q]
  /\ \A x : EntryRow(x) \in held[q] => cmd[q].op = "reverse" /\ x = cmd[q].of
  /\ cmd[q].op = "reverse" /\ pc[q] = "commit" => EntryRow(cmd[q].of) \in held[q]
  /\ \A k \in Keys : KeyValue(k) \in held[q] => Posts(q) /\ keyRow[k] = Nobody
  /\ \A c : AccountCode(c) \in held[q] => cmd[q].op = "entry"

Race(q) ==
  /\ saw[q] \subseteq DOMAIN journals
  /\ q \in DOMAIN journals => pc[q] = "done"
  /\ \A a \in allocations : a.by = q => pc[q] = "done"
  /\ pc[q] = "insert" => num[q] \in 1..NextNumber /\ (num[q] \in Numbers => Lost(q))
  /\ pc[q] = "account" /\ Chart[code[q]] \in accounts => Lost(q)
  /\ pc[q] = "claim" /\ keyRow[cmd[q].key] # Nobody =>
       Lost(q) \/ keyRow[cmd[q].key] = Elsewhere
  /\ pc[q] = "clashed" => Lost(q) \/ (Keyed(cmd[q]) /\ keyRow[cmd[q].key] = Elsewhere)
  /\ cmd[q].op = "reverse" /\ pc[q] \in {"count", "insert"} \cup Late =>
       \A z \in Ids : Compensates(z, cmd[q].of) => z \notin saw[q]

Exclusive == \A r, q \in Requests : r # q => held[r] \cap held[q] = {}

Recorded ==
  /\ Numbers = 1..Cardinality(DOMAIN journals)
  /\ PostingIsWhole /\ ReversalIsExact
  /\ \A x \in DOMAIN journals : journals[x].reverses \in DOMAIN journals \cup {NoEntry}

JournalsInv ==
  /\ TypeOK /\ Recorded /\ Exclusive
  /\ \A q \in Requests : Place(q) /\ Lock(q) /\ Race(q)

-----------------------------------------------------------------------------
(* Facts about the operators *)

\* Locked rows and values of different kinds, or of different names, differ.
LEMMA RowsDiffer ==
  \A a, b : /\ AccountCode(a) # Number(b) /\ AccountCode(a) # EntryRow(b) /\ AccountCode(a) # KeyValue(b)
            /\ Number(a) # EntryRow(b) /\ Number(a) # KeyValue(b) /\ EntryRow(a) # KeyValue(b)
            /\ (AccountCode(a) = AccountCode(b) => a = b) /\ (Number(a) = Number(b) => a = b)
            /\ (EntryRow(a) = EntryRow(b) => a = b) /\ (KeyValue(a) = KeyValue(b) => a = b)
  BY DEF AccountCode, Number, EntryRow, KeyValue

LEMMA ChartCodes == \A i \in Positions : Chart[i] \in Codes
  BY DEF Codes

LEMMA NamedCodes ==
  {"cash", "receivable", "payable", "tax", "revenue", "returns", "purchases"} \subseteq Codes
<1>1. /\ Chart[1] = "cash" /\ Chart[2] = "receivable" /\ Chart[3] = "payable" /\ Chart[4] = "tax"
      /\ Chart[5] = "revenue" /\ Chart[6] = "returns" /\ Chart[7] = "purchases"
  BY DEF Chart
<1>2. {1, 2, 3, 4, 5, 6, 7} \subseteq Positions
  BY DEF Positions
<1>. QED  BY <1>1, <1>2, ChartCodes

\* Rounding yields multiples of Unit, keeps those that are, and moves the others by
\* half of Unit at most.
LEMMA MultiplesOfUnit ==
  ASSUME NEW q \in Int
  PROVE  (Unit * q) % Unit = 0
<1> DEFINE p == (Unit * q) \div Unit
           s == (Unit * q) % Unit
<1>1. Unit \in Nat \ {0} /\ Unit * q \in Int
  BY UnitAssumption
<1>2. p \in Int /\ s \in 0..(Unit - 1) /\ Unit * q = Unit * p + s
  BY <1>1
<1>3. s = Unit * (q - p)
  BY <1>1, <1>2
<1> HIDE DEF p, s
<1>4. q - p \in Int /\ (q - p >= 1 => Unit * (q - p) >= Unit) /\ (q - p <= -1 => Unit * (q - p) <= -Unit)
  BY <1>1, <1>2
<1>5. q - p = 0
  BY <1>1, <1>2, <1>3, <1>4
<1>6. s = 0
  BY <1>1, <1>3, <1>5
<1>. QED  BY <1>6 DEF s

LEMMA RoundedFacts ==
  ASSUME NEW n \in Nat
  PROVE  /\ Rounded(n) \in Storable
         /\ n \in Storable => Rounded(n) = n
         /\ 2 * (Rounded(n) - n) <= Unit /\ 2 * (n - Rounded(n)) <= Unit
<1> DEFINE q == n \div Unit
           s == n % Unit
<1>1. Unit \in Nat \ {0}
  BY UnitAssumption
<1>2. q \in Nat /\ s \in 0..(Unit - 1) /\ n = Unit * q + s
  BY <1>1
<1>3. Unit * (q + 1) = Unit * q + Unit /\ Unit * q \in Nat
  BY <1>1, <1>2
<1>4. (Unit * q) % Unit = 0 /\ (Unit * (q + 1)) % Unit = 0
  BY <1>2, MultiplesOfUnit
<1>5. Rounded(n) = IF 2 * s < Unit THEN n - s ELSE n - s + Unit
  BY DEF Rounded
<1>a. n \in Storable => s = 0
  BY DEF Storable
<1> HIDE DEF q, s
<1>6. Rounded(n) = IF 2 * s < Unit THEN Unit * q ELSE Unit * (q + 1)
  BY <1>1, <1>2, <1>3, <1>5
<1>7. Rounded(n) \in Storable
  BY <1>1, <1>2, <1>3, <1>4, <1>6 DEF Storable
<1>8. n \in Storable => Rounded(n) = n
  BY <1>1, <1>2, <1>5, <1>a
<1>. QED  BY <1>1, <1>2, <1>5, <1>7, <1>8

LEMMA ZeroStorable == 0 \in Storable /\ Storable \subseteq Nat /\ Rounded(0) = 0
<1>1. (Unit * 0) % Unit = 0 /\ Unit * 0 = 0
  BY MultiplesOfUnit, UnitAssumption
<1>2. 0 \in Storable
  BY <1>1 DEF Storable
<1>. QED  BY <1>2, RoundedFacts DEF Storable

\* An entry with a positive amount and no negative tax has two or three lines with one
\* side each.
LEMMA EntryLinesType ==
  ASSUME NEW what \in EntryTypes, NEW n \in Nat \ {0}, NEW tax \in Nat
  PROVE  /\ EntryLines(what, n, tax) \in Seq(InputLine)
         /\ \A i \in DOMAIN EntryLines(what, n, tax) : Sided(EntryLines(what, n, tax)[i])
<1>1. \A k \in Nat \ {0}, c \in Codes :
        /\ Debit(c, k) \in InputLine /\ Sided(Debit(c, k))
        /\ Credit(c, k) \in InputLine /\ Sided(Credit(c, k))
  BY DEF Debit, Credit, InputLine, Sided
<1>2. \A a, b \in InputLine : Sided(a) /\ Sided(b) =>
        /\ <<a, b>> \in Seq(InputLine) /\ \A i \in DOMAIN <<a, b>> : Sided(<<a, b>>[i])
  OBVIOUS
<1>3. \A a, b, c \in InputLine : Sided(a) /\ Sided(b) /\ Sided(c) =>
        /\ <<a, b>> \o <<c>> \in Seq(InputLine)
        /\ \A i \in DOMAIN (<<a, b>> \o <<c>>) : Sided((<<a, b>> \o <<c>>)[i])
  OBVIOUS
<1>4. n + tax \in Nat \ {0} /\ \A a, b : <<a, b>> \o <<>> = <<a, b>>
  OBVIOUS
<1> HIDE DEF Sided
<1>5. CASE what \in {"receipt", "liability", "payment"}
  BY <1>1, <1>2, <1>5, NamedCodes DEF EntryLines
<1>6. CASE what \in {"revenue", "return"}
  BY <1>1, <1>2, <1>3, <1>4, <1>6, NamedCodes DEF EntryLines
<1>. QED  BY <1>5, <1>6 DEF EntryTypes

LEMMA MirrorType ==
  ASSUME NEW lines \in Seq(Line)
  PROVE  /\ Mirror(lines) \in Seq(Line) /\ DOMAIN Mirror(lines) = DOMAIN lines
         /\ \A i \in DOMAIN lines : Mirror(lines)[i].account = lines[i].account
<1>1. DOMAIN lines = 1..Len(lines) /\ \A i \in DOMAIN lines : lines[i] \in Line
  OBVIOUS
<1>2. \A l \in Line : [account |-> l.account, debit |-> l.credit, credit |-> l.debit] \in Line
  BY DEF Line
<1>3. Mirror(lines) = [i \in 1..Len(lines) |->
        [account |-> lines[i].account, debit |-> lines[i].credit, credit |-> lines[i].debit]]
  BY <1>1 DEF Mirror
<1>. QED  BY <1>1, <1>2, <1>3

\* What the columns make of lines with natural amounts; they keep what they hold.
LEMMA StoredType ==
  ASSUME NEW lines \in Seq(InputLine),
         \A i \in DOMAIN lines : lines[i].debit >= 0 /\ lines[i].credit >= 0
  PROVE  /\ Stored(lines) \in Seq(Line)
         /\ DOMAIN Stored(lines) = DOMAIN lines /\ Len(Stored(lines)) = Len(lines)
         /\ \A i \in DOMAIN lines :
              /\ Stored(lines)[i].account = lines[i].account
              /\ Stored(lines)[i].debit = Rounded(lines[i].debit)
              /\ Stored(lines)[i].credit = Rounded(lines[i].credit)
<1> DEFINE Held(l) == [account |-> l.account, debit |-> Rounded(l.debit),
                       credit |-> Rounded(l.credit)]
<1>1. DOMAIN lines = 1..Len(lines) /\ \A i \in DOMAIN lines : lines[i] \in InputLine
  OBVIOUS
<1>3. \A l \in InputLine : l.debit >= 0 /\ l.credit >= 0 => Held(l) \in Line
  <2> SUFFICES ASSUME NEW l \in InputLine, l.debit >= 0, l.credit >= 0
               PROVE  Held(l) \in Line
    OBVIOUS
  <2>1. l.account \in Codes /\ l.debit \in Nat /\ l.credit \in Nat
    BY DEF InputLine
  <2>2. Rounded(l.debit) \in Storable /\ Rounded(l.credit) \in Storable
    BY <2>1, RoundedFacts
  <2>. QED  BY <2>1, <2>2 DEF Line
<1>4. Stored(lines) = [i \in 1..Len(lines) |-> Held(lines[i])]
  BY <1>1 DEF Stored
<1>5. \A i \in 1..Len(lines) : Held(lines[i]) \in Line
  BY <1>1, <1>3
<1>6. \A l : /\ Held(l).account = l.account /\ Held(l).debit = Rounded(l.debit)
             /\ Held(l).credit = Rounded(l.credit)
  OBVIOUS
<1> HIDE DEF Held
<1>. QED  BY <1>1, <1>4, <1>5, <1>6

LEMMA StoredAgain ==
  ASSUME NEW lines \in Seq(Line)
  PROVE  lines \in Seq(InputLine) /\ Stored(lines) = lines
<1>1. DOMAIN lines = 1..Len(lines) /\ \A i \in DOMAIN lines : lines[i] \in Line
  OBVIOUS
<1>2. ASSUME NEW l \in Line PROVE l \in InputLine
  <2>1. l = [account |-> l.account, debit |-> l.debit, credit |-> l.credit]
        /\ l.account \in Codes /\ l.debit \in Storable /\ l.credit \in Storable
    BY DEF Line
  <2>1a. l.debit \in Int /\ l.credit \in Int
    BY <2>1, ZeroStorable
  <2>2. [account |-> l.account, debit |-> l.debit, credit |-> l.credit] \in InputLine
    BY <2>1, <2>1a DEF InputLine
  <2>. QED  BY <2>1, <2>2
<1>3. \A l \in Line : Rounded(l.debit) = l.debit /\ Rounded(l.credit) = l.credit
  BY RoundedFacts, ZeroStorable DEF Line
<1>4. \A l \in Line :
        [account |-> l.account, debit |-> Rounded(l.debit), credit |-> Rounded(l.credit)] = l
  BY <1>3 DEF Line
<1>5. lines = [i \in 1..Len(lines) |-> lines[i]] /\ Len(lines) \in Nat
  BY <1>1
<1>6. Stored(lines) = [i \in 1..Len(lines) |-> lines[i]]
  BY <1>1, <1>4 DEF Stored
<1>7. lines \in Seq(InputLine)
  BY <1>1, <1>2, <1>5
<1>. QED  BY <1>5, <1>6, <1>7

\* The journals are finitely many; a new one raises their number by one.
LEMMA FiniteJournals ==
  ASSUME TypeOK
  PROVE  /\ IsFiniteSet(DOMAIN journals) /\ Cardinality(DOMAIN journals) \in Nat
         /\ \A r \in Requests : r \notin DOMAIN journals =>
              Cardinality(DOMAIN journals \cup {r}) = Cardinality(DOMAIN journals) + 1
<1>1. IsFiniteSet(Ids)
  BY FiniteAssumption, FS_Union DEF Ids
<1>2. IsFiniteSet(DOMAIN journals)
  BY <1>1, FS_Subset DEF TypeOK
<1>. QED  BY <1>2, FS_AddElement, FS_CardinalityType

-----------------------------------------------------------------------------
(* Initially *)

LEMMA JournalsInit == Init => JournalsInv
<1> SUFFICES ASSUME Init PROVE JournalsInv
  OBVIOUS
<1> USE DEF Init
<1>1. PICK b \in Books : accounts = b.accounts /\ journals = b.journals /\ allocations = b.allocations
  OBVIOUS
<1>2. Opening(b)
  BY BooksAssumption
<1>3. cmd \in [Requests -> Command]
  BY WorkloadsAssumption
<1>4. \A r \in Requests : pc[r] \in {"lookup", "chart", "count", "original"} /\ cmd[r].op \in {"entry", "journal", "reverse", "allocate"}
  BY <1>3 DEF First, Start, Command
<1>5. TypeOK
  <2>1. DOMAIN journals \subseteq Ids /\ accounts \subseteq Codes /\ allocations \subseteq Allocation
    BY <1>1, <1>2 DEF Opening, Ids
  <2>. QED  BY <1>1, <1>2, <1>3, <1>4, <2>1 DEF TypeOK, Opening, InFlight, Positions, Finished
<1>6. Recorded
  BY <1>1, <1>2, NamesAssumption DEF Opening, Recorded, Numbers, PostingIsWhole, ReversalIsExact, Compensates, Own, Ids
<1>7. Exclusive
  BY DEF Exclusive
<1>8. ASSUME NEW q \in Requests PROVE Place(q) /\ Lock(q) /\ Race(q)
  <2>1. q \notin DOMAIN journals /\ allocations = {}
    BY <1>1, <1>2, NamesAssumption DEF Opening
  <2>2. Place(q)
    BY <1>3, <1>4 DEF Place, First, Start, Late, Posts, Command
  <2>. QED  BY <2>1, <2>2, <1>4 DEF Lock, Race, Late
<1>. QED  BY <1>5, <1>6, <1>7, <1>8 DEF JournalsInv

-----------------------------------------------------------------------------
(* Steps of one request before its commit *)

\* A step that leaves the database and a request alone keeps what is known of it.
LEMMA Frame ==
  ASSUME NEW q \in Requests, Place(q), Lock(q), Race(q), UNCHANGED <<db, cmd>>,
         pc'[q] = pc[q], saw'[q] = saw[q], code'[q] = code[q], num'[q] = num[q], held'[q] = held[q]
  PROVE  (Place(q) /\ Lock(q) /\ Race(q))'
<1>1. Place(q)'
  BY DEF Place, db, Posts, Amiss, Late
<1>2. Lock(q)'
  BY DEF Lock, db, Posts, NextNumber, Late
<1>3. Race(q)'
  BY DEF Race, db, Lost, NextNumber, Numbers, Compensates, Late
<1>. QED  BY <1>1, <1>2, <1>3

LEMMA Untouched ==
  ASSUME Recorded, UNCHANGED db
  PROVE  Recorded'
  BY DEF Recorded, db, Numbers, PostingIsWhole, ReversalIsExact, Compensates, Own

\* A request that ends without a commit.
LEMMA EndStep ==
  ASSUME JournalsInv, NEW r \in Requests, NEW outcome \in Finished \ {"done"},
         pc[r] \in InFlight, End(r, outcome),
         outcome = "clashed" => Lost(r) \/ (Keyed(cmd[r]) /\ keyRow[cmd[r].key] = Elsewhere)
  PROVE  JournalsInv'
<1> USE DEF JournalsInv, End, Goto, Release
<1>0. /\ pc' = [pc EXCEPT ![r] = outcome] /\ pc \in [Requests -> InFlight \cup Finished]
      /\ held' = [held EXCEPT ![r] = {}] /\ held \in [Requests -> SUBSET Rows]
  BY DEF TypeOK
<1>1. TypeOK'
  BY <1>0 DEF TypeOK, db
<1>2. Recorded'
  BY Untouched
<1>3. Exclusive'
  BY <1>0 DEF Exclusive
<1>4. ASSUME NEW q \in Requests PROVE (Place(q) /\ Lock(q) /\ Race(q))'
  <2>1. CASE q # r
    BY <1>0, <2>1, Frame
  <2>2. CASE q = r
    <3>1. pc'[r] = outcome /\ held'[r] = {} /\ pc[r] # "done"
      BY <1>0 DEF InFlight
    <3>2. Place(r)' /\ Lock(r)'
      BY <3>1 DEF Place, Lock, Late, Finished
    <3>3. Race(r)'
      BY <3>1 DEF Race, db, Lost, Late, Finished
    <3>. QED  BY <2>2, <3>2, <3>3
  <2>. QED  BY <2>1, <2>2
<1>. QED  BY <1>1, <1>2, <1>3, <1>4

\* A step of one request that locks what nobody holds and leaves the database
\* alone: it is enough to look at what is known of the request itself.
LEMMA OwnStep ==
  ASSUME JournalsInv, NEW r \in Requests, NEW label \in InFlight, NEW S \in SUBSET Rows,
         NEW i \in Positions, NEW n \in Nat, NEW seen \in {saw[r], DOMAIN journals},
         UNCHANGED <<db, cmd>>,
         pc' = [pc EXCEPT ![r] = label], held' = [held EXCEPT ![r] = @ \cup S],
         code' = [code EXCEPT ![r] = i], num' = [num EXCEPT ![r] = n],
         saw' = [saw EXCEPT ![r] = seen],
         \A b \in Requests \ {r} : S \cap held[b] = {},
         (Place(r) /\ Lock(r) /\ Race(r))'
  PROVE  JournalsInv'
<1> USE DEF JournalsInv
<1>0. /\ pc \in [Requests -> InFlight \cup Finished] /\ held \in [Requests -> SUBSET Rows]
      /\ code \in [Requests -> Positions] /\ num \in [Requests -> Nat]
      /\ saw \in [Requests -> SUBSET Ids] /\ DOMAIN journals \subseteq Ids
      /\ \A q \in Requests : pc[q] \in Finished => held[q] = {}
  BY DEF TypeOK
<1>1. TypeOK'
  <2>1. label \notin Finished
    BY DEF InFlight, Finished
  <2>2. /\ pc' \in [Requests -> InFlight \cup Finished] /\ held' \in [Requests -> SUBSET Rows]
        /\ code' \in [Requests -> Positions] /\ num' \in [Requests -> Nat]
        /\ saw' \in [Requests -> SUBSET Ids]
        /\ \A q \in Requests : pc'[q] \in Finished => held'[q] = {}
    BY <1>0, <2>1
  <2>. QED  BY <2>2 DEF TypeOK, db
<1>2. Recorded'
  BY Untouched
<1>3. Exclusive'
  BY <1>0 DEF Exclusive
<1>4. ASSUME NEW q \in Requests PROVE (Place(q) /\ Lock(q) /\ Race(q))'
  <2>1. CASE q # r
    BY <1>0, <2>1, Frame
  <2>. QED  BY <2>1
<1>. QED  BY <1>1, <1>2, <1>3, <1>4

Moves(r) ==
  \/ Proceed(r) \/ FindMissing(r) \/ FindWhole(r) \/ LoadOriginal(r) \/ Count(r) \/ Recheck(r)

LEMMA MoveStep ==
  ASSUME JournalsInv, NEW r \in Requests, Moves(r)
  PROVE  JournalsInv'
<1> USE DEF JournalsInv
<1>0. /\ pc \in [Requests -> InFlight \cup Finished] /\ held \in [Requests -> SUBSET Rows]
      /\ code \in [Requests -> Positions] /\ num \in [Requests -> Nat]
      /\ saw \in [Requests -> SUBSET Ids] /\ cmd[r] \in Command
      /\ DOMAIN journals \subseteq Ids
  BY DEF TypeOK
<1>1. PICK label \in InFlight, i \in Positions, n \in Nat, seen \in {saw[r], DOMAIN journals} :
        /\ UNCHANGED <<db, cmd>>
        /\ pc' = [pc EXCEPT ![r] = label] /\ held' = [held EXCEPT ![r] = @ \cup {}]
        /\ code' = [code EXCEPT ![r] = i] /\ num' = [num EXCEPT ![r] = n]
        /\ saw' = [saw EXCEPT ![r] = seen]
  <2>1. held' = held /\ held = [held EXCEPT ![r] = @ \cup {}]
    BY <1>0 DEF Moves, Proceed, FindMissing, FindWhole, LoadOriginal, Count, Recheck
  <2>2. /\ code = [code EXCEPT ![r] = code[r]] /\ num = [num EXCEPT ![r] = num[r]]
        /\ saw = [saw EXCEPT ![r] = saw[r]] /\ code[r] \in Positions /\ num[r] \in Nat
    BY <1>0
  <2>3. UNCHANGED <<db, cmd>>
    BY DEF Moves, Proceed, FindMissing, FindWhole, LoadOriginal, Count, Recheck
  <2>4. \E label \in InFlight : pc' = [pc EXCEPT ![r] = label]
    BY <1>0 DEF Moves, Proceed, FindMissing, FindWhole, LoadOriginal, Count, Recheck, Goto,
                Start, InFlight
  <2>5. \E i \in Positions : code' = [code EXCEPT ![r] = i]
    BY <2>2 DEF Moves, Proceed, FindMissing, FindWhole, LoadOriginal, Count, Recheck
  <2>6. \E n \in Nat : num' = [num EXCEPT ![r] = n]
    BY <2>2, FiniteJournals DEF Moves, Proceed, FindMissing, FindWhole, LoadOriginal, Count,
                                Recheck, NextNumber
  <2>7. \E seen \in {saw[r], DOMAIN journals} : saw' = [saw EXCEPT ![r] = seen]
    BY <2>2 DEF Moves, Proceed, FindMissing, FindWhole, LoadOriginal, Count, Recheck, Look
  <2>. QED  BY <2>1, <2>3, <2>4, <2>5, <2>6, <2>7
<1>2. pc'[r] = label /\ held'[r] = held[r] /\ code'[r] = i /\ num'[r] = n /\ saw'[r] = seen
  BY <1>0, <1>1
<1>2a. SUFFICES (Place(r) /\ Lock(r) /\ Race(r))'
  BY <1>1, OwnStep
<1>3. Lock(r)' \/ Count(r) \/ Recheck(r)
  <2>1. ~Count(r) /\ ~Recheck(r) => pc[r] \notin Late /\ (pc'[r] \in Late => ~Posts(r))
    BY <1>1, <1>2, NamesAssumption
       DEF Moves, Proceed, FindMissing, FindWhole, LoadOriginal, Late, Goto, Start, Posts, Place, Keyed
  <2>. QED  BY <1>1, <1>2, <2>1 DEF Lock, db, Posts, NextNumber, Late
<1>4. CASE Proceed(r)
  <2>1. pc[r] = "lookup" /\ label = Start(cmd[r]) /\ seen = DOMAIN journals /\ Keyed(cmd[r])
    BY <1>0, <1>2, <1>4 DEF Proceed, Goto, Look, First, Place
  <2>2. \/ cmd[r].op = "entry" /\ label = "chart"
        \/ cmd[r].op = "journal" /\ label = "count"
    BY <2>1 DEF Start, Keyed
  <2>3. Place(r)'
    BY <1>1, <1>2, <2>1, <2>2 DEF Place, Late, Posts, db
  <2>4. Race(r)'
    BY <1>1, <1>2, <2>1, <2>2 DEF Race, Late, db
  <2>. QED  BY <1>3, <1>4, <2>1, <2>3, <2>4 DEF Count, Recheck
<1>5. CASE FindMissing(r)
  <2>1. /\ pc[r] = "chart" /\ label = "account" /\ ~Amiss(r) /\ cmd[r].op = "entry"
        /\ Chart[i] \notin accounts
    BY <1>0, <1>2, <1>5 DEF FindMissing, Goto, Place, IsNext, Missing
  <2>2. Place(r)'
    BY <1>1, <1>2, <2>1 DEF Place, Late, Posts, db, Amiss
  <2>3. Race(r)'
    BY <1>1, <1>2, <2>1 DEF Race, Late, db
  <2>. QED  BY <1>3, <1>5, <2>1, <2>2, <2>3 DEF Count, Recheck
<1>6. CASE FindWhole(r)
  <2>1. /\ pc[r] = "chart" /\ label = "count" /\ ~Amiss(r) /\ cmd[r].op = "entry"
        /\ \A c \in Codes : c \in accounts \/ AccountCode(c) \in held[r]
    BY <1>0, <1>2, <1>6 DEF FindWhole, Goto, Place, Ensured, Missing, Codes
  <2>2. Place(r)'
    BY <1>1, <1>2, <2>1 DEF Place, Late, Posts, db, Amiss
  <2>3. Race(r)'
    BY <1>1, <1>2, <2>1 DEF Race, Late, db
  <2>. QED  BY <1>3, <1>6, <2>1, <2>2, <2>3 DEF Count, Recheck
<1>7. CASE LoadOriginal(r)
  <2>1. /\ pc[r] = "original" /\ ~Amiss(r) /\ Present(r) /\ cmd[r].op \in {"reverse", "allocate"}
        /\ label = IF cmd[r].op = "reverse" THEN "count" ELSE "commit"
        /\ seen = DOMAIN journals
    BY <1>0, <1>2, <1>7 DEF LoadOriginal, Goto, Place, Look, First, Start, Keyed
  <2>2. Place(r)'
    BY <1>1, <1>2, <2>1 DEF Place, Late, Posts, db, Present, Amiss
  <2>3. cmd[r].op = "reverse" => \A z \in Ids : ~Compensates(z, cmd[r].of)
    BY <2>1 DEF Present, Reversible, Recorded, ReversalIsExact
  <2>4. Race(r)'
    BY <1>1, <1>2, <2>1, <2>3 DEF Race, Late, db, Compensates
  <2>. QED  BY <1>3, <1>7, <2>1, <2>2, <2>4 DEF Count, Recheck
<1>8. CASE Count(r)
  <2>1. /\ pc[r] = "count" /\ label = "insert" /\ Posts(r) /\ n = NextNumber
        /\ seen \in {saw[r], DOMAIN journals} /\ (cmd[r].op = "reverse" => seen = saw[r])
        /\ (cmd[r].op = "journal" => \A i0 \in DOMAIN cmd[r].lines : Sided(cmd[r].lines[i0]))
    BY <1>0, <1>2, <1>8 DEF Count, Goto, Place, Look, First, Start, Keyed, Postable, NewLines
  <2>2. Place(r)'
    BY <1>1, <1>2, <2>1 DEF Place, Late, Posts, db, Amiss
  <2>3. Lock(r)'
    BY <1>1, <1>2, <2>1 DEF Lock, Late, Posts, db, NextNumber
  <2>4. n \in 1..NextNumber /\ n \notin Numbers
    BY <2>1, FiniteJournals DEF Recorded, NextNumber
  <2>5. Race(r)'
    BY <1>1, <1>2, <2>1, <2>4 DEF Race, Late, db, NextNumber, Numbers, Compensates, Lost
  <2>. QED  BY <2>2, <2>3, <2>5
<1>9. CASE Recheck(r)
  <2>1. /\ pc[r] = "recheck" /\ label \in {"claim", "commit"} /\ Posts(r) /\ Keyed(cmd[r])
        /\ label = "claim" => keyRow[cmd[r].key] = Nobody
        /\ n = num[r] /\ seen = saw[r]
    BY <1>0, <1>2, <1>9 DEF Recheck, Goto, Place
  <2>2. Place(r)'
    BY <1>1, <1>2, <2>1 DEF Place, Late, Posts, db, Amiss, Keyed
  <2>3. Lock(r)'
    BY <1>1, <1>2, <2>1 DEF Lock, Late, Posts, db, NextNumber, Keyed
  <2>4. Race(r)'
    BY <1>1, <1>2, <2>1 DEF Race, Late, db, Lost, Compensates, Keyed
  <2>. QED  BY <2>2, <2>3, <2>4
<1>. QED  BY <1>4, <1>5, <1>6, <1>7, <1>8, <1>9 DEF Moves

Writes(r) == AddAccount(r) \/ Insert(r) \/ Mark(r) \/ ClaimKey(r)

LEMMA WriteStep ==
  ASSUME JournalsInv, NEW r \in Requests, Writes(r)
  PROVE  JournalsInv'
<1> USE DEF JournalsInv
<1>0. /\ pc \in [Requests -> InFlight \cup Finished] /\ held \in [Requests -> SUBSET Rows]
      /\ code \in [Requests -> Positions] /\ num \in [Requests -> Nat]
      /\ saw \in [Requests -> SUBSET Ids] /\ cmd[r] \in Command
  BY DEF TypeOK
<1>1. PICK label \in InFlight :
        /\ UNCHANGED <<db, cmd, saw, code, num>> /\ ~Waits(r)
        /\ pc' = [pc EXCEPT ![r] = label] /\ held' = [held EXCEPT ![r] = @ \cup Wants(r)]
        /\ AddAccount(r) => pc[r] = "account" /\ label = "chart"
        /\ Insert(r) => pc[r] = "insert" /\ label = AfterInsert(r)
        /\ Mark(r) => pc[r] = "mark" /\ label = "commit"
        /\ ClaimKey(r) => pc[r] = "claim" /\ label = "commit"
  BY <1>0 DEF Writes, AddAccount, Insert, Mark, ClaimKey, Write, Goto, AfterInsert, InFlight
<1>2. Wants(r) \in SUBSET Rows
  BY <1>0, ChartCodes DEF Wants, Rows, AccountCode, Number, EntryRow, KeyValue, Command
<1>3. \A b \in Requests \ {r} : Wants(r) \cap held[b] = {}
  BY <1>1 DEF Waits
<1>4. /\ pc'[r] = label /\ held'[r] = held[r] \cup Wants(r) /\ code'[r] = code[r]
      /\ num'[r] = num[r] /\ saw'[r] = saw[r]
      /\ saw' = [saw EXCEPT ![r] = saw[r]] /\ code' = [code EXCEPT ![r] = code[r]]
      /\ num' = [num EXCEPT ![r] = num[r]] /\ UNCHANGED <<db, cmd>>
      /\ code[r] \in Positions /\ num[r] \in Nat
  BY <1>0, <1>1
<1>5. SUFFICES (Place(r) /\ Lock(r) /\ Race(r))'
  <2>1. PICK S \in SUBSET Rows, i \in Positions, n \in Nat, seen \in {saw[r], DOMAIN journals} :
          /\ held' = [held EXCEPT ![r] = @ \cup S] /\ code' = [code EXCEPT ![r] = i]
          /\ num' = [num EXCEPT ![r] = n] /\ saw' = [saw EXCEPT ![r] = seen]
          /\ \A b \in Requests \ {r} : S \cap held[b] = {}
    <3>1. held' = [held EXCEPT ![r] = @ \cup Wants(r)]
      BY <1>1
    <3>. QED  BY <1>2, <1>3, <1>4, <3>1
  <2>2. pc' = [pc EXCEPT ![r] = label] /\ UNCHANGED <<db, cmd>>
    BY <1>1, <1>4
  <2>. QED  BY <2>1, <2>2, OwnStep
<1>6. CASE AddAccount(r)
  <2>1. Wants(r) = {AccountCode(Chart[code[r]])} /\ cmd[r].op = "entry"
    BY <1>1, <1>6 DEF Wants, Place
  <2>2. Place(r)'
    BY <1>1, <1>4, <1>6, <2>1 DEF Place, Late, Posts
  <2>3a. /\ \A n : Number(n) \in held'[r] <=> Number(n) \in held[r]
         /\ \A x : EntryRow(x) \in held'[r] <=> EntryRow(x) \in held[r]
         /\ \A k : KeyValue(k) \in held'[r] <=> KeyValue(k) \in held[r]
         /\ \A y : AccountCode(y) \in held'[r] <=> AccountCode(y) \in held[r] \/ y = Chart[code[r]]
    BY <1>4, <2>1 DEF AccountCode, Number, EntryRow, KeyValue
  <2>3. Lock(r)'
    BY <1>1, <1>4, <1>6, <2>1, <2>3a DEF Lock, Late, Posts, db
  <2>4. Race(r)'
    BY <1>1, <1>4, <1>6 DEF Race, Late, db
  <2>. QED  BY <2>2, <2>3, <2>4
<1>7. CASE Insert(r)
  <2>1. /\ Wants(r) = {Number(num[r])} /\ Posts(r) /\ num[r] \notin Numbers
        /\ label \in Late /\ (label = "mark" <=> cmd[r].op = "reverse")
        /\ label # "claim" /\ (label = "recheck" => Keyed(cmd[r]))
        /\ cmd[r].op = "journal" =>
             \A i \in DOMAIN cmd[r].lines : cmd[r].lines[i].account \in accounts
    BY <1>1, <1>7 DEF Wants, Place, Lock, Insert, AfterInsert, Late, Charted, NewLines
  <2>2. num[r] = NextNumber
    BY <1>0, <1>1, <1>7, <2>1, FiniteJournals DEF Race, Recorded, NextNumber
  <2>3. Place(r)'
    BY <1>1, <1>4, <1>7, <2>1 DEF Place, Late, Posts, db, Amiss
  <2>4a. /\ \A x : EntryRow(x) \in held'[r] <=> EntryRow(x) \in held[r]
         /\ \A k : KeyValue(k) \in held'[r] <=> KeyValue(k) \in held[r]
         /\ \A c : AccountCode(c) \in held'[r] <=> AccountCode(c) \in held[r]
         /\ \A y : Number(y) \in held'[r] <=> Number(y) \in held[r] \/ y = num[r]
    BY <1>4, <2>1 DEF AccountCode, Number, EntryRow, KeyValue
  <2>4. Lock(r)'
    BY <1>1, <1>4, <1>7, <2>1, <2>2, <2>4a DEF Lock, Late, Posts, db, NextNumber
  <2>5. Race(r)'
    BY <1>1, <1>4, <1>7, <2>1 DEF Race, Late, db, Compensates
  <2>. QED  BY <2>3, <2>4, <2>5
<1>8. CASE Mark(r)
  <2>1. Wants(r) = {EntryRow(cmd[r].of)} /\ cmd[r].op = "reverse"
    BY <1>1, <1>8 DEF Wants, Place
  <2>2. Place(r)'
    BY <1>1, <1>4, <1>8, <2>1 DEF Place, Late, Posts, db, Amiss
  <2>3a. /\ \A n : Number(n) \in held'[r] <=> Number(n) \in held[r]
         /\ \A k : KeyValue(k) \in held'[r] <=> KeyValue(k) \in held[r]
         /\ \A c : AccountCode(c) \in held'[r] <=> AccountCode(c) \in held[r]
         /\ \A y : EntryRow(y) \in held'[r] <=> EntryRow(y) \in held[r] \/ y = cmd[r].of
    BY <1>4, <2>1 DEF AccountCode, Number, EntryRow, KeyValue
  <2>3. Lock(r)'
    BY <1>1, <1>4, <1>8, <2>1, <2>3a DEF Lock, Late, Posts, db, NextNumber
  <2>4. Race(r)'
    BY <1>1, <1>4, <1>8 DEF Race, Late, db, Compensates
  <2>. QED  BY <2>2, <2>3, <2>4
<1>9. CASE ClaimKey(r)
  <2>1. /\ Wants(r) = {KeyValue(cmd[r].key)} /\ Posts(r) /\ Keyed(cmd[r])
        /\ keyRow[cmd[r].key] = Nobody
    BY <1>1, <1>9 DEF Wants, Place, ClaimKey
  <2>2. Place(r)'
    BY <1>1, <1>4, <1>9, <2>1 DEF Place, Late, Posts, db, Amiss
  <2>3a. /\ \A n : Number(n) \in held'[r] <=> Number(n) \in held[r]
         /\ \A x : EntryRow(x) \in held'[r] <=> EntryRow(x) \in held[r]
         /\ \A c : AccountCode(c) \in held'[r] <=> AccountCode(c) \in held[r]
         /\ \A y : KeyValue(y) \in held'[r] <=> KeyValue(y) \in held[r] \/ y = cmd[r].key
    BY <1>4, <2>1 DEF AccountCode, Number, EntryRow, KeyValue
  <2>3. Lock(r)'
    BY <1>1, <1>4, <1>9, <2>1, <2>3a DEF Lock, Late, Posts, db, NextNumber, Keyed
  <2>4. Race(r)'
    BY <1>1, <1>4, <1>9 DEF Race, Late, db, Compensates
  <2>. QED  BY <2>2, <2>3, <2>4
<1>. QED  BY <1>6, <1>7, <1>8, <1>9 DEF Writes

-----------------------------------------------------------------------------
(* The commit *)

\* What a commit makes of the chart.
LEMMA AccountsAfter ==
  ASSUME JournalsInv, NEW r \in Requests, Commit(r)
  PROVE  /\ accounts \subseteq accounts' /\ accounts' \in {{}, Codes}
         /\ cmd[r].op = "entry" => accounts' = Codes
         /\ cmd[r].op # "entry" => accounts' = accounts
<1> USE DEF JournalsInv, Commit
<1>1. accounts \subseteq Codes /\ accounts \in {{}, Codes}
  BY DEF TypeOK, Recorded, PostingIsWhole
<1>2. cmd[r].op = "entry" => \A c \in Codes : c \in accounts \/ AccountCode(c) \in held[r]
  BY DEF Place, Late
<1>3. cmd[r].op # "entry" => \A c : AccountCode(c) \notin held[r]
  BY DEF Lock
<1>. QED  BY <1>1, <1>2, <1>3

\* What it makes of the journals: the new one at the end, the original marked.
LEMMA JournalsAfterCommit ==
  ASSUME JournalsInv, NEW r \in Requests, Commit(r)
  PROVE  /\ r \notin DOMAIN journals
         /\ DOMAIN journals' = DOMAIN journals \cup {q \in {r} : Posts(q)}
         /\ Posts(r) => journals'[r] = NewJournal(r) /\ HoldsNumber(r) /\ num[r] = NextNumber
         /\ \A x \in DOMAIN journals : journals'[x] =
              IF cmd[r].op = "reverse" /\ x = cmd[r].of
              THEN Marked(journals[x], r) ELSE journals[x]
<1>0. pc[r] = "commit" /\ Lock(r) /\ Race(r)
  BY DEF JournalsInv, Commit
<1>1. r \notin DOMAIN journals
  BY <1>0 DEF Race
<1>2. \A x : EntryRow(x) \in held[r] <=> cmd[r].op = "reverse" /\ x = cmd[r].of
  BY <1>0 DEF Lock
<1>3. Posts(r) => HoldsNumber(r) /\ num[r] = NextNumber
  BY <1>0 DEF Lock, HoldsNumber, Late
<1>4. journals' = [x \in DOMAIN journals \cup {q \in {r} : Posts(q)} |->
                    IF x = r THEN NewJournal(r)
                    ELSE IF EntryRow(x) \in held[r] THEN Marked(journals[x], r) ELSE journals[x]]
  BY DEF Commit, JournalsAfter
<1>5. Posts(r) => journals'[r] = NewJournal(r)
  BY <1>4
<1>6. ASSUME NEW x \in DOMAIN journals
      PROVE  journals'[x] = IF EntryRow(x) \in held[r] THEN Marked(journals[x], r)
                            ELSE journals[x]
  BY <1>1, <1>4
<1>7. DOMAIN journals' = DOMAIN journals \cup {q \in {r} : Posts(q)}
  BY <1>4
<1>. QED  BY <1>1, <1>2, <1>3, <1>5, <1>6, <1>7

\* The lines of the new journal are well formed and on existing accounts.
LEMMA NewLinesType ==
  ASSUME JournalsInv, NEW r \in Requests, Commit(r), Posts(r)
  PROVE  /\ NewLines(r) \in Seq(InputLine) /\ Stored(NewLines(r)) \in Seq(Line)
         /\ DOMAIN Stored(NewLines(r)) = DOMAIN NewLines(r)
         /\ \A i \in DOMAIN NewLines(r) : Stored(NewLines(r))[i].account \in accounts'
         /\ cmd[r].op = "reverse" => Stored(NewLines(r)) = NewLines(r)
<1> USE DEF JournalsInv
<1>0. cmd[r] \in Command /\ pc[r] = "commit"
  BY DEF TypeOK, Commit
<1>1. CASE cmd[r].op = "entry"
  <2>1. cmd[r].amount \in Nat \ {0} /\ cmd[r].tax \in Nat /\ cmd[r].what \in EntryTypes
    BY <1>0, <1>1 DEF Command, Place, Amiss, Late
  <2>2. NewLines(r) = EntryLines(cmd[r].what, cmd[r].amount, cmd[r].tax)
    BY <1>1 DEF NewLines
  <2>3. NewLines(r) \in Seq(InputLine) /\ \A i \in DOMAIN NewLines(r) : Sided(NewLines(r)[i])
    BY <2>1, <2>2, EntryLinesType
  <2>4. \A i \in DOMAIN NewLines(r) : NewLines(r)[i].account \in Codes
    <3>1. \A l \in InputLine : l.account \in Codes
      BY DEF InputLine
    <3>. QED  BY <2>3, <3>1
  <2>. QED  BY <1>1, <2>3, <2>4, StoredType, AccountsAfter DEF Sided
<1>2. CASE cmd[r].op = "journal"
  <2>1. /\ NewLines(r) = cmd[r].lines /\ cmd[r].lines \in Seq(InputLine)
        /\ \A i \in DOMAIN cmd[r].lines : Sided(cmd[r].lines[i]) /\ cmd[r].lines[i].account \in accounts
    BY <1>0, <1>2 DEF Command, Place, Late, NewLines
  <2>. QED  BY <1>2, <2>1, StoredType, AccountsAfter DEF Sided
<1>3. CASE cmd[r].op = "reverse"
  <2>1. cmd[r].of \in DOMAIN journals
    BY <1>0, <1>3 DEF Place, Late
  <2>2. /\ journals[cmd[r].of].lines \in Seq(Line)
        /\ \A i \in DOMAIN journals[cmd[r].of].lines : journals[cmd[r].of].lines[i].account \in accounts
    BY <2>1 DEF TypeOK, Journal, Recorded, PostingIsWhole
  <2>3. NewLines(r) = Mirror(journals[cmd[r].of].lines)
    BY <1>3 DEF NewLines
  <2>. QED  BY <2>2, <2>3, MirrorType, StoredAgain, AccountsAfter
<1>. QED  BY <1>0, <1>1, <1>2, <1>3 DEF Command, Posts

LEMMA MarkedType ==
  ASSUME NEW j \in Journal, NEW r \in Requests
  PROVE  /\ Marked(j, r) \in Journal
         /\ Marked(j, r).status = "reversed" /\ Marked(j, r).reversedBy = r
         /\ Marked(j, r).no = j.no /\ Marked(j, r).what = j.what /\ Marked(j, r).lines = j.lines
         /\ Marked(j, r).reverses = j.reverses /\ Marked(j, r).saw = j.saw
  BY DEF Marked, Journal, Ids

\* The fields of a journal that a commit does not change, and the two it may.
LEMMA OldJournals ==
  ASSUME JournalsInv, NEW r \in Requests, Commit(r), NEW x \in DOMAIN journals
  PROVE  /\ x \in DOMAIN journals' /\ x # r /\ x \in Ids /\ journals'[x] \in Journal
         /\ journals'[x].no = journals[x].no /\ journals'[x].what = journals[x].what
         /\ journals'[x].lines = journals[x].lines /\ journals'[x].saw = journals[x].saw
         /\ journals'[x].reverses = journals[x].reverses
         /\ IF cmd[r].op = "reverse" /\ x = cmd[r].of
            THEN journals'[x].status = "reversed" /\ journals'[x].reversedBy = r
            ELSE journals'[x].status = journals[x].status
                 /\ journals'[x].reversedBy = journals[x].reversedBy
<1>1. journals[x] \in Journal /\ x \in Ids
  BY DEF JournalsInv, TypeOK
<1>2. /\ r \notin DOMAIN journals /\ x \in DOMAIN journals'
      /\ journals'[x] = IF cmd[r].op = "reverse" /\ x = cmd[r].of
                        THEN Marked(journals[x], r) ELSE journals[x]
  BY JournalsAfterCommit
<1>. QED  BY <1>1, <1>2, MarkedType

LEMMA CommitType ==
  ASSUME JournalsInv, NEW r \in Requests, Commit(r)
  PROVE  TypeOK'
<1>0. /\ TypeOK /\ pc[r] = "commit" /\ Place(r) /\ Lock(r) /\ cmd[r] \in Command /\ r \in Ids
      /\ keyRow \in [Keys -> Requests \cup {Nobody, Elsewhere}]
  BY DEF JournalsInv, Commit, TypeOK, Ids
<1>1. DOMAIN journals' \subseteq Ids
  BY <1>0, JournalsAfterCommit DEF TypeOK
<1>2. Posts(r) => NewJournal(r) \in Journal
  <2>1. cmd[r].op = "reverse" => cmd[r].of \in DOMAIN journals /\ journals[cmd[r].of] \in Journal
    BY <1>0 DEF Place, TypeOK, Late
  <2>2. Posts(r) => What(r) \in EntryTypes \cup {"other"}
    BY <1>0, <2>1 DEF What, Posts, Command, Journal
  <2>3. Posts(r) => num[r] \in Nat \ {0}
    <3>1. Posts(r) => num[r] = NextNumber
      BY JournalsAfterCommit
    <3>. QED  BY <1>0, <3>1, FiniteJournals DEF NextNumber
  <2>4. saw[r] \in SUBSET Ids
    BY <1>0 DEF TypeOK
  <2>. QED  BY <1>0, <2>2, <2>3, <2>4, NewLinesType DEF NewJournal, Journal, Command
<1>3. \A x \in DOMAIN journals' : journals'[x] \in Journal
  <2>1. /\ DOMAIN journals' = DOMAIN journals \cup {q \in {r} : Posts(q)}
        /\ Posts(r) => journals'[r] = NewJournal(r)
    BY JournalsAfterCommit
  <2>2. \A x \in DOMAIN journals : journals'[x] \in Journal
    BY OldJournals
  <2>. QED  BY <1>2, <2>1, <2>2
<1>4. accounts' \subseteq Codes
  BY AccountsAfter
<1>5. allocations' \subseteq Allocation
  <2>1. NewAllocations(r) \subseteq Allocation
    <3>1. cmd[r].op = "allocate" => cmd[r].of \in Ids
      BY <1>0 DEF Place, TypeOK, Late
    <3>2. cmd[r].op \in {"allocate", "entry"} => cmd[r].amount \in Nat
      BY <1>0 DEF Place, Amiss, Command, Late
    <3>3. cmd[r].op \in {"allocate", "entry"} => Rounded(cmd[r].amount) \in Storable
      BY <3>2, RoundedFacts
    <3>. QED  BY <1>0, <3>1, <3>3 DEF NewAllocations, Allocation, Command
  <2>. QED  BY <1>0, <2>1 DEF Commit, TypeOK
<1>6. keyRow' \in [Keys -> Requests \cup {Nobody, Elsewhere}]
  BY <1>0 DEF Commit
<1>7. /\ pc' \in [Requests -> InFlight \cup Finished] /\ held' \in [Requests -> SUBSET Rows]
      /\ \A q \in Requests : pc'[q] \in Finished => held'[q] = {}
  BY <1>0 DEF Commit, TypeOK, Goto, Release, Finished
<1>. QED  BY <1>0, <1>1, <1>3, <1>4, <1>5, <1>6, <1>7 DEF TypeOK, Commit

LEMMA CommitNumbers ==
  ASSUME JournalsInv, NEW r \in Requests, Commit(r)
  PROVE  /\ Numbers' = 1..Cardinality(DOMAIN journals')
         /\ Cardinality(DOMAIN journals') \in Nat
         /\ Cardinality(DOMAIN journals') >= Cardinality(DOMAIN journals)
         /\ Posts(r) => Cardinality(DOMAIN journals') = num[r]
         /\ Posts(r) => num[r] = Cardinality(DOMAIN journals) + 1
<1>0. TypeOK /\ Numbers = 1..Cardinality(DOMAIN journals)
  BY DEF JournalsInv, Recorded
<1>1. Numbers' = Numbers \cup {num[q] : q \in {q \in {r} : Posts(q)}}
  <2>1. \A x \in DOMAIN journals : journals'[x].no = journals[x].no /\ x \in DOMAIN journals'
    BY OldJournals
  <2>2. /\ DOMAIN journals' = DOMAIN journals \cup {q \in {r} : Posts(q)}
        /\ Posts(r) => journals'[r] = NewJournal(r)
    BY JournalsAfterCommit
  <2>3. Posts(r) => journals'[r].no = num[r]
    BY <2>2 DEF NewJournal
  <2>. QED  BY <2>1, <2>2, <2>3 DEF Numbers
<1>2. CASE Posts(r)
  <2>1. DOMAIN journals' = DOMAIN journals \cup {r}
    BY <1>2, JournalsAfterCommit
  <2>2. num[r] = Cardinality(DOMAIN journals) + 1 /\ r \notin DOMAIN journals
    BY <1>2, JournalsAfterCommit DEF NextNumber
  <2>3. Numbers' = Numbers \cup {num[r]}
    BY <1>1, <1>2
  <2>. QED  BY <1>0, <2>1, <2>2, <2>3, FiniteJournals
<1>3. CASE ~Posts(r)
  <2>1. DOMAIN journals' = DOMAIN journals \cup {q \in {r} : Posts(q)}
    BY JournalsAfterCommit
  <2>2. DOMAIN journals' = DOMAIN journals /\ Numbers' = Numbers
    BY <1>1, <1>3, <2>1
  <2>. QED  BY <1>0, <1>3, <2>2, FiniteJournals
<1>. QED  BY <1>2, <1>3

LEMMA CommitPosting ==
  ASSUME JournalsInv, NEW r \in Requests, Commit(r)
  PROVE  PostingIsWhole'
<1>0. /\ PostingIsWhole /\ pc[r] = "commit" /\ cmd[r] \in Command /\ Place(r) /\ Race(r)
      /\ allocations' = allocations \cup NewAllocations(r)
  BY DEF JournalsInv, Commit, Recorded, TypeOK
<1>1. /\ DOMAIN journals' = DOMAIN journals \cup {q \in {r} : Posts(q)} /\ r \notin DOMAIN journals
      /\ Posts(r) => journals'[r] = NewJournal(r)
  BY JournalsAfterCommit
<1>2. \A x \in DOMAIN journals : \A i \in DOMAIN journals'[x].lines :
        journals'[x].lines[i].account \in accounts'
  BY <1>0, OldJournals, AccountsAfter DEF PostingIsWhole
<1>3. Posts(r) => \A i \in DOMAIN journals'[r].lines : journals'[r].lines[i].account \in accounts'
  BY <1>1, NewLinesType DEF NewJournal
<1>4. \A a \in allocations : a.by # r
  BY <1>0 DEF Race
<1>5. ASSUME NEW x \in DOMAIN journals, journals'[x].what \in Paying, journals'[x].reverses = NoEntry
      PROVE  \E a \in allocations' :
               /\ Own(x)' = {a} /\ a.journal = x
               /\ \E i \in DOMAIN journals'[x].lines :
                    journals'[x].lines[i] \in {Debit("cash", a.amount), Debit("payable", a.amount)}
  <2>1. journals[x].what \in Paying /\ journals[x].reverses = NoEntry /\ journals'[x].lines = journals[x].lines
    BY <1>5, OldJournals
  <2>2. PICK a \in allocations :
          /\ Own(x) = {a} /\ a.journal = x
          /\ \E i \in DOMAIN journals[x].lines :
               journals[x].lines[i] \in {Debit("cash", a.amount), Debit("payable", a.amount)}
    BY <1>0, <2>1 DEF PostingIsWhole
  <2>3. Own(x)' = Own(x)
    <3>1. \A b \in NewAllocations(r) : b.by = r
      BY DEF NewAllocations
    <3>. QED  BY <1>0, <1>1, <3>1 DEF Own
  <2>. QED  BY <1>0, <2>1, <2>2, <2>3
<1>6. ASSUME Posts(r), journals'[r].what \in Paying, journals'[r].reverses = NoEntry
      PROVE  \E a \in allocations' :
               /\ Own(r)' = {a} /\ a.journal = r
               /\ \E i \in DOMAIN journals'[r].lines :
                    journals'[r].lines[i] \in {Debit("cash", a.amount), Debit("payable", a.amount)}
  <2>1. cmd[r].op = "entry" /\ cmd[r].what \in Paying
    <3>1. cmd[r].op # "reverse"
      <4>1. cmd[r].op = "reverse" => journals'[r].reverses = cmd[r].of /\ cmd[r].of \in DOMAIN journals
        BY <1>0, <1>1, <1>6 DEF NewJournal, Place, Late
      <4>. QED  BY <1>6, <4>1, NamesAssumption DEF JournalsInv, TypeOK
    <3>2. journals'[r].what = What(r)
      BY <1>1, <1>6 DEF NewJournal
    <3>. QED  BY <1>0, <1>6, <3>1, <3>2 DEF What, Posts, Paying, Command
  <2> DEFINE n == cmd[r].amount
  <2>2. NewAllocations(r) = {[by |-> r, journal |-> r, amount |-> Rounded(n)]}
    BY <2>1 DEF NewAllocations
  <2>3. Own(r)' = {[by |-> r, journal |-> r, amount |-> Rounded(n)]}
    BY <1>0, <1>4, <2>2 DEF Own
  <2>4. journals'[r].lines = Stored(NewLines(r))
    BY <1>1, <1>6 DEF NewJournal
  <2>5. /\ 1 \in DOMAIN journals'[r].lines
        /\ journals'[r].lines[1] \in {Debit("cash", Rounded(n)), Debit("payable", Rounded(n))}
    <3>1. PICK c \in {"cash", "payable"}, e \in {"receivable", "cash"} :
            NewLines(r) = <<Debit(c, n), Credit(e, n)>>
      BY <2>1 DEF NewLines, EntryLines, Paying
    <3>2. 1 \in DOMAIN NewLines(r) /\ NewLines(r)[1] = Debit(c, n)
      BY <3>1
    <3>3. Stored(NewLines(r))[1] = [account |-> c, debit |-> Rounded(n), credit |-> Rounded(0)]
      <4>1. Debit(c, n).account = c /\ Debit(c, n).debit = n /\ Debit(c, n).credit = 0
        BY DEF Debit
      <4>. QED  BY <3>2, <4>1 DEF Stored
    <3>4. Stored(NewLines(r))[1] = Debit(c, Rounded(n))
      BY <3>3, ZeroStorable DEF Debit
    <3>5. 1 \in DOMAIN Stored(NewLines(r))
      BY <3>2 DEF Stored
    <3>. QED  BY <2>4, <3>4, <3>5
  <2>6. PICK a \in allocations' : a = [by |-> r, journal |-> r, amount |-> Rounded(n)]
    BY <1>0, <2>2
  <2>7. a.journal = r /\ a.amount = Rounded(n) /\ Own(r)' = {a}
    BY <2>3, <2>6
  <2>. QED  BY <2>5, <2>7
<1>7. \A a \in allocations' : a.journal \in DOMAIN journals'
  <2>1. \A a \in NewAllocations(r) : (a.journal = r /\ Posts(r)) \/ a.journal \in DOMAIN journals
    BY <1>0 DEF NewAllocations, Place, Late, Posts
  <2>. QED  BY <1>0, <1>1, <2>1 DEF PostingIsWhole
<1>8. accounts' \in {{}, Codes}
  BY AccountsAfter
<1>. QED  BY <1>1, <1>2, <1>3, <1>5, <1>6, <1>7, <1>8 DEF PostingIsWhole

LEMMA CommitReversal ==
  ASSUME JournalsInv, NEW r \in Requests, Commit(r)
  PROVE  /\ ReversalIsExact'
         /\ \A x \in DOMAIN journals' : journals'[x].reverses \in DOMAIN journals' \cup {NoEntry}
<1>0. /\ ReversalIsExact /\ pc[r] = "commit" /\ Place(r) /\ Race(r) /\ TypeOK
      /\ \A x \in DOMAIN journals : journals[x].reverses \in DOMAIN journals \cup {NoEntry}
      /\ Numbers = 1..Cardinality(DOMAIN journals)
  BY DEF JournalsInv, Commit, Recorded
<1>1. /\ DOMAIN journals' = DOMAIN journals \cup {q \in {r} : Posts(q)} /\ r \notin DOMAIN journals
      /\ Posts(r) => journals'[r] = NewJournal(r)
      /\ DOMAIN journals \subseteq Ids /\ NoEntry \notin Ids /\ r \in Ids
  BY <1>0, JournalsAfterCommit, NamesAssumption DEF TypeOK, Ids
<1>2. Posts(r) => /\ journals'[r].no = num[r] /\ journals'[r].status = "posted"
                  /\ journals'[r].saw = saw[r] /\ journals'[r].lines = Stored(NewLines(r))
                  /\ journals'[r].reverses = IF cmd[r].op = "reverse" THEN cmd[r].of ELSE NoEntry
  BY <1>1 DEF NewJournal
<1>3. cmd[r].op = "reverse" => Posts(r) /\ cmd[r].of \in DOMAIN journals
  BY <1>0 DEF Place, Posts, Late
<1>4. \A x \in DOMAIN journals' : journals'[x].reverses \in DOMAIN journals' \cup {NoEntry}
  BY <1>0, <1>1, <1>2, <1>3, OldJournals
<1>5. \A x \in DOMAIN journals, y \in Ids :
        Compensates(y, x)' <=> Compensates(y, x) \/ (y = r /\ cmd[r].op = "reverse" /\ x = cmd[r].of)
  <2>1. \A y \in DOMAIN journals : y \in DOMAIN journals' /\ journals'[y].reverses = journals[y].reverses
    BY OldJournals
  <2>. QED  BY <1>1, <1>2, <1>3, <2>1 DEF Compensates
<1>6. Posts(r) => \A y \in Ids : ~Compensates(y, r)'
  <2>1. \A y \in DOMAIN journals : journals'[y].reverses = journals[y].reverses
    BY OldJournals
  <2>. QED  BY <1>0, <1>1, <1>2, <1>3, <2>1 DEF Compensates
<1>7. Posts(r) => \A y \in DOMAIN journals : journals[y].no < num[r] /\ journals[y].no \in Nat /\ num[r] \in Nat
  <2>1. Posts(r) => num[r] = Cardinality(DOMAIN journals) + 1
    BY CommitNumbers
  <2>2. \A y \in DOMAIN journals : journals[y].no \in 1..Cardinality(DOMAIN journals)
    BY <1>0 DEF Numbers
  <2>. QED  BY <1>0, <2>1, <2>2, FiniteJournals
<1>8. ASSUME NEW x \in DOMAIN journals
      PROVE  /\ journals'[x].status = "reversed" => Compensates(journals[x].reversedBy, x)'
             /\ \A y \in Ids : Compensates(y, x)' =>
                  /\ journals'[x].status = "reversed"
                  /\ journals'[y].lines = Mirror(journals'[x].lines)
                  /\ journals'[y].no <= journals'[journals'[x].reversedBy].no
                  /\ \A z \in Ids : Compensates(z, x)' /\ journals'[z].no < journals'[y].no =>
                       z \notin journals'[y].saw
  <2>1. /\ journals'[x].lines = journals[x].lines /\ x # r
        /\ IF cmd[r].op = "reverse" /\ x = cmd[r].of
           THEN journals'[x].status = "reversed" /\ journals'[x].reversedBy = r
           ELSE journals'[x].status = journals[x].status
                /\ journals'[x].reversedBy = journals[x].reversedBy
    BY OldJournals
  <2>2. \A y \in DOMAIN journals :
          /\ journals'[y].lines = journals[y].lines /\ journals'[y].no = journals[y].no
          /\ journals'[y].saw = journals[y].saw
    BY OldJournals
  <2>3. \A y \in Ids : Compensates(y, x) => y \in DOMAIN journals
    BY DEF Compensates
  <2>4. /\ journals[x].status = "reversed" =>
             Compensates(journals[x].reversedBy, x) /\ journals[x].reversedBy \in DOMAIN journals
        /\ \A y \in Ids : Compensates(y, x) =>
             /\ journals[x].status = "reversed"
             /\ journals[y].lines = Mirror(journals[x].lines)
             /\ journals[y].no <= journals[journals[x].reversedBy].no
             /\ \A z \in Ids : Compensates(z, x) /\ journals[z].no < journals[y].no =>
                  z \notin journals[y].saw
    BY <1>0 DEF ReversalIsExact, Compensates
  <2>5. CASE cmd[r].op = "reverse" /\ x = cmd[r].of
    <3>1. journals'[r].lines = Mirror(journals[x].lines) /\ Posts(r)
      BY <1>2, <1>3, <2>5, NewLinesType DEF NewLines
    <3>2. \A z \in Ids : Compensates(z, x) => z \notin saw[r]
      BY <1>0, <2>5 DEF Race, Late
    <3>3. r \notin saw[r]
      BY <1>0, <1>1 DEF Race
    <3>4. Compensates(r, x)' /\ ~Compensates(r, x)
      BY <1>1, <1>5, <2>3, <2>5
    <3>5. ASSUME NEW y \in Ids, Compensates(y, x)'
          PROVE  /\ journals'[y].lines = Mirror(journals[x].lines)
                 /\ journals'[y].no <= journals'[r].no
                 /\ \A z \in Ids : Compensates(z, x)' /\ journals'[z].no < journals'[y].no =>
                      z \notin journals'[y].saw
      <4>1. CASE y = r
        BY <1>2, <1>5, <1>7, <3>1, <3>2, <3>3, <4>1
      <4>2. CASE y # r
        <5>1. Compensates(y, x) /\ y \in DOMAIN journals
          BY <1>5, <2>3, <3>5, <4>2
        <5>2. ~(journals'[r].no < journals'[y].no) /\ journals'[y].no <= journals'[r].no
          BY <1>2, <1>7, <2>2, <3>1, <5>1
        <5>. QED  BY <1>5, <2>2, <2>3, <2>4, <5>1, <5>2
      <4>. QED  BY <4>1, <4>2
    <3>. QED  BY <2>1, <2>5, <3>4, <3>5
  <2>6. CASE ~(cmd[r].op = "reverse" /\ x = cmd[r].of)
    <3>1. \A y \in Ids : Compensates(y, x)' <=> Compensates(y, x)
      BY <1>5, <2>6
    <3>2. journals[x].reversedBy \in Ids \cup {NoEntry}
      BY <1>0 DEF TypeOK, Journal
    <3>. QED  BY <1>1, <2>1, <2>2, <2>3, <2>4, <2>6, <3>1
  <2>. QED  BY <2>5, <2>6
<1>9. ReversalIsExact'
  <2>1. ASSUME NEW x \in DOMAIN journals' \ DOMAIN journals
        PROVE  x = r /\ journals'[x].status = "posted" /\ \A y \in Ids : ~Compensates(y, x)'
    BY <1>1, <1>2, <1>6
  <2>. QED  BY <1>8, <2>1 DEF ReversalIsExact
<1>. QED  BY <1>4, <1>9

\* What a commit leaves of the facts about the other requests.
LEMMA CommitOthers ==
  ASSUME JournalsInv, NEW r \in Requests, Commit(r), NEW q \in Requests, q # r
  PROVE  (Place(q) /\ Lock(q) /\ Race(q))'
<1>0. /\ pc'[q] = pc[q] /\ held'[q] = held[q] /\ cmd' = cmd /\ saw' = saw /\ code' = code /\ num' = num
      /\ Place(q) /\ Lock(q) /\ Race(q) /\ TypeOK /\ pc[r] = "commit" /\ Lock(r)
      /\ held[r] \cap held[q] = {}
      /\ allocations' = allocations \cup NewAllocations(r)
      /\ keyRow' = [k \in Keys |-> IF KeyValue(k) \in held[r] THEN r ELSE keyRow[k]]
  BY DEF JournalsInv, Commit, TypeOK, Goto, Release, Exclusive
<1>1. /\ DOMAIN journals' = DOMAIN journals \cup {p \in {r} : Posts(p)} /\ r \notin DOMAIN journals
      /\ accounts \subseteq accounts'
      /\ Posts(r) => HoldsNumber(r) /\ num[r] = NextNumber
  BY JournalsAfterCommit, AccountsAfter
<1>2. Posts(r) /\ Posts(q) => pc[q] \notin Late
  BY <1>0, <1>1 DEF Lock, HoldsNumber
<1>3. \A n : Number(n) \in held[q] => ~Posts(r)
  BY <1>0, <1>1 DEF Lock, HoldsNumber
<1>4. Posts(r) => r \notin saw[q] /\ Lost(q)'
  <2>1. r \notin saw[q]
    BY <1>0, <1>1 DEF Race
  <2>. QED  BY <1>0, <1>1, <2>1 DEF Lost
<1>5. Lost(q) => Lost(q)'
  BY <1>0, <1>1 DEF Lost
<1>6. ~Posts(r) => DOMAIN journals' = DOMAIN journals /\ NextNumber' = NextNumber /\ Numbers' = Numbers
  <2>1. ~Posts(r) => DOMAIN journals' = DOMAIN journals
    BY <1>1
  <2>2. \A x \in DOMAIN journals : journals'[x].no = journals[x].no
    BY OldJournals
  <2>. QED  BY <2>1, <2>2 DEF NextNumber, Numbers
<1>7. \A k \in Keys : KeyValue(k) \in held[r] => Posts(r) /\ KeyValue(k) \notin held[q]
  BY <1>0 DEF Lock
<1>8. Place(q)'
  BY <1>0, <1>1 DEF Place, Posts, Amiss, Late
<1>9. Lock(q)'
  BY <1>0, <1>2, <1>3, <1>6, <1>7 DEF Lock, Posts, Late
<1>10. Race(q)'
  <2>1. /\ (saw[q] \subseteq DOMAIN journals)'
        /\ (q \in DOMAIN journals => pc[q] = "done")'
    BY <1>0, <1>1 DEF Race
  <2>2. (\A a \in allocations : a.by = q => pc[q] = "done")'
    <3>1. \A a \in NewAllocations(r) : a.by = r
      BY DEF NewAllocations
    <3>. QED  BY <1>0, <3>1 DEF Race
  <2>3. (pc[q] = "insert" => num[q] \in 1..NextNumber /\ (num[q] \in Numbers => Lost(q)))'
    <3>1. NextNumber \in Nat /\ NextNumber' \in Nat /\ NextNumber' >= NextNumber
      BY CommitNumbers, <1>0, FiniteJournals DEF NextNumber
    <3>2. pc[q] = "insert" => num[q] \in 1..NextNumber'
      BY <1>0, <3>1 DEF Race
    <3>3. pc[q] = "insert" /\ num[q] \in Numbers' => Lost(q)'
      BY <1>0, <1>4, <1>5, <1>6 DEF Race
    <3>. QED  BY <1>0, <3>2, <3>3
  <2>4. (pc[q] = "account" /\ Chart[code[q]] \in accounts => Lost(q))'
    <3>1. cmd[r].op # "entry" => accounts' = accounts
      BY AccountsAfter
    <3>. QED  BY <1>0, <1>4, <1>5, <3>1 DEF Race, Posts
  <2>5. keyRow'[cmd[q].key] # keyRow[cmd[q].key] => Posts(r) \/ cmd[q].key \notin Keys
    BY <1>0, <1>7
  <2>6. keyRow[cmd[q].key] = Elsewhere => ~(KeyValue(cmd[q].key) \in held[r] /\ cmd[q].key \in Keys)
    BY <1>0, NamesAssumption DEF Lock
  <2>6a. pc[q] = "claim" \/ Keyed(cmd[q]) => cmd[q].key \in Keys
    BY <1>0 DEF Place, Keyed, TypeOK, Command
  <2>7. (pc[q] = "claim" /\ keyRow[cmd[q].key] # Nobody => Lost(q) \/ keyRow[cmd[q].key] = Elsewhere)'
    BY <1>0, <1>4, <1>5, <2>5, <2>6a DEF Race
  <2>8. (pc[q] = "clashed" => Lost(q) \/ (Keyed(cmd[q]) /\ keyRow[cmd[q].key] = Elsewhere))'
    BY <1>0, <1>4, <1>5, <2>5, <2>6a DEF Race, Keyed
  <2>9. (cmd[q].op = "reverse" /\ pc[q] \in {"count", "insert"} \cup Late =>
           \A z \in Ids : Compensates(z, cmd[q].of) => z \notin saw[q])'
    <3>1. ASSUME cmd[q].op = "reverse", pc[q] \in {"count", "insert"} \cup Late,
                 NEW z \in Ids, Compensates(z, cmd[q].of)'
          PROVE  z \notin saw[q]
      <4>1. CASE z \in DOMAIN journals
        <5>1. journals'[z].reverses = journals[z].reverses
          BY <4>1, OldJournals
        <5>2. Compensates(z, cmd[q].of)
          BY <1>0, <3>1, <4>1, <5>1 DEF Compensates
        <5>. QED  BY <1>0, <3>1, <5>2 DEF Race
      <4>2. CASE z \notin DOMAIN journals
        BY <1>0, <4>2 DEF Race
      <4>. QED  BY <4>1, <4>2
    <3>. QED  BY <1>0, <3>1 DEF Late, Compensates
  <2>. QED  BY <2>1, <2>2, <2>3, <2>4, <2>7, <2>8, <2>9 DEF Race
<1>. QED  BY <1>8, <1>9, <1>10

LEMMA CommitStep ==
  ASSUME JournalsInv, NEW r \in Requests, Commit(r)
  PROVE  JournalsInv'
<1>0. /\ pc'[r] = "done" /\ held'[r] = {} /\ held \in [Requests -> SUBSET Rows]
      /\ held' = [held EXCEPT ![r] = {}] /\ Exclusive /\ saw' = saw /\ Race(r)
  BY DEF JournalsInv, Commit, TypeOK, Goto, Release
<1>1. Exclusive'
  BY <1>0 DEF Exclusive
<1>2. Recorded'
  BY CommitNumbers, CommitPosting, CommitReversal DEF Recorded
<1>3. Place(r)' /\ Lock(r)'
  BY <1>0 DEF Place, Lock, Late
<1>4. Race(r)'
  <2>1. DOMAIN journals \subseteq DOMAIN journals'
    BY JournalsAfterCommit
  <2>. QED  BY <1>0, <2>1 DEF Race, Late
<1>. QED  BY <1>1, <1>2, <1>3, <1>4, CommitType, CommitOthers DEF JournalsInv

-----------------------------------------------------------------------------
(* All steps *)

LEMMA ElsewhereStep ==
  ASSUME JournalsInv, NEW k \in Keys, StoreElsewhere(k)
  PROVE  JournalsInv'
<1>0. /\ keyRow' = [keyRow EXCEPT ![k] = Elsewhere] /\ keyRow[k] = Nobody
      /\ keyRow \in [Keys -> Requests \cup {Nobody, Elsewhere}] /\ TypeOK
      /\ UNCHANGED <<accounts, journals, allocations, pc, cmd, saw, code, num, held>>
      /\ \A r \in Requests : KeyValue(k) \notin held[r]
      /\ Recorded /\ Exclusive /\ \A q \in Requests : Place(q) /\ Lock(q) /\ Race(q)
  BY DEF JournalsInv, StoreElsewhere, TypeOK
<1>1. TypeOK'
  BY <1>0 DEF TypeOK
<1>2. Recorded'
  BY <1>0 DEF Recorded, Numbers, PostingIsWhole, ReversalIsExact, Compensates, Own
<1>3. Exclusive'
  BY <1>0 DEF Exclusive
<1>4. ASSUME NEW q \in Requests PROVE (Place(q) /\ Lock(q) /\ Race(q))'
  <2>1. Place(q)'
    BY <1>0 DEF Place, Posts, Amiss, Late
  <2>2. Lock(q)'
    BY <1>0 DEF Lock, Posts, NextNumber, Late
  <2>3. /\ Lost(q)' <=> Lost(q)
        /\ Keyed(cmd[q]) => cmd[q].key \in Keys
        /\ pc[q] = "claim" => Keyed(cmd[q])
    BY <1>0 DEF Lost, Keyed, TypeOK, Command, Place
  <2>4. /\ Keyed(cmd[q]) /\ keyRow[cmd[q].key] = Elsewhere => keyRow'[cmd[q].key] = Elsewhere
        /\ Keyed(cmd[q]) /\ keyRow'[cmd[q].key] # keyRow[cmd[q].key] => keyRow'[cmd[q].key] = Elsewhere
    BY <1>0, <2>3
  <2>5. Race(q)'
    BY <1>0, <2>3, <2>4 DEF Race, NextNumber, Numbers, Compensates, Late
  <2>. QED  BY <2>1, <2>2, <2>5
<1>. QED  BY <1>1, <1>2, <1>3, <1>4 DEF JournalsInv

LEMMA QuietStep ==
  ASSUME JournalsInv, UNCHANGED vars
  PROVE  JournalsInv'
<1>0. /\ UNCHANGED <<db, cmd, pc, saw, code, num, held>> /\ TypeOK /\ Recorded /\ Exclusive
      /\ \A q \in Requests : Place(q) /\ Lock(q) /\ Race(q)
  BY DEF vars, db, JournalsInv
<1>1. TypeOK'
  BY <1>0 DEF TypeOK, db
<1>2. Recorded'
  BY <1>0, Untouched
<1>3. Exclusive'
  BY <1>0 DEF Exclusive
<1>4. \A q \in Requests : (Place(q) /\ Lock(q) /\ Race(q))'
  BY <1>0, Frame
<1>. QED  BY <1>1, <1>2, <1>3, <1>4 DEF JournalsInv

\* Of the ways in which a request ends without a commit, the clashes are those
\* for which the invariant must know that somebody else was faster.
LEMMA OutcomeStep ==
  ASSUME JournalsInv, NEW r \in Requests,
         \/ Replay(r) \/ RejectAmount(r) \/ RejectOriginal(r) \/ RejectLines(r) \/ RejectAccounts(r)
         \/ AccountClash(r) \/ InsertClash(r) \/ ClaimClash(r) \/ Crash(r)
  PROVE  JournalsInv'
<1>0. Place(r) /\ Race(r)
  BY DEF JournalsInv
<1>1. CASE \/ Replay(r) \/ RejectAmount(r) \/ RejectOriginal(r) \/ RejectLines(r)
           \/ RejectAccounts(r) \/ Crash(r)
  <2>1. PICK outcome \in {"replayed", "refused", "crashed"} : pc[r] \in InFlight /\ End(r, outcome)
    BY <1>1 DEF Replay, RejectAmount, RejectOriginal, RejectLines, RejectAccounts, Crash, Start, InFlight
  <2>. QED  BY <2>1, EndStep DEF Finished
<1>2. CASE AccountClash(r) \/ InsertClash(r) \/ ClaimClash(r)
  <2>1. pc[r] \in {"account", "insert", "claim"} /\ End(r, "clashed")
    BY <1>2 DEF AccountClash, InsertClash, ClaimClash
  <2>2. Lost(r) \/ (Keyed(cmd[r]) /\ keyRow[cmd[r].key] = Elsewhere)
    BY <1>0, <1>2 DEF AccountClash, InsertClash, ClaimClash, Race, Place
  <2>3. pc[r] \in InFlight /\ "clashed" \in Finished \ {"done"}
    BY <2>1 DEF InFlight, Finished
  <2>. QED  BY <2>1, <2>2, <2>3, EndStep
<1>. QED  BY <1>1, <1>2

LEMMA JournalsStep == JournalsInv /\ [Next]_vars => JournalsInv'
<1> SUFFICES ASSUME JournalsInv, [Next]_vars PROVE JournalsInv'
  OBVIOUS
<1>1. ASSUME NEW r \in Requests, Serve(r) PROVE JournalsInv'
  <2>1. CASE Moves(r)
    BY <2>1, MoveStep
  <2>2. CASE Writes(r)
    BY <2>2, WriteStep
  <2>3. CASE Commit(r)
    BY <2>3, CommitStep
  <2>4. CASE \/ Replay(r) \/ RejectAmount(r) \/ RejectOriginal(r) \/ RejectLines(r)
             \/ RejectAccounts(r) \/ AccountClash(r) \/ InsertClash(r) \/ ClaimClash(r)
    BY <2>4, OutcomeStep
  <2>. QED  BY <1>1, <2>1, <2>2, <2>3, <2>4 DEF Serve, Moves, Writes
<1>2. ASSUME NEW r \in Requests, Crash(r) PROVE JournalsInv'
  BY <1>2, OutcomeStep
<1>3. ASSUME NEW k \in Keys, StoreElsewhere(k) PROVE JournalsInv'
  BY <1>3, ElsewhereStep
<1>4. CASE UNCHANGED vars
  BY <1>4, QuietStep
<1>. QED  BY <1>1, <1>2, <1>3, <1>4 DEF Next, Quiescent

-----------------------------------------------------------------------------
(* The books balance as far as their columns hold the amounts *)

\* What is in the books was postable as it was given, and is what the columns make of
\* it; so is what a request is about to post.
BooksBalance ==
  /\ \A x \in DOMAIN journals : Near(journals[x].lines)
  /\ \A x \in DOMAIN journals \cap Requests :
       /\ Posts(x) /\ Postable(NewLines(x)) /\ journals[x].lines = Stored(NewLines(x))
       /\ cmd[x].op = "reverse" => cmd[x].of \in DOMAIN journals
  /\ \A q \in Requests : Posts(q) /\ pc[q] \in {"insert"} \cup Late => Postable(NewLines(q))

\* The sides of two and of three lines.
LEMMA TwoLines ==
  ASSUME NEW a \in InputLine, NEW b \in InputLine
  PROVE  /\ Debits(<<a, b>>) = a.debit + b.debit
         /\ Credits(<<a, b>>) = a.credit + b.credit
<1>1. a.debit \in Int /\ a.credit \in Int /\ b.debit \in Int /\ b.credit \in Int
  BY DEF InputLine
<1>2. ASSUME NEW f, DOMAIN f = {1, 2}, f[1] \in Int, f[2] \in Int
      PROVE  SumFunction(f) = f[1] + f[2]
  BY <1>2, SumOfTwo DEF SumFunction
<1>3. DOMAIN <<a, b>> = {1, 2} /\ <<a, b>>[1] = a /\ <<a, b>>[2] = b
  OBVIOUS
<1> DEFINE s == <<a, b>>
           d == [i \in DOMAIN s |-> s[i].debit]
           c == [i \in DOMAIN s |-> s[i].credit]
<1> HIDE DEF s
<1>4. DOMAIN s = {1, 2} /\ s[1] = a /\ s[2] = b
  BY <1>3 DEF s
<1>5. /\ DOMAIN d = {1, 2} /\ d[1] = a.debit /\ d[2] = b.debit
      /\ DOMAIN c = {1, 2} /\ c[1] = a.credit /\ c[2] = b.credit
  BY <1>4
<1> HIDE DEF d, c
<1>6. SumFunction(d) = a.debit + b.debit /\ SumFunction(c) = a.credit + b.credit
  BY <1>1, <1>2, <1>5
<1>. QED  BY <1>6 DEF Debits, Credits, d, c, s

LEMMA ThreeLines ==
  ASSUME NEW a \in InputLine, NEW b \in InputLine, NEW e \in InputLine
  PROVE  /\ Debits(<<a, b>> \o <<e>>) = a.debit + b.debit + e.debit
         /\ Credits(<<a, b>> \o <<e>>) = a.credit + b.credit + e.credit
<1>1. /\ a.debit \in Int /\ a.credit \in Int /\ b.debit \in Int /\ b.credit \in Int
      /\ e.debit \in Int /\ e.credit \in Int
  BY DEF InputLine
<1>2. ASSUME NEW f, DOMAIN f = {1, 2, 3}, f[1] \in Int, f[2] \in Int, f[3] \in Int
      PROVE  SumFunction(f) = f[1] + f[2] + f[3]
  BY <1>2, SumOfThree DEF SumFunction
<1> DEFINE s == <<a, b>> \o <<e>>
           d == [i \in DOMAIN s |-> s[i].debit]
           c == [i \in DOMAIN s |-> s[i].credit]
<1>4. DOMAIN s = {1, 2, 3} /\ s[1] = a /\ s[2] = b /\ s[3] = e
  OBVIOUS
<1> HIDE DEF s
<1>5. /\ DOMAIN d = {1, 2, 3} /\ d[1] = a.debit /\ d[2] = b.debit /\ d[3] = e.debit
      /\ DOMAIN c = {1, 2, 3} /\ c[1] = a.credit /\ c[2] = b.credit /\ c[3] = e.credit
  BY <1>4
<1> HIDE DEF d, c
<1>6. /\ SumFunction(d) = a.debit + b.debit + e.debit
      /\ SumFunction(c) = a.credit + b.credit + e.credit
  BY <1>1, <1>2, <1>5
<1>. QED  BY <1>6 DEF Debits, Credits, d, c, s

\* post_entry: two or three lines, which balance.
LEMMA EntryLinesBalance ==
  ASSUME NEW what \in EntryTypes, NEW n \in Nat \ {0}, NEW tax \in Nat
  PROVE  Postable(EntryLines(what, n, tax))
<1> DEFINE lines == EntryLines(what, n, tax)
<1>1. \A i \in DOMAIN lines : Sided(lines[i])
  BY EntryLinesType
<1>2. \A c \in Codes, k \in Nat :
        /\ Debit(c, k) \in InputLine /\ Credit(c, k) \in InputLine
        /\ Debit(c, k).debit = k /\ Debit(c, k).credit = 0
        /\ Credit(c, k).debit = 0 /\ Credit(c, k).credit = k
  BY DEF Debit, Credit, InputLine
<1>3. n + tax \in Nat \ {0} /\ (~(tax > 0) => n + tax = n) /\ \A a, b : <<a, b>> \o <<>> = <<a, b>>
  OBVIOUS
<1>4. ASSUME NEW c \in Codes, NEW e \in Codes, NEW k \in Nat \ {0}
      PROVE  Balanced(<<Debit(c, k), Credit(e, k)>>)
  BY <1>2, TwoLines DEF Balanced
<1>5. CASE what \in {"receipt", "liability", "payment"}
  <2>1. PICK c, e \in Codes : lines = <<Debit(c, n), Credit(e, n)>>
    BY <1>5, NamedCodes DEF EntryLines
  <2>2. Balanced(lines)
    BY <1>4, <2>1
  <2>. QED  BY <1>1, <2>2 DEF Postable
<1>6. CASE what \in {"revenue", "return"} /\ ~(tax > 0)
  <2>1. PICK c, e \in Codes : lines = <<Debit(c, n), Credit(e, n)>>
    BY <1>3, <1>6, NamedCodes DEF EntryLines
  <2>2. Balanced(lines)
    BY <1>4, <2>1
  <2>. QED  BY <1>1, <2>2 DEF Postable
<1>7. CASE what = "revenue" /\ tax > 0
  <2>1. lines = <<Debit("receivable", n + tax), Credit("revenue", n)>> \o <<Credit("tax", tax)>>
    BY <1>7 DEF EntryLines
  <2>2. Debits(lines) = (n + tax) + 0 + 0 /\ Credits(lines) = 0 + n + tax
    BY <1>2, <1>3, <2>1, ThreeLines, NamedCodes
  <2>3. Balanced(lines)
    BY <1>3, <2>2 DEF Balanced
  <2>. QED  BY <1>1, <2>3 DEF Postable
<1>8. CASE what = "return" /\ tax > 0
  <2>1. lines = <<Debit("returns", n), Credit("receivable", n + tax)>> \o <<Debit("tax", tax)>>
    BY <1>8 DEF EntryLines
  <2>2. Debits(lines) = n + 0 + tax /\ Credits(lines) = 0 + (n + tax) + 0
    BY <1>2, <1>3, <2>1, ThreeLines, NamedCodes
  <2>3. Balanced(lines)
    BY <1>3, <2>2 DEF Balanced
  <2>. QED  BY <1>1, <2>3 DEF Postable
<1>. QED  BY <1>5, <1>6, <1>7, <1>8 DEF EntryTypes

\* A mirror exchanges the sides: it is postable if the original is.
LEMMA MirrorPostable ==
  ASSUME NEW lines \in Seq(Line), Postable(lines)
  PROVE  Postable(Mirror(lines))
<1>1. DOMAIN Mirror(lines) = DOMAIN lines
  BY DEF Mirror
<1>2. \A i \in DOMAIN lines : /\ Mirror(lines)[i].debit = lines[i].credit
                              /\ Mirror(lines)[i].credit = lines[i].debit
  BY DEF Mirror
<1>3. [i \in DOMAIN Mirror(lines) |-> Mirror(lines)[i].debit] = [i \in DOMAIN lines |-> lines[i].credit]
  BY <1>1, <1>2
<1>4. [i \in DOMAIN Mirror(lines) |-> Mirror(lines)[i].credit] = [i \in DOMAIN lines |-> lines[i].debit]
  BY <1>1, <1>2
<1>5. Debits(Mirror(lines)) = Credits(lines) /\ Credits(Mirror(lines)) = Debits(lines)
  BY <1>3, <1>4 DEF Debits, Credits
<1>6. Balanced(Mirror(lines))
  BY <1>5 DEF Postable, Balanced
<1>7. \A i \in DOMAIN Mirror(lines) : Sided(Mirror(lines)[i])
  BY <1>1, <1>2 DEF Postable, Sided
<1>. QED  BY <1>6, <1>7 DEF Postable

\* Each line has one side that rounding moves, by half a unit at most; two lines have
\* the same amount on either side.
LEMMA StoredNear ==
  ASSUME NEW lines \in Seq(InputLine), Postable(lines)
  PROVE  Near(Stored(lines))
<1> DEFINE S == DOMAIN lines
           d == [i \in S |-> lines[i].debit]
           c == [i \in S |-> lines[i].credit]
           D == [i \in S |-> Rounded(lines[i].debit)]
           C == [i \in S |-> Rounded(lines[i].credit)]
<1>0. Unit \in Nat \ {0}
  BY UnitAssumption
<1>1. \A i \in S : /\ lines[i].debit \in Nat /\ lines[i].credit \in Nat
                   /\ lines[i].debit = 0 <=> lines[i].credit # 0
  <2>1. \A i \in S : lines[i] \in InputLine /\ Sided(lines[i])
    BY DEF Postable
  <2>2. \A l \in InputLine : Sided(l) =>
          l.debit \in Nat /\ l.credit \in Nat /\ (l.debit = 0 <=> l.credit # 0)
    BY DEF InputLine, Sided
  <2>. QED  BY <2>1, <2>2
<1>2. /\ DOMAIN Stored(lines) = S /\ Len(Stored(lines)) = Len(lines) /\ Len(lines) \in Nat
      /\ \A i \in S : Stored(lines)[i].debit = D[i] /\ Stored(lines)[i].credit = C[i]
  BY <1>1, StoredType
<1>3. IsFiniteSet(S) /\ Cardinality(S) = Len(lines)
  <2>1. S = 1..Len(lines) /\ Len(lines) \in Nat
    OBVIOUS
  <2>. QED  BY <2>1, FS_Interval
<1>4. \A i \in S : /\ d[i] \in Nat /\ c[i] \in Nat /\ D[i] \in Nat /\ C[i] \in Nat
                   /\ (d[i] = 0 /\ D[i] = 0) \/ (c[i] = 0 /\ C[i] = 0)
                   /\ 2 * (D[i] - d[i]) <= Unit /\ 2 * (d[i] - D[i]) <= Unit
                   /\ 2 * (C[i] - c[i]) <= Unit /\ 2 * (c[i] - C[i]) <= Unit
  BY <1>1, RoundedFacts, ZeroStorable
<1>5. [i \in DOMAIN Stored(lines) |-> Stored(lines)[i].debit] = D
  BY <1>2
<1>6. [i \in DOMAIN Stored(lines) |-> Stored(lines)[i].credit] = C
  BY <1>2
<1>7. DOMAIN d = S /\ DOMAIN c = S /\ DOMAIN D = S /\ DOMAIN C = S
  OBVIOUS
<1>8. /\ Debits(lines) = SumFunctionOnSet(d, S) /\ Credits(lines) = SumFunctionOnSet(c, S)
      /\ Debits(Stored(lines)) = SumFunctionOnSet(D, S)
      /\ Credits(Stored(lines)) = SumFunctionOnSet(C, S)
  BY <1>5, <1>6, <1>7 DEF Debits, Credits, SumFunction
<1>9. Debits(lines) = Credits(lines)
  BY DEF Postable, Balanced
<1>a. /\ Len(lines) = 2 => S = {1, 2}
      /\ d \in [S -> Int] /\ c \in [S -> Int] /\ D \in [S -> Int] /\ C \in [S -> Int]
  BY <1>4
<1>b. \A i \in S : /\ d[i] = 0 => C[i] = Rounded(c[i])
                   /\ c[i] = 0 => D[i] = Rounded(d[i])
                   /\ D[i] = Rounded(d[i]) /\ C[i] = Rounded(c[i])
                   /\ d[i] = 0 <=> c[i] # 0
  BY <1>1
<1> HIDE DEF S, d, c, D, C
<1> DEFINE gap == SumFunctionOnSet(D, S) - SumFunctionOnSet(C, S)
           got == SumFunctionOnSet(d, S) - SumFunctionOnSet(c, S)
<1>10. \A i \in S : /\ d[i] \in Int /\ c[i] \in Int /\ D[i] \in Int /\ C[i] \in Int
                    /\ 2 * ((D[i] - C[i]) - (d[i] - c[i])) <= Unit
                    /\ 2 * ((d[i] - c[i]) - (D[i] - C[i])) <= Unit
  <2>1. \A u, x, X \in Int : 2 * (X - x) <= u /\ 2 * (x - X) <= u =>
          /\ 2 * ((X - 0) - (x - 0)) <= u /\ 2 * ((x - 0) - (X - 0)) <= u
          /\ 2 * ((0 - X) - (0 - x)) <= u /\ 2 * ((0 - x) - (0 - X)) <= u
    OBVIOUS
  <2>2. \A i \in S : d[i] \in Int /\ c[i] \in Int /\ D[i] \in Int /\ C[i] \in Int
    BY <1>4
  <2>3. ASSUME NEW i \in S, d[i] = 0 /\ D[i] = 0
        PROVE  /\ 2 * ((D[i] - C[i]) - (d[i] - c[i])) <= Unit
               /\ 2 * ((d[i] - c[i]) - (D[i] - C[i])) <= Unit
    BY <1>0, <1>4, <2>1, <2>2, <2>3
  <2>4. ASSUME NEW i \in S, c[i] = 0 /\ C[i] = 0
        PROVE  /\ 2 * ((D[i] - C[i]) - (d[i] - c[i])) <= Unit
               /\ 2 * ((d[i] - c[i]) - (D[i] - C[i])) <= Unit
    BY <1>0, <1>4, <2>1, <2>2, <2>4
  <2>. QED  BY <1>4, <2>2, <2>3, <2>4
<1>11. /\ gap \in Int /\ got \in Int
       /\ SumFunctionOnSet(d, S) \in Int /\ SumFunctionOnSet(c, S) \in Int
       /\ 2 * (gap - got) <= Unit * Cardinality(S) /\ 2 * (got - gap) <= Unit * Cardinality(S)
  <2>1. Unit \in Nat
    BY <1>0
  <2>2. /\ SumFunctionOnSet(d, S) \in Int /\ SumFunctionOnSet(c, S) \in Int
        /\ SumFunctionOnSet(D, S) \in Int /\ SumFunctionOnSet(C, S) \in Int
        /\ 2 * (gap - got) <= Unit * Cardinality(S) /\ 2 * (got - gap) <= Unit * Cardinality(S)
    BY <1>3, <1>10, <2>1, SumsWithin
  <2>. QED  BY <2>2
<1>12. got = 0
  BY <1>8, <1>9, <1>11
<1>13. Len(lines) = 2 => gap = 0
  <2>1. SUFFICES ASSUME Len(lines) = 2 PROVE gap = 0
    OBVIOUS
  <2>2. S = {1, 2} /\ 1 # 2
    BY <1>a, <2>1
  <2>3. /\ SumFunctionOnSet(d, S) = d[1] + d[2] /\ SumFunctionOnSet(c, S) = c[1] + c[2]
        /\ SumFunctionOnSet(D, S) = D[1] + D[2] /\ SumFunctionOnSet(C, S) = C[1] + C[2]
    BY <1>10, <2>2, SumOfTwo
  <2>4. d[1] + d[2] = c[1] + c[2]
    BY <1>8, <1>9, <2>3
  <2>5. /\ d[1] \in Nat /\ d[2] \in Nat /\ c[1] \in Nat /\ c[2] \in Nat
        /\ (d[1] = 0 <=> c[1] # 0) /\ (d[2] = 0 <=> c[2] # 0)
    BY <1>4, <1>b, <2>2
  <2>6. (d[1] = c[2] /\ c[1] = d[2])
    <3>1. \A x, y, z, w \in Nat :
            x + y = z + w /\ (x = 0 <=> z # 0) /\ (y = 0 <=> w # 0) => x = w /\ z = y
      OBVIOUS
    <3>. QED  BY <2>4, <2>5, <3>1
  <2>7. D[1] = C[2] /\ C[1] = D[2] /\ D[1] \in Int /\ D[2] \in Int /\ C[1] \in Int /\ C[2] \in Int
    BY <1>10, <1>b, <2>2, <2>6
  <2>. QED  BY <2>3, <2>7
<1>14. Debits(Stored(lines)) - Credits(Stored(lines)) = gap
  BY <1>8
<1>15. 2 * gap <= Unit * Len(Stored(lines)) /\ -(2 * gap) <= Unit * Len(Stored(lines))
  <2>1. 2 * (gap - 0) <= Unit * Len(lines) /\ 2 * (0 - gap) <= Unit * Len(lines)
    BY <1>3, <1>11, <1>12
  <2>2. 2 * (0 - gap) = -(2 * gap) /\ gap - 0 = gap
    BY <1>11
  <2>. QED  BY <1>2, <2>1, <2>2
<1> HIDE DEF gap
<1>. QED  BY <1>2, <1>13, <1>14, <1>15 DEF Near

LEMMA BooksInit == Init => BooksBalance
<1> SUFFICES ASSUME Init PROVE BooksBalance
  OBVIOUS
<1>1. PICK b \in Books : journals = b.journals
  BY DEF Init
<1>2. Opening(b)
  BY BooksAssumption
<1>3. DOMAIN journals \cap Requests = {} /\ \A x \in DOMAIN journals : Near(journals[x].lines)
  BY <1>1, <1>2, NamesAssumption DEF Opening
<1>4. \A r \in Requests : pc[r] \in {"lookup", "chart", "count", "original"}
  BY DEF Init, First, Start
<1>. QED  BY <1>3, <1>4 DEF BooksBalance, Late

\* The lines that post_journal checks: it has nothing to refuse in those of an entry,
\* or of a reversal of what the columns hold as it was given.
LEMMA CountedLines ==
  ASSUME JournalsInv, BooksBalance, NEW r \in Requests, pc[r] = "count"
  PROVE  /\ cmd[r].op = "entry" => Postable(NewLines(r))
         /\ cmd[r].op = "reverse" /\ cmd[r].of \in Requests /\ Exact(NewLines(cmd[r].of)) =>
              Postable(NewLines(r))
<1>0. cmd[r] \in Command /\ Place(r)
  BY DEF JournalsInv, TypeOK
<1>1. ASSUME cmd[r].op = "entry" PROVE Postable(NewLines(r))
  <2>1. NewLines(r) = EntryLines(cmd[r].what, cmd[r].amount, cmd[r].tax)
    BY <1>1 DEF NewLines
  <2>2. cmd[r].amount \in Nat \ {0} /\ cmd[r].tax \in Nat /\ cmd[r].what \in EntryTypes
    BY <1>0, <1>1 DEF Place, Amiss, Command
  <2>. QED  BY <2>1, <2>2, EntryLinesBalance
<1>2. ASSUME cmd[r].op = "reverse", cmd[r].of \in Requests, Exact(NewLines(cmd[r].of))
      PROVE  Postable(NewLines(r))
  <2>1. NewLines(r) = Mirror(journals[cmd[r].of].lines) /\ cmd[r].of \in DOMAIN journals
    BY <1>0, <1>2 DEF NewLines, Place
  <2>2. journals[cmd[r].of].lines \in Seq(Line) /\ Postable(journals[cmd[r].of].lines)
    BY <1>2, <2>1 DEF JournalsInv, TypeOK, Journal, BooksBalance, Exact
  <2>. QED  BY <2>1, <2>2, MirrorPostable
<1>. QED  BY <1>1, <1>2

\* A step that leaves the journals alone: what is about to be posted has been
\* postable before, or has just been checked.
LEMMA BooksKept ==
  ASSUME BooksBalance, UNCHANGED <<journals, cmd>>,
         \A q \in Requests : Posts(q) /\ pc'[q] \in {"insert"} \cup Late =>
           pc[q] \in {"insert"} \cup Late \/ Postable(NewLines(q))
  PROVE  BooksBalance'
<1>1. \A q \in Requests : Posts(q)' = Posts(q) /\ NewLines(q)' = NewLines(q)
  BY DEF Posts, NewLines
<1>. QED  BY <1>1 DEF BooksBalance, Late

LEMMA BooksCommit ==
  ASSUME JournalsInv, BooksBalance, NEW r \in Requests, Commit(r)
  PROVE  BooksBalance'
<1>0. /\ pc[r] = "commit" /\ pc'[r] = "done" /\ cmd' = cmd
      /\ \A q \in Requests : q # r => pc'[q] = pc[q]
      /\ \A q \in Requests : cmd[q] \in Command /\ Place(q)
  BY DEF JournalsInv, TypeOK, Commit, Goto
<1>1. /\ DOMAIN journals' = DOMAIN journals \cup {q \in {r} : Posts(q)} /\ r \notin DOMAIN journals
      /\ Posts(r) => journals'[r].lines = Stored(NewLines(r))
      /\ \A x \in DOMAIN journals : journals'[x].lines = journals[x].lines
  <2>1. Posts(r) => journals'[r] = NewJournal(r)
    BY JournalsAfterCommit
  <2>2. Posts(r) => journals'[r].lines = Stored(NewLines(r))
    BY <2>1 DEF NewJournal
  <2>3. \A x \in DOMAIN journals : journals'[x].lines = journals[x].lines
    BY OldJournals
  <2>. QED  BY <2>2, <2>3, JournalsAfterCommit
<1>2. \A q \in Requests : Posts(q)' = Posts(q)
  BY <1>0 DEF Posts
<1>3. ASSUME NEW q \in Requests, Posts(q), cmd[q].op = "reverse" => cmd[q].of \in DOMAIN journals
      PROVE  NewLines(q)' = NewLines(q)
  <2>1. cmd[q].op \in {"entry", "journal", "reverse"}
    BY <1>0, <1>3 DEF Command, Posts
  <2>2. CASE cmd[q].op = "reverse"
    BY <1>0, <1>1, <1>3, <2>2 DEF NewLines
  <2>3. CASE cmd[q].op \in {"entry", "journal"}
    BY <1>0, <2>3 DEF NewLines
  <2>. QED  BY <2>1, <2>2, <2>3
<1>4. Posts(r) => /\ Postable(NewLines(r)) /\ NewLines(r)' = NewLines(r)
                  /\ cmd[r].op = "reverse" => cmd[r].of \in DOMAIN journals
  BY <1>0, <1>3 DEF BooksBalance, Place, Late
<1>5. ASSUME NEW x \in DOMAIN journals' PROVE Near(journals'[x].lines)
  <2>1. CASE x \in DOMAIN journals
    BY <1>1, <2>1 DEF BooksBalance
  <2>2. CASE x \notin DOMAIN journals
    <3>1. x = r /\ Posts(r)
      BY <1>1, <2>2
    <3>. QED  BY <1>1, <1>4, <3>1, NewLinesType, StoredNear
  <2>. QED  BY <2>1, <2>2
<1>6. ASSUME NEW x \in DOMAIN journals' \cap Requests
      PROVE  /\ Posts(x)' /\ Postable(NewLines(x)') /\ journals'[x].lines = Stored(NewLines(x)')
             /\ cmd'[x].op = "reverse" => cmd'[x].of \in DOMAIN journals'
  <2>1. CASE x \in DOMAIN journals
    <3>1. /\ Posts(x) /\ Postable(NewLines(x)) /\ journals[x].lines = Stored(NewLines(x))
          /\ cmd[x].op = "reverse" => cmd[x].of \in DOMAIN journals
      BY <2>1 DEF BooksBalance
    <3>2. NewLines(x)' = NewLines(x)
      BY <1>3, <3>1
    <3>. QED  BY <1>0, <1>1, <1>2, <2>1, <3>1, <3>2
  <2>2. CASE x \notin DOMAIN journals
    <3>1. x = r /\ Posts(r)
      BY <1>1, <2>2
    <3>. QED  BY <1>0, <1>1, <1>2, <1>4, <3>1
  <2>. QED  BY <2>1, <2>2
<1>7. ASSUME NEW q \in Requests, Posts(q)', pc'[q] \in {"insert"} \cup Late
      PROVE  Postable(NewLines(q)')
  <2>1. q # r /\ Posts(q) /\ pc[q] \in {"insert"} \cup Late
    BY <1>0, <1>2, <1>7 DEF Late
  <2>2. Postable(NewLines(q)) /\ (cmd[q].op = "reverse" => cmd[q].of \in DOMAIN journals)
    BY <1>0, <2>1 DEF BooksBalance, Place
  <2>. QED  BY <1>3, <2>1, <2>2
<1>8. \A lines : Postable(lines)' <=> Postable(lines)
  BY DEF Postable, Sided, Balanced, Debits, Credits
<1>. QED  BY <1>0, <1>5, <1>6, <1>7 DEF BooksBalance, Late

LEMMA BooksStep == JournalsInv /\ BooksBalance /\ [Next]_vars => BooksBalance'
<1> SUFFICES ASSUME JournalsInv, BooksBalance, [Next]_vars PROVE BooksBalance'
  OBVIOUS
<1>0. pc \in [Requests -> InFlight \cup Finished] /\ \A q \in Requests : Place(q)
  BY DEF JournalsInv, TypeOK
<1>1. ASSUME NEW r \in Requests, Serve(r) \/ Crash(r) PROVE BooksBalance'
  <2>1. CASE Commit(r)
    BY <2>1, BooksCommit
  <2>2. CASE Count(r)
    <3>1. /\ Postable(NewLines(r)) /\ UNCHANGED <<journals, cmd>>
          /\ \A q \in Requests : q # r => pc'[q] = pc[q]
      BY <1>0, <2>2 DEF Count, Goto, db
    <3>. QED  BY <3>1, BooksKept
  <2>3. CASE \/ Insert(r) \/ Mark(r) \/ Recheck(r) \/ ClaimKey(r)
    <3>1. /\ pc[r] \in {"insert"} \cup Late /\ UNCHANGED <<journals, cmd>>
          /\ \A q \in Requests : q # r => pc'[q] = pc[q]
      BY <1>0, <2>3 DEF Insert, Mark, Recheck, ClaimKey, Write, Goto, db, Late
    <3>. QED  BY <3>1, BooksKept
  <2>4. CASE \/ Proceed(r) \/ FindMissing(r) \/ AddAccount(r) \/ FindWhole(r) \/ LoadOriginal(r)
    <3>1. /\ pc'[r] \notin {"insert"} \cup Late \/ ~Posts(r)
          /\ UNCHANGED <<journals, cmd>>
          /\ \A q \in Requests : q # r => pc'[q] = pc[q]
      BY <1>0, <2>4
         DEF Proceed, FindMissing, AddAccount, FindWhole, LoadOriginal, Write, Goto, db, Late,
             Start, Place, Posts
    <3>. QED  BY <3>1, BooksKept
  <2>5. CASE \/ Replay(r) \/ RejectAmount(r) \/ AccountClash(r) \/ RejectOriginal(r)
             \/ RejectLines(r) \/ RejectAccounts(r) \/ InsertClash(r) \/ ClaimClash(r) \/ Crash(r)
    <3>1. /\ pc'[r] \in Finished /\ UNCHANGED <<journals, cmd>>
          /\ \A q \in Requests : q # r => pc'[q] = pc[q]
      BY <1>0, <2>5
         DEF Replay, RejectAmount, AccountClash, RejectOriginal, RejectLines, RejectAccounts,
             InsertClash, ClaimClash, Crash, End, Goto, db, Finished
    <3>2. pc'[r] \notin {"insert"} \cup Late
      BY <3>1 DEF Finished, Late
    <3>. QED  BY <3>1, <3>2, BooksKept
  <2>. QED  BY <1>1, <2>1, <2>2, <2>3, <2>4, <2>5 DEF Serve
<1>2. CASE \/ \E k \in Keys : StoreElsewhere(k)
           \/ UNCHANGED vars
  <2>1. UNCHANGED <<journals, cmd, pc>>
    BY <1>2 DEF StoreElsewhere, vars
  <2>. QED  BY <2>1, BooksKept
<1>. QED  BY <1>1, <1>2 DEF Next, Quiescent

-----------------------------------------------------------------------------
(* Theorems *)

\* Every reachable state satisfies the inductive invariant: what a posting,
\* reversal or allocation has read, checked and locked is known at each of its
\* statements, whatever the other transactions do meanwhile.
THEOREM JournalsInvariant == Spec => []JournalsInv
  BY JournalsInit, JournalsStep, PTL DEF Spec

\* Rows, lines, statuses and references keep their types, and a transaction of
\* AccountingService that has committed or rolled back holds no lock.
THEOREM JournalsTypes == Spec => []TypeOK
<1>1. JournalsInv => TypeOK
  BY DEF JournalsInv
<1>. QED  BY <1>1, JournalsInvariant, PTL

\* _next_entry_number counts rows without a lock, and yet the unique index lets
\* one transaction at a time commit a journal, with the next number and no gap.
THEOREM NumberingIsSerial == Spec => []OnePoster
<1>1. JournalsInv => OnePoster
  <2>. SUFFICES ASSUME JournalsInv PROVE OnePoster
    OBVIOUS
  <2>1. \A r \in Requests : HoldsNumber(r) => num[r] = NextNumber
    BY DEF JournalsInv, Lock, HoldsNumber
  <2>2. \A r, q \in Requests : HoldsNumber(r) /\ HoldsNumber(q) => r = q
    BY <2>1 DEF JournalsInv, Exclusive, HoldsNumber
  <2>. QED  BY <2>1, <2>2 DEF OnePoster, JournalsInv, Recorded
<1>. QED  BY <1>1, JournalsInvariant, PTL

\* ensure_chart_of_accounts leaves the whole chart or nothing, post_journal's
\* lines are on existing accounts, and post_entry allocates what pays, once and
\* with its amount, with the journal or not at all.
THEOREM PostingIsAtomic == Spec => []PostingIsWhole
<1>1. JournalsInv => PostingIsWhole
  BY DEF JournalsInv, Recorded
<1>. QED  BY <1>1, JournalsInvariant, PTL

\* reverse_journal: a journal is marked exactly when its mirror is posted, and a
\* second mirror comes from a request that read the original before the first.
THEOREM ReversalIsMirrored == Spec => []ReversalIsExact
<1>1. JournalsInv => ReversalIsExact
  BY DEF JournalsInv, Recorded
<1>. QED  BY <1>1, JournalsInvariant, PTL

\* A request fails on the chart's, the number's or the key's unique index only if
\* another one has posted, or used the key, since it first read: of those that
\* collide, one gets through.
THEOREM ClashesAreLost == Spec => []ClashMeansProgress
<1>1. JournalsInv => ClashMeansProgress
  BY DEF JournalsInv, Race, Lost, ClashMeansProgress
<1>. QED  BY <1>1, JournalsInvariant, PTL

\* What post_entry has accepted makes lines that post_journal does not refuse, whatever
\* its type, amount and tax.  The columns of journal_lines round each side: a journal
\* balances, and can be reversed, if they hold its amounts as they were given, which is
\* true of every reversal; otherwise its sides are apart by half a unit for each line
\* at most, and not at all if there are two lines.
THEOREM BooksAlwaysBalance == Spec => []EntriesBalance
<1>1. Spec => []BooksBalance
  BY BooksInit, BooksStep, JournalsInvariant, PTL DEF Spec
<1>2. JournalsInv /\ BooksBalance => EntriesBalance
  <2>1. SUFFICES ASSUME JournalsInv, BooksBalance PROVE EntriesBalance
    OBVIOUS
  <2>2. ASSUME NEW x \in DOMAIN journals
        PROVE  /\ x \in Requests /\ Exact(NewLines(x)) => Postable(journals[x].lines)
               /\ Near(journals[x].lines)
    BY <2>1 DEF BooksBalance, Exact
  <2>3. ASSUME NEW r \in Requests, pc[r] = "count"
        PROVE  /\ cmd[r].op = "entry" => Postable(NewLines(r))
               /\ cmd[r].op = "reverse" /\ cmd[r].of \in Requests /\ Exact(NewLines(cmd[r].of)) =>
                    Postable(NewLines(r))
    BY <2>1, <2>3, CountedLines
  <2>. QED  BY <2>2, <2>3 DEF EntriesBalance
<1>. QED  BY <1>1, <1>2, JournalsInvariant, PTL

\* The numbers of a reversal are columns' already: what reverse_journal has posted
\* balances to the last digit.
THEOREM ReversalsBalance ==
  Spec => [](\A x \in DOMAIN journals \cap Requests :
               cmd[x].op = "reverse" => Postable(journals[x].lines))
<1>1. Spec => []BooksBalance
  BY BooksInit, BooksStep, JournalsInvariant, PTL DEF Spec
<1>2. ASSUME JournalsInv, BooksBalance
      PROVE  \A x \in DOMAIN journals \cap Requests :
               cmd[x].op = "reverse" => Postable(journals[x].lines)
  <2>1. SUFFICES ASSUME NEW x \in DOMAIN journals \cap Requests, cmd[x].op = "reverse"
                 PROVE  Postable(journals[x].lines)
    OBVIOUS
  <2>2. /\ NewLines(x) = Mirror(journals[cmd[x].of].lines) /\ journals[cmd[x].of].lines \in Seq(Line)
        /\ Postable(NewLines(x)) /\ journals[x].lines = Stored(NewLines(x))
    BY <1>2, <2>1 DEF BooksBalance, NewLines, JournalsInv, TypeOK, Journal
  <2>. QED  BY <2>2, MirrorType, StoredAgain
<1>. QED  BY <1>1, <1>2, JournalsInvariant, PTL

=============================================================================
