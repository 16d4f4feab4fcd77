------------------------------ MODULE MCJournals -------------------------------
(* Instances of Journals for TLC. *)
EXTENDS Journals

CONSTANTS r1, r2, r3, old, key

\* A new business, and one with an invoice of two units posted with a tax of one.
Blank == [accounts |-> {}, journals |-> <<>>, allocations |-> {}]
Running ==
  [accounts |-> Codes, allocations |-> {},
   journals |-> [x \in {old} |->
     [no |-> 1, what |-> "revenue", lines |-> EntryLines("revenue", 8, 4), status |-> "posted",
      reverses |-> NoEntry, reversedBy |-> NoEntry, saw |-> {}]]]
BlankOrRunning == {Blank, Running}

Do(op, of, k) ==
  [op |-> op, what |-> "receipt", amount |-> 1, tax |-> 0, lines |-> <<>>, of |-> of, key |-> k]
Entry(what, n, tax, k) ==
  [Do("entry", NoEntry, k) EXCEPT !.what = what, !.amount = n, !.tax = tax]
Free(lines, k) == [Do("journal", NoEntry, k) EXCEPT !.lines = lines]
Together(a, b, c) == [r \in Requests |-> CASE r = r1 -> a [] r = r2 -> b [] r = r3 -> c]

\* The columns make 8, 4 and 4 of Even's amounts.
Even == <<Debit("cash", 8), Credit("returns", 3), Credit("revenue", 5)>>
Uneven == <<Debit("cash", 8), Credit("revenue", 4)>>
Unsided == <<[account |-> "tax", debit |-> 4, credit |-> 4]>>

Postings ==
  {\* three entries, possibly the first of their business
   Together(Entry("receipt", 4, 0, NoKey), Entry("liability", 8, 0, NoKey), Entry("payment", 2, 0, NoKey)),
   \* one journal reversed three times, and the reversal of a reversal
   Together(Do("reverse", old, NoKey), Do("reverse", old, NoKey), Do("reverse", old, NoKey)),
   Together(Do("reverse", old, NoKey), Do("reverse", old, NoKey), Do("reverse", r1, NoKey)),
   \* an entry reversed and allocated as soon as it is there
   Together(Entry("receipt", 8, 0, key), Do("reverse", r1, NoKey), Do("allocate", r1, NoKey)),
   \* one that is stored as nothing, and one whose sides come apart, cannot be reversed
   Together(Entry("payment", 1, 0, NoKey), Do("reverse", r1, NoKey), Do("allocate", r1, NoKey)),
   Together(Entry("revenue", 6, 2, NoKey), Do("reverse", r1, NoKey), Do("allocate", old, NoKey)),
   \* a key that two entries and a free journal share
   Together(Entry("return", 4, 4, key), Entry("return", 4, 4, key), Free(Even, key)),
   \* free journals, balanced or not
   Together(Free(Even, key), Free(Uneven, key), Free(Unsided, NoKey)),
   \* refused amounts
   Together(Entry("revenue", 0, 4, NoKey), Entry("revenue", 4, -4, NoKey),
            [Do("allocate", old, NoKey) EXCEPT !.amount = 0])}
  \cup
  \* every type, amount and tax, alone
  {Together(Entry(what, n, tax, NoKey), Do("reverse", NoEntry, NoKey), Free(<<>>, NoKey)) :
     what \in EntryTypes, n \in {1, 2, 4, 5}, tax \in {0, 1, 2, 4}}
=============================================================================
