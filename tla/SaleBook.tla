------------------------------- MODULE SaleBook -------------------------------
(***************************************************************************)
(* What the sales service promises of its documents, whatever requests run *)
(* at the same time: a book of whole entries.  One entry is one command    *)
(* that took effect: the document it created, the status it wrote and the  *)
(* lines it moved, together.                                               *)
(*                                                                         *)
(* The promise is deliberately weaker than a serial book: a command is     *)
(* judged by the document as the first "seen" entries left it, and entries *)
(* may have come between.  What a document still cannot do twice, or lose, *)
(* without such an overlap is stated below.                                *)
(***************************************************************************)
EXTENDS Integers, Sequences

CONSTANTS Requests,     \* a document is named by the request that creates it
          Existing,     \* documents of the business at the start
          NoDoc,        \* no source
          Nobody,       \* who made the entries of the opening book
          Products,
          OpeningDocs, OpeningBook

VARIABLES docs,  \* committed documents
          book   \* committed commands, in commit order

Kinds == {"quote", "order", "invoice", "return"}
Statuses == {"draft", "confirmed", "finalized", "cancelled"}
DocIds == Existing \cup Requests
Sheet == [kind: Kinds, status: Statuses, src: DocIds \cup {NoDoc}, lines: SUBSET Products]

Finalizes == {"finalizeInvoice", "finalizeReturn"}
Converts == {"toOrder", "toInvoice"}

-----------------------------------------------------------------------------
(* The status of a document, read off a book *)

Writes(b, i, d) == b[i].doc = d /\ b[i].to # "same"

Initial(d) == IF d \in Existing THEN OpeningDocs[d].status ELSE "draft"

Exists(b, n, d) ==
  d \in Existing \/ \E i \in 1..n : b[i].by = d /\ b[i].op \in Converts \cup {"create"}

\* After the first n entries of b, document d has status s.
IsStatus(b, n, d, s) ==
  \/ s = Initial(d) /\ \A i \in 1..n : ~Writes(b, i, d)
  \/ \E i \in 1..n :
       /\ Writes(b, i, d) /\ b[i].to = s
       /\ \A j \in 1..n : j > i => ~Writes(b, j, d)

-----------------------------------------------------------------------------
(* What a book may say, whoever wrote it *)

\* No document is finalized, no quote ordered, twice but by commands that had
\* judged it before the first time.
OnceIn(b) ==
  \A i, j \in 1..Len(b) :
    /\ i < j /\ b[i].doc = b[j].doc /\ b[i].op = b[j].op
    /\ b[i].op \in Finalizes \cup {"toOrder"}
    => b[j].seen < i

\* With the documents D, every finalized document is final, or it was cancelled by
\* a command that had judged it before.
FinalIn(b, D) ==
  \A i \in 1..Len(b) :
    b[i].op \in Finalizes /\ D[b[i].doc].status # "finalized" =>
      \E j \in 1..Len(b) :
        i < j /\ b[j].op = "cancel" /\ b[j].doc = b[i].doc /\ b[j].seen < i

\* What the commands write, and what kind they finalize.
EntryIsSound(e, D) ==
  /\ e.to # "draft"
  /\ e.op \in Finalizes => D[e.doc].kind \in {"invoice", "return"} /\ e.to = "finalized"
  /\ e.op = "toOrder" => e.to = "confirmed"

\* What the books of a business that is already trading satisfy.
OpeningIsSound ==
  /\ OnceIn(OpeningBook) /\ FinalIn(OpeningBook, OpeningDocs)
  /\ \A i \in 1..Len(OpeningBook) :
       /\ OpeningBook[i].by = Nobody /\ OpeningBook[i].doc \in Existing
       /\ EntryIsSound(OpeningBook[i], OpeningDocs)
  /\ \A d \in Existing : IsStatus(OpeningBook, Len(OpeningBook), d, OpeningDocs[d].status)

-----------------------------------------------------------------------------
(* Entries *)

\* What the command of e found its document to be.
Found(e, kind, s) ==
  /\ e.doc \in DOMAIN docs /\ Exists(book, e.seen, e.doc)
  /\ docs[e.doc].kind = kind
  /\ IsStatus(book, e.seen, e.doc, s)

\* The entry writes a status and moves lines, but makes no document.
Marks(e, status, lines) ==
  /\ e.to = status /\ e.moved = lines
  /\ docs' = [docs EXCEPT ![e.doc].status = status]

\* The entry makes a document, and marks its source with a status or leaves it.
Makes(e, kind, lines) ==
  /\ e.moved = {}
  /\ docs' = [d \in DOMAIN docs \cup {e.by} |->
                IF d = e.by
                THEN [kind |-> kind, status |-> "draft", src |-> e.doc, lines |-> lines]
                ELSE IF d = e.doc /\ e.to # "same" THEN [docs[d] EXCEPT !.status = e.to]
                ELSE docs[d]]

Create(e) ==
  /\ e.op = "create" /\ e.to = "same"
  /\ \E kind \in Kinds, lines \in SUBSET Products :
       /\ kind = "return" => Found(e, "invoice", "finalized")
       /\ Makes(e, kind, lines)

ToOrder(e) ==
  /\ e.op = "toOrder" /\ e.to = "confirmed"
  /\ Found(e, "quote", "draft") /\ Makes(e, "order", docs[e.doc].lines)

\* An order stays convertible after its first invoice.
ToInvoice(e) ==
  /\ e.op = "toInvoice"
  /\ \/ e.to = "confirmed" /\ Found(e, "order", "draft")
     \/ e.to = "same" /\ Found(e, "order", "confirmed")
  /\ Makes(e, "invoice", docs[e.doc].lines)

Finalize(e) ==
  /\ \/ e.op = "finalizeInvoice" /\ Found(e, "invoice", "draft")
     \/ e.op = "finalizeReturn" /\ Found(e, "return", "draft")
  /\ Marks(e, "finalized", docs[e.doc].lines)

Pay(e) ==
  /\ e.op = "pay" /\ Found(e, "invoice", "finalized")
  /\ e.to = "same" /\ e.moved = {} /\ UNCHANGED docs

Cancel(e) ==
  /\ e.op = "cancel"
  /\ \/ \E kind \in Kinds : Found(e, kind, "draft")
     \/ \E kind \in {"quote", "order"} : Found(e, kind, "confirmed")
  /\ Marks(e, "cancelled", {})

Init == docs = OpeningDocs /\ book = OpeningBook

Record ==
  /\ Len(book') = Len(book) + 1
  /\ LET e == book'[Len(book) + 1]
     IN  /\ book' = Append(book, e)
         /\ e.by \in Requests /\ \A i \in 1..Len(book) : book[i].by # e.by
         /\ e.seen \in Nat /\ e.seen <= Len(book)
         /\ \/ Create(e) \/ ToOrder(e) \/ ToInvoice(e)
            \/ Finalize(e) \/ Pay(e) \/ Cancel(e)

Spec == Init /\ [][Record]_<<docs, book>>

-----------------------------------------------------------------------------
(* What follows from the promise *)

\* A quote is ordered, an invoice or a return finalized, a second time only by a
\* command that had judged the document before the first time.
OnceIfSequential == OnceIn(book)

\* A posted document that is not final was cancelled by a command that had
\* judged it before it was posted: cancel never undoes what it could have seen.
LostOnlyToOverlap == FinalIn(book, docs)
=============================================================================
