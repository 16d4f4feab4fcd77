--------------------------- MODULE MCSalesDocuments ---------------------------
(* Instances of SalesDocuments for TLC. *)
EXTENDS SalesDocuments

CONSTANTS r1, r2, r3, quote, draft, other, sold, gift, tea, jam, key

Lines(S) == [lines |-> S, located |-> TRUE, priced |-> TRUE]
Doc(kind, status, n, S) ==
  [kind |-> kind, status |-> status, src |-> NoDoc, no |-> n, body |-> Lines(S), day |-> 0]

\* Two invoices with a product in common, one that is already finalized, and one
\* without an amount.
Shop ==
  [d \in Existing |->
     CASE d = quote -> Doc("quote", "draft", 1, {tea})
       [] d = draft -> Doc("invoice", "draft", 1, {tea, jam})
       [] d = other -> Doc("invoice", "draft", 2, {tea})
       [] d = sold -> [Doc("invoice", "finalized", 3, {tea}) EXCEPT !.day = 1]
       [] d = gift -> [Doc("invoice", "draft", 4, {}) EXCEPT !.body.priced = FALSE]]
Shelf == [p \in Products |-> 2]
Books ==
  <<[op |-> "finalizeInvoice", doc |-> sold, by |-> Nobody, to |-> "finalized", no |-> 1,
     moved |-> {tea}, seen |-> 0, day |-> 1]>>

Do(op, d, k) == [op |-> op, doc |-> d, kind |-> "return", body |-> Lines({tea}), key |-> k, day |-> 1]
New(kind) == [Do("create", NoDoc, NoKey) EXCEPT !.kind = kind]
Together(a, b, c) == [r \in Requests |-> CASE r = r1 -> a [] r = r2 -> b [] r = r3 -> c]

Sales ==
  {\* an invoice finalized, again, and paid
   Together(Do("finalizeInvoice", draft, key), Do("finalizeInvoice", draft, key),
            Do("pay", draft, NoKey)),
   \* finalized, cancelled and paid with the key of the finalization
   Together(Do("finalizeInvoice", draft, key), Do("cancel", draft, NoKey), Do("pay", draft, key)),
   \* three finalizations of two invoices, stock for two
   Together(Do("finalizeInvoice", draft, key), Do("finalizeInvoice", other, key),
            Do("finalizeInvoice", other, NoKey)),
   \* a return, with a sale of the same product
   Together(Do("create", sold, NoKey), Do("finalizeReturn", r1, NoKey),
            Do("finalizeInvoice", draft, NoKey)),
   \* a quote converted twice, and cancelled
   Together(Do("toOrder", quote, NoKey), Do("toOrder", quote, NoKey), Do("cancel", quote, NoKey)),
   \* quote to order to invoice
   Together(Do("toOrder", quote, NoKey), Do("toInvoice", r1, NoKey),
            Do("finalizeInvoice", r2, NoKey)),
   \* an order invoiced twice; documents refused
   Together(New("order"), Do("toInvoice", r1, NoKey), Do("toInvoice", r1, NoKey)),
   Together(New("return"), Do("finalizeInvoice", gift, NoKey), Do("pay", sold, key)),
   \* a payment sent three times, once without its key
   Together(Do("pay", sold, key), Do("pay", sold, key), Do("pay", sold, NoKey)),
   \* two returns of one invoice, and an invoice for the goods
   Together(Do("create", sold, NoKey), Do("create", sold, NoKey), Do("finalizeReturn", r2, key)),
   Together(Do("create", sold, NoKey), Do("finalizeReturn", r1, key), Do("finalizeReturn", r1, key)),
   Together(Do("create", sold, NoKey), Do("finalizeReturn", r1, NoKey), Do("cancel", r1, NoKey)),
   \* reports of a day on which two invoices are sold, or one is sold twice,
   \* or sold and cancelled
   Together(Do("report", NoDoc, NoKey), Do("finalizeInvoice", draft, NoKey),
            Do("finalizeInvoice", other, NoKey)),
   Together(Do("report", NoDoc, NoKey), Do("finalizeInvoice", draft, NoKey),
            Do("finalizeInvoice", draft, NoKey)),
   Together(Do("report", NoDoc, NoKey), Do("finalizeInvoice", draft, NoKey),
            Do("cancel", draft, NoKey))}

\* The button pressed twice.
TwiceFinalized ==
  {Together(Do("finalizeInvoice", draft, NoKey), Do("finalizeInvoice", draft, NoKey),
            Do("cancel", quote, NoKey))}
=============================================================================
