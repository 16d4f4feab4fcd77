-------------------------- MODULE MCPurchaseReceipts --------------------------
(* Instances of PurchaseReceipts for TLC. *)
EXTENDS PurchaseReceipts

CONSTANTS r1, r2, r3, r4, planned, open, part, free, half, rest, whole, both, gift, first, tea, jam, key

Q(t, j) == [p \in Products |-> IF p = tea THEN t ELSE j]

\* Orders in every status but the last two; the free one costs nothing.
Orders ==
  [o \in {planned, open, part, free} |->
     [status |-> CASE o = planned -> "draft" [] o = part -> "partial" [] OTHER -> "confirmed",
      no |-> CASE o = planned -> 1 [] o = open -> 2 [] o = part -> 3 [] o = free -> 4,
      ordered |-> IF o = open THEN Q(2, 1) ELSE Q(2, 0),
      priced |-> o # free]]
Received == [o \in DOMAIN Orders |-> IF o = part THEN Q(1, 0) ELSE Q(0, 0)]

\* Draft receipts that together exceed what is ordered of tea.
Receipts ==
  [g \in {half, rest, whole, both, gift, first} |->
     [order |-> CASE g \in {half, whole, both} -> open [] g = gift -> free [] OTHER -> part,
      status |-> IF g = first THEN "finalized" ELSE "draft",
      no |-> CASE g = first -> 1 [] g = half -> 2 [] g = rest -> 3 [] g = whole -> 4
               [] g = both -> 5 [] g = gift -> 6,
      qty |-> CASE g \in {half, rest, gift, first} -> Q(1, 0) [] g = whole -> Q(2, 0)
                [] g = both -> Q(1, 1)]]
Shelf == Q(1, 0)
Books == {[no |-> 1, what |-> "liability", order |-> part, receipt |-> first, by |-> Nobody,
           moved |-> {tea}, loaded |-> 0]}

Do(op, o, g, k) == [op |-> op, order |-> o, receipt |-> g, qty |-> Q(1, 0), key |-> k]
Finalize(g, k) == Do("finalize", NoOrder, g, k)
Idle == Finalize(NoReceipt, NoKey)
AllFour(a, b, c, d) ==
  [r \in Requests |-> CASE r = r1 -> a [] r = r2 -> b [] r = r3 -> c [] r = r4 -> d]
Together(a, b, c) == AllFour(a, b, c, Idle)

Purchases ==
  {\* two receipts of one line that fit, and one that no longer does
   Together(Finalize(half, NoKey), Finalize(both, NoKey), Finalize(whole, NoKey)),
   \* a receipt of two lines finalized twice, the lines in any order
   Together(Finalize(both, NoKey), Finalize(both, key), Do("confirm", open, NoReceipt, NoKey)),
   \* a receipt finalized twice, and paid
   Together(Finalize(rest, key), Finalize(rest, key), Do("pay", part, NoReceipt, key)),
   \* cancelled, received, paid
   Together(Do("cancel", open, NoReceipt, NoKey), Finalize(whole, NoKey),
            Do("pay", open, NoReceipt, NoKey)),
   \* ordered, confirmed, received
   Together([Do("createOrder", NoOrder, NoReceipt, NoKey) EXCEPT !.qty = Q(1, 1)],
            Do("confirm", r1, NoReceipt, NoKey), Do("createReceipt", r1, NoReceipt, NoKey)),
   \* two more receipts of what is left, one of them finalized
   Together(Do("createReceipt", part, NoReceipt, NoKey), Finalize(r1, NoKey),
            [Do("createReceipt", part, NoReceipt, NoKey) EXCEPT !.qty = Q(2, 0)]),
   \* confirmed and cancelled; an order without lines
   Together(Do("confirm", planned, NoReceipt, NoKey), Do("cancel", planned, NoReceipt, NoKey),
            [Do("createOrder", NoOrder, NoReceipt, NoKey) EXCEPT !.qty = Q(0, 0)]),
   \* a receipt without cost, a finalized one, and a payment with the key
   Together(Finalize(gift, key), Finalize(first, key), Do("pay", part, NoReceipt, key)),
   \* one payment sent twice; a cancellation too late
   Together(Do("pay", part, NoReceipt, key), Do("pay", part, NoReceipt, key),
            Do("cancel", part, NoReceipt, NoKey)),
   \* confirmed twice, and received
   AllFour(Do("confirm", planned, NoReceipt, NoKey), Do("confirm", planned, NoReceipt, NoKey),
           Do("createReceipt", planned, NoReceipt, NoKey), Finalize(r3, NoKey))}

\* A cancellation beside a receipt.
CancelAndReceive ==
  {Together(Do("cancel", open, NoReceipt, NoKey), Finalize(whole, NoKey),
            Do("confirm", planned, NoReceipt, NoKey))}
=============================================================================
