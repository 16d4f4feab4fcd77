---------------------------- MODULE BalanceLedger ----------------------------
(***************************************************************************)
(* What the inventory service promises about one product's stock, whatever *)
(* requests run at the same time: a ledger to which whole postings are     *)
(* appended, and a level per cell that the last posting set.  A cell is a  *)
(* (product, location) pair of one business.                               *)
(*                                                                         *)
(* The promise is deliberately weaker than a serial ledger: a posting is   *)
(* computed from a balance that was committed at some earlier point, which *)
(* need not be the latest one.                                             *)
(***************************************************************************)
EXTENDS Integers, Sequences

CONSTANTS Cells,      \* (product, location) pairs
          Requests,   \* the requests that may post
          Opening     \* balance of each cell before the ledger starts

VARIABLES stock,      \* stock[c]: committed quantity_on_hand
          log         \* committed postings, in commit order

(***************************************************************************)
(* A posting moves the cells in "touched", and its command names those in  *)
(* "names"; before[c] is the balance it was computed from, which was the   *)
(* committed one after at[c] postings.                                     *)
(***************************************************************************)
Posting == [by: Requests, touched: SUBSET Cells, names: SUBSET Cells, before: [Cells -> Int],
            delta: [Cells -> Int], at: [Cells -> Nat], since: Nat]

Moves(l, i, c) == c \in l[i].touched /\ l[i].delta[c] # 0
After(l, i, c) == l[i].before[c] + l[i].delta[c]

(* v is the balance of cell c after the first n postings of ledger l. *)
IsBalance(l, v, n, c) ==
  \/ /\ v = Opening[c]
     /\ \A i \in 1..n : ~Moves(l, i, c)
  \/ \E i \in 1..n :
       /\ Moves(l, i, c)
       /\ v = After(l, i, c)
       /\ \A j \in 1..n : j > i => ~Moves(l, j, c)

Init == stock = Opening /\ log = <<>>

(***************************************************************************)
(* One posting, whole or not at all: it moves every cell its command       *)
(* names, each is computed from a committed balance, none ends below zero, *)
(* two cells together keep their total, and a request posts once.          *)
(***************************************************************************)
Post ==
  /\ Len(log') = Len(log) + 1
  /\ LET p == log'[Len(log) + 1]
     IN  /\ log' = Append(log, p)
         /\ p \in Posting
         /\ \A i \in 1..Len(log) : log[i].by # p.by
         /\ p.touched = p.names
         /\ \A c \in p.touched :
              /\ p.at[c] <= Len(log)
              /\ IsBalance(log, p.before[c], p.at[c], c)
              /\ p.before[c] + p.delta[c] >= 0
         /\ \A c, d \in p.touched : c # d => p.delta[c] + p.delta[d] = 0
         /\ stock' = [c \in Cells |-> IF c \in p.touched /\ p.delta[c] # 0
                                      THEN p.before[c] + p.delta[c]
                                      ELSE stock[c]]

Spec == Init /\ [][Post]_<<stock, log>>
=============================================================================
