---------------------------- MODULE EventDelivery ----------------------------
(***************************************************************************)
(* What the outbox promises of a domain event, whatever workers, crashes   *)
(* and delivery errors do: an event whose mutation has committed is        *)
(* delivered zero or more times, then decided once; it is decided          *)
(* "published" only after a delivery, and after the decision it is not     *)
(* delivered again.                                                        *)
(***************************************************************************)
EXTENDS Naturals

CONSTANT Events

VARIABLES fate,  \* "unknown", "promised" (committed with its mutation),
                 \* "published" or "abandoned"
          sent   \* deliveries so far

vars == <<fate, sent>>

Init == fate = [e \in Events |-> "unknown"] /\ sent = [e \in Events |-> 0]

Promise(e) ==
  /\ fate[e] = "unknown"
  /\ fate' = [fate EXCEPT ![e] = "promised"]
  /\ UNCHANGED sent

Deliver(e) ==
  /\ fate[e] = "promised"
  /\ sent' = [sent EXCEPT ![e] = @ + 1]
  /\ UNCHANGED fate

\* A worker decides the events of its batch together.
Decide(P, A) ==
  /\ \A e \in P \cup A : fate[e] = "promised"
  /\ \A e \in P : sent[e] > 0
  /\ fate' = [e \in Events |-> IF e \in P THEN "published"
                               ELSE IF e \in A THEN "abandoned" ELSE fate[e]]
  /\ UNCHANGED sent

Next ==
  \/ \E e \in Events : Promise(e) \/ Deliver(e)
  \/ \E P, A \in SUBSET Events : Decide(P, A)

Spec == Init /\ [][Next]_vars
=============================================================================
