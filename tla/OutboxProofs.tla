----------------------------- MODULE OutboxProofs -----------------------------
(* Proofs about Outbox, for any events, workers, limits and readable set. *)
EXTENDS Outbox, TLAPS

(***************************************************************************)
(* The inductive invariant: locks are exclusive and held on unsettled      *)
(* rows, a worker has handled only rows it holds, and every delivery is    *)
(* accounted for.                                                          *)
(***************************************************************************)
InHand(w, e) == e \in ok[w] \cup bad[w]

Exclusive == \A v, w \in Workers : v # w => locked[v] \cap locked[w] = {}

Batches ==
  \A w \in Workers :
    /\ todo[w] \cup ok[w] \cup bad[w] \subseteq locked[w]
    /\ todo[w] \cap (ok[w] \cup bad[w]) = {} /\ ok[w] \cap bad[w] = {}
    /\ \A e \in locked[w] : \/ status[e] = "pending"
                            \/ status[e] = "failed" /\ attempts[e] < MaxAttempts
    /\ \A e \in ok[w] : sent[e] > 0

Fresh == \A e \in Events : status[e] \in {"staged", "pending"} => attempts[e] = 0

Counted ==
  \A e \in Events :
    sent[e] <= attempts[e] + crashes + (IF \E w \in Workers : InHand(w, e) THEN 1 ELSE 0)

OutboxInv == TypeOK /\ Exclusive /\ Batches /\ Fresh /\ Counted

LEMMA OutboxInit == Init => OutboxInv
  BY BoundsAssumption
     DEF Init, OutboxInv, TypeOK, Statuses, Exclusive, Batches, Fresh, Counted, InHand

LEMMA MutationStep ==
  ASSUME OutboxInv, NEW e \in Events, EndMutation(e) \/ FallsDue(e)
  PROVE  OutboxInv'
<1> USE DEF OutboxInv, entry, batch
<1>1. CASE EndMutation(e)
  <2> USE <1>1 DEF EndMutation
  <2>1. TypeOK'
    BY DEF TypeOK, Statuses
  <2>2. Exclusive' /\ Counted'
    BY DEF Exclusive, Counted, InHand
  <2>3. \A w \in Workers : e \notin locked[w]
    BY DEF Batches
  <2>4. Batches'
    BY <2>3 DEF Batches, TypeOK
  <2>. QED  BY <2>1, <2>2, <2>4 DEF Fresh, TypeOK
<1>2. CASE FallsDue(e)
  BY <1>2 DEF FallsDue, TypeOK, Exclusive, Batches, Fresh, Counted, InHand
<1>. QED  BY <1>1, <1>2

LEMMA ClaimStep ==
  ASSUME OutboxInv, NEW w \in Workers, ClaimBatch(w)
  PROVE  OutboxInv'
<1> USE DEF OutboxInv, entry, batch, ClaimBatch
<1>1. PICK S \in SUBSET {e \in Events : Claimable(e) /\ Free(e)} :
        /\ locked' = [locked EXCEPT ![w] = S]
        /\ todo' = [todo EXCEPT ![w] = S \cap Readable]
  OBVIOUS
<1>2. \A e \in S : e \in Events /\ Claimable(e) /\ \A v \in Workers : e \notin locked[v]
  BY DEF Free
<1>3. TypeOK'
  BY <1>1, <1>2 DEF TypeOK
<1>4. Exclusive'
  BY <1>1, <1>2 DEF Exclusive, TypeOK
<1>5. Batches'
  <2>1. ok[w] = {} /\ bad[w] = {}
    BY DEF Batches
  <2>. QED  BY <1>1, <1>2, <2>1 DEF Batches, TypeOK, Claimable
<1>6. Fresh' /\ Counted'
  BY DEF Fresh, Counted, InHand
<1>. QED  BY <1>3, <1>4, <1>5, <1>6

LEMMA DeliveryStep ==
  ASSUME OutboxInv, NEW w \in Workers, NEW e \in Events,
         Deliver(w, e) \/ DeliveryFails(w, e)
  PROVE  OutboxInv'
<1> USE DEF OutboxInv, entry, batch
<1>1. PICK n \in {0, 1} :
        /\ sent' = [sent EXCEPT ![e] = @ + n]
        /\ UNCHANGED <<status, attempts, due, locked, crashes>>
        /\ todo' = [todo EXCEPT ![w] = @ \ {e}]
        /\ \/ n = 1 /\ ok' = [ok EXCEPT ![w] = @ \cup {e}] /\ bad' = bad
           \/ ok' = ok /\ bad' = [bad EXCEPT ![w] = @ \cup {e}]
  BY DEF Deliver, DeliveryFails
<1>2. e \in todo[w]
  BY DEF Deliver, DeliveryFails, NextUp
<1>3. TypeOK'
  BY <1>1 DEF TypeOK
<1>4. Exclusive' /\ Fresh'
  BY <1>1 DEF Exclusive, Fresh
<1>5. Batches'
  BY <1>1, <1>2 DEF Batches, TypeOK
<1>6. Counted'
  <2>1. \A v \in Workers : ~InHand(v, e)
    BY <1>2 DEF Batches, Exclusive, InHand
  <2>2. InHand(w, e)'
    BY <1>1 DEF InHand, TypeOK
  <2>3. sent[e]' <= attempts[e]' + crashes' + 1
    BY <1>1, <2>1 DEF Counted, TypeOK
  <2>4. \A f \in Events \ {e}, v \in Workers :
          sent'[f] = sent[f] /\ attempts'[f] = attempts[f] /\ (InHand(v, f)' <=> InHand(v, f))
    BY <1>1 DEF InHand, TypeOK
  <2>. QED  BY <1>1, <2>2, <2>3, <2>4 DEF Counted
<1>. QED  BY <1>3, <1>4, <1>5, <1>6

LEMMA CommitStep ==
  ASSUME OutboxInv, NEW w \in Workers, CommitBatch(w)
  PROVE  OutboxInv'
<1> USE BoundsAssumption DEF OutboxInv, batch, CommitBatch, NewBatch
<1>1. \A e \in ok[w] \cup bad[w] :
        /\ e \in Events /\ attempts[e] < MaxAttempts
        /\ \A v \in Workers \ {w} : e \notin locked[v]
  BY DEF Batches, Exclusive, Fresh, TypeOK
<1>2. \A e \in Events :
        /\ e \in ok[w] \cup bad[w] => attempts'[e] = attempts[e] + 1
        /\ e \notin ok[w] \cup bad[w] => attempts'[e] = attempts[e]
  BY DEF Attempts
<1>3. \A e \in Events :
        /\ e \notin ok[w] \cup bad[w] => status'[e] = status[e]
        /\ e \in ok[w] \cup bad[w] => status'[e] \in {"published", "failed"}
  BY DEF Status
<1>4. TypeOK'
  <2>1. attempts' \in [Events -> 0..MaxAttempts]
    <3>1. DOMAIN attempts' = Events /\ attempts' = [e \in Events |-> attempts'[e]]
      BY DEF Attempts
    <3>2. \A e \in Events : attempts'[e] \in 0..MaxAttempts
      BY <1>1, <1>2 DEF TypeOK
    <3>. QED  BY <3>1, <3>2
  <2>2. status' \in [Events -> Statuses]
    BY DEF Status, TypeOK, Statuses
  <2>3. due' \in [Events -> BOOLEAN]
    BY DEF TypeOK
  <2>4. /\ locked' \in [Workers -> SUBSET Events] /\ todo' \in [Workers -> SUBSET Events]
        /\ ok' \in [Workers -> SUBSET Events] /\ bad' \in [Workers -> SUBSET Events]
    BY DEF TypeOK
  <2>. QED  BY <2>1, <2>2, <2>3, <2>4 DEF TypeOK
<1>5. Exclusive'
  BY DEF Exclusive, TypeOK
<1>6. Batches'
  <2>1. \A v \in Workers \ {w} :
          /\ locked'[v] = locked[v] /\ todo'[v] = todo[v] /\ ok'[v] = ok[v] /\ bad'[v] = bad[v]
          /\ \A e \in locked[v] : e \in Events /\ e \notin ok[w] \cup bad[w]
    BY <1>1 DEF TypeOK
  <2>2. locked'[w] = {} /\ todo'[w] = {} /\ ok'[w] = {} /\ bad'[w] = {}
    BY DEF TypeOK
  <2>. QED  BY <1>2, <1>3, <2>1, <2>2 DEF Batches
<1>7. Fresh'
  BY <1>2, <1>3 DEF Fresh
<1>8. Counted'
  <2>1. ASSUME NEW e \in Events, e \in ok[w] \cup bad[w]
        PROVE  sent[e] <= attempts'[e] + crashes
    BY <1>2, <2>1 DEF Counted, InHand, TypeOK
  <2>2. ASSUME NEW e \in Events, e \notin ok[w] \cup bad[w], NEW v \in Workers
        PROVE  InHand(v, e)' <=> InHand(v, e)
    BY <2>2 DEF InHand, TypeOK
  <2>3. ASSUME NEW e \in Events
        PROVE  attempts'[e] \in Nat /\ crashes \in Nat /\ sent[e] \in Nat
    BY <1>4 DEF TypeOK
  <2>. QED  BY <1>2, <2>1, <2>2, <2>3 DEF Counted
<1>. QED  BY <1>4, <1>5, <1>6, <1>7, <1>8

LEMMA RollbackStep ==
  ASSUME OutboxInv, NEW w \in Workers, RollbackBatch(w)
  PROVE  OutboxInv'
<1> USE DEF OutboxInv, entry, batch, RollbackBatch, NewBatch
<1>1. TypeOK' /\ Exclusive' /\ Fresh'
  BY DEF TypeOK, Exclusive, Fresh
<1>2. Batches'
  BY DEF Batches, TypeOK
<1>3. Counted'
  BY DEF Counted, TypeOK
<1>. QED  BY <1>1, <1>2, <1>3

LEMMA OutboxStep == OutboxInv /\ [Next]_vars => OutboxInv'
<1> SUFFICES ASSUME OutboxInv, [Next]_vars PROVE OutboxInv'
  OBVIOUS
<1>1. CASE UNCHANGED vars
  BY <1>1 DEF vars, OutboxInv, TypeOK, Exclusive, Batches, Fresh, Counted, InHand
<1>2. CASE \E e \in Events : EndMutation(e) \/ FallsDue(e)
  BY <1>2, MutationStep
<1>3. CASE \E w \in Workers : Work(w) \/ RollbackBatch(w)
  BY <1>3, ClaimStep, DeliveryStep, CommitStep, RollbackStep DEF Work
<1>. QED  BY <1>1, <1>2, <1>3 DEF Next, Idle

THEOREM OutboxInvariant == Spec => []OutboxInv
  BY OutboxInit, OutboxStep, PTL DEF Spec

-----------------------------------------------------------------------------
\* The state keeps its types, and attempts the limit.
THEOREM TypeCorrect == Spec => []TypeOK
<1>1. OutboxInv => TypeOK
  BY DEF OutboxInv
<1>. QED  BY <1>1, OutboxInvariant, PTL

\* However many workers run, an event is delivered at most as often as attempts
\* are allowed, plus once per batch that was rolled back.
THEOREM DeliveryBoundHolds == Spec => []DeliveryBound
<1>1. OutboxInv => DeliveryBound
  <2> SUFFICES ASSUME OutboxInv, NEW e \in Events PROVE sent[e] <= MaxAttempts + crashes
    BY DEF DeliveryBound
  <2>1. CASE \E w \in Workers : InHand(w, e)
    <3>1. attempts[e] < MaxAttempts
      BY <2>1, BoundsAssumption DEF OutboxInv, Batches, InHand, Fresh
    <3>. QED  BY <3>1, BoundsAssumption DEF OutboxInv, Counted, TypeOK
  <2>2. CASE ~\E w \in Workers : InHand(w, e)
    BY <2>2, BoundsAssumption DEF OutboxInv, Counted, TypeOK
  <2>. QED  BY <2>1, <2>2
<1>. QED  BY <1>1, OutboxInvariant, PTL

-----------------------------------------------------------------------------
(* Refinement of EventDelivery *)

LEMMA PromiseInit == Init => Promised!Init
  BY DEF Init, Promised!Init, Fate

LEMMA PromiseStep == OutboxInv /\ OutboxInv' /\ [Next]_vars => [Promised!Next]_<<Fate, sent>>
<1> SUFFICES ASSUME OutboxInv, OutboxInv', [Next]_vars
             PROVE  [Promised!Next]_<<Fate, sent>>
  OBVIOUS
<1> USE DEF entry, batch
<1>1. CASE UNCHANGED <<status, attempts, sent>>
  BY <1>1 DEF Fate, Settled
<1>2. ASSUME NEW e \in Events, EndMutation(e)
      PROVE  [Promised!Next]_<<Fate, sent>>
  <2>1. Fate' = [Fate EXCEPT ![e] = IF status'[e] = "pending" THEN "promised" ELSE "unknown"]
    BY <1>2 DEF EndMutation, Fate, Settled, OutboxInv, TypeOK
  <2>2. Fate[e] = "unknown" /\ UNCHANGED sent /\ status'[e] \in {"pending", "aborted"}
    BY <1>2 DEF EndMutation, Fate, OutboxInv, TypeOK
  <2>3. CASE status'[e] = "pending"
    BY <2>1, <2>2, <2>3 DEF Promised!Next, Promised!Promise
  <2>4. CASE status'[e] = "aborted"
    BY <2>1, <2>2, <2>4 DEF Fate
  <2>. QED  BY <2>2, <2>3, <2>4
<1>3. ASSUME NEW w \in Workers, NEW e \in Events, Deliver(w, e) \/ DeliveryFails(w, e)
      PROVE  [Promised!Next]_<<Fate, sent>>
  <2>1. Fate[e] = "promised"
    <3>1. e \in locked[w]
      BY <1>3 DEF Deliver, DeliveryFails, NextUp, OutboxInv, Batches
    <3>. QED  BY <3>1, BoundsAssumption DEF OutboxInv, Batches, Fate, Settled, TypeOK
  <2>2. Fate' = Fate
    BY <1>3 DEF Deliver, DeliveryFails, Fate, Settled
  <2>3. sent' = sent \/ sent' = [sent EXCEPT ![e] = @ + 1]
    <3>1. CASE Deliver(w, e)
      BY <3>1 DEF Deliver
    <3>2. CASE DeliveryFails(w, e)
      <4>1. PICK n \in {0, 1} : sent' = [sent EXCEPT ![e] = @ + n]
        BY <3>2 DEF DeliveryFails
      <4>2. n = 0 => sent' = sent
        BY <4>1 DEF OutboxInv, TypeOK
      <4>. QED  BY <4>1, <4>2
    <3>. QED  BY <1>3, <3>1, <3>2
  <2>. QED  BY <2>1, <2>2, <2>3 DEF Promised!Next, Promised!Deliver
<1>4. ASSUME NEW w \in Workers, CommitBatch(w)
      PROVE  [Promised!Next]_<<Fate, sent>>
  <2> DEFINE A == {e \in bad[w] : attempts[e] + 1 >= MaxAttempts}
  <2> USE DEF OutboxInv
  <2>1. \A e \in ok[w] \cup bad[w] :
          e \in Events /\ Fate[e] = "promised" /\ attempts'[e] = attempts[e] + 1
    <3>1. \A e \in ok[w] \cup bad[w] :
            /\ e \in Events
            /\ status[e] = "pending" \/ (status[e] = "failed" /\ attempts[e] < MaxAttempts)
      BY DEF Batches, TypeOK
    <3>. QED  BY <1>4, <3>1, BoundsAssumption DEF CommitBatch, Fate, Settled, TypeOK, Attempts
  <2>2. \A e \in ok[w] : sent[e] > 0
    BY DEF Batches
  <2>3. \A e \in Events :
          Fate'[e] = IF e \in ok[w] THEN "published"
                     ELSE IF e \in A THEN "abandoned" ELSE Fate[e]
    <3>1. ASSUME NEW e \in Events, e \in ok[w]
          PROVE  Fate'[e] = "published"
      BY <1>4, <3>1 DEF CommitBatch, Status, Fate
    <3>2. ASSUME NEW e \in Events, e \in bad[w], e \notin ok[w]
          PROVE  Fate'[e] = IF e \in A THEN "abandoned" ELSE Fate[e]
      BY <1>4, <2>1, <3>2 DEF CommitBatch, Status, Fate, Settled
    <3>3. ASSUME NEW e \in Events, e \notin bad[w], e \notin ok[w]
          PROVE  Fate'[e] = Fate[e]
      BY <1>4, <3>3 DEF CommitBatch, Status, Attempts, Fate, Settled
    <3>. QED  BY <3>1, <3>2, <3>3
  <2>4. Fate' = [e \in Events |-> IF e \in ok[w] THEN "published"
                                  ELSE IF e \in A THEN "abandoned" ELSE Fate[e]]
    BY <2>3 DEF Fate
  <2>5. ok[w] \in SUBSET Events /\ A \in SUBSET Events
    BY DEF TypeOK
  <2>6. Promised!Decide(ok[w], A)
    BY <1>4, <2>1, <2>2, <2>4 DEF Promised!Decide, CommitBatch
  <2>. QED  BY <2>5, <2>6 DEF Promised!Next
<1>5. CASE \E e \in Events : FallsDue(e)
  BY <1>1, <1>5 DEF FallsDue
<1>6. CASE \E w \in Workers : ClaimBatch(w) \/ RollbackBatch(w)
  BY <1>1, <1>6 DEF ClaimBatch, RollbackBatch
<1>. QED  BY <1>1, <1>2, <1>3, <1>4, <1>5, <1>6 DEF Next, Work, Idle, vars

\* The outbox with any number of workers implements EventDelivery.
THEOREM KeepsPromiseHolds == Spec => KeepsPromise
<1>. QED  BY OutboxInvariant, PromiseInit, PromiseStep, PTL
          DEF Spec, KeepsPromise, Promised!Spec, Promised!vars
=============================================================================
