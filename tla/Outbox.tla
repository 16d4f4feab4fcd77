-------------------------------- MODULE Outbox --------------------------------
(***************************************************************************)
(* The transactional outbox (core_platform/events): EventService.emit      *)
(* stages a domain event and its PENDING outbox entry in the transaction   *)
(* of a mutation, and any number of worker processes run                   *)
(* OutboxPublisher.process_batch in a loop.                                *)
(*                                                                         *)
(* A batch is one transaction: the claimed rows stay locked (FOR UPDATE)   *)
(* from the SELECT to the commit, and the marks and attempt counts a       *)
(* worker makes are invisible until then.  A delivery is an effect outside *)
(* the database and is not undone when the batch is rolled back.           *)
(***************************************************************************)
EXTENDS Naturals, FiniteSets

CONSTANTS Events,       \* domain events, one outbox entry each, named by the
                        \* rank of its created_at
          Workers,      \* worker processes
          Limit,        \* --limit of the worker
          MaxAttempts,  \* max_attempts of the publisher
          Readable,     \* events the worker's database role may read: the row
                        \* policy of domain_events asks for a tenant or for the
                        \* bypass, and the worker's session sets neither
          MaxCrashes    \* bound on the batches that are rolled back

ASSUME BoundsAssumption ==
  /\ Limit \in Nat \ {0} /\ MaxAttempts \in Nat \ {0} /\ MaxCrashes \in Nat
ASSUME ReadableAssumption == Readable \subseteq Events
ASSUME EventsAssumption == Events \subseteq Nat /\ IsFiniteSet(Events)

VARIABLES
  status,    \* of the entry; "staged" until its mutation ends
  attempts,  \* committed attempts
  due,       \* next_attempt_at is null or in the past
  locked,    \* locked[w]: rows w has claimed
  todo,      \* those of them w has still to deliver
  ok, bad,   \* those it has marked published, failed
  sent,      \* deliveries made, by any worker
  crashes    \* batches rolled back

vars == <<status, attempts, due, locked, todo, ok, bad, sent, crashes>>
entry == <<status, attempts, due>>
batch == <<locked, todo, ok, bad>>

Statuses == {"staged", "aborted", "pending", "failed", "published"}

Init ==
  /\ status = [e \in Events |-> "staged"]
  /\ attempts = [e \in Events |-> 0]
  /\ due = [e \in Events |-> TRUE]
  /\ locked = [w \in Workers |-> {}]
  /\ todo = [w \in Workers |-> {}]
  /\ ok = [w \in Workers |-> {}]
  /\ bad = [w \in Workers |-> {}]
  /\ sent = [e \in Events |-> 0]
  /\ crashes = 0

-----------------------------------------------------------------------------
(* EventService.emit, in the transaction of a mutation *)

\* The commit order of mutations need not be the order of created_at, which is
\* taken when the row is made.
EndMutation(e) ==
  /\ status[e] = "staged"
  /\ \E s \in {"pending", "aborted"} : status' = [status EXCEPT ![e] = s]
  /\ UNCHANGED <<attempts, due, batch, sent, crashes>>

-----------------------------------------------------------------------------
(* OutboxPublisher *)

\* The WHERE of claim_batch.
Claimable_PendingOnly(e) == status[e] = "pending"
Claimable(e) ==
  \/ status[e] = "pending"
  \/ status[e] = "failed" /\ due[e] /\ attempts[e] < MaxAttempts

\* SKIP LOCKED
Free_IgnoreLocks(e) == TRUE
Free(e) == \A w \in Workers : e \notin locked[w]

\* ORDER BY created_at LIMIT
Oldest(S, all) ==
  /\ \A e \in S, f \in all \ S : e < f
  /\ Cardinality(S) <= Limit
  /\ S = all \/ Cardinality(S) = Limit

\* An entry whose event cannot be read stays locked but is passed over.
ClaimBatch(w) ==
  /\ locked[w] = {}
  /\ LET candidates == {e \in Events : Claimable(e) /\ Free(e)}
     IN  \E S \in SUBSET candidates \ {{}} :
           /\ Oldest(S, candidates)
           /\ locked' = [locked EXCEPT ![w] = S]
           /\ todo' = [todo EXCEPT ![w] = S \cap Readable]
  /\ UNCHANGED <<entry, ok, bad, sent, crashes>>

NextUp(w, e) == e \in todo[w] /\ \A f \in todo[w] : e <= f

\* The sink accepts the event, and the entry is marked published.
Deliver(w, e) ==
  /\ NextUp(w, e)
  /\ todo' = [todo EXCEPT ![w] = @ \ {e}]
  /\ sent' = [sent EXCEPT ![e] = @ + 1]
  /\ ok' = [ok EXCEPT ![w] = @ \cup {e}]
  /\ UNCHANGED <<entry, locked, bad, crashes>>

\* deliver() raises, before or after the sink has taken the event.
DeliveryFails(w, e) ==
  /\ NextUp(w, e)
  /\ todo' = [todo EXCEPT ![w] = @ \ {e}]
  /\ \E n \in {0, 1} : sent' = [sent EXCEPT ![e] = @ + n]
  /\ bad' = [bad EXCEPT ![w] = @ \cup {e}]
  /\ UNCHANGED <<entry, locked, ok, crashes>>

NewBatch(w) ==
  /\ locked' = [locked EXCEPT ![w] = {}]
  /\ todo' = [todo EXCEPT ![w] = {}]
  /\ ok' = [ok EXCEPT ![w] = {}]
  /\ bad' = [bad EXCEPT ![w] = {}]

Attempts_NotCounted(w) == attempts
Attempts(w) ==
  [e \in Events |-> IF e \in ok[w] \cup bad[w] THEN attempts[e] + 1 ELSE attempts[e]]

Status(w) ==
  [e \in Events |-> IF e \in ok[w] THEN "published"
                    ELSE IF e \in bad[w] THEN "failed" ELSE status[e]]

\* A failure sets next_attempt_at to a later time, or to null at the limit.
CommitBatch(w) ==
  /\ locked[w] # {} /\ todo[w] = {}
  /\ attempts' = Attempts(w)
  /\ status' = Status(w)
  /\ due' = [e \in Events |->
               IF e \in bad[w] /\ Attempts(w)[e] < MaxAttempts THEN FALSE
               ELSE IF e \in ok[w] \cup bad[w] THEN TRUE ELSE due[e]]
  /\ NewBatch(w)
  /\ UNCHANGED <<sent, crashes>>

\* The worker dies, is cancelled or loses its connection; main_async starts
\* over with a new session.
RollbackBatch(w) ==
  /\ locked[w] # {} /\ crashes < MaxCrashes
  /\ crashes' = crashes + 1
  /\ NewBatch(w)
  /\ UNCHANGED <<entry, sent>>

\* The back-off of a failed entry has passed.
FallsDue(e) ==
  /\ ~due[e]
  /\ due' = [due EXCEPT ![e] = TRUE]
  /\ UNCHANGED <<status, attempts, batch, sent, crashes>>

-----------------------------------------------------------------------------
Work(w) ==
  \/ ClaimBatch(w)
  \/ \E e \in Events : Deliver(w, e) \/ DeliveryFails(w, e)
  \/ CommitBatch(w)

\* Nothing is left to publish, and every mutation has ended.
Idle ==
  /\ \A e \in Events : \/ status[e] \in {"aborted", "published"}
                       \/ status[e] = "failed" /\ attempts[e] = MaxAttempts
  /\ UNCHANGED vars

Next ==
  \/ \E e \in Events : EndMutation(e) \/ FallsDue(e)
  \/ \E w \in Workers : Work(w) \/ RollbackBatch(w)
  \/ Idle

Spec == Init /\ [][Next]_vars

\* --loop: each worker keeps running batches, and time passes.
FairSpec ==
  /\ Spec
  /\ \A w \in Workers : WF_vars(Work(w))
  /\ \A e \in Events : WF_vars(FallsDue(e))

-----------------------------------------------------------------------------
(* Properties *)

Settled(e) ==
  status[e] = "published" \/ (status[e] = "failed" /\ attempts[e] >= MaxAttempts)

\* Types; the attempts of an entry stay within the limit, whichever worker
\* made them.
TypeOK ==
  /\ status \in [Events -> Statuses]
  /\ attempts \in [Events -> 0..MaxAttempts]
  /\ due \in [Events -> BOOLEAN]
  /\ locked \in [Workers -> SUBSET Events]
  /\ todo \in [Workers -> SUBSET Events]
  /\ ok \in [Workers -> SUBSET Events]
  /\ bad \in [Workers -> SUBSET Events]
  /\ sent \in [Events -> Nat]
  /\ crashes \in Nat

\* Redelivery is bounded although deliveries are not transactional: every
\* delivery is an attempt that was counted or part of a batch rolled back.
DeliveryBound == \A e \in Events : sent[e] <= MaxAttempts + crashes

Fate ==
  [e \in Events |->
     IF status[e] \in {"staged", "aborted"} THEN "unknown"
     ELSE IF status[e] = "published" THEN "published"
     ELSE IF Settled(e) THEN "abandoned" ELSE "promised"]

Promised == INSTANCE EventDelivery WITH fate <- Fate

\* Concurrent workers (SKIP LOCKED), failed deliveries and rolled back batches
\* keep the promise of EventDelivery: at least one delivery of what is marked
\* published, none before the mutation commits or after the decision.
KeepsPromise == Promised!Spec

\* CORE_CONTRACTS.md: what is committed as PENDING is published, or fails
\* until its attempts are used up.
EventuallySettled == \A e \in Events : status[e] = "pending" ~> Settled(e)

=============================================================================
