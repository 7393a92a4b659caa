------------------------------ MODULE OutboxRelay ------------------------------
(***************************************************************************)
(* The outbox relay in polling mode (services/outbox-relay): workers claim *)
(* batches of WLT_OUTBOX with FOR UPDATE SKIP LOCKED, publish them to Kafka *)
(* one by one while they hold the rows, and record the outcome in the same *)
(* transaction.  A batch that is cut off leaves its rows as they were, and *)
(* what it had published is published again.                               *)
(***************************************************************************)
EXTENDS Integers, FiniteSets

CONSTANTS
  Events,       \* rows of WLT_OUTBOX: numbers, in the order of CREATED_AT
  Workers,      \* WorkerCount goroutines, of all relays
  BatchSize,
  MaxAttempts,
  MaxFaults     \* bound on the answers of the broker lost and the batches cut off

ASSUME EventsAssumption == Events \subseteq Nat /\ IsFiniteSet(Events)
ASSUME SettingsAssumption == BatchSize \in Nat \ {0} /\ MaxAttempts \in Nat \ {0}
ASSUME BoundAssumption == MaxFaults \in Nat

VARIABLES
  status,       \* STATUS; NONE before the posting commits, GONE once purged
  attempts,
  ready,        \* the back-off of a FAILED row is over
  todo,         \* per worker: rows of its batch not yet published
  sent,         \* per worker: those published
  failed,       \* per worker: those whose publish failed
  copies,       \* per event: copies the broker has stored
  errors,       \* history: per event, sends that failed
  unrecorded,   \* history: per event, copies no row knows of
  faults

rows == <<status, attempts, ready>>
batches == <<todo, sent, failed>>
vars == <<rows, batches, copies, errors, unrecorded, faults>>

Init ==
  /\ status = [e \in Events |-> "NONE"]
  /\ attempts = [e \in Events |-> 0] /\ ready = [e \in Events |-> FALSE]
  /\ todo = [w \in Workers |-> {}] /\ sent = todo /\ failed = todo
  /\ copies = attempts /\ errors = attempts /\ unrecorded = attempts
  /\ faults = 0

Batch(w) == todo[w] \cup sent[w] \cup failed[w]
Locked == UNION {Batch(w) : w \in Workers}

-----------------------------------------------------------------------------

\* A posting commits its event.  CREATED_AT is the start of its transaction, so
\* the events need not appear in the order of CREATED_AT.
Insert(e) ==
  /\ status[e] = "NONE"
  /\ status' = [status EXCEPT ![e] = "PENDING"]
  /\ UNCHANGED <<attempts, ready, batches, copies, errors, unrecorded, faults>>

\* now() >= last_attempt_at + back-off.
BackoffOver(e) ==
  /\ status[e] = "FAILED" /\ ~ready[e]
  /\ ready' = [ready EXCEPT ![e] = TRUE]
  /\ UNCHANGED <<status, attempts, batches, copies, errors, unrecorded, faults>>

PendingOnly(e) ==          \* mutant: a FAILED row is not taken again
  status[e] = "PENDING"

AnyUnsent(e) ==            \* mutant: a DEAD row is
  status[e] \in {"PENDING", "DEAD"} \/ (status[e] = "FAILED" /\ ready[e])

Eligible(e) == status[e] = "PENDING" \/ (status[e] = "FAILED" /\ ready[e])

Unpublished ==             \* mutant: rows are let go once they are published
  {e \in Events : Eligible(e) /\ \A w \in Workers : e \notin todo[w]}

\* SKIP LOCKED.
Free == {e \in Events : Eligible(e) /\ e \notin Locked}

\* ORDER BY created_at LIMIT BatchSize.
Oldest(B) ==
  /\ Cardinality(B) = IF Cardinality(Free) < BatchSize THEN Cardinality(Free) ELSE BatchSize
  /\ \A e \in B, x \in Free \ B : e < x

Claim(w) ==
  /\ Batch(w) = {} /\ Free # {}
  /\ \E B \in SUBSET Free : Oldest(B) /\ todo' = [todo EXCEPT ![w] = B]
  /\ UNCHANGED <<rows, sent, failed, copies, errors, unrecorded, faults>>

IsNext(w, e) == e \in todo[w] /\ \A x \in todo[w] : e <= x

Stored(e) == copies' = [copies EXCEPT ![e] = @ + 1]

Publish(w, e) ==
  /\ IsNext(w, e)
  /\ Stored(e)
  /\ todo' = [todo EXCEPT ![w] = @ \ {e}]
  /\ sent' = [sent EXCEPT ![w] = @ \cup {e}]
  /\ UNCHANGED <<rows, failed, errors, unrecorded, faults>>

\* SendMessage gives up: the worker goes on with the next row of the batch.
Errs(w, e) ==
  /\ IsNext(w, e)
  /\ errors' = [errors EXCEPT ![e] = @ + 1]
  /\ todo' = [todo EXCEPT ![w] = @ \ {e}]
  /\ failed' = [failed EXCEPT ![w] = @ \cup {e}]
  /\ UNCHANGED <<rows, sent>>

PublishFails(w, e) == Errs(w, e) /\ UNCHANGED <<copies, unrecorded, faults>>

\* It gives up on the answer, but the broker had stored the message.
AnswerLost(w, e) ==
  /\ Errs(w, e) /\ faults < MaxFaults
  /\ Stored(e)
  /\ unrecorded' = [unrecorded EXCEPT ![e] = @ + 1]
  /\ faults' = faults + 1

ExhaustedEarly(n) == n + 1 >= MaxAttempts  \* mutant: off by one

Exhausted(n) == n >= MaxAttempts

EndBatch(w) ==
  /\ todo' = [todo EXCEPT ![w] = {}]
  /\ sent' = [sent EXCEPT ![w] = {}]
  /\ failed' = [failed EXCEPT ![w] = {}]

\* markSent, markFailed and COMMIT.
CommitBatch(w) ==
  /\ Batch(w) # {} /\ todo[w] = {}
  /\ status' = [e \in Events |->
       CASE e \in sent[w] -> "SENT"
         [] e \in failed[w] -> IF Exhausted(attempts[e] + 1) THEN "DEAD" ELSE "FAILED"
         [] OTHER -> status[e]]
  /\ attempts' = [e \in Events |-> IF e \in Batch(w) THEN attempts[e] + 1 ELSE attempts[e]]
  /\ ready' = [e \in Events |-> ready[e] /\ e \notin Batch(w)]
  /\ EndBatch(w)
  /\ UNCHANGED <<copies, errors, unrecorded, faults>>

\* The relay dies or is killed after ShutdownTimeout, or the commit fails.
Crash(w) ==
  /\ Batch(w) # {} /\ faults < MaxFaults
  /\ unrecorded' = [e \in Events |-> IF e \in sent[w] THEN unrecorded[e] + 1 ELSE unrecorded[e]]
  /\ EndBatch(w)
  /\ faults' = faults + 1
  /\ UNCHANGED <<rows, copies, errors>>

PurgeOld(e) ==             \* mutant: whatever is old is deleted
  /\ status[e] \in {"PENDING", "FAILED", "SENT", "DEAD"} /\ e \notin Locked
  /\ status' = [status EXCEPT ![e] = "GONE"]
  /\ UNCHANGED <<attempts, ready, batches, copies, errors, unrecorded, faults>>

\* fn_purge_outbox_sent, called by the retention janitor.
Purge(e) ==
  /\ status[e] = "SENT" /\ e \notin Locked
  /\ status' = [status EXCEPT ![e] = "GONE"]
  /\ UNCHANGED <<attempts, ready, batches, copies, errors, unrecorded, faults>>

-----------------------------------------------------------------------------

Work(w) ==
  \/ Claim(w) \/ CommitBatch(w)
  \/ \E e \in Events : Publish(w, e) \/ PublishFails(w, e) \/ AnswerLost(w, e)

Next ==
  \/ \E e \in Events : Insert(e) \/ BackoffOver(e) \/ Purge(e)
  \/ \E w \in Workers : Work(w) \/ Crash(w)

\* The poll loops run for ever (a relay that dies is started again) and time
\* passes.  Nothing is asked of the broker.
Spec ==
  /\ Init /\ [][Next]_vars
  /\ \A w \in Workers : WF_vars(Work(w))
  /\ \A e \in Events : WF_vars(BackoffOver(e))

-----------------------------------------------------------------------------
(* What must hold.                                                          *)

TypeOK ==
  /\ status \in [Events -> {"NONE", "PENDING", "FAILED", "SENT", "DEAD", "GONE"}]
  /\ attempts \in [Events -> 0 .. MaxAttempts]
  /\ ready \in [Events -> BOOLEAN]
  /\ todo \in [Workers -> SUBSET Events]
  /\ sent \in [Workers -> SUBSET Events]
  /\ failed \in [Workers -> SUBSET Events]
  /\ copies \in [Events -> Nat] /\ errors \in [Events -> Nat] /\ unrecorded \in [Events -> Nat]
  /\ faults \in 0 .. MaxFaults

\* "Still at-least-once, never drops" - and no more than that: every copy in
\* Kafka is the one its row records, or is about to, or one an error or a crash
\* made the relay forget.  Two workers never publish a row side by side.
CopiesExplained ==
  \A e \in Events :
    copies[e] = unrecorded[e]
                + Cardinality({w \in Workers : e \in sent[w]})
                + (IF status[e] \in {"SENT", "GONE"} THEN 1 ELSE 0)

\* A row is parked DEAD only after MaxAttempts sends of it have failed; batches
\* that were cut off and hand-overs between workers do not use up its attempts.
DeadIsDeserved == \A e \in Events : status[e] = "DEAD" => errors[e] >= MaxAttempts

\* What a row says of its event.
Shown(st) == CASE st = "NONE" -> "none" [] st \in {"SENT", "GONE"} -> "sent"
               [] st = "DEAD" -> "dead" [] OTHER -> "open"

\* What the relay promises its readers, whatever the batches and the crashes.
Abstract == INSTANCE AtLeastOnce WITH state <- [e \in Events |-> Shown(status[e])]

ImplementsAtLeastOnce == Abstract!Spec

\* Every event is published, or parked DEAD for an operator.
Drained ==
  \A e \in Events : status[e] = "PENDING" ~> status[e] \in {"SENT", "DEAD", "GONE"}
=============================================================================
