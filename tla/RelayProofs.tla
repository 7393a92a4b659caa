------------------------------ MODULE RelayProofs ------------------------------
(***************************************************************************)
(* Theorems about OutboxRelay, for every number of events, workers,        *)
(* attempts and faults.                                                    *)
(***************************************************************************)
EXTENDS OutboxRelay, FiniteSetTheorems, TLAPS

(* The inductive invariant.                                                 *)

\* FOR UPDATE SKIP LOCKED: a row is in one batch, in one place of it, and
\* still to be sent.
Exclusive ==
  /\ \A v, w \in Workers : v # w => Batch(v) \cap Batch(w) = {}
  /\ \A w \in Workers : /\ todo[w] \cap sent[w] = {} /\ todo[w] \cap failed[w] = {}
                        /\ sent[w] \cap failed[w] = {}
  /\ \A w \in Workers : \A e \in Batch(w) : status[e] \in {"PENDING", "FAILED"}

InSent(e) == \E w \in Workers : e \in sent[w]
InFailed(e) == \E w \in Workers : e \in failed[w]

\* The attempts of a row that was not sent are sends that failed.
Counted ==
  \A e \in Events :
    /\ status[e] = "NONE" => attempts[e] = 0
    /\ status[e] \in {"PENDING", "FAILED"} => attempts[e] < MaxAttempts
    /\ status[e] \notin {"SENT", "GONE"} =>
         errors[e] >= attempts[e] + (IF InFailed(e) THEN 1 ELSE 0)

\* CopiesExplained, with at most one worker that has published a row.
Explained ==
  \A e \in Events :
    copies[e] = unrecorded[e] + (IF InSent(e) THEN 1 ELSE 0)
                + (IF status[e] \in {"SENT", "GONE"} THEN 1 ELSE 0)

RelayInv == TypeOK /\ Exclusive /\ Counted /\ DeadIsDeserved /\ Explained

LEMMA SentByOne ==
  ASSUME Exclusive, NEW e \in Events
  PROVE  Cardinality({w \in Workers : e \in sent[w]}) = IF InSent(e) THEN 1 ELSE 0
<1> DEFINE S == {w \in Workers : e \in sent[w]}
<1>1. CASE InSent(e)
  <2>1. PICK w \in Workers : e \in sent[w]
    BY <1>1 DEF InSent
  <2>2. S = {w}
    BY <2>1 DEF Exclusive, Batch
  <2> QED
    BY <1>1, <2>2, FS_Singleton
<1>2. CASE ~InSent(e)
  <2>1. S = {}
    BY <1>2 DEF InSent
  <2> QED
    BY <1>2, <2>1, FS_EmptySet
<1> QED
  BY <1>1, <1>2

LEMMA InitRelay == Init => RelayInv
<1> SUFFICES ASSUME Init PROVE RelayInv
  OBVIOUS
<1>1. TypeOK
  BY SettingsAssumption, BoundAssumption DEF Init, TypeOK
<1>2. Exclusive
  BY DEF Init, Exclusive, Batch
<1>3. Counted /\ DeadIsDeserved /\ Explained
  BY SettingsAssumption DEF Init, Counted, DeadIsDeserved, Explained, InSent, InFailed
<1> QED
  BY <1>1, <1>2, <1>3 DEF RelayInv

-----------------------------------------------------------------------------
(* One step per action.                                                     *)

\* What happens to a row nobody holds.
LEMMA RowSteps ==
  ASSUME RelayInv, NEW e \in Events, Insert(e) \/ BackoffOver(e) \/ Purge(e)
  PROVE  RelayInv'
<1>1. TypeOK'
  BY DEF RelayInv, TypeOK, Insert, BackoffOver, Purge, batches
<1>2. Exclusive'
  BY DEF RelayInv, TypeOK, Exclusive, Batch, Locked, Insert, BackoffOver, Purge, batches
<1>3. Counted' /\ DeadIsDeserved' /\ Explained'
  BY SettingsAssumption
     DEF RelayInv, TypeOK, Counted, DeadIsDeserved, Explained, InSent, InFailed, Insert,
         BackoffOver, Purge, batches
<1> QED
  BY <1>1, <1>2, <1>3 DEF RelayInv

LEMMA ClaimStep ==
  ASSUME RelayInv, NEW w \in Workers, Claim(w)
  PROVE  RelayInv'
<1>1. PICK B \in SUBSET Free : todo' = [todo EXCEPT ![w] = B]
  BY DEF Claim
<1>2. B \subseteq Events /\ \A e \in B : Eligible(e) /\ \A v \in Workers : e \notin Batch(v)
  BY <1>1 DEF Free, Locked
<1>3. TypeOK'
  BY <1>1, <1>2 DEF RelayInv, TypeOK, Claim, rows
<1>4. \A v \in Workers : Batch(v)' = IF v = w THEN B ELSE Batch(v)
  BY <1>1 DEF RelayInv, TypeOK, Claim, Batch
<1>5. Exclusive'
  <2>1. \A v \in Workers : todo'[v] = IF v = w THEN B ELSE todo[v]
    BY <1>1 DEF RelayInv, TypeOK
  <2>2. sent[w] = {} /\ failed[w] = {} /\ sent' = sent /\ failed' = failed /\ status' = status
    BY DEF Claim, Batch, rows
  <2> QED
    BY <1>2, <1>4, <2>1, <2>2 DEF RelayInv, Exclusive, Eligible
<1>6. Counted' /\ DeadIsDeserved' /\ Explained'
  BY DEF RelayInv, Counted, DeadIsDeserved, Explained, InSent, InFailed, Claim, rows
<1> QED
  BY <1>3, <1>5, <1>6 DEF RelayInv

LEMMA PublishStep ==
  ASSUME RelayInv, NEW w \in Workers, NEW e \in Events, Publish(w, e)
  PROVE  RelayInv'
<1>1. TypeOK'
  BY DEF RelayInv, TypeOK, Publish, IsNext, Stored, rows
<1>2. Exclusive'
  BY DEF RelayInv, TypeOK, Exclusive, Batch, Publish, IsNext, rows
<1>3. Counted' /\ DeadIsDeserved'
  BY DEF RelayInv, Counted, DeadIsDeserved, InFailed, Publish, rows
<1>4. Explained'
  <2>1. ~InSent(e) /\ status[e] \in {"PENDING", "FAILED"}
    BY DEF RelayInv, Exclusive, Batch, InSent, Publish, IsNext
  <2>2. \A x \in Events : InSent(x)' <=> (InSent(x) \/ x = e)
    BY DEF RelayInv, TypeOK, InSent, Publish
  <2> QED
    BY <2>1, <2>2 DEF RelayInv, TypeOK, Explained, Publish, Stored, rows
<1> QED
  BY <1>1, <1>2, <1>3, <1>4 DEF RelayInv

LEMMA ErrorStep ==
  ASSUME RelayInv, NEW w \in Workers, NEW e \in Events, PublishFails(w, e) \/ AnswerLost(w, e)
  PROVE  RelayInv'
<1> USE DEF PublishFails, AnswerLost, Errs
<1>1. TypeOK'
  BY BoundAssumption DEF RelayInv, TypeOK, IsNext, Stored, rows
<1>2. Exclusive'
  BY DEF RelayInv, TypeOK, Exclusive, Batch, IsNext, rows
<1>3. Counted'
  <2>1. ~InFailed(e) /\ status[e] \in {"PENDING", "FAILED"}
    BY DEF RelayInv, Exclusive, Batch, InFailed, IsNext
  <2>2. \A x \in Events : InFailed(x)' <=> (InFailed(x) \/ x = e)
    BY DEF RelayInv, TypeOK, InFailed
  <2> QED
    BY <2>1, <2>2 DEF RelayInv, TypeOK, Counted, rows
<1>4. DeadIsDeserved' /\ Explained'
  BY SettingsAssumption DEF RelayInv, TypeOK, DeadIsDeserved, Explained, InSent, Stored, rows
<1> QED
  BY <1>1, <1>2, <1>3, <1>4 DEF RelayInv

\* Letting a batch go: what the rows of it know is for the caller to show.
LEMMA BatchGone ==
  ASSUME RelayInv, NEW w \in Workers, EndBatch(w)
  PROVE  /\ \A v \in Workers : /\ todo'[v] = IF v = w THEN {} ELSE todo[v]
                               /\ sent'[v] = IF v = w THEN {} ELSE sent[v]
                               /\ failed'[v] = IF v = w THEN {} ELSE failed[v]
                               /\ Batch(v)' = IF v = w THEN {} ELSE Batch(v)
         /\ \A e \in Events : InSent(e)' <=> (InSent(e) /\ e \notin sent[w])
         /\ \A e \in Events : InFailed(e)' <=> (InFailed(e) /\ e \notin failed[w])
<1>1. \A v \in Workers : /\ todo'[v] = IF v = w THEN {} ELSE todo[v]
                         /\ sent'[v] = IF v = w THEN {} ELSE sent[v]
                         /\ failed'[v] = IF v = w THEN {} ELSE failed[v]
  BY DEF RelayInv, TypeOK, EndBatch
<1> QED
  BY <1>1 DEF RelayInv, Exclusive, Batch, InSent, InFailed

LEMMA CommitStep ==
  ASSUME RelayInv, NEW w \in Workers, CommitBatch(w)
  PROVE  RelayInv'
<1>1. EndBatch(w) /\ todo[w] = {} /\ Batch(w) = sent[w] \cup failed[w]
  BY DEF CommitBatch, Batch
<1>2. \A e \in Events :
        /\ status'[e] = IF e \in sent[w] THEN "SENT"
                        ELSE IF e \in failed[w]
                             THEN IF attempts[e] + 1 >= MaxAttempts THEN "DEAD" ELSE "FAILED"
                             ELSE status[e]
        /\ attempts'[e] = IF e \in Batch(w) THEN attempts[e] + 1 ELSE attempts[e]
  BY DEF RelayInv, Exclusive, CommitBatch, Exhausted
<1>3. \A e \in Batch(w) : /\ e \in Events /\ status[e] \in {"PENDING", "FAILED"}
                          /\ attempts[e] \in Nat /\ attempts[e] + 1 <= MaxAttempts
  BY SettingsAssumption DEF RelayInv, TypeOK, Exclusive, Batch, Counted
<1>4. TypeOK'
  <2>1. status' \in [Events -> {"NONE", "PENDING", "FAILED", "SENT", "DEAD", "GONE"}]
    BY <1>2 DEF RelayInv, TypeOK, CommitBatch
  <2>2. attempts' \in [Events -> 0 .. MaxAttempts]
    BY <1>2, <1>3, SettingsAssumption DEF RelayInv, TypeOK, CommitBatch
  <2> QED
    BY <2>1, <2>2 DEF RelayInv, TypeOK, CommitBatch, EndBatch
<1>5. Exclusive'
  <2>1. \A v \in Workers \ {w} : \A e \in Batch(v) : status'[e] = status[e]
    BY <1>1, <1>2 DEF RelayInv, TypeOK, Exclusive, Batch
  <2> QED
    BY <1>1, <2>1, BatchGone DEF RelayInv, Exclusive
<1>6. \A e \in Events : /\ e \in sent[w] => ~InFailed(e) /\ ~InFailed(e)'
                        /\ e \in failed[w] => ~InSent(e) /\ InFailed(e) /\ ~InFailed(e)'
                        /\ e \notin Batch(w) => (InSent(e)' <=> InSent(e)) /\ (InFailed(e)' <=> InFailed(e))
  BY <1>1, BatchGone DEF RelayInv, Exclusive, Batch, InSent, InFailed
<1>7. Counted' /\ DeadIsDeserved'
  <2> SUFFICES ASSUME NEW e \in Events
               PROVE  /\ status'[e] = "NONE" => attempts'[e] = 0
                      /\ status'[e] \in {"PENDING", "FAILED"} => attempts'[e] < MaxAttempts
                      /\ status'[e] \notin {"SENT", "GONE"} =>
                           errors[e] >= attempts'[e] + (IF InFailed(e)' THEN 1 ELSE 0)
                      /\ status'[e] = "DEAD" => errors[e] >= MaxAttempts
    BY DEF Counted, DeadIsDeserved, CommitBatch
  <2>1. errors[e] \in Nat /\ attempts[e] \in Nat
    BY SettingsAssumption DEF RelayInv, TypeOK
  <2>2. CASE e \in sent[w]
    BY <1>2, <2>2
  <2>3. CASE e \in failed[w]
    <3>1. e \notin sent[w] /\ e \in Batch(w)
      BY <2>3 DEF RelayInv, Exclusive, Batch
    <3>2. errors[e] >= attempts[e] + 1
      BY <1>3, <1>6, <2>3, <3>1 DEF RelayInv, Counted
    <3> QED
      BY <1>2, <1>6, <2>1, <2>3, <3>1, <3>2, SettingsAssumption
  <2>4. CASE e \notin Batch(w)
    BY <1>1, <1>2, <1>6, <2>4 DEF RelayInv, Counted, DeadIsDeserved
  <2> QED
    BY <1>1, <2>2, <2>3, <2>4
<1>8. Explained'
  <2> SUFFICES ASSUME NEW e \in Events
               PROVE  copies[e] = unrecorded[e] + (IF InSent(e)' THEN 1 ELSE 0)
                                  + (IF status'[e] \in {"SENT", "GONE"} THEN 1 ELSE 0)
    BY DEF Explained, CommitBatch
  <2>1. /\ copies[e] = unrecorded[e] + (IF InSent(e) THEN 1 ELSE 0)
                       + (IF status[e] \in {"SENT", "GONE"} THEN 1 ELSE 0)
        /\ unrecorded[e] \in Nat
    BY DEF RelayInv, TypeOK, Explained
  <2>2. CASE e \in sent[w]
    <3>1. InSent(e) /\ ~InSent(e)' /\ e \in Batch(w)
      BY <1>1, <2>2, BatchGone DEF InSent
    <3> QED
      BY <1>2, <1>3, <2>1, <2>2, <3>1
  <2>3. CASE e \in failed[w]
    <3>1. ~InSent(e) /\ ~InSent(e)' /\ e \notin sent[w] /\ e \in Batch(w)
      BY <1>1, <1>6, <2>3, BatchGone DEF RelayInv, Exclusive, Batch
    <3> QED
      BY <1>2, <1>3, <2>1, <2>3, <3>1
  <2>4. CASE e \notin Batch(w)
    <3>1. status'[e] = status[e] /\ (InSent(e)' <=> InSent(e))
      BY <1>1, <1>2, <1>6, <2>4
    <3> QED
      BY <2>1, <3>1
  <2> QED
    BY <1>1, <2>2, <2>3, <2>4
<1> QED
  BY <1>4, <1>5, <1>7, <1>8 DEF RelayInv

LEMMA CrashStep ==
  ASSUME RelayInv, NEW w \in Workers, Crash(w)
  PROVE  RelayInv'
<1>1. EndBatch(w) /\ rows' = rows /\ copies' = copies /\ errors' = errors
  BY DEF Crash
<1>2. \A e \in Events :
        unrecorded'[e] = IF e \in sent[w] THEN unrecorded[e] + 1 ELSE unrecorded[e]
  BY DEF Crash
<1>3. TypeOK'
  BY <1>1, BoundAssumption DEF RelayInv, TypeOK, Crash, EndBatch, rows
<1>4. Exclusive'
  BY <1>1, BatchGone DEF RelayInv, Exclusive, rows
<1>5. Counted' /\ DeadIsDeserved'
  <2>1. \A e \in Events : InFailed(e)' => InFailed(e)
    BY <1>1, BatchGone
  <2> QED
    BY <1>1, <2>1, SettingsAssumption DEF RelayInv, TypeOK, Counted, DeadIsDeserved, rows
<1>6. Explained'
  <2>1. \A e \in sent[w] : InSent(e) /\ ~InSent(e)'
    BY <1>1, BatchGone DEF RelayInv, TypeOK, InSent
  <2>2. \A e \in Events : e \notin sent[w] => (InSent(e)' <=> InSent(e))
    BY <1>1, BatchGone
  <2> QED
    BY <1>1, <1>2, <2>1, <2>2 DEF RelayInv, TypeOK, Explained, rows
<1> QED
  BY <1>3, <1>4, <1>5, <1>6 DEF RelayInv

LEMMA RelayStep == RelayInv /\ [Next]_vars => RelayInv'
<1> SUFFICES ASSUME RelayInv, [Next]_vars PROVE RelayInv'
  OBVIOUS
<1>1. CASE \E e \in Events : Insert(e) \/ BackoffOver(e) \/ Purge(e)
  BY <1>1, RowSteps
<1>2. CASE \E w \in Workers : Claim(w)
  BY <1>2, ClaimStep
<1>3. CASE \E w \in Workers, e \in Events : Publish(w, e)
  BY <1>3, PublishStep
<1>4. CASE \E w \in Workers, e \in Events : PublishFails(w, e) \/ AnswerLost(w, e)
  BY <1>4, ErrorStep
<1>5. CASE \E w \in Workers : CommitBatch(w)
  BY <1>5, CommitStep
<1>6. CASE \E w \in Workers : Crash(w)
  BY <1>6, CrashStep
<1>7. CASE UNCHANGED vars
  <2>1. UNCHANGED <<status, attempts, ready, todo, sent, failed, copies, errors, unrecorded, faults>>
    BY <1>7 DEF vars, rows, batches
  <2> QED
    BY <2>1 DEF RelayInv, TypeOK, Exclusive, Batch, Counted, InSent, InFailed,
                DeadIsDeserved, Explained
<1> QED
  BY <1>1, <1>2, <1>3, <1>4, <1>5, <1>6, <1>7 DEF Next, Work

LEMMA RelayAlways == Spec => []RelayInv
<1> QED
  BY InitRelay, RelayStep, PTL DEF Spec

-----------------------------------------------------------------------------
(* What readers of the events can rely on.                                  *)

\* Rows, batches and counters keep their types: no row is tried more than
\* MaxAttempts times.
THEOREM RelayType == Spec => []TypeOK
<1>1. RelayInv => TypeOK
  BY DEF RelayInv
<1> QED
  BY <1>1, RelayAlways, PTL

\* A row is parked DEAD only after MaxAttempts sends of it have failed, whatever
\* batches were cut off (pollWithTx, markFailed).
THEOREM NothingParkedEarly == Spec => []DeadIsDeserved
<1>1. RelayInv => DeadIsDeserved
  BY DEF RelayInv
<1> QED
  BY <1>1, RelayAlways, PTL

\* Every copy of an event is the one its row records or is about to, or one that
\* an error or a crash made the relay forget: SKIP LOCKED keeps workers apart.
THEOREM EveryCopyExplained == Spec => []CopiesExplained
<1>1. RelayInv => CopiesExplained
  BY SentByOne DEF RelayInv, Explained, CopiesExplained
<1> QED
  BY <1>1, RelayAlways, PTL

-----------------------------------------------------------------------------
(* The relay implements AtLeastOnce.                                        *)

LEMMA InitImplements == Init => Abstract!Init
  BY DEF Init, Abstract!Init, Shown

\* Rows that change their STATUS one at a time.
LEMMA RowImplements ==
  ASSUME RelayInv, NEW e \in Events, Insert(e) \/ BackoffOver(e) \/ Purge(e)
  PROVE  Abstract!Accept(e) \/ UNCHANGED Abstract!vars
<1>1. status \in [Events -> {"NONE", "PENDING", "FAILED", "SENT", "DEAD", "GONE"}]
  BY DEF RelayInv, TypeOK
<1>2. CASE Insert(e)
  BY <1>1, <1>2 DEF Insert, Abstract!Accept, Shown
<1>3. CASE BackoffOver(e)
  BY <1>3 DEF BackoffOver, Abstract!vars
<1>4. CASE Purge(e)
  BY <1>1, <1>4 DEF Purge, Abstract!vars, Shown
<1> QED
  BY <1>2, <1>3, <1>4

LEMMA SendImplements ==
  ASSUME RelayInv, NEW w \in Workers, NEW e \in Events,
         Publish(w, e) \/ PublishFails(w, e) \/ AnswerLost(w, e)
  PROVE  Abstract!Publish(e) \/ UNCHANGED Abstract!vars
<1>1. Shown(status[e]) = "open"
  BY DEF RelayInv, Exclusive, Batch, Publish, PublishFails, AnswerLost, Errs, IsNext, Shown
<1>2. status' = status /\ (Stored(e) \/ copies' = copies)
  BY DEF Publish, PublishFails, AnswerLost, Errs, rows
<1> QED
  BY <1>1, <1>2 DEF Stored, Abstract!Publish, Abstract!vars

\* A batch that commits settles its rows; the sent ones were stored, by Explained.
LEMMA CommitImplements ==
  ASSUME RelayInv, NEW w \in Workers, CommitBatch(w)
  PROVE  \E S, D \in SUBSET Events : Abstract!Settle(S, D)
<1> DEFINE S == sent[w]
           D == {e \in failed[w] : Exhausted(attempts[e] + 1)}
<1>1. S \in SUBSET Events /\ D \in SUBSET Events /\ S \cap D = {}
  BY DEF RelayInv, TypeOK, Exclusive
<1>2. \A e \in Batch(w) : Shown(status[e]) = "open"
  BY DEF RelayInv, Exclusive, Shown
<1>3. \A e \in S : copies[e] > 0
  <2> SUFFICES ASSUME NEW e \in S PROVE copies[e] > 0
    OBVIOUS
  <2>1. e \in Events /\ InSent(e) /\ unrecorded[e] \in Nat
    BY DEF RelayInv, TypeOK, InSent
  <2>2. copies[e] = unrecorded[e] + 1 + (IF status[e] \in {"SENT", "GONE"} THEN 1 ELSE 0)
    BY <2>1 DEF RelayInv, Explained
  <2> QED
    BY <2>1, <2>2
<1>4. \A e \in Events : Shown(status'[e]) = IF e \in S THEN "sent"
                                           ELSE IF e \in D THEN "dead" ELSE Shown(status[e])
  <2> SUFFICES ASSUME NEW e \in Events
               PROVE  Shown(status'[e]) = IF e \in S THEN "sent"
                                         ELSE IF e \in D THEN "dead" ELSE Shown(status[e])
    OBVIOUS
  <2>1. status'[e] = CASE e \in sent[w] -> "SENT"
                       [] e \in failed[w] -> IF Exhausted(attempts[e] + 1) THEN "DEAD" ELSE "FAILED"
                       [] OTHER -> status[e]
    BY DEF CommitBatch
  <2>2. CASE e \in sent[w]
    BY <2>1, <2>2 DEF Shown, RelayInv, Exclusive
  <2>3. CASE e \in failed[w]
    <3>1. Shown(status[e]) = "open" /\ e \notin sent[w]
      BY <1>2, <2>3 DEF Batch, RelayInv, Exclusive
    <3> QED
      BY <2>1, <2>3, <3>1 DEF Shown
  <2>4. CASE e \notin sent[w] /\ e \notin failed[w]
    BY <2>1, <2>4
  <2> QED
    BY <2>2, <2>3, <2>4
<1>5. copies' = copies
  BY DEF CommitBatch
<1> QED
  <2>1. Abstract!Settle(S, D)
    BY <1>1, <1>2, <1>3, <1>4, <1>5 DEF Abstract!Settle, Batch
  <2> QED
    BY <1>1, <2>1

LEMMA StepImplements == RelayInv /\ [Next]_vars => [Abstract!Next]_(Abstract!vars)
<1> SUFFICES ASSUME RelayInv, [Next]_vars PROVE Abstract!Next \/ UNCHANGED Abstract!vars
  OBVIOUS
<1>1. CASE \E e \in Events : Insert(e) \/ BackoffOver(e) \/ Purge(e)
  BY <1>1, RowImplements DEF Abstract!Next
<1>2. CASE \E w \in Workers : Claim(w) \/ Crash(w)
  BY <1>2 DEF Claim, Crash, rows, Abstract!vars
<1>3. CASE \E w \in Workers, e \in Events : Publish(w, e) \/ PublishFails(w, e) \/ AnswerLost(w, e)
  BY <1>3, SendImplements DEF Abstract!Next
<1>4. CASE \E w \in Workers : CommitBatch(w)
  BY <1>4, CommitImplements DEF Abstract!Next
<1>5. CASE UNCHANGED vars
  BY <1>5 DEF vars, rows, Abstract!vars
<1> QED
  BY <1>1, <1>2, <1>3, <1>4, <1>5 DEF Next, Work

\* Whatever the batches, the crashes and the lost answers: an accepted event stays
\* open until it was published or has exhausted its attempts, and what is settled is
\* never published again (the poll loop of polling.go on the rows of outbox.go).
THEOREM RelayDelivers == Spec => ImplementsAtLeastOnce
  BY InitImplements, StepImplements, RelayAlways, PTL DEF Spec, ImplementsAtLeastOnce, Abstract!Spec
=============================================================================
