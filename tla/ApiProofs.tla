------------------------------- MODULE ApiProofs -------------------------------
(***************************************************************************)
(* What a caller of the service can rely on, for any number of attempts at *)
(* a request and any number of retries: first the machine of WalletApi on  *)
(* its own, then with the requests every route of WalletServer leaves it,  *)
(* whatever their bodies, pages and callers.                               *)
(***************************************************************************)
EXTENDS WalletApi, TLAPS

-----------------------------------------------------------------------------
(* One effect                                                              *)

\* A transaction is only tried again on a conflict, with retries left.
LEMMA StopRule ==
  \A a, e : ~Stops(a, e) => /\ tries[a] < MaxRetries
                            /\ R!mapPgError(e).code = "VERSION_CONFLICT"
  BY DEF Stops, R!withTx, R!IsRetriable

\* What became of a COMMIT whose answer is lost is no conflict: it ends the attempt.
LEMMA LostIsLast ==
  \A a : \A e \in {"BROKEN", "DEADLINE", "CANCELED"} : Stops(a, e)
<1>1. \A e \in {"BROKEN", "DEADLINE", "CANCELED"} :
        R!mapPgError(e).code # "VERSION_CONFLICT"
  BY DEF R!mapPgError, R!NewError, R!Internal
<1> QED
  BY <1>1, StopRule

LEMMA ServiceTypeInit == Init => TypeOK
<1> SUFFICES ASSUME Init PROVE TypeOK
  OBVIOUS
<1>1. pc \in [Attempts -> Places] /\ gone \in [Attempts -> {"", "DEADLINE", "CANCELED"}]
  BY DEF Init, Places
<1>2. tries \in [Attempts -> 0 .. MaxRetries]
  <2>1. tries = [a \in Attempts |-> 0]
    BY DEF Init
  <2> QED
    BY <2>1, RetriesAssumption
<1>3. found \in [Attempts -> H!Outcomes \cup {""}]
  BY DEF Init
<1> QED
  BY <1>1, <1>2, <1>3 DEF Init, TypeOK

\* An attempt moves to a place, and what its procedure found is there or forgotten.
Moves(a, places, o) ==
  /\ pc' \in [Attempts -> Places] /\ tries' \in [Attempts -> 0 .. MaxRetries]
  /\ gone' \in [Attempts -> {"", "DEADLINE", "CANCELED"}]
  /\ found' \in [Attempts -> H!Outcomes \cup {""}]
  /\ pc'[a] \in places /\ \A b \in Attempts \ {a} : pc'[b] = pc[b]
  /\ found'[a] = o /\ \A b \in Attempts \ {a} : found'[b] = found[b]

LEMMA GotoShape ==
  ASSUME TypeOK, NEW a \in Attempts, NEW place \in Places, Goto(a, place)
  PROVE  /\ pc' \in [Attempts -> Places]
         /\ pc'[a] = place /\ \A b \in Attempts \ {a} : pc'[b] = pc[b]
  BY DEF TypeOK, Goto

LEMMA FoundShape ==
  ASSUME TypeOK, NEW a \in Attempts, NEW o \in H!Outcomes \cup {""},
         found' = [found EXCEPT ![a] = o]
  PROVE  /\ found' \in [Attempts -> H!Outcomes \cup {""}]
         /\ found'[a] = o /\ \A b \in Attempts \ {a} : found'[b] = found[b]
  BY DEF TypeOK

LEMMA EndShape ==
  ASSUME TypeOK, NEW a \in Attempts, NEW place \in Places, End(a, place)
  PROVE  Moves(a, {place}, "")
<1>1. tries' \in [Attempts -> 0 .. MaxRetries]
  <2>1. tries' = [tries EXCEPT ![a] = 0] /\ tries \in [Attempts -> 0 .. MaxRetries]
    BY DEF TypeOK, End
  <2> QED
    BY <2>1, RetriesAssumption
<1>2. gone' \in [Attempts -> {"", "DEADLINE", "CANCELED"}]
  BY DEF TypeOK, End
<1> QED
  BY <1>1, <1>2, GotoShape, FoundShape DEF End, Moves

LEMMA TellShape ==
  ASSUME TypeOK, NEW a \in Attempts, NEW ans, Tell(a, ans)
  PROVE  Moves(a, {"done"}, "")
  BY EndShape DEF Tell, Places

LEMMA FailShape ==
  ASSUME TypeOK, NEW a \in Attempts, NEW e, Fail(a, e)
  PROVE  Moves(a, {"begin", "done"}, "")
<1>1. CASE /\ ~Stops(a, e)
           /\ tries' = [tries EXCEPT ![a] = IF @ > MaxRetries THEN @ ELSE @ + 1]
           /\ found' = [found EXCEPT ![a] = ""]
           /\ Goto(a, "begin")
           /\ UNCHANGED <<gone, err, answer>>
  <2>1. tries' \in [Attempts -> 0 .. MaxRetries]
    <3>1. tries[a] < MaxRetries /\ tries \in [Attempts -> 0 .. MaxRetries]
      BY <1>1, StopRule DEF TypeOK
    <3>2. (IF tries[a] > MaxRetries THEN tries[a] ELSE tries[a] + 1) \in 0 .. MaxRetries
      BY <3>1, RetriesAssumption
    <3>3. tries' = [tries EXCEPT ![a] = IF tries[a] > MaxRetries THEN tries[a] ELSE tries[a] + 1]
      BY <1>1
    <3> QED
      BY <3>1, <3>2, <3>3
  <2>2. gone' \in [Attempts -> {"", "DEADLINE", "CANCELED"}]
    BY <1>1 DEF TypeOK
  <2> QED
    BY <1>1, <2>1, <2>2, GotoShape, FoundShape DEF Places, Moves
<1>2. CASE err' = [err EXCEPT ![a] = e] /\ Tell(a, H!renderError(R!mapPgError(e)))
  BY <1>2, TellShape DEF Moves
<1> QED
  BY <1>1, <1>2 DEF Fail

LEMMA FindShape ==
  ASSUME TypeOK, NEW a \in Attempts, NEW o \in H!Outcomes, Find(a, o)
  PROVE  Moves(a, {"commit"}, o)
  BY GotoShape, FoundShape DEF TypeOK, Find, Places, Moves

LEMMA EffectShape ==
  ASSUME TypeOK, NEW a \in Attempts, Effect(a) \/ UNCHANGED <<rows, claim>>
  PROVE  rows' \subseteq Attempts \X (0 .. MaxRetries) /\ claim' \in BOOLEAN
<1>1. CASE Effect(a)
  <2>1. <<a, tries[a]>> \in Attempts \X (0 .. MaxRetries)
    BY DEF TypeOK
  <2>2. rows' \subseteq Attempts \X (0 .. MaxRetries)
    BY <1>1, <2>1 DEF Effect, TypeOK
  <2> QED
    BY <1>1, <2>2 DEF Effect, TypeOK
<1>2. CASE UNCHANGED <<rows, claim>>
  BY <1>2 DEF TypeOK
<1> QED
  BY <1>1, <1>2

LEMMA ServiceTypeStep == TypeOK /\ [Next]_vars => TypeOK'
<1> SUFFICES ASSUME TypeOK, [Next]_vars PROVE TypeOK'
  OBVIOUS
<1>0. {"FRESH", "REPEAT", "SWEEP"} = H!Outcomes
  BY DEF H!Outcomes
<1>1. ASSUME NEW a \in Attempts, Arrive(a) PROVE TypeOK'
  <2>1. CASE plan.kind = "refuse"
    BY <1>1, <2>1, TellShape DEF Moves, Arrive, TypeOK
  <2>2. CASE plan.kind # "refuse"
    BY <1>1, <2>2, GotoShape DEF Arrive, TypeOK, Places
  <2> QED
    BY <2>1, <2>2
<1>2. ASSUME NEW a \in Attempts, Expire(a) PROVE TypeOK'
  BY <1>2 DEF Expire, TypeOK
<1>3. ASSUME NEW a \in Attempts, Die(a) PROVE TypeOK'
  BY <1>3, EndShape DEF Die, Moves, TypeOK, Places
<1>4. ASSUME NEW a \in Attempts, Interrupt(a) PROVE TypeOK'
  BY <1>4, FailShape DEF Moves, Interrupt, TypeOK
<1>5. ASSUME NEW a \in Attempts, BeginTx(a) PROVE TypeOK'
  BY <1>5, GotoShape DEF BeginTx, TypeOK, Places
<1>6. ASSUME NEW a \in Attempts, Perform(a) PROVE TypeOK'
  <2>1. PICK o \in H!Outcomes : Find(a, o)
    BY <1>6, <1>0 DEF Perform
  <2> QED
    BY <1>6, <2>1, FindShape DEF Moves, Perform, TypeOK
<1>7. ASSUME NEW a \in Attempts, Recognise(a) PROVE TypeOK'
  <2>1. (\E o \in H!Outcomes : Find(a, o)) \/ \E e \in {call.proc.again} : Fail(a, e)
    BY <1>7, <1>0 DEF Recognise
  <2> QED
    BY <1>7, <2>1, FindShape, FailShape DEF Moves, Recognise, TypeOK
<1>8. ASSUME NEW a \in Attempts, LookUp(a) PROVE TypeOK'
  BY <1>8, GotoShape DEF LookUp, TypeOK, Places
<1>9. ASSUME NEW a \in Attempts, Insert(a) PROVE TypeOK'
  BY <1>9, <1>0, FindShape, FailShape DEF Moves, Insert, TypeOK
<1>10. ASSUME NEW a \in Attempts, Raise(a) PROVE TypeOK'
  BY <1>10, FailShape DEF Moves, Raise, TypeOK
<1>11. ASSUME NEW a \in Attempts, Commit(a) PROVE TypeOK'
  BY <1>11, EffectShape, TellShape DEF Moves, Commit, TypeOK
<1>12. ASSUME NEW a \in Attempts, CommitUnknown(a) PROVE TypeOK'
  BY <1>12, EffectShape, FailShape DEF Moves, CommitUnknown, TypeOK
<1>13. ASSUME NEW a \in Attempts, Read(a) PROVE TypeOK'
  <2>1. CASE Goto(a, "log") /\ UNCHANGED <<tries, gone, err, found, answer>>
    BY <1>13, <2>1, GotoShape DEF Read, TypeOK, Places
  <2>2. CASE \E e : Fail(a, e)
    BY <1>13, <2>2, FailShape DEF Moves, Read, TypeOK
  <2> QED
    BY <1>13, <2>1, <2>2 DEF Read
<1>14. ASSUME NEW a \in Attempts, AnswerRead(a) PROVE TypeOK'
  BY <1>14, TellShape DEF Moves, AnswerRead, TypeOK
<1>15. ASSUME UNCHANGED vars PROVE TypeOK'
  BY <1>15 DEF vars, TypeOK
<1> QED
  BY <1>1, <1>2, <1>3, <1>4, <1>5, <1>6, <1>7, <1>8, <1>9, <1>10, <1>11, <1>12, <1>13, <1>14,
     <1>15 DEF Next, Advance, Rest

\* The state of a request keeps its shape, for any attempts and any retries: no attempt runs
\* more than MaxRetries + 1 transactions.
THEOREM ServiceTyped == Spec => []TypeOK
  BY ServiceTypeInit, ServiceTypeStep, PTL DEF Spec

\* The functions that remember what an attempt was told; where an attempt can be.
Shaped == DOMAIN err = Attempts /\ DOMAIN answer = Attempts
InTx == {"begin", "procedure", "insert", "commit"}
Changes == plan.kind \notin {"refuse", "read"}
Placed ==
  \A a \in Attempts : /\ pc[a] \in InTx => Changes
                      /\ pc[a] \in {"read", "log"} => plan.kind = "read"
                      /\ pc[a] # "done" => err[a] = ""

\* The end of an attempt: its error and its answer.
Hears(a, e, ans) ==
  /\ Shaped' /\ err'[a] = e /\ answer'[a] = ans
  /\ \A b \in Attempts \ {a} : err'[b] = err[b] /\ answer'[b] = answer[b]

\* A failure: another transaction, or the end with an error.
LEMMA FailEnds ==
  ASSUME TypeOK, Shaped, NEW a \in Attempts, NEW e, Fail(a, e)
  PROVE  \/ pc'[a] = "begin" /\ ~Stops(a, e) /\ UNCHANGED <<err, answer>>
         \/ pc'[a] = "done" /\ Hears(a, e, H!renderError(R!mapPgError(e)))
  BY ZenonT(60) DEF Fail, Tell, End, Goto, TypeOK, Shaped, Hears

LEMMA TellEnds ==
  ASSUME TypeOK, Shaped, NEW a \in Attempts, NEW ans, Tell(a, ans), err' = err
  PROVE  pc'[a] = "done" /\ Hears(a, err[a], ans)
  BY DEF Tell, End, Goto, TypeOK, Shaped, Hears

\* What a step is to the request: an attempt waits, ...
Waits == UNCHANGED <<served, pc, err, found, answer, rows, claim>>

\* ... (only one moves) ...
Alone(a) ==
  /\ served' = served /\ Shaped'
  /\ \A b \in Attempts \ {a} : /\ pc'[b] = pc[b] /\ found'[b] = found[b]
                               /\ err'[b] = err[b] /\ answer'[b] = answer[b]

\* ... runs on without having found anything to commit, or dies, ...
Runs(a) ==
  /\ Alone(a) /\ UNCHANGED <<rows, claim>>
  /\ pc[a] # "done" /\ pc'[a] \notin {"commit", "done"} /\ err'[a] = err[a]
  /\ pc'[a] \in InTx => Changes
  /\ pc'[a] \in {"read", "log"} => plan.kind = "read"

\* ... comes to its COMMIT, alone unless the call may be repeated with effect, ...
Comes(a, o) ==
  /\ Alone(a) /\ UNCHANGED <<rows, claim>>
  /\ Changes /\ pc[a] # "done" /\ pc'[a] = "commit" /\ err'[a] = err[a] /\ found'[a] = o
  /\ \/ o \in {"FRESH", "SWEEP"} /\ ~Blocked(a) /\ (rows = {} \/ class \in {"OVERWRITE", "APPEND"})
     \/ o = "REPEAT" /\ rows # {} /\ class \in {"KEYED", "REVERSAL", "STEP"}
  /\ o = "SWEEP" => MaySweep

\* ... is told what there is without a transaction, or an error, ...
Answers(a) ==
  /\ Alone(a) /\ UNCHANGED <<rows, claim>>
  /\ pc[a] # "done" /\ pc'[a] = "done"
  /\ \/ plan.kind = "refuse" /\ answer'[a] = plan.problem
     \/ plan.kind = "read" /\ answer'[a] = plan.answers["FRESH"]
     \/ plan.kind # "refuse" /\ answer'[a] = H!renderError(R!mapPgError(err'[a]))

\* ... or commits, and is told so or that the answer was lost.
Lost == {"BROKEN", "DEADLINE", "CANCELED"}
Commits(a) ==
  /\ Alone(a)
  /\ pc[a] = "commit" /\ pc'[a] = "done"
  /\ \/ Effect(a) /\ err'[a] = err[a] /\ answer'[a] = plan.answers[found[a]]
     \/ /\ Effect(a) \/ UNCHANGED <<rows, claim>>
        /\ err'[a] \in Lost /\ answer'[a] = H!renderError(R!mapPgError(err'[a]))

\* A failure outside a COMMIT, and its end.
LEMMA FailKinds ==
  ASSUME TypeOK, Shaped, Placed, NEW a \in Attempts, NEW e, Fail(a, e),
         pc[a] \in {"begin", "procedure", "insert", "read"}, UNCHANGED <<served, rows, claim>>
  PROVE  Runs(a) \/ Answers(a)
<1>1. Moves(a, {"begin", "done"}, "")
  BY FailShape
<1>2. plan.kind # "refuse"
  BY DEF Placed, InTx, Changes
<1>3. CASE pc'[a] = "begin" /\ ~Stops(a, e) /\ UNCHANGED <<err, answer>>
  <2>1. Changes
    BY <1>2, <1>3 DEF Stops, Changes
  <2>2. Alone(a)
    BY <1>1, <1>3 DEF Moves, Alone, Shaped
  <2> QED
    BY <1>3, <2>1, <2>2 DEF Runs
<1>4. CASE pc'[a] = "done" /\ Hears(a, e, H!renderError(R!mapPgError(e)))
  <2>1. Alone(a)
    BY <1>1, <1>4 DEF Moves, Alone, Shaped, Hears
  <2> QED
    BY <1>2, <1>4, <2>1 DEF Answers, Hears
<1> QED
  BY <1>3, <1>4, FailEnds

LEMMA FindKinds ==
  ASSUME TypeOK, Shaped, Placed, NEW a \in Attempts, NEW o \in H!Outcomes, Find(a, o),
         pc[a] \in {"procedure", "insert"}, UNCHANGED <<served, rows, claim>>,
         \/ /\ o \in {"FRESH", "SWEEP"}
            /\ ~Blocked(a)
            /\ (rows = {} \/ class \in {"OVERWRITE", "APPEND"})
         \/ o = "REPEAT" /\ rows # {} /\ class \in {"KEYED", "REVERSAL", "STEP"},
         o = "SWEEP" => MaySweep
  PROVE  Comes(a, o)
<1>1. Moves(a, {"commit"}, o)
  BY FindShape
<1>2. Alone(a) /\ err'[a] = err[a]
  BY <1>1 DEF Find, Moves, Alone, Shaped
<1>3. Changes
  BY DEF Placed, InTx
<1> QED
  BY <1>1, <1>2, <1>3 DEF Comes, Moves

LEMMA GoKinds ==
  ASSUME TypeOK, Shaped, Placed, NEW a \in Attempts, NEW place \in Places, Goto(a, place),
         pc[a] # "done", place \notin {"commit", "done"},
         UNCHANGED <<served, err, found, answer, rows, claim>>,
         place \in InTx => Changes, place \in {"read", "log"} => plan.kind = "read"
  PROVE  Runs(a)
  BY GotoShape DEF Runs, Alone, Shaped

LEMMA StepKinds ==
  ASSUME TypeOK, Shaped, Placed, [Next]_vars
  PROVE  \/ Waits
         \/ \E a \in Attempts : \/ Runs(a) \/ Answers(a) \/ Commits(a)
                                \/ \E o \in H!Outcomes : Comes(a, o)
<1>0. {"FRESH", "REPEAT", "SWEEP"} = H!Outcomes
  BY DEF H!Outcomes
<1>1. ASSUME NEW a \in Attempts, Arrive(a) PROVE Runs(a) \/ Answers(a)
  <2>1. CASE plan.kind = "refuse"
    <3>1. Tell(a, plan.problem) /\ err' = err
      BY <1>1, <2>1 DEF Arrive
    <3>2. Moves(a, {"done"}, "") /\ Hears(a, err[a], plan.problem)
      BY <3>1, TellShape, TellEnds
    <3>3. Alone(a)
      BY <1>1, <3>2 DEF Arrive, Moves, Alone, Shaped, Hears
    <3> QED
      BY <1>1, <2>1, <3>2, <3>3 DEF Arrive, Answers, Hears, Moves
  <2>2. CASE plan.kind # "refuse"
    BY <1>1, <2>2, GoKinds DEF Arrive, Places, InTx, Changes
  <2> QED
    BY <2>1, <2>2
<1>2. ASSUME NEW a \in Attempts, Expire(a) PROVE Waits
  BY <1>2 DEF Expire, Waits
<1>3. ASSUME NEW a \in Attempts, Die(a) PROVE Runs(a)
  <2>1. Moves(a, {"lost"}, "")
    BY <1>3, EndShape DEF Die, Places
  <2> QED
    BY <1>3, <2>1 DEF Die, Running, Moves, Runs, Alone, Shaped, InTx
<1>4. ASSUME NEW a \in Attempts, Interrupt(a) PROVE Runs(a) \/ Answers(a)
  BY <1>4, FailKinds DEF Interrupt
<1>5. ASSUME NEW a \in Attempts, BeginTx(a) PROVE Runs(a)
  BY <1>5, GoKinds DEF BeginTx, Places, Placed, InTx
<1>6. ASSUME NEW a \in Attempts, Perform(a) PROVE \E o \in H!Outcomes : Comes(a, o)
  <2>1. PICK o \in {"FRESH"} \cup (IF MaySweep THEN {"SWEEP"} ELSE {}) : Find(a, o)
    BY <1>6 DEF Perform
  <2>2. o \in H!Outcomes /\ o \in {"FRESH", "SWEEP"} /\ (o = "SWEEP" => MaySweep)
    BY <1>0, <2>1
  <2>3. Comes(a, o)
    BY <1>6, <2>1, <2>2, FindKinds DEF Perform
  <2> QED
    BY <2>2, <2>3
<1>7. ASSUME NEW a \in Attempts, Recognise(a)
      PROVE  Runs(a) \/ Answers(a) \/ \E o \in H!Outcomes : Comes(a, o)
  <2>1. CASE class \in {"KEYED", "REVERSAL", "STEP"} /\ rows # {}
    <3>1. Find(a, "REPEAT") /\ "REPEAT" \in H!Outcomes
      BY <1>0, <1>7, <2>1 DEF Recognise
    <3>2. Comes(a, "REPEAT")
      BY <1>7, <2>1, <3>1, FindKinds DEF Recognise
    <3> QED
      BY <3>1, <3>2
  <2>2. CASE ~(class \in {"KEYED", "REVERSAL", "STEP"} /\ rows # {})
    <3>1. Fail(a, call.proc.again)
      BY <1>7, <2>2 DEF Recognise
    <3> QED
      BY <1>7, <3>1, FailKinds DEF Recognise
  <2> QED
    BY <2>1, <2>2
<1>8. ASSUME NEW a \in Attempts, LookUp(a) PROVE Runs(a)
  BY <1>8, GoKinds DEF LookUp, Places, Placed, InTx
<1>9. ASSUME NEW a \in Attempts, Insert(a)
      PROVE  Runs(a) \/ Answers(a) \/ \E o \in H!Outcomes : Comes(a, o)
  <2>1. CASE rows = {}
    <3>1. Find(a, "FRESH") /\ "FRESH" \in H!Outcomes
      BY <1>0, <1>9, <2>1 DEF Insert
    <3>2. Comes(a, "FRESH")
      BY <1>9, <2>1, <3>1, FindKinds DEF Insert
    <3> QED
      BY <3>1, <3>2
  <2>2. CASE rows # {}
    <3>1. Fail(a, "23505")
      BY <1>9, <2>2 DEF Insert
    <3> QED
      BY <1>9, <3>1, FailKinds DEF Insert
  <2> QED
    BY <2>1, <2>2
<1>10. ASSUME NEW a \in Attempts, Raise(a) PROVE Runs(a) \/ Answers(a)
  BY <1>10, FailKinds DEF Raise
<1>11. ASSUME NEW a \in Attempts, Commit(a) PROVE Commits(a)
  <2>1. Moves(a, {"done"}, "") /\ Hears(a, err[a], plan.answers[found[a]])
    BY <1>11, TellShape, TellEnds DEF Commit
  <2>2. Alone(a)
    BY <1>11, <2>1 DEF Commit, Moves, Alone, Shaped, Hears
  <2> QED
    BY <1>11, <2>1, <2>2 DEF Commit, Commits, Moves, Hears
<1>12. ASSUME NEW a \in Attempts, CommitUnknown(a) PROVE Commits(a)
  <2>1. PICK e \in Errors(a) : Fail(a, e)
    BY <1>12 DEF CommitUnknown
  <2>2. e \in Lost
    BY <2>1 DEF Errors, TypeOK, Lost
  <2>3. pc'[a] = "done" /\ Hears(a, e, H!renderError(R!mapPgError(e)))
    BY <2>1, <2>2, LostIsLast, FailEnds DEF Lost
  <2>4. Alone(a)
    BY <1>12, <2>1, <2>3, FailShape DEF CommitUnknown, Moves, Alone, Shaped, Hears
  <2> QED
    BY <1>12, <2>2, <2>3, <2>4 DEF CommitUnknown, Commits, Hears
<1>13. ASSUME NEW a \in Attempts, Read(a) PROVE Runs(a) \/ Answers(a)
  <2>1. CASE Goto(a, "log") /\ UNCHANGED <<tries, gone, err, found, answer>>
    BY <1>13, <2>1, GoKinds DEF Read, Places, Placed, InTx
  <2>2. CASE \E e : Fail(a, e)
    BY <1>13, <2>2, FailKinds DEF Read
  <2> QED
    BY <1>13, <2>1, <2>2 DEF Read
<1>14. ASSUME NEW a \in Attempts, AnswerRead(a) PROVE Answers(a)
  <2>1. Moves(a, {"done"}, "") /\ Hears(a, err[a], plan.answers["FRESH"])
    BY <1>14, TellShape, TellEnds DEF AnswerRead
  <2>2. Alone(a)
    BY <1>14, <2>1 DEF AnswerRead, Moves, Alone, Shaped, Hears
  <2> QED
    BY <1>14, <2>1, <2>2 DEF AnswerRead, Placed, Answers, Moves, Hears
<1>15. ASSUME UNCHANGED vars PROVE Waits
  BY <1>15 DEF vars, Waits
<1> QED
  BY <1>1, <1>2, <1>3, <1>4, <1>5, <1>6, <1>7, <1>8, <1>9, <1>10, <1>11, <1>12, <1>13, <1>14,
     <1>15 DEF Next, Advance, Rest

\* Why a request takes effect once: an attempt whose effect is committed is over, and where
\* a repeated call is recognised only one attempt comes to a COMMIT that has one.
Over == \A r \in rows : pc[r[1]] = "done"
OneEach == \A r, q \in rows : r[1] = q[1] => r = q
Lone ==
  class \notin {"OVERWRITE", "APPEND"} =>
    /\ \A a, b \in Attempts : Writing(a) /\ Writing(b) => a = b
    /\ \A a \in Attempts : Writing(a) => rows = {}
    /\ \A r, q \in rows : r = q
EffectInv == TypeOK /\ Shaped /\ Placed /\ Over /\ OneEach /\ Lone

LEMMA EffectInit == Init => EffectInv
<1>1. Init => Shaped /\ Placed /\ Over /\ OneEach /\ Lone
  BY DEF Init, Shaped, Placed, InTx, Over, OneEach, Lone, Writing
<1> QED
  BY <1>1, ServiceTypeInit DEF EffectInv

LEMMA PlacedStep ==
  ASSUME TypeOK, TypeOK', Shaped, Placed, [Next]_vars
  PROVE  Shaped' /\ Placed'
<1>1. CASE Waits
  BY <1>1 DEF Waits, Shaped, Placed, Changes, plan
<1>2. ASSUME NEW a \in Attempts, Runs(a) PROVE Shaped' /\ Placed'
  BY <1>2 DEF Runs, Alone, Placed, Changes, plan
<1>3. ASSUME NEW a \in Attempts, Answers(a) \/ Commits(a) PROVE Shaped' /\ Placed'
  BY <1>3 DEF Answers, Commits, Alone, Placed, InTx, Changes, plan
<1>4. ASSUME NEW a \in Attempts, NEW o \in H!Outcomes, Comes(a, o) PROVE Shaped' /\ Placed'
  BY <1>4 DEF Comes, Alone, Placed, InTx, Changes, plan
<1> QED
  BY <1>1, <1>2, <1>3, <1>4, StepKinds

LEMMA EffectStep == EffectInv /\ [Next]_vars => EffectInv'
<1> SUFFICES ASSUME EffectInv, [Next]_vars PROVE EffectInv'
  OBVIOUS
<1>0. TypeOK /\ TypeOK' /\ Shaped /\ Placed /\ Shaped' /\ Placed'
  BY ServiceTypeStep, PlacedStep DEF EffectInv
<1>1. CASE Waits
  <2>1. class' = class /\ \A a : Writing(a)' <=> Writing(a)
    BY <1>1 DEF Waits, class, plan, call, Writing
  <2> QED
    BY <1>0, <1>1, <2>1 DEF Waits, EffectInv, Over, OneEach, Lone
<1>2. ASSUME NEW a \in Attempts, Runs(a) \/ Answers(a) PROVE EffectInv'
  <2>1. class' = class /\ \A b \in Attempts : Writing(b)' => Writing(b)
    BY <1>2 DEF Runs, Answers, Alone, class, plan, call, Writing
  <2>2. Over'
    BY <1>0, <1>2, ZenonT(60) DEF Runs, Answers, Alone, EffectInv, Over, TypeOK
  <2> QED
    BY <1>0, <1>2, <2>1, <2>2 DEF Runs, Answers, EffectInv, OneEach, Lone
<1>3. ASSUME NEW a \in Attempts, NEW o \in H!Outcomes, Comes(a, o) PROVE EffectInv'
  <2>1. class' = class /\ \A b \in Attempts \ {a} : Writing(b)' <=> Writing(b)
    BY <1>3 DEF Comes, Alone, class, plan, call, Writing
  <2>2. Over'
    BY <1>0, <1>3, ZenonT(60) DEF Comes, Alone, EffectInv, Over, TypeOK
  <2>3. Writing(a)' => ~Blocked(a) /\ (rows = {} \/ class \in {"OVERWRITE", "APPEND"})
    BY <1>3 DEF Comes, Writing
  <2>4. class \notin {"OVERWRITE", "APPEND"} /\ Writing(a)' =>
          rows = {} /\ \A b \in Attempts \ {a} : ~Writing(b)
    BY <2>3 DEF Blocked
  <2>5. Lone'
    BY <1>3, <2>1, <2>4 DEF Comes, EffectInv, Lone
  <2> QED
    BY <1>0, <1>3, <2>2, <2>5 DEF Comes, EffectInv, OneEach
<1>4. ASSUME NEW a \in Attempts, Commits(a) PROVE EffectInv'
  <2>1. class' = class /\ ~Writing(a)' /\ \A b \in Attempts \ {a} : Writing(b)' <=> Writing(b)
    BY <1>4 DEF Commits, Alone, class, plan, call, Writing
  <2>2. rows' = rows \/ (rows' = rows \cup {<<a, tries[a]>>} /\ Writing(a))
    BY <1>4 DEF Commits, Effect, Writing
  <2>3. \A r \in rows : r[1] \in Attempts /\ r[1] # a
    BY <1>0, <1>4 DEF Commits, EffectInv, Over, TypeOK
  <2>4. Over'
    BY <1>4, <2>2, <2>3 DEF Commits, Alone, EffectInv, Over
  <2>5. OneEach'
    BY <2>2, <2>3 DEF EffectInv, OneEach
  <2>6. Lone'
    BY <2>1, <2>2 DEF EffectInv, Lone
  <2> QED
    BY <1>0, <2>4, <2>5, <2>6 DEF EffectInv
<1> QED
  BY <1>0, <1>1, <1>2, <1>3, <1>4, StepKinds

\* A request takes effect once, however often the wrapper retries it, the caller repeats it
\* and a COMMIT goes unanswered: an attempt leaves one effect at most, and all attempts
\* together leave one where the procedure recognises a repeated call.
THEOREM OneEffectOnly == Spec => []OneEffect
<1>1. EffectInv => OneEffect
  BY DEF EffectInv, OneEach, Lone, OneEffect
<1> QED
  BY <1>1, EffectInit, EffectStep, PTL DEF Spec

-----------------------------------------------------------------------------
(* What an attempt is told                                                 *)

\* A success is the answer to what the procedure found, which is so; an error is told by its
\* code, and only one that hides what became of a COMMIT leaves an effect.
Holds(a, o) ==
  /\ o = "FRESH" => By(a) # {}
  /\ o = "REPEAT" => By(a) = {} /\ rows # {} /\ class \in {"KEYED", "REVERSAL", "STEP"}
  /\ o = "SWEEP" => By(a) = {} /\ MaySweep
Tells(a) ==
  \/ plan.kind = "refuse" /\ answer[a] = plan.problem
  \/ plan.kind = "read" /\ answer[a] = plan.answers["FRESH"]
  \/ /\ Changes /\ err[a] = ""
     /\ \E o \in H!Outcomes : answer[a] = plan.answers[o] /\ Holds(a, o)
  \/ /\ plan.kind # "refuse" /\ answer[a] = H!renderError(R!mapPgError(err[a]))
     /\ By(a) # {} => err[a] \in Lost

\* What an attempt at its COMMIT has found.
Finds(a) ==
  /\ found[a] \in H!Outcomes
  /\ found[a] = "REPEAT" => rows # {} /\ class \in {"KEYED", "REVERSAL", "STEP"}
  /\ found[a] = "SWEEP" => MaySweep

Told == /\ \A a \in Attempts : pc[a] = "done" => Tells(a)
        /\ \A a \in Attempts : pc[a] = "commit" => Finds(a)
        /\ rows # {} => Changes
ToldInv == EffectInv /\ Told /\ served \in Served

LEMMA ToldInit == Init => ToldInv
<1>1. Init => Told /\ served \in Served
  BY DEF Init, Told
<1> QED
  BY <1>1, EffectInit DEF ToldInv

\* What was told or found stays so: an attempt does not touch the effects of another.
LEMMA TellsStays ==
  ASSUME NEW b \in Attempts, served' = served, answer'[b] = answer[b], err'[b] = err[b],
         By(b)' = By(b), rows \subseteq rows'
  PROVE  Tells(b) => Tells(b)'
<1>1. UNCHANGED <<plan, class, MaySweep, Changes>>
  BY DEF plan, class, call, MaySweep, Changes
<1>2. \A o : Holds(b, o) => Holds(b, o)'
  BY <1>1 DEF Holds
<1> QED
  BY <1>1, <1>2 DEF Tells

LEMMA FindsStays ==
  ASSUME NEW b \in Attempts, served' = served, found'[b] = found[b], rows \subseteq rows'
  PROVE  Finds(b) => Finds(b)'
<1>1. UNCHANGED <<class, MaySweep>>
  BY DEF plan, class, call, MaySweep
<1> QED
  BY <1>1 DEF Finds

LEMMA ToldStep == ToldInv /\ [Next]_vars => ToldInv'
<1> SUFFICES ASSUME ToldInv, [Next]_vars PROVE Told' /\ served' \in Served
  BY EffectStep DEF ToldInv
<1>0. TypeOK /\ Shaped /\ Placed /\ TypeOK' /\ Over
  BY ServiceTypeStep DEF ToldInv, EffectInv
<1>1. CASE Waits
  <2>1. rows' = rows /\ served' = served /\ Changes' = Changes
    BY <1>1 DEF Waits, plan, Changes
  <2>2. \A b \in Attempts : By(b)' = By(b)
    BY <2>1 DEF By
  <2>3. \A b \in Attempts : (Tells(b) => Tells(b)') /\ (Finds(b) => Finds(b)')
    BY <1>1, <2>1, <2>2, TellsStays, FindsStays DEF Waits
  <2> QED
    BY <1>1, <2>1, <2>3 DEF Waits, ToldInv, Told
<1>2. ASSUME NEW a \in Attempts, Runs(a) \/ Answers(a) PROVE Told' /\ served' \in Served
  <2>1. rows' = rows /\ served' = served /\ Changes' = Changes /\ plan' = plan
    BY <1>2 DEF Runs, Answers, Alone, plan, Changes
  <2>2. \A b \in Attempts : By(b)' = By(b)
    BY <2>1 DEF By
  <2>3. \A b \in Attempts \ {a} : (Tells(b) => Tells(b)') /\ (Finds(b) => Finds(b)')
    BY <1>2, <2>1, <2>2, TellsStays, FindsStays DEF Runs, Answers, Alone
  <2>4. By(a) = {} /\ By(a)' = {}
    BY <1>0, <1>2, <2>2 DEF Runs, Answers, By, Over
  <2>5. pc'[a] = "done" => Tells(a)'
    BY <1>2, <2>1, <2>4 DEF Runs, Answers, Tells
  <2> QED
    BY <1>2, <2>1, <2>3, <2>5 DEF Runs, Answers, Alone, ToldInv, Told
<1>3. ASSUME NEW a \in Attempts, NEW o \in H!Outcomes, Comes(a, o)
      PROVE  Told' /\ served' \in Served
  <2>1. /\ rows' = rows /\ served' = served
        /\ UNCHANGED <<Changes, class, MaySweep>>
    BY <1>3 DEF Comes, Alone, plan, call, class, MaySweep, Changes
  <2>2. \A b \in Attempts : By(b)' = By(b)
    BY <2>1 DEF By
  <2>3. \A b \in Attempts \ {a} : (Tells(b) => Tells(b)') /\ (Finds(b) => Finds(b)')
    BY <1>3, <2>1, <2>2, TellsStays, FindsStays DEF Comes, Alone
  <2>4. Finds(a)'
    BY <1>3, <2>1 DEF Comes, Finds
  <2> QED
    BY <1>3, <2>1, <2>3, <2>4 DEF Comes, Alone, ToldInv, Told
<1>4. ASSUME NEW a \in Attempts, Commits(a) PROVE Told' /\ served' \in Served
  <2>1. served' = served /\ UNCHANGED <<plan, Changes, class, MaySweep>>
    BY <1>4 DEF Commits, Alone, plan, call, class, MaySweep, Changes
  <2>2. rows' = rows \/ rows' = rows \cup {<<a, tries[a]>>}
    BY <1>4 DEF Commits, Effect
  <2>3. \A b \in Attempts \ {a} : By(b)' = By(b)
    BY <2>2 DEF By
  <2>4. \A b \in Attempts \ {a} : (Tells(b) => Tells(b)') /\ (Finds(b) => Finds(b)')
    BY <1>4, <2>1, <2>2, <2>3, TellsStays, FindsStays DEF Commits, Alone
  <2>5. By(a) = {} /\ Changes /\ Finds(a) /\ err[a] = ""
    BY <1>0, <1>4 DEF Commits, By, Over, Placed, InTx, ToldInv, Told
  <2>6. ASSUME Effect(a), err'[a] = err[a], answer'[a] = plan.answers[found[a]]
        PROVE  Tells(a)'
    <3>1. found[a] = "FRESH" => By(a)' # {}
      <4>1. found[a] = "FRESH" => <<a, tries[a]>> \in rows'
        BY <2>6 DEF Effect
      <4> QED
        BY <4>1 DEF By
    <3>2. found[a] # "FRESH" => rows' = rows /\ By(a)' = {}
      BY <2>5, <2>6 DEF Effect, By
    <3>3. PICK o \in H!Outcomes : o = found[a]
      BY <2>5 DEF Finds
    <3>4. Holds(a, o)'
      <4>1. /\ o = "FRESH" => By(a)' # {}
            /\ o = "REPEAT" => By(a)' = {} /\ rows' # {} /\ class' \in {"KEYED", "REVERSAL", "STEP"}
            /\ o = "SWEEP" => By(a)' = {} /\ MaySweep'
        BY <2>1, <2>5, <3>1, <3>2, <3>3 DEF Finds
      <4> QED
        BY <4>1 DEF Holds
    <3>5. answer'[a] = plan'.answers[o] /\ err'[a] = "" /\ Changes'
      BY <2>1, <2>5, <2>6, <3>3
    <3> QED
      BY <3>4, <3>5 DEF Tells
  <2>7. ASSUME err'[a] \in Lost, answer'[a] = H!renderError(R!mapPgError(err'[a]))
        PROVE  Tells(a)'
    <3>1. plan'.kind # "refuse"
      BY <2>1, <2>5 DEF Changes
    <3> QED
      BY <2>7, <3>1 DEF Tells
  <2>8. Tells(a)'
    BY <1>4, <2>6, <2>7 DEF Commits
  <2> QED
    BY <1>4, <2>1, <2>4, <2>5, <2>8 DEF Commits, Alone, ToldInv, Told
<1> QED
  BY <1>0, <1>1, <1>2, <1>3, <1>4, StepKinds

-----------------------------------------------------------------------------
(* The requests of the server                                              *)

S == INSTANCE WalletServer

\* Any body, any page, any caller.
Requests == [fields : SUBSET STRING, malformed : BOOLEAN, limit : Int, dated : BOOLEAN, rows : Nat]
Callers == [token : {"none", "garbled", "expired", "valid"}, name : STRING, sub : STRING,
            roles : SUBSET STRING, channel : STRING, subject : STRING, via : STRING]

\* The rules the procedures refuse by.
Rules == {
  "INVALID_AMOUNT", "AMOUNT_OUT_OF_RANGE", "TRAN_TYPE_INACTIVE", "TIER_INSUFFICIENT",
  "ACCT_NOT_FOUND", "FROM_ACCT_NOT_FOUND", "ACCT_NOT_ACTIVE", "TO_ACCT_NOT_ACTIVE",
  "ACCT_ROLE_INVALID", "ACCT_CLOSE_NONZERO_BAL", "INVALID_ACCT_TYPE",
  "CR_RESTRAINT_ACTIVE", "DR_RESTRAINT_ACTIVE", "GROUP_RESTRAINED", "INSUFFICIENT_FUNDS",
  "GROUP_NOT_FOUND", "GROUP_NOT_ACTIVE", "GROUP_NOT_ACTIVATED", "SETTLEMENT_NOT_FOUND",
  "INVALID_GROUP_TYPE", "INVALID_SHARD_COUNT",
  "WD_NOT_FOUND", "WD_ALREADY_COMPLETED", "WD_ALREADY_REVERSED", "REVERSAL_WINDOW_EXPIRED",
  "TRAN_NOT_FOUND", "PII_DEK_NOT_SET",
  "RESTRAINT_NOT_FOUND", "COURT_ORDER_REMOVE_REQUIRES_DOC", "RESTRAINT_TYPE_INVALID",
  "RESTRAINT_AMT_EXCEEDS_BALANCE",
  "MJE_NOT_FOUND", "MJE_MAKER_CANNOT_CHECK", "MJE_UNBALANCED", "MJE_GL_INVALID",
  "CLIENT_NOT_FOUND", "INVALID_PHONE_FORMAT", "ORG_FIELDS_REQUIRED", "INVALID_CLIENT_TYPE",
  "KYC_NOT_FOUND", "BANK_LINK_NOT_FOUND", "MAX_WALLET_PER_CLIENT_EXCEEDED"}

\* What a plan that writes promises: refusals that are told by their names, every field taken
\* and the actor handed on, answers that show what was found and no personal data.
Writes(p) ==
  /\ p.call.proc.refusals \subseteq Rules
  /\ p.taken \cup {"actor"} \subseteq p.call.args
  /\ p.all = TRUE
  /\ \A o \in H!Outcomes : p.answers[o].data \cap RawPii = {}
  /\ p.answers["FRESH"].status \in {200, 201} /\ p.answers["REPEAT"].status \in {200, 201}
  /\ p.answers["SWEEP"].status \in {200, 201}
  /\ "PDNG" \notin p.answers["FRESH"].data /\ "PDNG" \notin p.answers["REPEAT"].data
  /\ p.call.proc = R!post_merchant_withdraw => "PDNG" \in p.answers["SWEEP"].data
  /\ p.call.proc.class = "KEYED" =>
       p.answers["FRESH"].status # 200 /\ p.answers["REPEAT"].status = 200
  /\ p.call.proc.class = "REVERSAL" =>
       /\ "was_already_reversed" \notin p.answers["FRESH"].data
       /\ "was_already_reversed" \in p.answers["REPEAT"].data
  /\ p.call.proc.class = "STEP" =>
       "event_uuid" \in p.answers["FRESH"].data /\ "event_uuid" \notin p.answers["REPEAT"].data

\* What a plan that reads promises: what is encrypted is read with the key.
Reads(p) == p.call.out \cap Encrypted # {} => p.call.keys

Refuses(p) == p.problem.code # "00000"

Acts(p) ==
  \/ p.kind = "refuse" /\ Refuses(p)
  \/ p.kind = "write" /\ Writes(p)
Promised(p) == Acts(p) \/ (p.kind = "read" /\ Reads(p))

\* No error is told as a success.
LEMMA ErrorsAreTold == \A e : H!renderError(e).code # "00000"
  BY DEF H!renderError, H!NewProblemFromError, H!IsClientSafeCode, H!ProblemDetails, H!codeMeta,
         H!MetaFor, H!FallbackErrorCode

LEMMA InvalidRefuses == Refuses(S!H!Refused(S!H!renderValidationError))
<1>1. S!H!renderValidationError.code # "00000"
  BY DEF S!H!renderValidationError, S!H!NewProblem, S!H!NewProblemFromError, S!H!NewError,
         S!H!IsClientSafeCode, S!H!ProblemDetails, S!H!codeMeta, S!H!MetaFor,
         S!H!FallbackErrorCode
<1> QED
  BY <1>1 DEF S!H!Refused, Refuses

-----------------------------------------------------------------------------
(* Routes that write                                                       *)

\* The plan of a call: all its fields arrive.
Calls(p, proc, out) ==
  /\ p.kind = "write" /\ p.all = TRUE
  /\ p.call.proc = proc /\ p.call.out = out
  /\ p.taken \cup {"actor"} \subseteq p.call.args

\* ... unless its body is refused.
CallsOr(p, proc, out) == p = S!H!Refused(S!H!renderValidationError) \/ Calls(p, proc, out)

\* Its answers show the fields of K that the call came back with, and may add those of X.
Shows(p, K, X) ==
  \A o \in H!Outcomes : LET r == S!H!Result(p.call, o) IN
    /\ r \cap K \subseteq p.answers[o].data
    /\ p.answers[o].data \subseteq (r \cap K) \cup X

\* The HTTP status of a success: one of two for a posting, one for any other call.
StatusTells(p) ==
  \A o \in H!Outcomes : p.answers[o].status = S!H!statusFor(S!H!Result(p.call, o))
StatusIs(p, status) == \A o \in H!Outcomes : p.answers[o].status = status

LEMMA ShownOnly ==
  ASSUME NEW p, NEW K, NEW X, Shows(p, K, X), (K \cup X) \cap (RawPii \cup {"PDNG"}) = {}
  PROVE  /\ \A o \in H!Outcomes : p.answers[o].data \cap RawPii = {}
         /\ "PDNG" \notin p.answers["FRESH"].data /\ "PDNG" \notin p.answers["REPEAT"].data
<1>1. \A o \in H!Outcomes : p.answers[o].data \subseteq K \cup X
  BY DEF Shows
<1>2. "FRESH" \in H!Outcomes /\ "REPEAT" \in H!Outcomes
  BY DEF H!Outcomes
<1> QED
  BY <1>1, <1>2

\* A procedure of a class, whose refusals are known, and not the one that may ask for a sweep.
Mild(proc, kind) ==
  /\ IF kind = "OTHER" THEN proc.class \notin {"KEYED", "REVERSAL", "STEP"} ELSE proc.class = kind
  /\ proc.refusals \subseteq Rules
  /\ "GROUP_RESTRAINED" \notin proc.refusals

LEMMA RefusedKind == \A problem : S!H!Refused(problem).kind = "refuse"
  BY DEF S!H!Refused

LEMMA CallOrRefusal ==
  ASSUME NEW p, NEW proc, NEW out, CallsOr(p, proc, out), Calls(p, proc, out) => Writes(p)
  PROVE  Acts(p)
<1>1. CASE p = S!H!Refused(S!H!renderValidationError)
  BY <1>1, RefusedKind, InvalidRefuses DEF Acts
<1>2. CASE Calls(p, proc, out)
  BY <1>2 DEF Calls, Acts
<1> QED
  BY <1>1, <1>2 DEF CallsOr

LEMMA OnlyOneSweeps ==
  \A proc : "GROUP_RESTRAINED" \notin proc.refusals => proc # R!post_merchant_withdraw
  BY DEF R!post_merchant_withdraw, R!Keyed, R!Proc

\* A posting is told by its status: 201, and 200 for a duplicate.
LEMMA KeyedPromise ==
  ASSUME NEW p, NEW proc, NEW out, NEW K, NEW X,
         CallsOr(p, proc, out), Mild(proc, "KEYED"),
         (K \cup X) \cap (RawPii \cup {"PDNG"}) = {}, "DUPLICATE" \notin out,
         p.kind # "refuse" => Shows(p, K, X) /\ StatusTells(p)
  PROVE  Acts(p)
<1> SUFFICES ASSUME Calls(p, proc, out) PROVE Writes(p)
  BY CallOrRefusal
<1>0. Shows(p, K, X) /\ StatusTells(p)
  BY DEF Calls
<1>1. p.call.proc.class = "KEYED" /\ p.call.proc.refusals \subseteq Rules
  BY DEF Calls, Mild
<1>2. p.call.out = out /\ {"FRESH", "REPEAT", "SWEEP"} \subseteq H!Outcomes
  BY DEF Calls, H!Outcomes
<1>3. p.answers["FRESH"].status = 201
  BY <1>0, <1>2 DEF S!H!Result, S!H!statusFor, StatusTells
<1>4. p.answers["REPEAT"].status = 200
  BY <1>0, <1>1, <1>2 DEF S!H!Result, S!H!statusFor, StatusTells
<1>5. p.answers["SWEEP"].status \in {200, 201}
  BY <1>0, <1>2 DEF S!H!statusFor, StatusTells
<1>6. p.call.proc # R!post_merchant_withdraw
  BY OnlyOneSweeps DEF Calls, Mild
<1> QED
  BY <1>0, <1>1, <1>3, <1>4, <1>5, <1>6, ShownOnly DEF Calls, Writes, StatusTells

\* A reversal says was_already_reversed if and only if it was.
LEMMA ReversalPromise ==
  ASSUME NEW p, NEW proc, NEW out, NEW K, NEW X,
         CallsOr(p, proc, out), Mild(proc, "REVERSAL"),
         (K \cup X) \cap (RawPii \cup {"PDNG"}) = {},
         "was_already_reversed" \in out \cap K, "was_already_reversed" \notin X,
         p.kind # "refuse" => Shows(p, K, X) /\ StatusIs(p, 200)
  PROVE  Acts(p)
<1> SUFFICES ASSUME Calls(p, proc, out) PROVE Writes(p)
  BY CallOrRefusal
<1>0. Shows(p, K, X) /\ StatusIs(p, 200)
  BY DEF Calls
<1>1. p.call.proc.class = "REVERSAL" /\ p.call.proc.refusals \subseteq Rules
  BY DEF Calls, Mild
<1>2. p.call.out = out /\ {"FRESH", "REPEAT", "SWEEP"} \subseteq H!Outcomes
  BY DEF Calls, H!Outcomes
<1>3. "was_already_reversed" \notin p.answers["FRESH"].data
  BY <1>0, <1>2 DEF S!H!Result, Shows
<1>4. "was_already_reversed" \in p.answers["REPEAT"].data
  <2>1. S!H!Result(p.call, "REPEAT") = out
    BY <1>0, <1>1, <1>2 DEF S!H!Result
  <2> QED
    BY <1>0, <1>2, <2>1 DEF Shows
<1>5. p.call.proc # R!post_merchant_withdraw
  BY OnlyOneSweeps DEF Calls, Mild
<1> QED
  BY <1>0, <1>1, <1>2, <1>3, <1>4, <1>5, ShownOnly DEF Calls, Writes, StatusIs

\* A step of Treasury's says what happened: an event, or none.
LEMMA StepPromise ==
  ASSUME NEW p, NEW proc, NEW out, NEW K, NEW X,
         CallsOr(p, proc, out), Mild(proc, "STEP"),
         (K \cup X) \cap (RawPii \cup {"PDNG"}) = {},
         "event_uuid" \in out \cap K, "event_uuid" \notin X,
         p.kind # "refuse" => Shows(p, K, X) /\ StatusIs(p, 200)
  PROVE  Acts(p)
<1> SUFFICES ASSUME Calls(p, proc, out) PROVE Writes(p)
  BY CallOrRefusal
<1>0. Shows(p, K, X) /\ StatusIs(p, 200)
  BY DEF Calls
<1>1. p.call.proc.class = "STEP" /\ p.call.proc.refusals \subseteq Rules
  BY DEF Calls, Mild
<1>2. p.call.out = out /\ {"FRESH", "REPEAT", "SWEEP"} \subseteq H!Outcomes
  BY DEF Calls, H!Outcomes
<1>3. "event_uuid" \in p.answers["FRESH"].data
  BY <1>0, <1>2 DEF S!H!Result, Shows
<1>4. "event_uuid" \notin p.answers["REPEAT"].data
  BY <1>0, <1>1, <1>2 DEF S!H!Result, Shows
<1>5. p.call.proc # R!post_merchant_withdraw
  BY OnlyOneSweeps DEF Calls, Mild
<1> QED
  BY <1>0, <1>1, <1>2, <1>3, <1>4, <1>5, ShownOnly DEF Calls, Writes, StatusIs

\* The other calls have nothing to tell a repeat by.
LEMMA OtherPromise ==
  ASSUME NEW p, NEW proc, NEW out, NEW K, NEW X, NEW status,
         CallsOr(p, proc, out), Mild(proc, "OTHER"),
         (K \cup X) \cap (RawPii \cup {"PDNG"}) = {},
         status = 200 \/ status = 201, p.kind # "refuse" => Shows(p, K, X) /\ StatusIs(p, status)
  PROVE  Acts(p)
<1> SUFFICES ASSUME Calls(p, proc, out) PROVE Writes(p)
  BY CallOrRefusal
<1>0. Shows(p, K, X) /\ StatusIs(p, status)
  BY DEF Calls
<1>1. p.call.proc.class \notin {"KEYED", "REVERSAL", "STEP"} /\ p.call.proc.refusals \subseteq Rules
  BY DEF Calls, Mild
<1>2. {"FRESH", "REPEAT", "SWEEP"} \subseteq H!Outcomes
  BY DEF H!Outcomes
<1>3. p.call.proc # R!post_merchant_withdraw
  BY OnlyOneSweeps DEF Calls, Mild
<1> QED
  BY <1>0, <1>1, <1>2, <1>3, ShownOnly DEF Calls, Writes, StatusIs

\* What a mark of Treasury's shows.
LEMMA MarkShows ==
  \A r : /\ r \cap S!H!MarkResponse \subseteq S!H!MarkRespFrom(r)
        /\ S!H!MarkRespFrom(r) \subseteq (r \cap S!H!MarkResponse) \cup {"ACTC", "ACSP", "ACSC"}
<1>1. \A s \in DOMAIN S!H!TxStatusForMark : S!H!TxStatusForMark[s] \in {"ACTC", "ACSP", "ACSC"}
  BY DEF S!H!TxStatusForMark
<1> QED
  BY <1>1 DEF S!H!MarkRespFrom

\* The procedures, class by class.
LEMMA Procedures ==
  /\ Mild(S!H!U!R!post_topup, "KEYED")
  /\ Mild(S!H!U!R!post_transfer, "KEYED")
  /\ Mild(S!H!U!R!post_withdraw, "KEYED")
  /\ Mild(S!H!U!R!post_fee_charge, "KEYED")
  /\ Mild(S!H!U!R!post_merchant_deposit, "KEYED")
  /\ Mild(S!H!U!R!post_withdraw_reversal, "REVERSAL")
  /\ Mild(S!H!U!R!post_transfer_reversal, "REVERSAL")
  /\ Mild(S!H!U!R!post_topup_reversal, "REVERSAL")
  /\ Mild(S!H!U!R!post_fee_charge_reversal, "REVERSAL")
  /\ Mild(S!H!U!R!post_merchant_withdraw_reversal, "REVERSAL")
  /\ Mild(S!H!U!R!mark_withdraw_acked, "STEP")
  /\ Mild(S!H!U!R!mark_withdraw_disbursing, "STEP")
  /\ Mild(S!H!U!R!mark_withdraw_completed, "STEP")
  /\ Mild(S!H!U!R!activate_hot_wallet, "OTHER")
  /\ Mild(S!H!U!R!rescale_hot_wallet, "OTHER")
  /\ Mild(S!H!U!R!release_restraint, "OTHER")
  /\ Mild(S!H!U!R!approve_manual_je, "OTHER")
  /\ Mild(S!H!U!R!reject_manual_je, "OTHER")
  /\ Mild(S!H!U!R!provision_acct_group, "OTHER")
  /\ Mild(S!H!U!R!create_manual_je, "OTHER")
  /\ Mild(S!H!U!R!onboard_client, "OTHER")
  /\ Mild(S!H!U!R!update_client, "OTHER")
  /\ Mild(S!H!U!R!update_kyc, "OTHER")
  /\ Mild(S!H!U!R!update_account_status, "OTHER")
  /\ Mild(S!H!U!R!set_default_client_bank, "OTHER")
  /\ Mild(S!H!U!R!attach_client_document, "OTHER")
  /\ Mild(S!H!U!R!add_restraint, "OTHER")
  /\ Mild(S!H!U!R!open_account, "OTHER")
  /\ Mild(S!H!U!R!link_client_bank, "OTHER")
<1>1. /\ Mild(S!H!U!R!post_topup, "KEYED")
      /\ Mild(S!H!U!R!post_transfer, "KEYED")
      /\ Mild(S!H!U!R!post_withdraw, "KEYED")
      /\ Mild(S!H!U!R!post_fee_charge, "KEYED")
      /\ Mild(S!H!U!R!post_merchant_deposit, "KEYED")
  BY DEF S!H!U!R!post_topup, S!H!U!R!post_transfer, S!H!U!R!post_withdraw,
      S!H!U!R!post_fee_charge, S!H!U!R!post_merchant_deposit, S!H!U!R!Keyed, S!H!U!R!Proc, Mild,
      Rules
<1>2. /\ Mild(S!H!U!R!post_withdraw_reversal, "REVERSAL")
      /\ Mild(S!H!U!R!post_transfer_reversal, "REVERSAL")
      /\ Mild(S!H!U!R!post_topup_reversal, "REVERSAL")
      /\ Mild(S!H!U!R!post_fee_charge_reversal, "REVERSAL")
      /\ Mild(S!H!U!R!post_merchant_withdraw_reversal, "REVERSAL")
  BY DEF S!H!U!R!post_withdraw_reversal, S!H!U!R!post_transfer_reversal,
      S!H!U!R!post_topup_reversal, S!H!U!R!post_fee_charge_reversal,
      S!H!U!R!post_merchant_withdraw_reversal, S!H!U!R!Reversal, S!H!U!R!Proc, Mild, Rules
<1>3. /\ Mild(S!H!U!R!mark_withdraw_acked, "STEP")
      /\ Mild(S!H!U!R!mark_withdraw_disbursing, "STEP")
      /\ Mild(S!H!U!R!mark_withdraw_completed, "STEP")
  BY DEF S!H!U!R!mark_withdraw_acked, S!H!U!R!mark_withdraw_disbursing,
      S!H!U!R!mark_withdraw_completed, S!H!U!R!Proc, Mild, Rules
<1>4. /\ Mild(S!H!U!R!activate_hot_wallet, "OTHER")
      /\ Mild(S!H!U!R!rescale_hot_wallet, "OTHER")
      /\ Mild(S!H!U!R!release_restraint, "OTHER")
      /\ Mild(S!H!U!R!approve_manual_je, "OTHER")
      /\ Mild(S!H!U!R!reject_manual_je, "OTHER")
  BY DEF S!H!U!R!activate_hot_wallet, S!H!U!R!rescale_hot_wallet, S!H!U!R!release_restraint,
      S!H!U!R!approve_manual_je, S!H!U!R!reject_manual_je, S!H!U!R!Proc, Mild, Rules
<1>5. /\ Mild(S!H!U!R!provision_acct_group, "OTHER")
      /\ Mild(S!H!U!R!create_manual_je, "OTHER")
      /\ Mild(S!H!U!R!onboard_client, "OTHER")
  BY DEF S!H!U!R!provision_acct_group, S!H!U!R!create_manual_je, S!H!U!R!onboard_client,
      S!H!U!R!Proc, Mild, Rules
<1>6. /\ Mild(S!H!U!R!update_client, "OTHER")
      /\ Mild(S!H!U!R!update_kyc, "OTHER")
      /\ Mild(S!H!U!R!update_account_status, "OTHER")
      /\ Mild(S!H!U!R!set_default_client_bank, "OTHER")
      /\ Mild(S!H!U!R!attach_client_document, "OTHER")
  BY DEF S!H!U!R!update_client, S!H!U!R!update_kyc, S!H!U!R!update_account_status,
      S!H!U!R!set_default_client_bank, S!H!U!R!attach_client_document, S!H!U!R!Proc, Mild, Rules
<1>7. /\ Mild(S!H!U!R!add_restraint, "OTHER")
      /\ Mild(S!H!U!R!open_account, "OTHER")
      /\ Mild(S!H!U!R!link_client_bank, "OTHER")
  BY DEF S!H!U!R!add_restraint, S!H!U!R!open_account, S!H!U!R!link_client_bank, S!H!U!R!Proc,
      Mild, Rules
<1> QED
  BY <1>1, <1>2, <1>3, <1>4, <1>5, <1>6, <1>7

\* Topups, transfers, withdrawals, fees and deposits.
LEMMA PostingPlans ==
  ASSUME NEW req \in Requests
  PROVE  /\ Acts(S!H!Topup(req))
         /\ Acts(S!H!Transfer(req))
         /\ Acts(S!H!Withdraw(req))
         /\ Acts(S!H!FeeCharge(req))
         /\ Acts(S!H!MerchantDeposit(req))
<1>1. Acts(S!H!Topup(req))
  <2> DEFINE p == S!H!Topup(req)
  <2>1. CallsOr(p, S!H!U!R!post_topup, S!H!U!R!TopupResult)
    BY DEF S!H!Topup, S!H!Handle, S!H!U!Topup, S!H!U!R!Topup, S!H!U!R!WriteTx, S!H!Refused,
         S!H!TopupRequest, S!H!Body, S!H!TopupInput, S!H!U!R!Posting, Requests, Calls, CallsOr
  <2>2. p.kind # "refuse" => Shows(p, S!H!TopupResponse, {"ACSC"}) /\ StatusTells(p)
    BY DEF S!H!Topup, S!H!Handle, S!H!U!Topup, S!H!U!R!Topup, S!H!U!R!WriteTx, S!H!Refused,
         S!H!Outcomes, H!Outcomes, S!H!writeOK, S!H!Ok, S!H!SuccessEnvelope, S!H!TopupRespFrom,
         Shows, StatusTells
  <2>3. /\ (S!H!TopupResponse \cup {"ACSC"}) \cap (RawPii \cup {"PDNG"}) = {}
        /\ "DUPLICATE" \notin S!H!U!R!TopupResult
    BY DEF S!H!TopupResponse, S!H!TopupResult, S!H!U!R!TopupResult, RawPii, HolderName
  <2> HIDE DEF p
  <2>4. Acts(p)
    BY <2>1, <2>2, <2>3, KeyedPromise, Procedures
  <2> QED
    BY <2>4 DEF p
<1>2. Acts(S!H!Transfer(req))
  <2> DEFINE p == S!H!Transfer(req)
  <2>1. CallsOr(p, S!H!U!R!post_transfer, S!H!U!R!TransferResult)
    BY DEF S!H!Transfer, S!H!Handle, S!H!U!Transfer, S!H!U!R!Transfer, S!H!U!R!WriteTx,
         S!H!Refused, S!H!TransferRequest, S!H!Body, S!H!TransferInput, S!H!U!R!Posting, Requests,
         Calls, CallsOr
  <2>2. p.kind # "refuse" => Shows(p, S!H!TransferResponse, {"ACSC"}) /\ StatusTells(p)
    BY ZenonT(30) DEF S!H!Transfer, S!H!Handle, S!H!U!Transfer, S!H!U!R!Transfer, S!H!U!R!WriteTx,
         S!H!Refused, S!H!Outcomes, H!Outcomes, S!H!writeOK, S!H!Ok, S!H!SuccessEnvelope,
         S!H!TransferRespFrom, Shows, StatusTells
  <2>3. /\ (S!H!TransferResponse \cup {"ACSC"}) \cap (RawPii \cup {"PDNG"}) = {}
        /\ "DUPLICATE" \notin S!H!U!R!TransferResult
    BY DEF S!H!TransferResponse, S!H!TransferResult, S!H!U!R!TransferResult, RawPii, HolderName
  <2> HIDE DEF p
  <2>4. Acts(p)
    BY <2>1, <2>2, <2>3, KeyedPromise, Procedures
  <2> QED
    BY <2>4 DEF p
<1>3. Acts(S!H!Withdraw(req))
  <2> DEFINE p == S!H!Withdraw(req)
  <2>1. CallsOr(p, S!H!U!R!post_withdraw, S!H!U!R!WithdrawResult)
    BY DEF S!H!Withdraw, S!H!Handle, S!H!U!Withdraw, S!H!U!R!Withdraw, S!H!U!R!WriteTx,
         S!H!Refused, S!H!WithdrawRequest, S!H!Body, S!H!WithdrawInput, S!H!U!R!Posting, Requests,
         Calls, CallsOr
  <2>2. p.kind # "refuse" => Shows(p, S!H!WithdrawResponse, {"ACTC"}) /\ StatusTells(p)
    BY DEF S!H!Withdraw, S!H!Handle, S!H!U!Withdraw, S!H!U!R!Withdraw, S!H!U!R!WriteTx,
         S!H!Refused, S!H!Outcomes, H!Outcomes, S!H!writeOK, S!H!Ok, S!H!SuccessEnvelope,
         S!H!WithdrawRespFrom, Shows, StatusTells
  <2>3. /\ (S!H!WithdrawResponse \cup {"ACTC"}) \cap (RawPii \cup {"PDNG"}) = {}
        /\ "DUPLICATE" \notin S!H!U!R!WithdrawResult
    BY DEF S!H!WithdrawResponse, S!H!WithdrawResult, S!H!U!R!WithdrawResult, RawPii, HolderName
  <2> HIDE DEF p
  <2>4. Acts(p)
    BY <2>1, <2>2, <2>3, KeyedPromise, Procedures
  <2> QED
    BY <2>4 DEF p
<1>4. Acts(S!H!FeeCharge(req))
  <2> DEFINE p == S!H!FeeCharge(req)
  <2>1. CallsOr(p, S!H!U!R!post_fee_charge, S!H!U!R!FeeChargeResult)
    BY DEF S!H!FeeCharge, S!H!Handle, S!H!U!PostFeeCharge, S!H!U!R!PostFeeCharge, S!H!U!R!WriteTx,
         S!H!Refused, S!H!FeeChargeRequest, S!H!Body, S!H!FeeChargeInput, S!H!U!R!Posting,
         Requests, Calls, CallsOr
  <2>2. p.kind # "refuse" => Shows(p, S!H!FeeChargeResponse, {}) /\ StatusTells(p)
    BY DEF S!H!FeeCharge, S!H!Handle, S!H!U!PostFeeCharge, S!H!U!R!PostFeeCharge, S!H!U!R!WriteTx,
         S!H!Refused, S!H!Outcomes, H!Outcomes, S!H!writeOK, S!H!Ok, S!H!SuccessEnvelope,
         S!H!FeeChargeRespFrom, Shows, StatusTells
  <2>3. /\ (S!H!FeeChargeResponse \cup {}) \cap (RawPii \cup {"PDNG"}) = {}
        /\ "DUPLICATE" \notin S!H!U!R!FeeChargeResult
    BY DEF S!H!FeeChargeResponse, S!H!FeeChargeResult, S!H!U!R!FeeChargeResult, RawPii, HolderName
  <2> HIDE DEF p
  <2>4. Acts(p)
    BY <2>1, <2>2, <2>3, KeyedPromise, Procedures
  <2> QED
    BY <2>4 DEF p
<1>5. Acts(S!H!MerchantDeposit(req))
  <2> DEFINE p == S!H!MerchantDeposit(req)
  <2>1. CallsOr(p, S!H!U!R!post_merchant_deposit, S!H!U!R!MerchantDepositResult)
    BY DEF S!H!MerchantDeposit, S!H!Handle, S!H!U!MerchantDeposit, S!H!U!R!MerchantDeposit,
         S!H!U!R!WriteTx, S!H!Refused, S!H!MerchantDepositRequest, S!H!Body,
         S!H!MerchantDepositInput, S!H!U!R!Posting, Requests, Calls, CallsOr
  <2>2. p.kind # "refuse" => Shows(p, S!H!MerchantDepositResponse, {}) /\ StatusTells(p)
    BY DEF S!H!MerchantDeposit, S!H!Handle, S!H!U!MerchantDeposit, S!H!U!R!MerchantDeposit,
         S!H!U!R!WriteTx, S!H!Refused, S!H!Outcomes, H!Outcomes, S!H!writeOK, S!H!Ok,
         S!H!SuccessEnvelope, S!H!MerchantDepositRespFrom, Shows, StatusTells
  <2>3. /\ (S!H!MerchantDepositResponse \cup {}) \cap (RawPii \cup {"PDNG"}) = {}
        /\ "DUPLICATE" \notin S!H!U!R!MerchantDepositResult
    BY DEF S!H!MerchantDepositResponse, S!H!MerchantDepositResult, S!H!U!R!MerchantDepositResult,
         RawPii, HolderName
  <2> HIDE DEF p
  <2>4. Acts(p)
    BY <2>1, <2>2, <2>3, KeyedPromise, Procedures
  <2> QED
    BY <2>4 DEF p
<1> QED
  BY <1>1, <1>2, <1>3, <1>4, <1>5

\* Reversals.
LEMMA ReversalPlans ==
  ASSUME NEW req \in Requests
  PROVE  /\ Acts(S!H!Reverse(req))
         /\ Acts(S!H!ReverseFeeCharge(req))
         /\ Acts(S!H!ReverseTransfer(req))
         /\ Acts(S!H!ReverseTopup(req))
         /\ Acts(S!H!ReverseMerchantWithdraw(req))
<1>1. Acts(S!H!Reverse(req))
  <2> DEFINE p == S!H!Reverse(req)
  <2>1. CallsOr(p, S!H!U!R!post_withdraw_reversal, S!H!U!R!ReversalResult)
    BY DEF S!H!Reverse, S!H!Handle, S!H!U!Reverse, S!H!U!R!Reverse, S!H!U!R!WriteTx, S!H!Refused,
         S!H!ReversalRequest, S!H!Body, S!H!ReversalInput, S!H!U!R!Posting, Requests, Calls,
         CallsOr
  <2>2. p.kind # "refuse" => Shows(p, S!H!ReversalResponse, {}) /\ StatusIs(p, 200)
    BY DEF S!H!Reverse, S!H!Handle, S!H!U!Reverse, S!H!U!R!Reverse, S!H!U!R!WriteTx, S!H!Refused,
         S!H!Fetched, S!H!Outcomes, H!Outcomes, S!H!writeOK, S!H!Ok, S!H!SuccessEnvelope,
         S!H!ReversalRespFrom, Shows, StatusIs
  <2>3. /\ (S!H!ReversalResponse \cup {}) \cap (RawPii \cup {"PDNG"}) = {}
        /\ "was_already_reversed" \in S!H!U!R!ReversalResult \cap S!H!ReversalResponse
        /\ "was_already_reversed" \notin {}
    BY DEF S!H!ReversalResponse, S!H!ReversalResult, S!H!U!R!ReversalResult, RawPii, HolderName
  <2> HIDE DEF p
  <2>4. Acts(p)
    BY <2>1, <2>2, <2>3, ReversalPromise, Procedures
  <2> QED
    BY <2>4 DEF p
<1>2. Acts(S!H!ReverseFeeCharge(req))
  <2> DEFINE p == S!H!ReverseFeeCharge(req)
  <2>1. CallsOr(p, S!H!U!R!post_fee_charge_reversal, S!H!U!R!FeeChargeReversalResult)
    BY DEF S!H!ReverseFeeCharge, S!H!Handle, S!H!U!ReverseFeeCharge, S!H!U!R!ReverseFeeCharge,
         S!H!U!R!WriteTx, S!H!Refused, S!H!FeeChargeReversalRequest, S!H!Body,
         S!H!FeeChargeReversalInput, S!H!U!R!Posting, Requests, Calls, CallsOr
  <2>2. p.kind # "refuse" => Shows(p, S!H!FeeChargeReversalResponse, {}) /\ StatusIs(p, 200)
    BY DEF S!H!ReverseFeeCharge, S!H!Handle, S!H!U!ReverseFeeCharge, S!H!U!R!ReverseFeeCharge,
         S!H!U!R!WriteTx, S!H!Refused, S!H!Fetched, S!H!Outcomes, H!Outcomes, S!H!writeOK, S!H!Ok,
         S!H!SuccessEnvelope, S!H!FeeChargeReversalRespFrom, Shows, StatusIs
  <2>3. /\ (S!H!FeeChargeReversalResponse \cup {}) \cap (RawPii \cup {"PDNG"}) = {}
        /\ "was_already_reversed" \in S!H!U!R!FeeChargeReversalResult
              \cap S!H!FeeChargeReversalResponse
        /\ "was_already_reversed" \notin {}
    BY DEF S!H!FeeChargeReversalResponse, S!H!FeeChargeReversalResult,
         S!H!U!R!FeeChargeReversalResult, RawPii, HolderName
  <2> HIDE DEF p
  <2>4. Acts(p)
    BY <2>1, <2>2, <2>3, ReversalPromise, Procedures
  <2> QED
    BY <2>4 DEF p
<1>3. Acts(S!H!ReverseTransfer(req))
  <2> DEFINE p == S!H!ReverseTransfer(req)
  <2>1. CallsOr(p, S!H!U!R!post_transfer_reversal, S!H!U!R!TransferReversalResult)
    BY DEF S!H!ReverseTransfer, S!H!Handle, S!H!U!ReverseTransfer, S!H!U!R!ReverseTransfer,
         S!H!U!R!WriteTx, S!H!Refused, S!H!TransferReversalRequest, S!H!Body,
         S!H!TransferReversalInput, S!H!U!R!Posting, Requests, Calls, CallsOr
  <2>2. p.kind # "refuse" => Shows(p, S!H!TransferReversalResponse, {}) /\ StatusIs(p, 200)
    BY DEF S!H!ReverseTransfer, S!H!Handle, S!H!U!ReverseTransfer, S!H!U!R!ReverseTransfer,
         S!H!U!R!WriteTx, S!H!Refused, S!H!Fetched, S!H!Outcomes, H!Outcomes, S!H!writeOK, S!H!Ok,
         S!H!SuccessEnvelope, S!H!TransferReversalRespFrom, Shows, StatusIs
  <2>3. /\ (S!H!TransferReversalResponse \cup {}) \cap (RawPii \cup {"PDNG"}) = {}
        /\ "was_already_reversed" \in S!H!U!R!TransferReversalResult
              \cap S!H!TransferReversalResponse
        /\ "was_already_reversed" \notin {}
    BY DEF S!H!TransferReversalResponse, S!H!TransferReversalResult,
         S!H!U!R!TransferReversalResult, RawPii, HolderName
  <2> HIDE DEF p
  <2>4. Acts(p)
    BY <2>1, <2>2, <2>3, ReversalPromise, Procedures
  <2> QED
    BY <2>4 DEF p
<1>4. Acts(S!H!ReverseTopup(req))
  <2> DEFINE p == S!H!ReverseTopup(req)
  <2>1. CallsOr(p, S!H!U!R!post_topup_reversal, S!H!U!R!TopupReversalResult)
    BY DEF S!H!ReverseTopup, S!H!Handle, S!H!U!ReverseTopup, S!H!U!R!ReverseTopup,
         S!H!U!R!WriteTx, S!H!Refused, S!H!TopupReversalRequest, S!H!Body, S!H!TopupReversalInput,
         S!H!U!R!Posting, Requests, Calls, CallsOr
  <2>2. p.kind # "refuse" => Shows(p, S!H!TopupReversalResponse, {}) /\ StatusIs(p, 200)
    BY DEF S!H!ReverseTopup, S!H!Handle, S!H!U!ReverseTopup, S!H!U!R!ReverseTopup,
         S!H!U!R!WriteTx, S!H!Refused, S!H!Fetched, S!H!Outcomes, H!Outcomes, S!H!writeOK, S!H!Ok,
         S!H!SuccessEnvelope, S!H!TopupReversalRespFrom, Shows, StatusIs
  <2>3. /\ (S!H!TopupReversalResponse \cup {}) \cap (RawPii \cup {"PDNG"}) = {}
        /\ "was_already_reversed" \in S!H!U!R!TopupReversalResult \cap S!H!TopupReversalResponse
        /\ "was_already_reversed" \notin {}
    BY DEF S!H!TopupReversalResponse, S!H!TopupReversalResult, S!H!U!R!TopupReversalResult, RawPii, HolderName
  <2> HIDE DEF p
  <2>4. Acts(p)
    BY <2>1, <2>2, <2>3, ReversalPromise, Procedures
  <2> QED
    BY <2>4 DEF p
<1>5. Acts(S!H!ReverseMerchantWithdraw(req))
  <2> DEFINE p == S!H!ReverseMerchantWithdraw(req)
  <2>1. CallsOr(p, S!H!U!R!post_merchant_withdraw_reversal,
                S!H!U!R!MerchantWithdrawReversalResult)
    BY DEF S!H!ReverseMerchantWithdraw, S!H!Handle, S!H!U!ReverseMerchantWithdraw,
         S!H!U!R!ReverseMerchantWithdraw, S!H!U!R!WriteTx, S!H!Refused,
         S!H!MerchantWithdrawReversalRequest, S!H!Body, S!H!MerchantWithdrawReversalInput,
         S!H!U!R!Posting, Requests, Calls, CallsOr
  <2>2. p.kind # "refuse" => Shows(p, S!H!MerchantWithdrawReversalResponse, {}) /\ StatusIs(p, 200)
    BY DEF S!H!ReverseMerchantWithdraw, S!H!Handle, S!H!U!ReverseMerchantWithdraw,
         S!H!U!R!ReverseMerchantWithdraw, S!H!U!R!WriteTx, S!H!Refused, S!H!Fetched, S!H!Outcomes,
         H!Outcomes, S!H!writeOK, S!H!Ok, S!H!SuccessEnvelope,
         S!H!MerchantWithdrawReversalRespFrom, Shows, StatusIs
  <2>3. /\ (S!H!MerchantWithdrawReversalResponse \cup {}) \cap (RawPii \cup {"PDNG"}) = {}
        /\ "was_already_reversed" \in S!H!U!R!MerchantWithdrawReversalResult
              \cap S!H!MerchantWithdrawReversalResponse
        /\ "was_already_reversed" \notin {}
    BY DEF S!H!MerchantWithdrawReversalResponse, S!H!MerchantWithdrawReversalResult,
         S!H!U!R!MerchantWithdrawReversalResult, RawPii, HolderName
  <2> HIDE DEF p
  <2>4. Acts(p)
    BY <2>1, <2>2, <2>3, ReversalPromise, Procedures
  <2> QED
    BY <2>4 DEF p
<1> QED
  BY <1>1, <1>2, <1>3, <1>4, <1>5

\* The callbacks of Treasury.
LEMMA StepPlans ==
  ASSUME NEW req \in Requests
  PROVE  /\ Acts(S!H!MarkAcked(req))
         /\ Acts(S!H!MarkDisbursing(req))
         /\ Acts(S!H!MarkCompleted(req))
<1>1. Acts(S!H!MarkAcked(req))
  <2> DEFINE p == S!H!MarkAcked(req)
  <2>1. CallsOr(p, S!H!U!R!mark_withdraw_acked, S!H!U!R!MarkResult \cup {"ACKED"})
    BY DEF S!H!MarkAcked, S!H!Handle, S!H!U!MarkAcked, S!H!U!R!MarkAcked, S!H!U!R!WriteTx,
         S!H!Refused, S!H!U!markTransition, S!H!U!R!markGeneric, S!H!AckRequest, S!H!Body,
         S!H!AckInput, S!H!U!R!Posting, Requests, Calls, CallsOr
  <2>2. p.kind # "refuse" =>
           /\ Shows(p, S!H!MarkResponse, {"ACTC", "ACSP", "ACSC"})
           /\ StatusIs(p, 200)
    BY MarkShows DEF S!H!MarkAcked, S!H!Handle, S!H!U!MarkAcked, S!H!U!R!MarkAcked,
         S!H!U!R!WriteTx, S!H!Refused, S!H!U!markTransition, S!H!U!R!markGeneric, S!H!Fetched,
         S!H!Outcomes, H!Outcomes, S!H!writeOK, S!H!Ok, S!H!SuccessEnvelope, Shows, StatusIs
  <2>3. /\ (S!H!MarkResponse \cup {"ACTC", "ACSP", "ACSC"}) \cap (RawPii \cup {"PDNG"}) = {}
        /\ "event_uuid" \in (S!H!U!R!MarkResult \cup {"ACKED"}) \cap S!H!MarkResponse
        /\ "event_uuid" \notin {"ACTC", "ACSP", "ACSC"}
    BY DEF S!H!MarkResponse, S!H!MarkResult, S!H!U!R!MarkResult, RawPii, HolderName
  <2> HIDE DEF p
  <2>4. Acts(p)
    BY <2>1, <2>2, <2>3, StepPromise, Procedures
  <2> QED
    BY <2>4 DEF p
<1>2. Acts(S!H!MarkDisbursing(req))
  <2> DEFINE p == S!H!MarkDisbursing(req)
  <2>1. CallsOr(p, S!H!U!R!mark_withdraw_disbursing, S!H!U!R!MarkResult \cup {"DISBURSING"})
    BY DEF S!H!MarkDisbursing, S!H!Handle, S!H!U!MarkDisbursing, S!H!U!R!MarkDisbursing,
         S!H!U!R!WriteTx, S!H!Refused, S!H!U!markTransition, S!H!U!R!markGeneric, S!H!NoBody,
         S!H!Body, S!H!DisbursingInput, S!H!U!R!Posting, Requests, Calls, CallsOr
  <2>2. p.kind # "refuse" =>
           /\ Shows(p, S!H!MarkResponse, {"ACTC", "ACSP", "ACSC"})
           /\ StatusIs(p, 200)
    BY MarkShows DEF S!H!MarkDisbursing, S!H!Handle, S!H!U!MarkDisbursing, S!H!U!R!MarkDisbursing,
         S!H!U!R!WriteTx, S!H!Refused, S!H!U!markTransition, S!H!U!R!markGeneric, S!H!Fetched,
         S!H!Outcomes, H!Outcomes, S!H!writeOK, S!H!Ok, S!H!SuccessEnvelope, Shows, StatusIs
  <2>3. /\ (S!H!MarkResponse \cup {"ACTC", "ACSP", "ACSC"}) \cap (RawPii \cup {"PDNG"}) = {}
        /\ "event_uuid" \in (S!H!U!R!MarkResult \cup {"DISBURSING"}) \cap S!H!MarkResponse
        /\ "event_uuid" \notin {"ACTC", "ACSP", "ACSC"}
    BY DEF S!H!MarkResponse, S!H!MarkResult, S!H!U!R!MarkResult, RawPii, HolderName
  <2> HIDE DEF p
  <2>4. Acts(p)
    BY <2>1, <2>2, <2>3, StepPromise, Procedures
  <2> QED
    BY <2>4 DEF p
<1>3. Acts(S!H!MarkCompleted(req))
  <2> DEFINE p == S!H!MarkCompleted(req)
  <2>1. CallsOr(p, S!H!U!R!mark_withdraw_completed, S!H!U!R!MarkResult \cup {"COMPLETED"})
    BY DEF S!H!MarkCompleted, S!H!Handle, S!H!U!MarkCompleted, S!H!U!R!MarkCompleted,
         S!H!U!R!WriteTx, S!H!Refused, S!H!U!markTransition, S!H!U!R!markGeneric,
         S!H!CompletedRequest, S!H!Body, S!H!CompletedInput, S!H!U!R!Posting, Requests, Calls,
         CallsOr
  <2>2. p.kind # "refuse" =>
           /\ Shows(p, S!H!MarkResponse, {"ACTC", "ACSP", "ACSC"})
           /\ StatusIs(p, 200)
    BY MarkShows DEF S!H!MarkCompleted, S!H!Handle, S!H!U!MarkCompleted, S!H!U!R!MarkCompleted,
         S!H!U!R!WriteTx, S!H!Refused, S!H!U!markTransition, S!H!U!R!markGeneric, S!H!Fetched,
         S!H!Outcomes, H!Outcomes, S!H!writeOK, S!H!Ok, S!H!SuccessEnvelope, Shows, StatusIs
  <2>3. /\ (S!H!MarkResponse \cup {"ACTC", "ACSP", "ACSC"}) \cap (RawPii \cup {"PDNG"}) = {}
        /\ "event_uuid" \in (S!H!U!R!MarkResult \cup {"COMPLETED"}) \cap S!H!MarkResponse
        /\ "event_uuid" \notin {"ACTC", "ACSP", "ACSC"}
    BY DEF S!H!MarkResponse, S!H!MarkResult, S!H!U!R!MarkResult, RawPii, HolderName
  <2> HIDE DEF p
  <2>4. Acts(p)
    BY <2>1, <2>2, <2>3, StepPromise, Procedures
  <2> QED
    BY <2>4 DEF p
<1> QED
  BY <1>1, <1>2, <1>3

\* Groups, restraints, journal entries, clients and accounts.
LEMMA OtherPlans ==
  ASSUME NEW req \in Requests
  PROVE  /\ Acts(S!H!ActivateHotWallet(req))
         /\ Acts(S!H!RescaleHotWallet(req))
         /\ Acts(S!H!ReleaseRestraint(req))
         /\ Acts(S!H!ApproveManualJE(req))
         /\ Acts(S!H!RejectManualJE(req))
         /\ Acts(S!H!ProvisionAcctGroup(req))
         /\ Acts(S!H!CreateManualJE(req))
         /\ Acts(S!H!Onboard(req))
         /\ Acts(S!H!UpdateClient(req))
         /\ Acts(S!H!UpdateKYC(req))
         /\ Acts(S!H!UpdateAccountStatus(req))
         /\ Acts(S!H!SetDefaultClientBank(req))
         /\ Acts(S!H!AttachClientDocument(req))
         /\ Acts(S!H!AddRestraint(req))
         /\ Acts(S!H!LinkClientBank(req))
<1>1. Acts(S!H!ActivateHotWallet(req))
  <2> DEFINE p == S!H!ActivateHotWallet(req)
  <2>1. CallsOr(p, S!H!U!R!activate_hot_wallet, S!H!U!R!ActivateHotWalletResult)
    BY DEF S!H!ActivateHotWallet, S!H!Handle, S!H!U!ActivateHotWallet, S!H!U!R!ActivateHotWallet,
         S!H!U!R!WriteTx, S!H!Refused, S!H!ActivateHotWalletRequest, S!H!Body,
         S!H!ActivateHotWalletInput, S!H!U!R!Posting, Requests, Calls, CallsOr
  <2>2. p.kind # "refuse" => Shows(p, S!H!ActivateHotWalletResponse, {}) /\ StatusIs(p, 201)
    BY DEF S!H!ActivateHotWallet, S!H!Handle, S!H!U!ActivateHotWallet, S!H!U!R!ActivateHotWallet,
         S!H!U!R!WriteTx, S!H!Refused, S!H!Created, S!H!Outcomes, H!Outcomes, S!H!writeOK, S!H!Ok,
         S!H!SuccessEnvelope, S!H!ActivateHotWalletRespFrom, Shows, StatusIs
  <2>3. (S!H!ActivateHotWalletResponse \cup {}) \cap (RawPii \cup {"PDNG"}) = {}
    BY DEF S!H!ActivateHotWalletResponse, S!H!ActivateHotWalletResult,
         S!H!U!R!ActivateHotWalletResult, RawPii, HolderName
  <2> HIDE DEF p
  <2>4. Acts(p)
    BY <2>1, <2>2, <2>3, OtherPromise, Procedures
  <2> QED
    BY <2>4 DEF p
<1>2. Acts(S!H!RescaleHotWallet(req))
  <2> DEFINE p == S!H!RescaleHotWallet(req)
  <2>1. CallsOr(p, S!H!U!R!rescale_hot_wallet, S!H!U!R!RescaleHotWalletResult)
    BY DEF S!H!RescaleHotWallet, S!H!Handle, S!H!U!RescaleHotWallet, S!H!U!R!RescaleHotWallet,
         S!H!U!R!WriteTx, S!H!Refused, S!H!RescaleHotWalletRequest, S!H!Body,
         S!H!RescaleHotWalletInput, S!H!U!R!Posting, Requests, Calls, CallsOr
  <2>2. p.kind # "refuse" => Shows(p, S!H!RescaleHotWalletResponse, {}) /\ StatusIs(p, 200)
    BY DEF S!H!RescaleHotWallet, S!H!Handle, S!H!U!RescaleHotWallet, S!H!U!R!RescaleHotWallet,
         S!H!U!R!WriteTx, S!H!Refused, S!H!Fetched, S!H!Outcomes, H!Outcomes, S!H!writeOK, S!H!Ok,
         S!H!SuccessEnvelope, S!H!RescaleHotWalletRespFrom, Shows, StatusIs
  <2>3. (S!H!RescaleHotWalletResponse \cup {}) \cap (RawPii \cup {"PDNG"}) = {}
    BY DEF S!H!RescaleHotWalletResponse, S!H!RescaleHotWalletResult,
         S!H!U!R!RescaleHotWalletResult, RawPii, HolderName
  <2> HIDE DEF p
  <2>4. Acts(p)
    BY <2>1, <2>2, <2>3, OtherPromise, Procedures
  <2> QED
    BY <2>4 DEF p
<1>3. Acts(S!H!ReleaseRestraint(req))
  <2> DEFINE p == S!H!ReleaseRestraint(req)
  <2>1. CallsOr(p, S!H!U!R!release_restraint, S!H!U!R!RestraintResult \ {"pledged_amt"})
    BY DEF S!H!ReleaseRestraint, S!H!Handle, S!H!U!ReleaseRestraint, S!H!U!R!ReleaseRestraint,
         S!H!U!R!WriteTx, S!H!Refused, S!H!ReleaseRestraintRequest, S!H!Body,
         S!H!ReleaseRestraintInput, S!H!U!R!Posting, Requests, Calls, CallsOr
  <2>2. p.kind # "refuse" => Shows(p, S!H!RestraintResponse, {}) /\ StatusIs(p, 200)
    BY DEF S!H!ReleaseRestraint, S!H!Handle, S!H!U!ReleaseRestraint, S!H!U!R!ReleaseRestraint,
         S!H!U!R!WriteTx, S!H!Refused, S!H!Fetched, S!H!Outcomes, H!Outcomes, S!H!writeOK, S!H!Ok,
         S!H!SuccessEnvelope, S!H!RestraintRespFrom, Shows, StatusIs
  <2>3. (S!H!RestraintResponse \cup {}) \cap (RawPii \cup {"PDNG"}) = {}
    BY DEF S!H!RestraintResponse, S!H!RestraintResult, S!H!U!R!RestraintResult, RawPii, HolderName
  <2> HIDE DEF p
  <2>4. Acts(p)
    BY <2>1, <2>2, <2>3, OtherPromise, Procedures
  <2> QED
    BY <2>4 DEF p
<1>4. Acts(S!H!ApproveManualJE(req))
  <2> DEFINE p == S!H!ApproveManualJE(req)
  <2>1. CallsOr(p, S!H!U!R!approve_manual_je, S!H!U!R!ManualJEApproveResult)
    BY DEF S!H!ApproveManualJE, S!H!Handle, S!H!U!ApproveManualJE, S!H!U!R!ApproveManualJE,
         S!H!U!R!WriteTx, S!H!Refused, S!H!ManualJEDecisionRequest, S!H!Body,
         S!H!ManualJEDecisionInput, S!H!U!R!Posting, Requests, Calls, CallsOr
  <2>2. p.kind # "refuse" => Shows(p, S!H!ManualJEApproveResponse, {}) /\ StatusIs(p, 200)
    BY DEF S!H!ApproveManualJE, S!H!Handle, S!H!U!ApproveManualJE, S!H!U!R!ApproveManualJE,
         S!H!U!R!WriteTx, S!H!Refused, S!H!Fetched, S!H!Outcomes, H!Outcomes, S!H!writeOK, S!H!Ok,
         S!H!SuccessEnvelope, S!H!ManualJEApproveRespFrom, Shows, StatusIs
  <2>3. (S!H!ManualJEApproveResponse \cup {}) \cap (RawPii \cup {"PDNG"}) = {}
    BY DEF S!H!ManualJEApproveResponse, S!H!ManualJEApproveResult, S!H!U!R!ManualJEApproveResult,
         RawPii, HolderName
  <2> HIDE DEF p
  <2>4. Acts(p)
    BY <2>1, <2>2, <2>3, OtherPromise, Procedures
  <2> QED
    BY <2>4 DEF p
<1>5. Acts(S!H!RejectManualJE(req))
  <2> DEFINE p == S!H!RejectManualJE(req)
  <2>1. CallsOr(p, S!H!U!R!reject_manual_je, S!H!U!R!ManualJERejectResult)
    BY DEF S!H!RejectManualJE, S!H!Handle, S!H!U!RejectManualJE, S!H!U!R!RejectManualJE,
         S!H!U!R!WriteTx, S!H!Refused, S!H!ManualJEDecisionRequest, S!H!Body,
         S!H!ManualJEDecisionInput, S!H!U!R!Posting, Requests, Calls, CallsOr
  <2>2. p.kind # "refuse" => Shows(p, S!H!ManualJERejectResponse, {}) /\ StatusIs(p, 200)
    BY DEF S!H!RejectManualJE, S!H!Handle, S!H!U!RejectManualJE, S!H!U!R!RejectManualJE,
         S!H!U!R!WriteTx, S!H!Refused, S!H!Fetched, S!H!Outcomes, H!Outcomes, S!H!writeOK, S!H!Ok,
         S!H!SuccessEnvelope, S!H!ManualJERejectRespFrom, Shows, StatusIs
  <2>3. (S!H!ManualJERejectResponse \cup {}) \cap (RawPii \cup {"PDNG"}) = {}
    BY DEF S!H!ManualJERejectResponse, S!H!ManualJERejectResult, S!H!U!R!ManualJERejectResult,
         RawPii, HolderName
  <2> HIDE DEF p
  <2>4. Acts(p)
    BY <2>1, <2>2, <2>3, OtherPromise, Procedures
  <2> QED
    BY <2>4 DEF p
<1>6. Acts(S!H!ProvisionAcctGroup(req))
  <2> DEFINE p == S!H!ProvisionAcctGroup(req)
  <2>1. CallsOr(p, S!H!U!R!provision_acct_group, S!H!U!R!ProvisionGroupResult)
    BY DEF S!H!ProvisionAcctGroup, S!H!Handle, S!H!U!ProvisionAcctGroup,
         S!H!U!R!ProvisionAcctGroup, S!H!U!R!WriteTx, S!H!Refused, S!H!ProvisionGroupRequest,
         S!H!Body, S!H!ProvisionGroupInput, S!H!U!R!Posting, Requests, Calls, CallsOr
  <2>2. p.kind # "refuse" => Shows(p, S!H!ProvisionGroupResponse, {}) /\ StatusIs(p, 201)
    BY DEF S!H!ProvisionAcctGroup, S!H!Handle, S!H!U!ProvisionAcctGroup,
         S!H!U!R!ProvisionAcctGroup, S!H!U!R!WriteTx, S!H!Refused, S!H!Created, S!H!Outcomes,
         H!Outcomes, S!H!writeOK, S!H!Ok, S!H!SuccessEnvelope, S!H!ProvisionGroupRespFrom, Shows,
         StatusIs
  <2>3. (S!H!ProvisionGroupResponse \cup {}) \cap (RawPii \cup {"PDNG"}) = {}
    BY DEF S!H!ProvisionGroupResponse, S!H!ProvisionGroupResult, S!H!U!R!ProvisionGroupResult,
         RawPii, HolderName
  <2> HIDE DEF p
  <2>4. Acts(p)
    BY <2>1, <2>2, <2>3, OtherPromise, Procedures
  <2> QED
    BY <2>4 DEF p
<1>7. Acts(S!H!CreateManualJE(req))
  <2> DEFINE p == S!H!CreateManualJE(req)
  <2>1. CallsOr(p, S!H!U!R!create_manual_je, S!H!U!R!ManualJECreateResult)
    BY DEF S!H!CreateManualJE, S!H!Handle, S!H!U!CreateManualJE, S!H!U!R!CreateManualJE,
         S!H!U!R!WriteTx, S!H!Refused, S!H!ToInput, S!H!ManualJELineRequest, S!H!ManualJELine,
         S!H!U!R!ManualJELine, S!H!U!R!jeLineJSON, S!H!CreateManualJERequest, S!H!Body,
         S!H!ManualJEInput, S!H!U!R!Posting, Requests, Calls, CallsOr
  <2>2. p.kind # "refuse" => Shows(p, S!H!ManualJECreateResponse, {}) /\ StatusIs(p, 201)
    BY DEF S!H!CreateManualJE, S!H!Handle, S!H!U!CreateManualJE, S!H!U!R!CreateManualJE,
         S!H!U!R!WriteTx, S!H!Refused, S!H!Created, S!H!Outcomes, H!Outcomes, S!H!writeOK, S!H!Ok,
         S!H!SuccessEnvelope, S!H!ManualJECreateRespFrom, Shows, StatusIs
  <2>3. (S!H!ManualJECreateResponse \cup {}) \cap (RawPii \cup {"PDNG"}) = {}
    BY DEF S!H!ManualJECreateResponse, S!H!ManualJECreateResult, S!H!U!R!ManualJECreateResult,
         RawPii, HolderName
  <2> HIDE DEF p
  <2>4. Acts(p)
    BY <2>1, <2>2, <2>3, OtherPromise, Procedures
  <2> QED
    BY <2>4 DEF p
<1>8. Acts(S!H!Onboard(req))
  <2> DEFINE p == S!H!Onboard(req)
  <2>1. CallsOr(p, S!H!U!R!onboard_client, S!H!U!R!OnboardResult)
    BY ZenonT(60)
      DEF S!H!Onboard, S!H!Handle, S!H!U!OnboardClient, S!H!U!R!OnboardClient, S!H!U!R!WriteTx,
         S!H!Refused, S!H!OnboardRequest, S!H!Body, S!H!OnboardInput, S!H!U!R!Posting, Requests,
         Calls, CallsOr
  <2>2. p.kind # "refuse" => Shows(p, S!H!OnboardResponse, {}) /\ StatusIs(p, 201)
    BY DEF S!H!Onboard, S!H!Handle, S!H!U!OnboardClient, S!H!U!R!OnboardClient, S!H!U!R!WriteTx,
         S!H!Refused, S!H!Created, S!H!Outcomes, H!Outcomes, S!H!writeOK, S!H!Ok,
         S!H!SuccessEnvelope, S!H!OnboardRespFrom, Shows, StatusIs
  <2>3. (S!H!OnboardResponse \cup {}) \cap (RawPii \cup {"PDNG"}) = {}
    BY DEF S!H!OnboardResponse, S!H!OnboardResult, S!H!U!R!OnboardResult, RawPii, HolderName
  <2> HIDE DEF p
  <2>4. Acts(p)
    BY <2>1, <2>2, <2>3, OtherPromise, Procedures
  <2> QED
    BY <2>4 DEF p
<1>9. Acts(S!H!UpdateClient(req))
  <2> DEFINE p == S!H!UpdateClient(req)
  <2>1. CallsOr(p, S!H!U!R!update_client, S!H!U!R!ClientResult)
    BY DEF S!H!UpdateClient, S!H!Handle, S!H!U!UpdateClient, S!H!U!R!UpdateClient,
         S!H!U!R!WriteTx, S!H!Refused, S!H!UpdateClientRequest, S!H!Body, S!H!ClientUpdateInput,
         S!H!U!R!Posting, Requests, Calls, CallsOr
  <2>2. p.kind # "refuse" => Shows(p, S!H!ClientResponse, {}) /\ StatusIs(p, 200)
    BY DEF S!H!UpdateClient, S!H!Handle, S!H!U!UpdateClient, S!H!U!R!UpdateClient,
         S!H!U!R!WriteTx, S!H!Refused, S!H!Fetched, S!H!Outcomes, H!Outcomes, S!H!writeOK, S!H!Ok,
         S!H!SuccessEnvelope, S!H!ClientRespFrom, Shows, StatusIs
  <2>3. (S!H!ClientResponse \cup {}) \cap (RawPii \cup {"PDNG"}) = {}
    BY DEF S!H!ClientResponse, S!H!ClientResult, S!H!U!R!ClientResult, RawPii, HolderName
  <2> HIDE DEF p
  <2>4. Acts(p)
    BY <2>1, <2>2, <2>3, OtherPromise, Procedures
  <2> QED
    BY <2>4 DEF p
<1>10. Acts(S!H!UpdateKYC(req))
  <2> DEFINE p == S!H!UpdateKYC(req)
  <2>1. CallsOr(p, S!H!U!R!update_kyc, S!H!U!R!KycResult)
    BY DEF S!H!UpdateKYC, S!H!Handle, S!H!U!UpdateKYC, S!H!U!R!UpdateKYC, S!H!U!R!WriteTx,
         S!H!Refused, S!H!KycUpdateRequest, S!H!Body, S!H!KycUpdateInput, S!H!U!R!Posting,
         Requests, Calls, CallsOr
  <2>2. p.kind # "refuse" => Shows(p, S!H!KycResponse, {}) /\ StatusIs(p, 200)
    BY DEF S!H!UpdateKYC, S!H!Handle, S!H!U!UpdateKYC, S!H!U!R!UpdateKYC, S!H!U!R!WriteTx,
         S!H!Refused, S!H!Fetched, S!H!Outcomes, H!Outcomes, S!H!writeOK, S!H!Ok,
         S!H!SuccessEnvelope, S!H!KycRespFrom, Shows, StatusIs
  <2>3. (S!H!KycResponse \cup {}) \cap (RawPii \cup {"PDNG"}) = {}
    BY DEF S!H!KycResponse, S!H!KycResult, S!H!U!R!KycResult, RawPii, HolderName
  <2> HIDE DEF p
  <2>4. Acts(p)
    BY <2>1, <2>2, <2>3, OtherPromise, Procedures
  <2> QED
    BY <2>4 DEF p
<1>11. Acts(S!H!UpdateAccountStatus(req))
  <2> DEFINE p == S!H!UpdateAccountStatus(req)
  <2>1. CallsOr(p, S!H!U!R!update_account_status, S!H!U!R!AccountStatusResult)
    BY DEF S!H!UpdateAccountStatus, S!H!Handle, S!H!U!UpdateAccountStatus,
         S!H!U!R!UpdateAccountStatus, S!H!U!R!WriteTx, S!H!Refused,
         S!H!UpdateAccountStatusRequest, S!H!Body, S!H!AccountStatusInput, S!H!U!R!Posting,
         Requests, Calls, CallsOr
  <2>2. p.kind # "refuse" => Shows(p, S!H!AccountStatusResponse, {}) /\ StatusIs(p, 200)
    BY DEF S!H!UpdateAccountStatus, S!H!Handle, S!H!U!UpdateAccountStatus,
         S!H!U!R!UpdateAccountStatus, S!H!U!R!WriteTx, S!H!Refused, S!H!Fetched, S!H!Outcomes,
         H!Outcomes, S!H!writeOK, S!H!Ok, S!H!SuccessEnvelope, S!H!AccountStatusRespFrom, Shows,
         StatusIs
  <2>3. (S!H!AccountStatusResponse \cup {}) \cap (RawPii \cup {"PDNG"}) = {}
    BY DEF S!H!AccountStatusResponse, S!H!AccountStatusResult, S!H!U!R!AccountStatusResult, RawPii, HolderName
  <2> HIDE DEF p
  <2>4. Acts(p)
    BY <2>1, <2>2, <2>3, OtherPromise, Procedures
  <2> QED
    BY <2>4 DEF p
<1>12. Acts(S!H!SetDefaultClientBank(req))
  <2> DEFINE p == S!H!SetDefaultClientBank(req)
  <2>1. CallsOr(p, S!H!U!R!set_default_client_bank, S!H!U!R!BankLinkResult)
    BY DEF S!H!SetDefaultClientBank, S!H!Handle, S!H!U!SetDefaultClientBank,
         S!H!U!R!SetDefaultClientBank, S!H!U!R!WriteTx, S!H!Refused, S!H!NoBody, S!H!Body,
         S!H!SetDefaultBankInput, S!H!U!R!Posting, Requests, Calls, CallsOr
  <2>2. p.kind # "refuse" => Shows(p, S!H!BankLinkResponse, {}) /\ StatusIs(p, 200)
    BY DEF S!H!SetDefaultClientBank, S!H!Handle, S!H!U!SetDefaultClientBank,
         S!H!U!R!SetDefaultClientBank, S!H!U!R!WriteTx, S!H!Refused, S!H!Fetched, S!H!Outcomes,
         H!Outcomes, S!H!writeOK, S!H!Ok, S!H!SuccessEnvelope, S!H!BankLinkRespFrom, Shows,
         StatusIs
  <2>3. (S!H!BankLinkResponse \cup {}) \cap (RawPii \cup {"PDNG"}) = {}
    BY DEF S!H!BankLinkResponse, S!H!BankLinkResult, S!H!U!R!BankLinkResult, RawPii, HolderName
  <2> HIDE DEF p
  <2>4. Acts(p)
    BY <2>1, <2>2, <2>3, OtherPromise, Procedures
  <2> QED
    BY <2>4 DEF p
<1>13. Acts(S!H!AttachClientDocument(req))
  <2> DEFINE p == S!H!AttachClientDocument(req)
  <2>1. CallsOr(p, S!H!U!R!attach_client_document, S!H!U!R!AttachDocumentResult)
    BY DEF S!H!AttachClientDocument, S!H!Handle, S!H!U!AttachClientDocument,
         S!H!U!R!AttachClientDocument, S!H!U!R!WriteTx, S!H!Refused, S!H!AttachDocumentRequest,
         S!H!Body, S!H!AttachDocumentInput, S!H!U!R!Posting, Requests, Calls, CallsOr
  <2>2. p.kind # "refuse" =>
           /\ Shows(p, S!H!AttachDocumentResponse, {"related_docs"})
           /\ StatusIs(p, 200)
    BY DEF S!H!AttachClientDocument, S!H!Handle, S!H!U!AttachClientDocument,
         S!H!U!R!AttachClientDocument, S!H!U!R!WriteTx, S!H!Refused, S!H!Fetched, S!H!Outcomes,
         H!Outcomes, S!H!writeOK, S!H!Ok, S!H!SuccessEnvelope, S!H!AttachDocumentRespFrom, Shows,
         StatusIs
  <2>3. (S!H!AttachDocumentResponse \cup {"related_docs"}) \cap (RawPii \cup {"PDNG"}) = {}
    BY DEF S!H!AttachDocumentResponse, S!H!AttachDocumentResult, S!H!U!R!AttachDocumentResult,
         RawPii, HolderName
  <2> HIDE DEF p
  <2>4. Acts(p)
    BY <2>1, <2>2, <2>3, OtherPromise, Procedures
  <2> QED
    BY <2>4 DEF p
<1>14. Acts(S!H!AddRestraint(req))
  <2> DEFINE p == S!H!AddRestraint(req)
  <2>1. CallsOr(p, S!H!U!R!add_restraint, S!H!U!R!RestraintResult)
    BY DEF S!H!AddRestraint, S!H!Handle, S!H!U!AddRestraint, S!H!U!R!AddRestraint,
         S!H!U!R!WriteTx, S!H!Refused, S!H!AddRestraintRequest, S!H!Body, S!H!RestraintInput,
         S!H!U!R!Posting, Requests, Calls, CallsOr
  <2>2. p.kind # "refuse" => Shows(p, S!H!RestraintResponse, {}) /\ StatusIs(p, 201)
    BY DEF S!H!AddRestraint, S!H!Handle, S!H!U!AddRestraint, S!H!U!R!AddRestraint,
         S!H!U!R!WriteTx, S!H!Refused, S!H!Created, S!H!Outcomes, H!Outcomes, S!H!writeOK, S!H!Ok,
         S!H!SuccessEnvelope, S!H!RestraintRespFrom, Shows, StatusIs
  <2>3. (S!H!RestraintResponse \cup {}) \cap (RawPii \cup {"PDNG"}) = {}
    BY DEF S!H!RestraintResponse, S!H!RestraintResult, S!H!U!R!RestraintResult, RawPii, HolderName
  <2> HIDE DEF p
  <2>4. Acts(p)
    BY <2>1, <2>2, <2>3, OtherPromise, Procedures
  <2> QED
    BY <2>4 DEF p
<1>15. Acts(S!H!LinkClientBank(req))
  <2> DEFINE p == S!H!LinkClientBank(req)
  <2>1. CallsOr(p, S!H!U!R!link_client_bank, S!H!U!R!BankLinkResult)
    BY DEF S!H!LinkClientBank, S!H!Handle, S!H!U!LinkClientBank, S!H!U!R!LinkClientBank,
         S!H!U!R!WriteTx, S!H!Refused, S!H!LinkBankRequest, S!H!Body, S!H!BankLinkInput,
         S!H!U!R!Posting, Requests, Calls, CallsOr
  <2>2. p.kind # "refuse" => Shows(p, S!H!BankLinkResponse, {}) /\ StatusIs(p, 201)
    BY DEF S!H!LinkClientBank, S!H!Handle, S!H!U!LinkClientBank, S!H!U!R!LinkClientBank,
         S!H!U!R!WriteTx, S!H!Refused, S!H!Created, S!H!Outcomes, H!Outcomes, S!H!writeOK, S!H!Ok,
         S!H!SuccessEnvelope, S!H!BankLinkRespFrom, Shows, StatusIs
  <2>3. (S!H!BankLinkResponse \cup {}) \cap (RawPii \cup {"PDNG"}) = {}
    BY DEF S!H!BankLinkResponse, S!H!BankLinkResult, S!H!U!R!BankLinkResult, RawPii, HolderName
  <2> HIDE DEF p
  <2>4. Acts(p)
    BY <2>1, <2>2, <2>3, OtherPromise, Procedures
  <2> QED
    BY <2>4 DEF p
<1> QED
  BY <1>1, <1>2, <1>3, <1>4, <1>5, <1>6, <1>7, <1>8, <1>9, <1>10, <1>11, <1>12, <1>13,
     <1>14, <1>15

\* The answers to a withdrawal of a merchant group: the one that asks for a sweep says so.
LEMMA MerchantAnswers ==
  ASSUME NEW req \in Requests
  PROVE  S!H!MerchantWithdraw(req).kind # "refuse" =>
           /\ StatusTells(S!H!MerchantWithdraw(req))
           /\ \A o \in H!Outcomes :
                S!H!MerchantWithdraw(req).answers[o].data =
                  S!H!MerchantWithdrawRespFrom(S!H!Result(S!H!MerchantWithdraw(req).call, o))
  BY DEF S!H!MerchantWithdraw, S!H!Handle, S!H!U!MerchantWithdraw, S!H!U!R!MerchantWithdraw,
         S!H!U!R!WriteTx, S!H!Refused, S!H!Outcomes, H!Outcomes, S!H!writeOK, S!H!Ok,
         S!H!SuccessEnvelope, StatusTells

LEMMA MerchantWithdrawPlan ==
  ASSUME NEW req \in Requests
  PROVE  Acts(S!H!MerchantWithdraw(req))
<1> DEFINE p == S!H!MerchantWithdraw(req)
           out == S!H!U!R!MerchantWithdrawResult
<1>1. CallsOr(p, S!H!U!R!post_merchant_withdraw, out)
  BY DEF S!H!MerchantWithdraw, S!H!Handle, S!H!U!MerchantWithdraw, S!H!U!R!MerchantWithdraw,
         S!H!U!R!WriteTx, S!H!Refused, S!H!MerchantWithdrawRequest, S!H!Body,
         S!H!MerchantWithdrawInput, S!H!U!R!Posting, Requests, Calls, CallsOr
<1>2. p.kind # "refuse" => /\ StatusTells(p)
                           /\ \A o \in H!Outcomes : p.answers[o].data =
                                S!H!MerchantWithdrawRespFrom(S!H!Result(p.call, o))
  BY MerchantAnswers
<1>3. /\ S!H!U!R!post_merchant_withdraw.class = "KEYED"
      /\ S!H!U!R!post_merchant_withdraw.refusals \subseteq Rules
  BY DEF S!H!U!R!post_merchant_withdraw, S!H!U!R!Keyed, S!H!U!R!Proc, Rules
<1> HIDE DEF p
<1>4. ASSUME Calls(p, S!H!U!R!post_merchant_withdraw, out) PROVE Writes(p)
  <2>1. /\ p.call.proc.class = "KEYED" /\ p.call.proc.refusals \subseteq Rules
        /\ p.call.out = out /\ {"FRESH", "REPEAT", "SWEEP"} = H!Outcomes
    BY <1>3, <1>4 DEF Calls, H!Outcomes
  <2>2. /\ StatusTells(p)
        /\ \A o \in H!Outcomes : p.answers[o].data =
             S!H!MerchantWithdrawRespFrom(S!H!Result(p.call, o))
    BY <1>2, <1>4 DEF Calls
  <2>3. /\ S!H!Result(p.call, "FRESH") = out \ {"was_already_reversed"}
        /\ S!H!Result(p.call, "REPEAT") = out \cup {"DUPLICATE"}
        /\ S!H!Result(p.call, "SWEEP") =
             (out \ {"tran_key", "event_uuid"}) \cup {"SETTLEMENT_SWEEP_REQUIRED"}
    BY <2>1 DEF S!H!Result
  <2>4. /\ "DUPLICATE" \notin out /\ "SETTLEMENT_SWEEP_REQUIRED" \notin out
        /\ (S!H!MerchantWithdrawResponse \cup {"PDNG", "ACTC"}) \cap RawPii = {}
        /\ "PDNG" \notin S!H!MerchantWithdrawResponse
    BY DEF S!H!U!R!MerchantWithdrawResult, S!H!MerchantWithdrawResponse,
           S!H!MerchantWithdrawResult, RawPii, HolderName
  <2>5. /\ p.answers["FRESH"].status = 201 /\ p.answers["REPEAT"].status = 200
        /\ p.answers["SWEEP"].status \in {200, 201}
    BY <2>1, <2>2, <2>3, <2>4 DEF StatusTells, S!H!statusFor
  <2>6. /\ "PDNG" \notin p.answers["FRESH"].data /\ "PDNG" \notin p.answers["REPEAT"].data
        /\ "PDNG" \in p.answers["SWEEP"].data
    BY <2>1, <2>2, <2>3, <2>4 DEF S!H!MerchantWithdrawRespFrom
  <2>7. \A o \in H!Outcomes : p.answers[o].data \cap RawPii = {}
    BY <2>2, <2>4 DEF S!H!MerchantWithdrawRespFrom
  <2> QED
    BY <1>4, <2>1, <2>5, <2>6, <2>7 DEF Calls, Writes
<1>5. Acts(p)
  BY <1>1, <1>4, CallOrRefusal
<1> QED
  BY <1>5 DEF p

\* A new account: the answer repeats fields of the request.
LEMMA OpenAccountPlan ==
  ASSUME NEW req \in Requests
  PROVE  Acts(S!H!OpenAccount(req))
<1> DEFINE p == S!H!OpenAccount(req)
<1>1. CallsOr(p, S!H!U!R!open_account, S!H!U!R!AccountOpenResult)
  BY DEF S!H!OpenAccount, S!H!Handle, S!H!U!OpenAccount, S!H!U!R!OpenAccount, S!H!U!R!WriteTx,
         S!H!Refused, S!H!OpenAccountRequest, S!H!Body, S!H!AccountOpenInput, Requests, Calls,
         CallsOr
<1>2. p.kind # "refuse" =>
        Shows(p, S!H!AccountOpenResponse, {"client_no", "acct_type", "ccy"}) /\ StatusIs(p, 201)
  BY DEF S!H!OpenAccount, S!H!Handle, S!H!U!OpenAccount, S!H!U!R!OpenAccount, S!H!U!R!WriteTx,
         S!H!Refused, S!H!Created, S!H!Outcomes, H!Outcomes, S!H!writeOK, S!H!Ok,
         S!H!SuccessEnvelope, Shows, StatusIs
<1>3. (S!H!AccountOpenResponse \cup {"client_no", "acct_type", "ccy"})
        \cap (RawPii \cup {"PDNG"}) = {}
  BY DEF S!H!AccountOpenResponse, RawPii, HolderName
<1> HIDE DEF p
<1>4. Acts(p)
  BY <1>1, <1>2, <1>3, OtherPromise, Procedures
<1> QED
  BY <1>4 DEF p

\* A new client, whether or not a repeated call is recognised.
LEMMA CreateClientPlan ==
  ASSUME NEW req \in Requests
  PROVE  Acts(S!H!CreateClient(req))
<1> DEFINE p == S!H!CreateClient(req)
           proc == S!H!U!R!create_client(req.fields \cap S!H!ClientCreateInput)
<1>1. CallsOr(p, proc, S!H!U!R!ClientResult)
  BY DEF S!H!CreateClient, S!H!Handle, S!H!U!CreateClient, S!H!U!R!CreateClient, S!H!U!R!WriteTx,
         S!H!Refused, S!H!CreateClientRequest, S!H!Body, S!H!ClientCreateInput, Requests, Calls,
         CallsOr
<1>2. p.kind # "refuse" => Shows(p, S!H!ClientResponse, {}) /\ StatusIs(p, 201)
  BY DEF S!H!CreateClient, S!H!Handle, S!H!U!CreateClient, S!H!U!R!CreateClient, S!H!U!R!WriteTx,
         S!H!Refused, S!H!Created, S!H!Outcomes, H!Outcomes, S!H!writeOK, S!H!Ok,
         S!H!SuccessEnvelope, S!H!ClientRespFrom, Shows, StatusIs
<1>3. (S!H!ClientResponse \cup {}) \cap (RawPii \cup {"PDNG"}) = {}
  BY DEF S!H!ClientResponse, S!H!ClientResult, RawPii, HolderName
<1>4. Mild(proc, "OTHER")
  BY DEF S!H!U!R!create_client, S!H!U!R!Proc, Mild, Rules
<1> HIDE DEF p, proc
<1>5. Acts(p)
  BY <1>1, <1>2, <1>3, <1>4, OtherPromise
<1> QED
  BY <1>5 DEF p

-----------------------------------------------------------------------------
(* Routes that read                                                        *)

\* A query answers without raw personal data and without what is stored encrypted, ...
Plainly(p) ==
  \/ p = S!H!Refused(S!H!renderValidationError)
  \/ /\ p.kind = "read" /\ p.call.out \cap Encrypted = {}
     /\ p.answers["FRESH"].data \cap RawPii = {}

\* ... or it writes the log, reads from the pool for it, and with the key where it needs one.
Openly(p) ==
  \/ p = S!H!Refused(S!H!renderValidationError)
  \/ /\ p.kind = "read" /\ p.log \in PIIAccess /\ "pii" \in p.call.pools
     /\ p.call.out \cap Encrypted # {} => p.call.keys

\* ... or it shows the name of the holder, and no other raw personal data.
Namely(p) ==
  \/ p = S!H!Refused(S!H!renderValidationError)
  \/ /\ p.kind = "read" /\ p.log = ""
     /\ p.call.out \cap Encrypted # {} => p.call.keys
     /\ p.answers["FRESH"].data \cap RawPii \subseteq HolderName
     /\ "acct_desc" \in p.answers["FRESH"].data

LEMMA ReadPromise == \A p : Plainly(p) \/ Openly(p) \/ Namely(p) => Promised(p)
  BY RefusedKind, InvalidRefuses DEF Plainly, Openly, Namely, Promised, Acts, Reads

\* The plan of a query: what it reads, and what of it is shown at most.
ReadsOnly(p, out, K) ==
  \/ p = S!H!Refused(S!H!renderValidationError)
  \/ p.kind = "read" /\ p.call.out = out /\ p.answers["FRESH"].data \subseteq K

LEMMA PlainRead ==
  ASSUME NEW p, NEW out, NEW K, ReadsOnly(p, out, K), out \cap Encrypted = {} /\ K \cap RawPii = {}
  PROVE  Plainly(p)
  BY DEF ReadsOnly, Plainly

\* Reads of accounts, balances, statements, restraints, journal entries and masked profiles.
LEMMA PlainReads ==
  ASSUME NEW req \in Requests
  PROVE  /\ Plainly(S!H!SearchAccounts(req))
         /\ Plainly(S!H!GetBalanceOps(req))
         /\ Plainly(S!H!GetBalanceBatch(req))
         /\ Plainly(S!H!GetTransaction(req))
         /\ Plainly(S!H!GetRestraint(req))
         /\ Plainly(S!H!GetManualJE(req))
         /\ Plainly(S!H!SuspenseAging(req))
         /\ Plainly(S!H!GetClient(req))
         /\ Plainly(S!H!ListTransactions(req))
         /\ Plainly(S!H!ListRestraints(req))
         /\ Plainly(S!H!ListManualJE(req))
         /\ Plainly(S!H!ListClients(req))
         /\ Plainly(S!H!GetBalance(req))
<1>1. Plainly(S!H!SearchAccounts(req))
  <2>1. ReadsOnly(S!H!SearchAccounts(req), S!H!U!R!AccountSearchItem("client_name_masked"),
                    S!H!AccountSearchResponse \cup S!H!U!R!AccountSearchItem("client_name_masked"))
    BY DEF S!H!SearchAccounts, S!H!Paged, S!H!Handle, S!H!Refused, S!H!U!SearchAccounts,
       S!H!U!R!SearchAccounts, S!H!U!R!Query, S!H!parseAccountSearch, S!H!Result, S!H!Outcomes,
       S!H!Fetched, S!H!writeOK, S!H!Ok, S!H!SuccessEnvelope, S!H!AccountSearchRespFrom,
       S!H!AccountSearchItemResponse, ReadsOnly
  <2>2. /\ (S!H!U!R!AccountSearchItem("client_name_masked")) \cap Encrypted = {}
        /\ (S!H!AccountSearchResponse \cup S!H!U!R!AccountSearchItem("client_name_masked"))
              \cap RawPii = {}
    BY DEF S!H!AccountSearchResponse, S!H!AccountSearchItem, S!H!U!R!AccountSearchItem, RawPii, HolderName,
       Encrypted
  <2> QED
    BY <2>1, <2>2, PlainRead
<1>2. Plainly(S!H!GetBalanceOps(req))
  <2>1. ReadsOnly(S!H!GetBalanceOps(req), S!H!U!R!BalanceOpsView,
                    S!H!BalanceOpsResponse \cup {"active_restraints"})
    BY DEF S!H!GetBalanceOps, S!H!Handle, S!H!Refused, S!H!U!GetBalanceOps, S!H!U!R!GetBalanceOps,
       S!H!U!R!Query, S!H!Outcomes, S!H!Fetched, S!H!writeOK, S!H!Ok, S!H!SuccessEnvelope,
       S!H!BalanceOpsRespFrom, ReadsOnly
  <2>2. /\ (S!H!U!R!BalanceOpsView) \cap Encrypted = {}
        /\ (S!H!BalanceOpsResponse \cup {"active_restraints"}) \cap RawPii = {}
    BY DEF S!H!BalanceOpsResponse, S!H!BalanceOpsView, S!H!U!R!BalanceOpsView, RawPii, HolderName, Encrypted
  <2> QED
    BY <2>1, <2>2, PlainRead
<1>3. Plainly(S!H!GetBalanceBatch(req))
  <2>1. ReadsOnly(S!H!GetBalanceBatch(req), S!H!U!R!BalanceBatchItem,
                    S!H!BalanceBatchResponse)
    BY DEF S!H!GetBalanceBatch, S!H!Handle, S!H!Refused, S!H!U!GetBalanceBatch,
       S!H!U!R!GetBalanceBatch, S!H!U!R!Query, S!H!Outcomes, S!H!Fetched, S!H!writeOK, S!H!Ok,
       S!H!SuccessEnvelope, S!H!BalanceBatchRespFrom, ReadsOnly
  <2>2. S!H!U!R!BalanceBatchItem \cap Encrypted = {} /\ S!H!BalanceBatchResponse \cap RawPii = {}
    BY DEF S!H!BalanceBatchResponse, S!H!BalanceBatchItemResponse, S!H!BalanceBatchItem,
       S!H!U!R!BalanceBatchItem, RawPii, HolderName, Encrypted
  <2> QED
    BY <2>1, <2>2, PlainRead
<1>4. Plainly(S!H!GetTransaction(req))
  <2>1. ReadsOnly(S!H!GetTransaction(req), S!H!U!R!TxLeg,
                    S!H!TxDetailResponse \cup S!H!TxLegResponse)
    BY DEF S!H!GetTransaction, S!H!Handle, S!H!Refused, S!H!U!GetTransaction,
       S!H!U!R!GetTransaction, S!H!U!R!Query, S!H!Outcomes, S!H!Fetched, S!H!writeOK, S!H!Ok,
       S!H!SuccessEnvelope, S!H!TxDetailRespFrom, ReadsOnly
  <2>2. /\ (S!H!U!R!TxLeg) \cap Encrypted = {}
        /\ (S!H!TxDetailResponse \cup S!H!TxLegResponse) \cap RawPii = {}
    BY DEF S!H!TxDetailResponse, S!H!TxLegResponse, S!H!TxLeg, S!H!TxEntry, S!H!U!R!TxLeg,
       S!H!U!R!TxEntry, RawPii, HolderName, Encrypted
  <2> QED
    BY <2>1, <2>2, PlainRead
<1>5. Plainly(S!H!GetRestraint(req))
  <2>1. ReadsOnly(S!H!GetRestraint(req), S!H!U!R!RestraintView,
                    S!H!RestraintViewResponse)
    BY DEF S!H!GetRestraint, S!H!Handle, S!H!Refused, S!H!U!GetRestraint, S!H!U!R!GetRestraint,
       S!H!U!R!Query, S!H!U!R!restraintCols, S!H!Outcomes, S!H!Fetched, S!H!writeOK, S!H!Ok,
       S!H!SuccessEnvelope, S!H!RestraintViewRespFrom, S!H!restraintViewResp, ReadsOnly
  <2>2. S!H!U!R!RestraintView \cap Encrypted = {} /\ S!H!RestraintViewResponse \cap RawPii = {}
    BY DEF S!H!RestraintViewResponse, S!H!RestraintView, S!H!U!R!RestraintView, RawPii, HolderName, Encrypted
  <2> QED
    BY <2>1, <2>2, PlainRead
<1>6. Plainly(S!H!GetManualJE(req))
  <2>1. ReadsOnly(S!H!GetManualJE(req), S!H!U!R!manualJEHeaderCols \cup S!H!U!R!ManualJELineView,
                    S!H!ManualJEViewResponse \cup S!H!ManualJELineResponse)
    BY DEF S!H!GetManualJE, S!H!Handle, S!H!Refused, S!H!U!GetManualJE, S!H!U!R!GetManualJE,
       S!H!U!R!Query, S!H!U!R!And, S!H!Outcomes, S!H!Fetched, S!H!writeOK, S!H!Ok,
       S!H!SuccessEnvelope, S!H!ManualJEViewRespFrom, S!H!manualJEView, ReadsOnly
  <2>2. /\ (S!H!U!R!manualJEHeaderCols \cup S!H!U!R!ManualJELineView) \cap Encrypted = {}
        /\ (S!H!ManualJEViewResponse \cup S!H!ManualJELineResponse) \cap RawPii = {}
    BY DEF S!H!ManualJEViewResponse, S!H!ManualJELineResponse, S!H!ManualJEView,
       S!H!ManualJELineView, S!H!ManualJELine, S!H!U!R!ManualJEView, S!H!U!R!ManualJELineView,
       S!H!U!R!ManualJELine, S!H!U!R!manualJEHeaderCols, RawPii, HolderName, Encrypted
  <2> QED
    BY <2>1, <2>2, PlainRead
<1>7. Plainly(S!H!SuspenseAging(req))
  <2>1. ReadsOnly(S!H!SuspenseAging(req), S!H!U!R!SuspenseAgingRow,
                    S!H!SuspenseAgingResponse)
    BY DEF S!H!SuspenseAging, S!H!Handle, S!H!Refused, S!H!U!SuspenseAging, S!H!U!R!SuspenseAging,
       S!H!U!R!Query, S!H!Outcomes, S!H!Fetched, S!H!writeOK, S!H!Ok, S!H!SuccessEnvelope,
       S!H!SuspenseAgingRespFrom, ReadsOnly
  <2>2. S!H!U!R!SuspenseAgingRow \cap Encrypted = {} /\ S!H!SuspenseAgingResponse \cap RawPii = {}
    BY DEF S!H!SuspenseAgingResponse, S!H!SuspenseAgingRowResponse, S!H!SuspenseAgingRow,
       S!H!U!R!SuspenseAgingRow, RawPii, HolderName, Encrypted
  <2> QED
    BY <2>1, <2>2, PlainRead
<1>8. Plainly(S!H!GetClient(req))
  <2>1. ReadsOnly(S!H!GetClient(req), S!H!U!R!ClientView,
                    S!H!ClientProfileResponse)
    BY DEF S!H!GetClient, S!H!Handle, S!H!Refused, S!H!U!GetClient, S!H!U!R!GetClient,
       S!H!U!R!Query, S!H!Outcomes, S!H!Fetched, S!H!writeOK, S!H!Ok, S!H!SuccessEnvelope,
       S!H!ClientProfileRespFrom, ReadsOnly
  <2>2. S!H!U!R!ClientView \cap Encrypted = {} /\ S!H!ClientProfileResponse \cap RawPii = {}
    BY DEF S!H!ClientProfileResponse, S!H!ClientView, S!H!U!R!ClientView, RawPii, HolderName, Encrypted
  <2> QED
    BY <2>1, <2>2, PlainRead
<1>9. Plainly(S!H!ListTransactions(req))
  <2>1. ReadsOnly(S!H!ListTransactions(req), S!H!U!R!TxEntry,
                    S!H!TxListResponse)
    BY DEF S!H!ListTransactions, S!H!Handle, S!H!Refused, S!H!U!ListTransactions,
       S!H!U!R!ListTransactions, S!H!U!R!Query, S!H!Paged, S!H!Outcomes, S!H!Fetched, S!H!writeOK,
       S!H!Ok, S!H!SuccessEnvelope, S!H!TxListRespFrom, S!H!Page, ReadsOnly
  <2>2. S!H!U!R!TxEntry \cap Encrypted = {} /\ S!H!TxListResponse \cap RawPii = {}
    BY DEF S!H!TxListResponse, S!H!TxEntryResponse, S!H!TxEntry, S!H!U!R!TxEntry, RawPii, HolderName,
       Encrypted
  <2> QED
    BY <2>1, <2>2, PlainRead
<1>10. Plainly(S!H!ListRestraints(req))
  <2>1. ReadsOnly(S!H!ListRestraints(req), S!H!U!R!RestraintView,
                    S!H!RestraintListResponse)
    BY DEF S!H!ListRestraints, S!H!Handle, S!H!Refused, S!H!U!ListRestraints,
       S!H!U!R!ListRestraints, S!H!U!R!Query, S!H!Paged, S!H!U!R!restraintCols, S!H!Outcomes,
       S!H!Fetched, S!H!writeOK, S!H!Ok, S!H!SuccessEnvelope, S!H!RestraintListRespFrom, S!H!Page,
       ReadsOnly
  <2>2. S!H!U!R!RestraintView \cap Encrypted = {} /\ S!H!RestraintListResponse \cap RawPii = {}
    BY DEF S!H!RestraintListResponse, S!H!RestraintViewResponse, S!H!RestraintView,
       S!H!U!R!RestraintView, RawPii, HolderName, Encrypted
  <2> QED
    BY <2>1, <2>2, PlainRead
<1>11. Plainly(S!H!ListManualJE(req))
  <2>1. ReadsOnly(S!H!ListManualJE(req), S!H!U!R!manualJEHeaderCols,
                    S!H!ManualJEListResponse)
    BY DEF S!H!ListManualJE, S!H!Handle, S!H!Refused, S!H!U!ListManualJE, S!H!U!R!ListManualJE,
       S!H!U!R!Query, S!H!Paged, S!H!Outcomes, S!H!Fetched, S!H!writeOK, S!H!Ok,
       S!H!SuccessEnvelope, S!H!ManualJEListRespFrom, S!H!Page, ReadsOnly
  <2>2. S!H!U!R!manualJEHeaderCols \cap Encrypted = {} /\ S!H!ManualJEListResponse \cap RawPii = {}
    BY DEF S!H!ManualJEListResponse, S!H!ManualJEViewResponse, S!H!ManualJEView,
       S!H!ManualJELineView, S!H!ManualJELine, S!H!U!R!ManualJEView, S!H!U!R!ManualJELineView,
       S!H!U!R!ManualJELine, S!H!U!R!manualJEHeaderCols, RawPii, HolderName, Encrypted
  <2> QED
    BY <2>1, <2>2, PlainRead
<1>12. Plainly(S!H!ListClients(req))
  <2>1. ReadsOnly(S!H!ListClients(req), S!H!U!R!ClientView,
                    S!H!ClientListResponse)
    BY DEF S!H!ListClients, S!H!Handle, S!H!Refused, S!H!U!ListClients, S!H!U!R!ListClients,
       S!H!U!R!Query, S!H!Paged, S!H!Outcomes, S!H!Fetched, S!H!writeOK, S!H!Ok,
       S!H!SuccessEnvelope, S!H!ClientListRespFrom, S!H!Page, ReadsOnly
  <2>2. S!H!U!R!ClientView \cap Encrypted = {} /\ S!H!ClientListResponse \cap RawPii = {}
    BY DEF S!H!ClientListResponse, S!H!ClientProfileResponse, S!H!ClientView, S!H!U!R!ClientView,
       RawPii, HolderName, Encrypted
  <2> QED
    BY <2>1, <2>2, PlainRead
<1>13. Plainly(S!H!GetBalance(req))
  <2>1. CASE req.dated
    <3>1. ReadsOnly(S!H!GetBalance(req), S!H!U!R!BalanceAsOf,
                      S!H!BalanceAsOfResponse)
      BY <2>1 DEF S!H!GetBalance, S!H!Handle, S!H!Refused, S!H!U!GetBalanceAsOf,
         S!H!U!R!GetBalanceAsOf, S!H!U!R!Query, S!H!Outcomes, S!H!Fetched, S!H!writeOK, S!H!Ok,
         S!H!SuccessEnvelope, S!H!BalanceAsOfRespFrom, ReadsOnly
    <3>2. S!H!U!R!BalanceAsOf \cap Encrypted = {} /\ S!H!BalanceAsOfResponse \cap RawPii = {}
      BY DEF S!H!BalanceAsOfResponse, S!H!BalanceAsOf, S!H!U!R!BalanceAsOf, RawPii, HolderName, Encrypted
    <3> QED
      BY <3>1, <3>2, PlainRead
  <2>2. CASE ~req.dated
    <3>1. ReadsOnly(S!H!GetBalance(req), S!H!U!R!BalanceView,
                      S!H!BalanceResponse)
      BY <2>2 DEF S!H!GetBalance, S!H!Handle, S!H!Refused, S!H!U!GetBalance, S!H!U!R!GetBalance,
         S!H!U!R!Query, S!H!Outcomes, S!H!Fetched, S!H!writeOK, S!H!Ok, S!H!SuccessEnvelope,
         S!H!BalanceRespFrom, ReadsOnly
    <3>2. S!H!U!R!BalanceView \cap Encrypted = {} /\ S!H!BalanceResponse \cap RawPii = {}
      BY DEF S!H!BalanceResponse, S!H!BalanceView, S!H!U!R!BalanceView, RawPii, HolderName, Encrypted
    <3> QED
      BY <3>1, <3>2, PlainRead
  <2> QED
    BY <2>1, <2>2
<1> QED
  BY <1>1, <1>2, <1>3, <1>4, <1>5, <1>6, <1>7, <1>8, <1>9, <1>10, <1>11, <1>12, <1>13
     -----------------------------------------------------------------------------
(* Unmasked reads and pages                                                *)

\* The queries of the view of a client, unmasked and masked.
LEMMA Calls360 ==
  /\ S!H!U!R!GetClient360(TRUE).kind = "read" /\ S!H!U!R!GetClient360(TRUE).keys = TRUE
  /\ "pii" \in S!H!U!R!GetClient360(TRUE).pools
  /\ S!H!U!R!GetClient360(FALSE).kind = "read" /\ S!H!U!R!GetClient360(FALSE).keys = TRUE
  /\ S!H!U!R!GetClient360(FALSE).out =
       S!H!U!R!Client360(S!H!U!R!ClientView, S!H!U!R!ClientBankView("bank_acct_no_masked"))
<1> DEFINE full   == S!H!U!R!And(S!H!U!R!getClientFullWithContacts, S!H!U!R!listClientBanksFull)
           masked == S!H!U!R!And(S!H!U!R!GetClient, S!H!U!R!listClientBanksMasked)
           others == S!H!U!R!And(S!H!U!R!ListAccountsByClient, S!H!U!R!listRestraintsByClient)
<1>1. \A view, missing, limit :
        /\ S!H!U!R!Query("pii", view, missing, limit).pools = {"pii"}
        /\ S!H!U!R!readWithDEK("pii", view, missing, limit).pools = {"pii"}
        /\ S!H!U!R!readWithDEK("pii", view, missing, limit).keys = TRUE
        /\ S!H!U!R!readWithDEK("pii", view, missing, limit).kind = "read"
  BY DEF S!H!U!R!Query, S!H!U!R!readWithDEK
<1>2. /\ S!H!U!R!getClientFullWithContacts.keys = TRUE
      /\ S!H!U!R!getClientFullWithContacts.kind = "read"
      /\ S!H!U!R!getClientFullWithContacts.pools = {"pii"}
      /\ S!H!U!R!listClientBanksFull.pools = {"pii"}
  BY <1>1 DEF S!H!U!R!getClientFullWithContacts, S!H!U!R!listClientBanksFull
<1>3. S!H!U!R!GetClient360(TRUE) =
        [S!H!U!R!And(full, others) EXCEPT !.out =
           S!H!U!R!Client360(S!H!U!R!getClientFullWithContacts.out,
                             S!H!U!R!listClientBanksFull.out)]
  BY DEF S!H!U!R!GetClient360
<1>4. /\ S!H!U!R!GetClient360(TRUE).kind = "read" /\ S!H!U!R!GetClient360(TRUE).keys = TRUE
      /\ "pii" \in S!H!U!R!GetClient360(TRUE).pools
  <2>1. S!H!U!R!GetClient360(TRUE).kind = "read" /\ S!H!U!R!GetClient360(TRUE).keys = TRUE
    BY <1>3, ZenonT(30) DEF S!H!U!R!And, S!H!U!R!getClientFullWithContacts, S!H!U!R!readWithDEK,
                S!H!U!R!Query
  <2>2. /\ full.pools = {"pii"}
        /\ DOMAIN full = {"kind", "pools", "keys", "proc", "args", "out", "missing", "limit"}
    BY DEF S!H!U!R!And, S!H!U!R!getClientFullWithContacts, S!H!U!R!listClientBanksFull,
           S!H!U!R!readWithDEK, S!H!U!R!Query
  <2>3. /\ "pools" \in DOMAIN S!H!U!R!And(full, others)
        /\ S!H!U!R!And(full, others).pools = full.pools \cup others.pools
    <3> HIDE DEF full, others
    <3> QED
      BY <2>2 DEF S!H!U!R!And
  <2>4. S!H!U!R!GetClient360(TRUE).pools = full.pools \cup others.pools
    <3> HIDE DEF full, others
    <3> QED
      BY <1>3, <2>3
  <2> QED
    BY <2>1, <2>2, <2>4
<1>5. S!H!U!R!GetClient360(FALSE) =
        [S!H!U!R!And(masked, others) EXCEPT !.out =
           S!H!U!R!Client360(S!H!U!R!GetClient.out, S!H!U!R!listClientBanksMasked.out)]
  BY DEF S!H!U!R!GetClient360
<1>6. /\ S!H!U!R!GetClient360(FALSE).kind = "read" /\ S!H!U!R!GetClient360(FALSE).keys = TRUE
      /\ S!H!U!R!GetClient360(FALSE).out =
           S!H!U!R!Client360(S!H!U!R!ClientView, S!H!U!R!ClientBankView("bank_acct_no_masked"))
  BY <1>5, ZenonT(60) DEF S!H!U!R!And, S!H!U!R!GetClient, S!H!U!R!listClientBanksMasked,
              S!H!U!R!scanClientBanks, S!H!U!R!readWithDEK, S!H!U!R!Query
<1> QED
  BY <1>4, <1>6

\* Unmasked profiles, lists and searches of clients.
LEMMA OpenReads ==
  ASSUME NEW req \in Requests
  PROVE  /\ Openly(S!H!SearchAccountsFull(req))
         /\ Openly(S!H!GetClientFull(req))
         /\ Openly(S!H!ListClientsFull(req))
         /\ Openly(S!H!GetClientFull360(req))
<1>1. Openly(S!H!SearchAccountsFull(req))
  BY ZenonT(30)
    DEF S!H!SearchAccountsFull, S!H!Logged, S!H!Paged, S!H!Handle, S!H!Refused, S!H!Outcomes,
       S!H!Fetched, S!H!writeOK, S!H!Ok, S!H!SuccessEnvelope, S!H!parseAccountSearch, S!H!U!SearchAccountsFull,
       S!H!U!R!SearchAccountsFull, S!H!U!R!Query, S!H!U!R!AccountSearchItem, S!H!U!LogPIIAccess,
       S!H!U!R!LogPIIAccess, PIIAccess, Encrypted, Openly
<1>2. Openly(S!H!GetClientFull(req))
  BY ZenonT(60)
    DEF S!H!GetClientFull, S!H!Logged, S!H!Handle, S!H!Refused, S!H!Outcomes, S!H!Fetched,
       S!H!writeOK, S!H!Ok, S!H!SuccessEnvelope, S!H!U!GetClientFull, S!H!U!R!GetClientFull,
       S!H!U!R!Query, S!H!U!R!ClientFullView, S!H!U!LogPIIAccess, S!H!U!R!LogPIIAccess, PIIAccess,
       Encrypted, Openly
<1>3. Openly(S!H!ListClientsFull(req))
  BY ZenonT(30)
    DEF S!H!ListClientsFull, S!H!Logged, S!H!Handle, S!H!Refused, S!H!Outcomes, S!H!Fetched,
       S!H!writeOK, S!H!Ok, S!H!SuccessEnvelope, S!H!Paged, S!H!U!ListClientsFull,
       S!H!U!R!ListClientsFull, S!H!U!R!readWithDEK, S!H!U!R!Query, S!H!U!LogPIIAccess,
       S!H!U!R!LogPIIAccess, PIIAccess, Encrypted, Openly
<1>4. Openly(S!H!GetClientFull360(req))
  <2>1. /\ S!H!U!GetClient360(TRUE).kind = "read" /\ S!H!U!GetClient360(TRUE).keys = TRUE
        /\ "pii" \in S!H!U!GetClient360(TRUE).pools
    BY Calls360 DEF S!H!U!GetClient360
  <2> QED
    BY <2>1 DEF S!H!GetClientFull360, S!H!Logged, S!H!Handle, S!H!Refused, S!H!U!LogPIIAccess,
                S!H!U!R!LogPIIAccess, PIIAccess, Openly
<1> QED
  BY <1>1, <1>2, <1>3, <1>4

\* Reads of accounts, and the masked view of a client: what is stored encrypted is read with the
\* key and masked, and the name of the holder is shown.
LEMMA AccountRead ==
  ASSUME NEW p,
         \/ p = S!H!Refused(S!H!renderValidationError)
         \/ /\ p.kind = "read" /\ p.log = "" /\ p.call.out = S!H!U!R!AccountView
            /\ S!H!U!R!AccountView \ {"was_already_reversed"} \subseteq p.answers["FRESH"].data
            /\ p.answers["FRESH"].data \subseteq S!H!U!R!AccountView \cup {"count"}
  PROVE  Namely(p)
<1>1. S!H!U!R!AccountView \cap Encrypted = {}
  BY DEF S!H!U!R!AccountView, Encrypted
<1>2. (S!H!U!R!AccountView \cup {"count"}) \cap RawPii \subseteq HolderName
  BY DEF S!H!U!R!AccountView, RawPii, HolderName
<1>3. "acct_desc" \in S!H!U!R!AccountView \ {"was_already_reversed"}
  BY DEF S!H!U!R!AccountView
<1> QED
  BY <1>1, <1>2, <1>3 DEF Namely

LEMMA SameView == S!H!AccountView = S!H!U!R!AccountView
  BY DEF S!H!AccountView, S!H!U!R!AccountView

LEMMA NameReads ==
  ASSUME NEW req \in Requests
  PROVE  /\ Namely(S!H!GetAccount(req))
         /\ Namely(S!H!ListAccountsByClient(req))
         /\ Namely(S!H!GetClient360(req))
<1>1. Namely(S!H!GetAccount(req))
  <2> DEFINE p == S!H!GetAccount(req)
  <2>1. \/ p = S!H!Refused(S!H!renderValidationError)
        \/ /\ p.kind = "read" /\ p.log = "" /\ p.call.out = S!H!U!R!AccountView
           /\ p.answers["FRESH"].data =
                (S!H!U!R!AccountView \ {"was_already_reversed"}) \cap S!H!AccountResponse
    BY DEF S!H!GetAccount, S!H!Handle, S!H!Refused, S!H!U!GetAccount, S!H!U!R!GetAccount,
       S!H!U!R!Query, S!H!Result, S!H!Outcomes, S!H!Fetched, S!H!writeOK, S!H!Ok,
       S!H!SuccessEnvelope, S!H!AccountRespFrom
  <2> HIDE DEF p
  <2>2. Namely(p)
    BY <2>1, SameView, AccountRead DEF S!H!AccountResponse
  <2> QED
    BY <2>2 DEF p
<1>2. Namely(S!H!ListAccountsByClient(req))
  <2> DEFINE p == S!H!ListAccountsByClient(req)
             r == S!H!U!R!AccountView \ {"was_already_reversed"}
  <2>1. \/ p = S!H!Refused(S!H!renderValidationError)
        \/ /\ p.kind = "read" /\ p.log = "" /\ p.call.out = S!H!U!R!AccountView
           /\ p.answers["FRESH"].data =
                ((r \cap S!H!AccountResponse) \cup {"count"}) \cap S!H!AccountListResponse
    BY DEF S!H!ListAccountsByClient, S!H!Handle, S!H!Refused, S!H!U!ListAccountsByClient,
       S!H!U!R!ListAccountsByClient, S!H!U!R!Query, S!H!Result, S!H!Outcomes, S!H!Fetched,
       S!H!writeOK, S!H!Ok, S!H!SuccessEnvelope, S!H!AccountListRespFrom, S!H!AccountRespFrom
  <2>2. r \subseteq ((r \cap S!H!AccountResponse) \cup {"count"}) \cap S!H!AccountListResponse
    BY SameView DEF S!H!AccountResponse, S!H!AccountListResponse
  <2>3. (r \cap S!H!AccountResponse) \cup {"count"} \subseteq S!H!U!R!AccountView \cup {"count"}
    OBVIOUS
  <2> HIDE DEF p
  <2>4. Namely(p)
    BY <2>1, <2>2, <2>3, AccountRead
  <2> QED
    BY <2>4 DEF p
<1>3. Namely(S!H!GetClient360(req))
  <2> DEFINE p == S!H!GetClient360(req)
             view == S!H!U!R!Client360(S!H!U!R!ClientView,
                                       S!H!U!R!ClientBankView("bank_acct_no_masked"))
             masked == {"client_name_masked", "global_id_masked", "phone_masked"}
  <2>1. (view \cup masked) \cap RawPii \subseteq HolderName
    BY DEF S!H!U!R!Client360, S!H!U!R!ClientView, S!H!U!R!ClientBankView, S!H!U!R!AccountView,
           S!H!U!R!RestraintView, RawPii, HolderName
  <2>2. "acct_desc" \in view \cap S!H!Client360Response
    BY DEF S!H!U!R!Client360, S!H!U!R!AccountView, S!H!Client360Response, S!H!Client360Account,
           S!H!AccountView
  <2>3. \/ p = S!H!Refused(S!H!renderValidationError)
        \/ /\ p.kind = "read" /\ p.log = "" /\ p.call.keys = TRUE /\ p.call.out = view
           /\ p.answers["FRESH"].data = S!H!Client360RespFrom(S!H!Result(p.call, "FRESH"))
    <3>1. /\ S!H!U!GetClient360(FALSE).kind = "read" /\ S!H!U!GetClient360(FALSE).keys = TRUE
          /\ S!H!U!GetClient360(FALSE).out = view
      BY Calls360 DEF S!H!U!GetClient360
    <3> HIDE DEF view
    <3> QED
      BY <3>1 DEF S!H!GetClient360, S!H!Handle, S!H!Refused, S!H!Outcomes, S!H!writeOK, S!H!Ok,
                  S!H!SuccessEnvelope
  <2> HIDE DEF p, view
  <2>4. ASSUME p.call.out = view PROVE Namely(p)
    <3>1. S!H!Result(p.call, "FRESH") = view \ {"was_already_reversed"}
      BY <2>4 DEF S!H!Result
    <3>2. /\ S!H!Client360RespFrom(S!H!Result(p.call, "FRESH")) \subseteq view \cup masked
          /\ "acct_desc" \in S!H!Client360RespFrom(S!H!Result(p.call, "FRESH"))
      BY <2>2, <3>1 DEF S!H!Client360RespFrom, S!H!maskName, S!H!maskGlobalID, S!H!maskPhone
    <3> QED
      BY <2>1, <2>3, <3>2 DEF Namely
  <2>5. Namely(p)
    BY <2>3, <2>4 DEF Namely
  <2> QED
    BY <2>5 DEF p
<1> QED
  BY <1>1, <1>2, <1>3

\* An answer that leaves rows out names the next page.
Continues(p) == p.kind # "refuse" /\ ~p.all => "next_cursor" \in p.answers["FRESH"].data

\* What is not a list shows all there is.
LEMMA WholeReads ==
  ASSUME NEW req \in Requests
  PROVE  /\ Continues(S!H!GetAccount(req))
         /\ Continues(S!H!ListAccountsByClient(req))
         /\ Continues(S!H!GetBalanceOps(req))
         /\ Continues(S!H!GetBalanceBatch(req))
         /\ Continues(S!H!GetTransaction(req))
         /\ Continues(S!H!GetRestraint(req))
         /\ Continues(S!H!GetManualJE(req))
         /\ Continues(S!H!SuspenseAging(req))
         /\ Continues(S!H!GetClient(req))
         /\ Continues(S!H!GetClientFull(req))
         /\ Continues(S!H!GetClientFull360(req))
         /\ Continues(S!H!GetClient360(req))
         /\ Continues(S!H!GetBalance(req))
<1>1. Continues(S!H!GetAccount(req))
  BY DEF S!H!GetAccount, S!H!Handle, S!H!Refused, Continues
<1>2. Continues(S!H!ListAccountsByClient(req))
  BY DEF S!H!ListAccountsByClient, S!H!Handle, S!H!Refused, Continues
<1>3. Continues(S!H!GetBalanceOps(req))
  BY DEF S!H!GetBalanceOps, S!H!Handle, S!H!Refused, Continues
<1>4. Continues(S!H!GetBalanceBatch(req))
  BY DEF S!H!GetBalanceBatch, S!H!Handle, S!H!Refused, Continues
<1>5. Continues(S!H!GetTransaction(req))
  BY DEF S!H!GetTransaction, S!H!Handle, S!H!Refused, Continues
<1>6. Continues(S!H!GetRestraint(req))
  BY DEF S!H!GetRestraint, S!H!Handle, S!H!Refused, Continues
<1>7. Continues(S!H!GetManualJE(req))
  BY DEF S!H!GetManualJE, S!H!Handle, S!H!Refused, Continues
<1>8. Continues(S!H!SuspenseAging(req))
  BY DEF S!H!SuspenseAging, S!H!Handle, S!H!Refused, Continues
<1>9. Continues(S!H!GetClient(req))
  BY DEF S!H!GetClient, S!H!Handle, S!H!Refused, Continues
<1>10. Continues(S!H!GetClientFull(req))
  BY DEF S!H!GetClientFull, S!H!Logged, S!H!Handle, S!H!Refused, Continues
<1>11. Continues(S!H!GetClientFull360(req))
  BY DEF S!H!GetClientFull360, S!H!Logged, S!H!Handle, S!H!Refused, Continues
<1>12. Continues(S!H!GetClient360(req))
  BY DEF S!H!GetClient360, S!H!Handle, S!H!Refused, Continues
<1>13. Continues(S!H!GetBalance(req))
  BY DEF S!H!GetBalance, S!H!Handle, S!H!Refused, Continues
<1> QED
  BY <1>1, <1>2, <1>3, <1>4, <1>5, <1>6, <1>7, <1>8, <1>9, <1>10, <1>11, <1>12, <1>13

\* A search never names a next page.
NamesNoPage(p) == p.kind # "refuse" => "next_cursor" \notin p.answers["FRESH"].data

LEMMA SearchReads ==
  ASSUME NEW req \in Requests
  PROVE  NamesNoPage(S!H!SearchAccounts(req)) /\ NamesNoPage(S!H!SearchAccountsFull(req))
<1>1. "next_cursor" \notin S!H!AccountSearchResponse
  BY DEF S!H!AccountSearchResponse
<1>2. NamesNoPage(S!H!SearchAccounts(req))
  <2> DEFINE p == S!H!SearchAccounts(req)
             items == S!H!U!R!AccountSearchItem("client_name_masked")
  <2>1. p.kind # "refuse" =>
          p.answers["FRESH"].data = S!H!AccountSearchResponse \cup (items \ {"was_already_reversed"})
    BY DEF S!H!SearchAccounts, S!H!Paged, S!H!Handle, S!H!Refused, S!H!U!SearchAccounts,
       S!H!U!R!SearchAccounts, S!H!U!R!Query, S!H!Result, S!H!Outcomes, S!H!writeOK, S!H!Ok,
       S!H!SuccessEnvelope, S!H!AccountSearchRespFrom, S!H!AccountSearchItemResponse
  <2>2. "next_cursor" \notin items
    BY DEF S!H!U!R!AccountSearchItem
  <2> HIDE DEF p
  <2>3. NamesNoPage(p)
    BY <1>1, <2>1, <2>2 DEF NamesNoPage
  <2> QED
    BY <2>3 DEF p
<1>3. NamesNoPage(S!H!SearchAccountsFull(req))
  <2> DEFINE p == S!H!SearchAccountsFull(req)
             items == S!H!U!R!AccountSearchItem("client_name")
  <2>1. p.kind # "refuse" =>
          p.answers["FRESH"].data = S!H!AccountSearchResponse \cup (items \ {"was_already_reversed"})
    BY ZenonT(30)
      DEF S!H!SearchAccountsFull, S!H!Logged, S!H!Paged, S!H!Handle, S!H!Refused,
       S!H!U!SearchAccountsFull, S!H!U!R!SearchAccountsFull, S!H!U!R!Query, S!H!Result,
       S!H!Outcomes, S!H!writeOK, S!H!Ok, S!H!SuccessEnvelope, S!H!AccountSearchRespFrom,
       S!H!AccountSearchItemResponse
  <2>2. "next_cursor" \notin items
    BY DEF S!H!U!R!AccountSearchItem
  <2> HIDE DEF p
  <2>3. NamesNoPage(p)
    BY <1>1, <2>1, <2>2 DEF NamesNoPage
  <2> QED
    BY <2>3 DEF p
<1> QED
  BY <1>2, <1>3

\* A limit that was bounded stays where it is, and is not 0.
LEMMA ClampTwice ==
  ASSUME NEW limit \in Int, NEW size, size = <<100, 200>> \/ size = <<200, 200>>
  PROVE  /\ S!H!Clamp(limit, size) \in 1 .. 200
         /\ \A n \in 1 .. 200 : S!H!U!Clamp(n, size) = n /\ S!H!U!R!Clamp(n, size) = n
  BY DEF S!H!Clamp, S!H!U!Clamp, S!H!U!R!Clamp

\* A page that stops at the limit of its query, which is the one it was asked for, goes on.
LEMMA PageContinues ==
  ASSUME NEW p, NEW req \in Requests, NEW call0, NEW limit \in Int, NEW response, NEW v,
         limit > 0, call0.limit = limit, "next_cursor" \in response,
         p.kind # "refuse" =>
           /\ p.all = (S!H!Rows(call0, req) = req.rows)
           /\ p.answers["FRESH"].data = S!H!Page(response, v, limit, S!H!Rows(call0, req))
  PROVE  Continues(p)
<1> SUFFICES ASSUME p.kind # "refuse", ~p.all PROVE "next_cursor" \in p.answers["FRESH"].data
  BY DEF Continues
<1>1. S!H!Rows(call0, req) = limit
  BY DEF S!H!Rows
<1>2. "next_cursor" \in S!H!Cursor(limit, S!H!Rows(call0, req))
  BY <1>1 DEF S!H!Cursor
<1> QED
  BY <1>2 DEF S!H!Page

\* The lists; the one of journal entries only where no more was asked for than a page holds.
LEMMA ListReads ==
  ASSUME NEW req \in Requests
  PROVE  /\ Continues(S!H!ListTransactions(req))
         /\ Continues(S!H!ListRestraints(req))
         /\ Continues(S!H!ListClients(req))
         /\ Continues(S!H!ListClientsFull(req))
         /\ LET p == S!H!ListManualJE(req) IN
            p.kind # "refuse" /\ ~p.all =>
              ("next_cursor" \in p.answers["FRESH"].data <=> ~p.over)
<1>1. Continues(S!H!ListTransactions(req))
  <2> DEFINE p == S!H!ListTransactions(req)
             limit == S!H!Clamp(req.limit, S!H!TxPageSize)
             asked == S!H!U!ListTransactions(limit)
             v == S!H!Result(p.call, "FRESH") \cap S!H!TxEntryResponse
  <2>1. limit \in 1 .. 200 /\ asked.limit = limit
    BY ClampTwice DEF Requests, S!H!U!ListTransactions, S!H!U!R!ListTransactions, S!H!U!R!Query,
         S!H!TxPageSize, S!H!U!TxPageSize, S!H!U!R!TxPageSize
  <2>2. "next_cursor" \in S!H!TxListResponse
    BY DEF S!H!TxListResponse
  <2>3. p.kind # "refuse" =>
          /\ p.all = (S!H!Rows(asked, req) = req.rows)
          /\ p.answers["FRESH"].data =
               S!H!Page(S!H!TxListResponse, v, limit, S!H!Rows(asked, req))
    BY DEF S!H!ListTransactions, S!H!Paged, S!H!Handle, S!H!Refused, S!H!Outcomes, S!H!writeOK,
         S!H!Ok, S!H!SuccessEnvelope, S!H!TxListRespFrom
  <2> HIDE DEF p, limit, asked, v
  <2>4. Continues(p)
    <3>1. limit \in Int /\ limit > 0
      BY <2>1
    <3> QED
      BY <2>1, <3>1, <2>2, <2>3, PageContinues
  <2> QED
    BY <2>4 DEF p
<1>2. Continues(S!H!ListRestraints(req))
  <2> DEFINE p == S!H!ListRestraints(req)
             limit == S!H!Clamp(req.limit, S!H!RestraintPageSize)
             asked == S!H!U!ListRestraints(limit)
             v == S!H!restraintViewResp(S!H!Result(p.call, "FRESH"))
  <2>1. limit \in 1 .. 200 /\ asked.limit = limit
    BY ClampTwice DEF Requests, S!H!U!ListRestraints, S!H!U!R!ListRestraints, S!H!U!R!Query,
         S!H!RestraintPageSize, S!H!U!RestraintPageSize, S!H!U!R!RestraintPageSize
  <2>2. "next_cursor" \in S!H!RestraintListResponse
    BY DEF S!H!RestraintListResponse
  <2>3. p.kind # "refuse" =>
          /\ p.all = (S!H!Rows(asked, req) = req.rows)
          /\ p.answers["FRESH"].data =
               S!H!Page(S!H!RestraintListResponse, v, limit, S!H!Rows(asked, req))
    BY DEF S!H!ListRestraints, S!H!Paged, S!H!Handle, S!H!Refused, S!H!Outcomes, S!H!writeOK,
         S!H!Ok, S!H!SuccessEnvelope, S!H!RestraintListRespFrom
  <2> HIDE DEF p, limit, asked, v
  <2>4. Continues(p)
    <3>1. limit \in Int /\ limit > 0
      BY <2>1
    <3> QED
      BY <2>1, <3>1, <2>2, <2>3, PageContinues
  <2> QED
    BY <2>4 DEF p
<1>3. Continues(S!H!ListClients(req))
  <2> DEFINE p == S!H!ListClients(req)
             limit == S!H!Clamp(req.limit, S!H!ClientPageSize)
             asked == S!H!U!ListClients(limit)
             v == S!H!ClientProfileRespFrom(S!H!Result(p.call, "FRESH"))
  <2>1. limit \in 1 .. 200 /\ asked.limit = limit
    BY ClampTwice DEF Requests, S!H!U!ListClients, S!H!U!R!ListClients, S!H!U!R!Query,
         S!H!ClientPageSize, S!H!U!ClientPageSize, S!H!U!R!ClientPageSize
  <2>2. "next_cursor" \in S!H!ClientListResponse
    BY DEF S!H!ClientListResponse
  <2>3. p.kind # "refuse" =>
          /\ p.all = (S!H!Rows(asked, req) = req.rows)
          /\ p.answers["FRESH"].data =
               S!H!Page(S!H!ClientListResponse, v, limit, S!H!Rows(asked, req))
    BY DEF S!H!ListClients, S!H!parseClientListQuery, S!H!Paged, S!H!Handle, S!H!Refused,
         S!H!Outcomes, S!H!writeOK, S!H!Ok, S!H!SuccessEnvelope, S!H!ClientListRespFrom
  <2> HIDE DEF p, limit, asked, v
  <2>4. Continues(p)
    <3>1. limit \in Int /\ limit > 0
      BY <2>1
    <3> QED
      BY <2>1, <3>1, <2>2, <2>3, PageContinues
  <2> QED
    BY <2>4 DEF p
<1>4. Continues(S!H!ListClientsFull(req))
  <2> DEFINE p == S!H!ListClientsFull(req)
             limit == S!H!Clamp(req.limit, S!H!ClientPageSize)
             asked == S!H!U!ListClientsFull(limit)
             v == S!H!ClientFullRespFrom(S!H!Result(p.call, "FRESH"))
  <2>1. limit \in 1 .. 200 /\ asked.limit = limit
    BY ClampTwice DEF Requests, S!H!U!ListClientsFull, S!H!U!R!ListClientsFull, S!H!U!R!Query,
         S!H!U!R!readWithDEK, S!H!ClientPageSize, S!H!U!ClientPageSize, S!H!U!R!ClientPageSize
  <2>2. "next_cursor" \in S!H!ClientFullListResponse
    BY DEF S!H!ClientFullListResponse
  <2>3. p.kind # "refuse" =>
          /\ p.all = (S!H!Rows(asked, req) = req.rows)
          /\ p.answers["FRESH"].data =
               S!H!Page(S!H!ClientFullListResponse, v, limit, S!H!Rows(asked, req))
    BY DEF S!H!ListClientsFull, S!H!parseClientListQuery, S!H!Logged, S!H!Paged, S!H!Handle,
         S!H!Refused, S!H!Outcomes, S!H!writeOK, S!H!Ok, S!H!SuccessEnvelope,
         S!H!ClientFullListRespFrom
  <2> HIDE DEF p, limit, asked, v
  <2>4. Continues(p)
    <3>1. limit \in Int /\ limit > 0
      BY <2>1
    <3> QED
      BY <2>1, <3>1, <2>2, <2>3, PageContinues
  <2> QED
    BY <2>4 DEF p
<1>5. LET p == S!H!ListManualJE(req) IN
      p.kind # "refuse" /\ ~p.all => ("next_cursor" \in p.answers["FRESH"].data <=> ~p.over)
  <2> DEFINE p == S!H!ListManualJE(req)
             limit == IF req.limit > 0 THEN req.limit ELSE S!H!ManualJEPageSize[1]
             asked == S!H!U!ListManualJE(limit)
             v == S!H!manualJEView(S!H!Result(p.call, "FRESH"))
             shown == S!H!Rows(asked, req)
  <2>1. /\ limit \in Int /\ limit > 0 /\ req.limit \in Int /\ req.limit <= limit
        /\ asked.limit = IF limit > 200 THEN 200 ELSE limit
        /\ limit > 200 => req.limit > 200
    BY DEF Requests, S!H!U!ListManualJE, S!H!U!R!ListManualJE, S!H!U!R!Query, S!H!Clamp,
         S!H!U!Clamp, S!H!U!R!Clamp, S!H!ManualJEPageSize, S!H!U!ManualJEPageSize,
         S!H!U!R!ManualJEPageSize
  <2>2. "next_cursor" \in S!H!ManualJEListResponse
    BY DEF S!H!ManualJEListResponse
  <2>3. p.kind # "refuse" =>
          /\ p.all = (shown = req.rows) /\ p.over = (req.limit > asked.limit)
          /\ p.answers["FRESH"].data = S!H!Page(S!H!ManualJEListResponse, v, limit, shown)
    BY DEF S!H!ListManualJE, S!H!Paged, S!H!Handle, S!H!Refused, S!H!Outcomes, S!H!writeOK,
         S!H!Ok, S!H!SuccessEnvelope, S!H!ManualJEListRespFrom
  <2>4. "next_cursor" \notin v \cup {"acct_no", "page_size", "count"}
    BY DEF S!H!manualJEView, S!H!ManualJEViewResponse, S!H!ManualJELineResponse, S!H!ManualJEView,
         S!H!ManualJELineView, S!H!ManualJELine
  <2> HIDE DEF p, limit, asked, v, shown
  <2>5. ASSUME p.kind # "refuse", ~p.all
        PROVE  "next_cursor" \in p.answers["FRESH"].data <=> ~p.over
    <3>1. shown = asked.limit
      BY <2>3, <2>5 DEF shown, S!H!Rows
    <3>2. "next_cursor" \in p.answers["FRESH"].data <=> asked.limit = limit
      BY <2>1, <2>2, <2>3, <2>4, <2>5, <3>1 DEF S!H!Page, S!H!Cursor
    <3>3. req.limit > asked.limit <=> asked.limit # limit
      BY <2>1
    <3>4. p.over <=> asked.limit # limit
      BY <2>3, <2>5, <3>3
    <3> QED
      BY <3>2, <3>4
  <2> QED
    BY <2>5 DEF p
<1> QED
  BY <1>1, <1>2, <1>3, <1>4, <1>5

-----------------------------------------------------------------------------
(* The routes                                                              *)

\* Where a plan may show raw personal data: on the routes of the operators' role with an entry
\* of the log, and the name of the holder on three others without.
Discloses(path, p) ==
  LET raw == p.answers["FRESH"].data \cap RawPii IN
  /\ raw # {} => \/ path \in S!OpsRoutes /\ p.log \in PIIAccess /\ "pii" \in p.call.pools
                 \/ raw \subseteq HolderName /\ path \in NamesUnlogged
  /\ path \in NamesUnlogged => raw # {} /\ p.log = ""

\* What the plan of a route promises: only the routes that come with an actor write.
Queries == S!Gets \cup {"ops/accounts/balance/batch"}
Duties(path, p) ==
  /\ Promised(p)
  /\ p.kind = "write" => path \in S!Posts
  /\ p.kind = "read" => path \in Queries
  /\ p.kind = "read" => Discloses(path, p)

LEMMA WriteDuties ==
  ASSUME NEW p, NEW path \in S!Posts, Acts(p)
  PROVE  Duties(path, p)
  BY DEF Acts, Promised, Duties

LEMMA PlainDuties ==
  ASSUME NEW p, NEW path \in Queries \ NamesUnlogged, Plainly(p)
  PROVE  Duties(path, p)
<1>1. p.kind # "write" /\ (p.kind = "read" => p.answers["FRESH"].data \cap RawPii = {})
  BY RefusedKind DEF Plainly
<1> QED
  BY <1>1, ReadPromise DEF Duties, Discloses

LEMMA OpenDuties ==
  ASSUME NEW p, NEW path \in S!OpsRoutes, Openly(p)
  PROVE  Duties(path, p)
<1>1. p.kind # "write" /\ (p.kind = "read" => p.log \in PIIAccess /\ "pii" \in p.call.pools)
  BY RefusedKind DEF Openly
<1>2. path \in Queries /\ path \notin NamesUnlogged
  BY DEF Queries, S!Gets, S!OpsRoutes, NamesUnlogged
<1> QED
  BY <1>1, <1>2, ReadPromise DEF Duties, Discloses

LEMMA NameDuties ==
  ASSUME NEW p, NEW path \in NamesUnlogged, Namely(p)
  PROVE  Duties(path, p)
<1>1. /\ p.kind # "write"
      /\ p.kind = "read" => /\ p.answers["FRESH"].data \cap RawPii \subseteq HolderName
                            /\ "acct_desc" \in p.answers["FRESH"].data
                            /\ p.log = ""
  BY RefusedKind DEF Namely
<1>2. path \in Queries
  BY DEF Queries, S!Gets, NamesUnlogged
<1>3. "acct_desc" \in RawPii
  BY DEF RawPii, HolderName
<1> QED
  BY <1>1, <1>2, <1>3, ReadPromise DEF Duties, Discloses

\* Postings.
LEMMA PostingRoutes ==
  ASSUME NEW req \in Requests
  PROVE  /\ Duties("topup", S!Dispatch("topup", req))
         /\ Duties("transfer", S!Dispatch("transfer", req))
         /\ Duties("withdraw", S!Dispatch("withdraw", req))
         /\ Duties("fee-charge", S!Dispatch("fee-charge", req))
         /\ Duties("merchant-deposit", S!Dispatch("merchant-deposit", req))
<1>1. Duties("topup", S!Dispatch("topup", req))
  <2>1. S!Dispatch("topup", req) = S!H!Topup(req) /\ "topup" \in S!Posts
    BY DEF S!Dispatch, S!Posts, S!ReverseRoutes, S!TreasuryRoutes
  <2> QED
    BY <2>1, PostingPlans, WriteDuties
<1>2. Duties("transfer", S!Dispatch("transfer", req))
  <2>1. S!Dispatch("transfer", req) = S!H!Transfer(req) /\ "transfer" \in S!Posts
    BY DEF S!Dispatch, S!Posts, S!ReverseRoutes, S!TreasuryRoutes
  <2> QED
    BY <2>1, PostingPlans, WriteDuties
<1>3. Duties("withdraw", S!Dispatch("withdraw", req))
  <2>1. S!Dispatch("withdraw", req) = S!H!Withdraw(req) /\ "withdraw" \in S!Posts
    BY DEF S!Dispatch, S!Posts, S!ReverseRoutes, S!TreasuryRoutes
  <2> QED
    BY <2>1, PostingPlans, WriteDuties
<1>4. Duties("fee-charge", S!Dispatch("fee-charge", req))
  <2>1. S!Dispatch("fee-charge", req) = S!H!FeeCharge(req) /\ "fee-charge" \in S!Posts
    BY DEF S!Dispatch, S!Posts, S!ReverseRoutes, S!TreasuryRoutes
  <2> QED
    BY <2>1, PostingPlans, WriteDuties
<1>5. Duties("merchant-deposit", S!Dispatch("merchant-deposit", req))
  <2>1. /\ S!Dispatch("merchant-deposit", req) = S!H!MerchantDeposit(req)
        /\ "merchant-deposit" \in S!Posts
    BY DEF S!Dispatch, S!Posts, S!ReverseRoutes, S!TreasuryRoutes
  <2> QED
    BY <2>1, PostingPlans, WriteDuties
<1> QED
  BY <1>1, <1>2, <1>3, <1>4, <1>5

\* Reversals.
LEMMA ReversalRoutes ==
  ASSUME NEW req \in Requests
  PROVE  /\ Duties("withdraw/reverse", S!Dispatch("withdraw/reverse", req))
         /\ Duties("fee-charge/reverse", S!Dispatch("fee-charge/reverse", req))
         /\ Duties("reverse", S!Dispatch("reverse", req))
         /\ Duties("topup/reverse", S!Dispatch("topup/reverse", req))
         /\ Duties("merchant-withdraw/reverse", S!Dispatch("merchant-withdraw/reverse", req))
<1>1. Duties("withdraw/reverse", S!Dispatch("withdraw/reverse", req))
  <2>1. S!Dispatch("withdraw/reverse", req) = S!H!Reverse(req) /\ "withdraw/reverse" \in S!Posts
    BY DEF S!Dispatch, S!Posts, S!ReverseRoutes, S!TreasuryRoutes
  <2> QED
    BY <2>1, ReversalPlans, WriteDuties
<1>2. Duties("fee-charge/reverse", S!Dispatch("fee-charge/reverse", req))
  <2>1. /\ S!Dispatch("fee-charge/reverse", req) = S!H!ReverseFeeCharge(req)
        /\ "fee-charge/reverse" \in S!Posts
    BY DEF S!Dispatch, S!Posts, S!ReverseRoutes, S!TreasuryRoutes
  <2> QED
    BY <2>1, ReversalPlans, WriteDuties
<1>3. Duties("reverse", S!Dispatch("reverse", req))
  <2>1. S!Dispatch("reverse", req) = S!H!ReverseTransfer(req) /\ "reverse" \in S!Posts
    BY DEF S!Dispatch, S!Posts, S!ReverseRoutes, S!TreasuryRoutes
  <2> QED
    BY <2>1, ReversalPlans, WriteDuties
<1>4. Duties("topup/reverse", S!Dispatch("topup/reverse", req))
  <2>1. S!Dispatch("topup/reverse", req) = S!H!ReverseTopup(req) /\ "topup/reverse" \in S!Posts
    BY DEF S!Dispatch, S!Posts, S!ReverseRoutes, S!TreasuryRoutes
  <2> QED
    BY <2>1, ReversalPlans, WriteDuties
<1>5. Duties("merchant-withdraw/reverse", S!Dispatch("merchant-withdraw/reverse", req))
  <2>1. /\ S!Dispatch("merchant-withdraw/reverse", req) = S!H!ReverseMerchantWithdraw(req)
        /\ "merchant-withdraw/reverse" \in S!Posts
    BY DEF S!Dispatch, S!Posts, S!ReverseRoutes, S!TreasuryRoutes
  <2> QED
    BY <2>1, ReversalPlans, WriteDuties
<1> QED
  BY <1>1, <1>2, <1>3, <1>4, <1>5

\* Callbacks.
LEMMA StepRoutes ==
  ASSUME NEW req \in Requests
  PROVE  /\ Duties("acked", S!Dispatch("acked", req))
         /\ Duties("disbursing", S!Dispatch("disbursing", req))
         /\ Duties("completed", S!Dispatch("completed", req))
<1>1. Duties("acked", S!Dispatch("acked", req))
  <2>1. S!Dispatch("acked", req) = S!H!MarkAcked(req) /\ "acked" \in S!Posts
    BY DEF S!Dispatch, S!Posts, S!ReverseRoutes, S!TreasuryRoutes
  <2> QED
    BY <2>1, StepPlans, WriteDuties
<1>2. Duties("disbursing", S!Dispatch("disbursing", req))
  <2>1. S!Dispatch("disbursing", req) = S!H!MarkDisbursing(req) /\ "disbursing" \in S!Posts
    BY DEF S!Dispatch, S!Posts, S!ReverseRoutes, S!TreasuryRoutes
  <2> QED
    BY <2>1, StepPlans, WriteDuties
<1>3. Duties("completed", S!Dispatch("completed", req))
  <2>1. S!Dispatch("completed", req) = S!H!MarkCompleted(req) /\ "completed" \in S!Posts
    BY DEF S!Dispatch, S!Posts, S!ReverseRoutes, S!TreasuryRoutes
  <2> QED
    BY <2>1, StepPlans, WriteDuties
<1> QED
  BY <1>1, <1>2, <1>3

\* Groups, restraints, journal entries, clients and accounts.
LEMMA OtherRoutes ==
  ASSUME NEW req \in Requests
  PROVE  /\ Duties("groups/activate", S!Dispatch("groups/activate", req))
         /\ Duties("groups/rescale", S!Dispatch("groups/rescale", req))
         /\ Duties("restraints/release", S!Dispatch("restraints/release", req))
         /\ Duties("ops/je/approve", S!Dispatch("ops/je/approve", req))
         /\ Duties("ops/je/reject", S!Dispatch("ops/je/reject", req))
         /\ Duties("groups/provision", S!Dispatch("groups/provision", req))
         /\ Duties("ops/je/create", S!Dispatch("ops/je/create", req))
         /\ Duties("onboard", S!Dispatch("onboard", req))
         /\ Duties("clients/update", S!Dispatch("clients/update", req))
         /\ Duties("clients/kyc", S!Dispatch("clients/kyc", req))
         /\ Duties("accounts/status", S!Dispatch("accounts/status", req))
         /\ Duties("clients/banks/default", S!Dispatch("clients/banks/default", req))
         /\ Duties("clients/documents", S!Dispatch("clients/documents", req))
         /\ Duties("restraints/add", S!Dispatch("restraints/add", req))
         /\ Duties("clients/banks", S!Dispatch("clients/banks", req))
<1>1. Duties("groups/activate", S!Dispatch("groups/activate", req))
  <2>1. /\ S!Dispatch("groups/activate", req) = S!H!ActivateHotWallet(req)
        /\ "groups/activate" \in S!Posts
    BY DEF S!Dispatch, S!Posts, S!ReverseRoutes, S!TreasuryRoutes
  <2> QED
    BY <2>1, OtherPlans, WriteDuties
<1>2. Duties("groups/rescale", S!Dispatch("groups/rescale", req))
  <2>1. /\ S!Dispatch("groups/rescale", req) = S!H!RescaleHotWallet(req)
        /\ "groups/rescale" \in S!Posts
    BY DEF S!Dispatch, S!Posts, S!ReverseRoutes, S!TreasuryRoutes
  <2> QED
    BY <2>1, OtherPlans, WriteDuties
<1>3. Duties("restraints/release", S!Dispatch("restraints/release", req))
  <2>1. /\ S!Dispatch("restraints/release", req) = S!H!ReleaseRestraint(req)
        /\ "restraints/release" \in S!Posts
    BY DEF S!Dispatch, S!Posts, S!ReverseRoutes, S!TreasuryRoutes
  <2> QED
    BY <2>1, OtherPlans, WriteDuties
<1>4. Duties("ops/je/approve", S!Dispatch("ops/je/approve", req))
  <2>1. S!Dispatch("ops/je/approve", req) = S!H!ApproveManualJE(req) /\ "ops/je/approve" \in S!Posts
    BY DEF S!Dispatch, S!Posts, S!ReverseRoutes, S!TreasuryRoutes
  <2> QED
    BY <2>1, OtherPlans, WriteDuties
<1>5. Duties("ops/je/reject", S!Dispatch("ops/je/reject", req))
  <2>1. S!Dispatch("ops/je/reject", req) = S!H!RejectManualJE(req) /\ "ops/je/reject" \in S!Posts
    BY DEF S!Dispatch, S!Posts, S!ReverseRoutes, S!TreasuryRoutes
  <2> QED
    BY <2>1, OtherPlans, WriteDuties
<1>6. Duties("groups/provision", S!Dispatch("groups/provision", req))
  <2>1. /\ S!Dispatch("groups/provision", req) = S!H!ProvisionAcctGroup(req)
        /\ "groups/provision" \in S!Posts
    BY DEF S!Dispatch, S!Posts, S!ReverseRoutes, S!TreasuryRoutes
  <2> QED
    BY <2>1, OtherPlans, WriteDuties
<1>7. Duties("ops/je/create", S!Dispatch("ops/je/create", req))
  <2>1. S!Dispatch("ops/je/create", req) = S!H!CreateManualJE(req) /\ "ops/je/create" \in S!Posts
    BY DEF S!Dispatch, S!Posts, S!ReverseRoutes, S!TreasuryRoutes
  <2> QED
    BY <2>1, OtherPlans, WriteDuties
<1>8. Duties("onboard", S!Dispatch("onboard", req))
  <2>1. S!Dispatch("onboard", req) = S!H!Onboard(req) /\ "onboard" \in S!Posts
    BY DEF S!Dispatch, S!Posts, S!ReverseRoutes, S!TreasuryRoutes
  <2> QED
    BY <2>1, OtherPlans, WriteDuties
<1>9. Duties("clients/update", S!Dispatch("clients/update", req))
  <2>1. S!Dispatch("clients/update", req) = S!H!UpdateClient(req) /\ "clients/update" \in S!Posts
    BY DEF S!Dispatch, S!Posts, S!ReverseRoutes, S!TreasuryRoutes
  <2> QED
    BY <2>1, OtherPlans, WriteDuties
<1>10. Duties("clients/kyc", S!Dispatch("clients/kyc", req))
  <2>1. S!Dispatch("clients/kyc", req) = S!H!UpdateKYC(req) /\ "clients/kyc" \in S!Posts
    BY DEF S!Dispatch, S!Posts, S!ReverseRoutes, S!TreasuryRoutes
  <2> QED
    BY <2>1, OtherPlans, WriteDuties
<1>11. Duties("accounts/status", S!Dispatch("accounts/status", req))
  <2>1. /\ S!Dispatch("accounts/status", req) = S!H!UpdateAccountStatus(req)
        /\ "accounts/status" \in S!Posts
    BY DEF S!Dispatch, S!Posts, S!ReverseRoutes, S!TreasuryRoutes
  <2> QED
    BY <2>1, OtherPlans, WriteDuties
<1>12. Duties("clients/banks/default", S!Dispatch("clients/banks/default", req))
  <2>1. /\ S!Dispatch("clients/banks/default", req) = S!H!SetDefaultClientBank(req)
        /\ "clients/banks/default" \in S!Posts
    BY DEF S!Dispatch, S!Posts, S!ReverseRoutes, S!TreasuryRoutes
  <2> QED
    BY <2>1, OtherPlans, WriteDuties
<1>13. Duties("clients/documents", S!Dispatch("clients/documents", req))
  <2>1. /\ S!Dispatch("clients/documents", req) = S!H!AttachClientDocument(req)
        /\ "clients/documents" \in S!Posts
    BY DEF S!Dispatch, S!Posts, S!ReverseRoutes, S!TreasuryRoutes
  <2> QED
    BY <2>1, OtherPlans, WriteDuties
<1>14. Duties("restraints/add", S!Dispatch("restraints/add", req))
  <2>1. S!Dispatch("restraints/add", req) = S!H!AddRestraint(req) /\ "restraints/add" \in S!Posts
    BY DEF S!Dispatch, S!Posts, S!ReverseRoutes, S!TreasuryRoutes
  <2> QED
    BY <2>1, OtherPlans, WriteDuties
<1>15. Duties("clients/banks", S!Dispatch("clients/banks", req))
  <2>1. S!Dispatch("clients/banks", req) = S!H!LinkClientBank(req) /\ "clients/banks" \in S!Posts
    BY DEF S!Dispatch, S!Posts, S!ReverseRoutes, S!TreasuryRoutes
  <2> QED
    BY <2>1, OtherPlans, WriteDuties
<1> QED
  BY <1>1, <1>2, <1>3, <1>4, <1>5, <1>6, <1>7, <1>8, <1>9, <1>10, <1>11, <1>12, <1>13,
     <1>14, <1>15

\* The three with a plan of their own.
LEMMA SpecialRoutes ==
  ASSUME NEW req \in Requests
  PROVE  /\ Duties("merchant-withdraw", S!Dispatch("merchant-withdraw", req))
         /\ Duties("accounts/open", S!Dispatch("accounts/open", req))
         /\ Duties("clients/create", S!Dispatch("clients/create", req))
<1>1. Duties("merchant-withdraw", S!Dispatch("merchant-withdraw", req))
  <2>1. /\ S!Dispatch("merchant-withdraw", req) = S!H!MerchantWithdraw(req)
        /\ "merchant-withdraw" \in S!Posts
    BY DEF S!Dispatch, S!Posts, S!ReverseRoutes, S!TreasuryRoutes
  <2> QED
    BY <2>1, MerchantWithdrawPlan, OpenAccountPlan, CreateClientPlan, WriteDuties
<1>2. Duties("accounts/open", S!Dispatch("accounts/open", req))
  <2>1. S!Dispatch("accounts/open", req) = S!H!OpenAccount(req) /\ "accounts/open" \in S!Posts
    BY DEF S!Dispatch, S!Posts, S!ReverseRoutes, S!TreasuryRoutes
  <2> QED
    BY <2>1, MerchantWithdrawPlan, OpenAccountPlan, CreateClientPlan, WriteDuties
<1>3. Duties("clients/create", S!Dispatch("clients/create", req))
  <2>1. S!Dispatch("clients/create", req) = S!H!CreateClient(req) /\ "clients/create" \in S!Posts
    BY DEF S!Dispatch, S!Posts, S!ReverseRoutes, S!TreasuryRoutes
  <2> QED
    BY <2>1, MerchantWithdrawPlan, OpenAccountPlan, CreateClientPlan, WriteDuties
<1> QED
  BY <1>1, <1>2, <1>3

\* Queries.
LEMMA PlainRoutes ==
  ASSUME NEW req \in Requests
  PROVE  /\ Duties("accounts/search", S!Dispatch("accounts/search", req))
         /\ Duties("ops/accounts/balance", S!Dispatch("ops/accounts/balance", req))
         /\ Duties("ops/accounts/balance/batch", S!Dispatch("ops/accounts/balance/batch", req))
         /\ Duties("transactions/one", S!Dispatch("transactions/one", req))
         /\ Duties("restraints/one", S!Dispatch("restraints/one", req))
         /\ Duties("ops/je/one", S!Dispatch("ops/je/one", req))
         /\ Duties("ops/suspense", S!Dispatch("ops/suspense", req))
         /\ Duties("clients/one", S!Dispatch("clients/one", req))
         /\ Duties("transactions", S!Dispatch("transactions", req))
         /\ Duties("restraints", S!Dispatch("restraints", req))
         /\ Duties("ops/je", S!Dispatch("ops/je", req))
         /\ Duties("clients", S!Dispatch("clients", req))
         /\ Duties("accounts/balance", S!Dispatch("accounts/balance", req))
<1>1. Duties("accounts/search", S!Dispatch("accounts/search", req))
  <2>1. /\ S!Dispatch("accounts/search", req) = S!H!SearchAccounts(req)
        /\ "accounts/search" \in Queries \ NamesUnlogged
    BY DEF S!Dispatch, Queries, S!Gets, S!OpsRoutes, S!JEReads, NamesUnlogged
  <2> QED
    BY <2>1, PlainReads, PlainDuties
<1>2. Duties("ops/accounts/balance", S!Dispatch("ops/accounts/balance", req))
  <2>1. /\ S!Dispatch("ops/accounts/balance", req) = S!H!GetBalanceOps(req)
        /\ "ops/accounts/balance" \in Queries \ NamesUnlogged
    BY DEF S!Dispatch, Queries, S!Gets, S!OpsRoutes, S!JEReads, NamesUnlogged
  <2> QED
    BY <2>1, PlainReads, PlainDuties
<1>3. Duties("ops/accounts/balance/batch", S!Dispatch("ops/accounts/balance/batch", req))
  <2>1. /\ S!Dispatch("ops/accounts/balance/batch", req) = S!H!GetBalanceBatch(req)
        /\ "ops/accounts/balance/batch" \in Queries \ NamesUnlogged
    BY DEF S!Dispatch, Queries, S!Gets, S!OpsRoutes, S!JEReads, NamesUnlogged
  <2> QED
    BY <2>1, PlainReads, PlainDuties
<1>4. Duties("transactions/one", S!Dispatch("transactions/one", req))
  <2>1. /\ S!Dispatch("transactions/one", req) = S!H!GetTransaction(req)
        /\ "transactions/one" \in Queries \ NamesUnlogged
    BY DEF S!Dispatch, Queries, S!Gets, S!OpsRoutes, S!JEReads, NamesUnlogged
  <2> QED
    BY <2>1, PlainReads, PlainDuties
<1>5. Duties("restraints/one", S!Dispatch("restraints/one", req))
  <2>1. S!Dispatch("restraints/one", req) = S!H!GetRestraint(req) /\ "restraints/one" \in Queries \ NamesUnlogged
    BY DEF S!Dispatch, Queries, S!Gets, S!OpsRoutes, S!JEReads, NamesUnlogged
  <2> QED
    BY <2>1, PlainReads, PlainDuties
<1>6. Duties("ops/je/one", S!Dispatch("ops/je/one", req))
  <2>1. S!Dispatch("ops/je/one", req) = S!H!GetManualJE(req) /\ "ops/je/one" \in Queries \ NamesUnlogged
    BY DEF S!Dispatch, Queries, S!Gets, S!OpsRoutes, S!JEReads, NamesUnlogged
  <2> QED
    BY <2>1, PlainReads, PlainDuties
<1>7. Duties("ops/suspense", S!Dispatch("ops/suspense", req))
  <2>1. S!Dispatch("ops/suspense", req) = S!H!SuspenseAging(req) /\ "ops/suspense" \in Queries \ NamesUnlogged
    BY DEF S!Dispatch, Queries, S!Gets, S!OpsRoutes, S!JEReads, NamesUnlogged
  <2> QED
    BY <2>1, PlainReads, PlainDuties
<1>8. Duties("clients/one", S!Dispatch("clients/one", req))
  <2>1. S!Dispatch("clients/one", req) = S!H!GetClient(req) /\ "clients/one" \in Queries \ NamesUnlogged
    BY DEF S!Dispatch, Queries, S!Gets, S!OpsRoutes, S!JEReads, NamesUnlogged
  <2> QED
    BY <2>1, PlainReads, PlainDuties
<1>9. Duties("transactions", S!Dispatch("transactions", req))
  <2>1. S!Dispatch("transactions", req) = S!H!ListTransactions(req) /\ "transactions" \in Queries \ NamesUnlogged
    BY DEF S!Dispatch, Queries, S!Gets, S!OpsRoutes, S!JEReads, NamesUnlogged
  <2> QED
    BY <2>1, PlainReads, PlainDuties
<1>10. Duties("restraints", S!Dispatch("restraints", req))
  <2>1. S!Dispatch("restraints", req) = S!H!ListRestraints(req) /\ "restraints" \in Queries \ NamesUnlogged
    BY DEF S!Dispatch, Queries, S!Gets, S!OpsRoutes, S!JEReads, NamesUnlogged
  <2> QED
    BY <2>1, PlainReads, PlainDuties
<1>11. Duties("ops/je", S!Dispatch("ops/je", req))
  <2>1. S!Dispatch("ops/je", req) = S!H!ListManualJE(req) /\ "ops/je" \in Queries \ NamesUnlogged
    BY DEF S!Dispatch, Queries, S!Gets, S!OpsRoutes, S!JEReads, NamesUnlogged
  <2> QED
    BY <2>1, PlainReads, PlainDuties
<1>12. Duties("clients", S!Dispatch("clients", req))
  <2>1. S!Dispatch("clients", req) = S!H!ListClients(req) /\ "clients" \in Queries \ NamesUnlogged
    BY DEF S!Dispatch, Queries, S!Gets, S!OpsRoutes, S!JEReads, NamesUnlogged
  <2> QED
    BY <2>1, PlainReads, PlainDuties
<1>13. Duties("accounts/balance", S!Dispatch("accounts/balance", req))
  <2>1. S!Dispatch("accounts/balance", req) = S!H!GetBalance(req) /\ "accounts/balance" \in Queries \ NamesUnlogged
    BY DEF S!Dispatch, Queries, S!Gets, S!OpsRoutes, S!JEReads, NamesUnlogged
  <2> QED
    BY <2>1, PlainReads, PlainDuties
<1> QED
  BY <1>1, <1>2, <1>3, <1>4, <1>5, <1>6, <1>7, <1>8, <1>9, <1>10, <1>11, <1>12, <1>13

\* Unmasked queries.
LEMMA OpenRoutes ==
  ASSUME NEW req \in Requests
  PROVE  /\ Duties("ops/accounts/search", S!Dispatch("ops/accounts/search", req))
         /\ Duties("ops/clients/one", S!Dispatch("ops/clients/one", req))
         /\ Duties("ops/clients", S!Dispatch("ops/clients", req))
         /\ Duties("ops/clients/360", S!Dispatch("ops/clients/360", req))
<1>1. Duties("ops/accounts/search", S!Dispatch("ops/accounts/search", req))
  <2>1. /\ S!Dispatch("ops/accounts/search", req) = S!H!SearchAccountsFull(req)
        /\ "ops/accounts/search" \in S!OpsRoutes
    BY DEF S!Dispatch, S!OpsRoutes
  <2> QED
    BY <2>1, OpenReads, OpenDuties
<1>2. Duties("ops/clients/one", S!Dispatch("ops/clients/one", req))
  <2>1. /\ S!Dispatch("ops/clients/one", req) = S!H!GetClientFull(req)
        /\ "ops/clients/one" \in S!OpsRoutes
    BY DEF S!Dispatch, S!OpsRoutes
  <2> QED
    BY <2>1, OpenReads, OpenDuties
<1>3. Duties("ops/clients", S!Dispatch("ops/clients", req))
  <2>1. S!Dispatch("ops/clients", req) = S!H!ListClientsFull(req) /\ "ops/clients" \in S!OpsRoutes
    BY DEF S!Dispatch, S!OpsRoutes
  <2> QED
    BY <2>1, OpenReads, OpenDuties
<1>4. Duties("ops/clients/360", S!Dispatch("ops/clients/360", req))
  <2>1. /\ S!Dispatch("ops/clients/360", req) = S!H!GetClientFull360(req)
        /\ "ops/clients/360" \in S!OpsRoutes
    BY DEF S!Dispatch, S!OpsRoutes
  <2> QED
    BY <2>1, OpenReads, OpenDuties
<1> QED
  BY <1>1, <1>2, <1>3, <1>4

\* Accounts, and the masked view of a client.
LEMMA NameRoutes ==
  ASSUME NEW req \in Requests, NEW path \in NamesUnlogged
  PROVE  Duties(path, S!Dispatch(path, req))
<1>1. Namely(S!Dispatch(path, req))
  <2>1. CASE path = "accounts/one"
    BY <2>1, NameReads DEF S!Dispatch
  <2>2. CASE path = "clients/accounts"
    BY <2>2, NameReads DEF S!Dispatch
  <2>3. CASE path = "clients/360"
    BY <2>3, NameReads DEF S!Dispatch
  <2> QED
    BY <2>1, <2>2, <2>3 DEF NamesUnlogged
<1> QED
  BY <1>1, NameDuties

\* Every route keeps its promises, whatever the request.
LEMMA RouteDuties ==
  ASSUME NEW req \in Requests, NEW path \in S!Posts \cup S!Gets
  PROVE  Duties(path, S!Dispatch(path, req))
<1>1. CASE path \in
           {"topup", "transfer", "withdraw", "fee-charge", "merchant-deposit"}
  BY <1>1, PostingRoutes
<1>2. CASE path \in
           {"withdraw/reverse", "fee-charge/reverse", "reverse", "topup/reverse",
              "merchant-withdraw/reverse"}
  BY <1>2, ReversalRoutes
<1>3. CASE path \in
           {"acked", "disbursing", "completed"}
  BY <1>3, StepRoutes
<1>4. CASE path \in
           {"groups/activate", "groups/rescale", "restraints/release", "ops/je/approve",
              "ops/je/reject", "groups/provision", "ops/je/create", "onboard", "clients/update",
              "clients/kyc", "accounts/status", "clients/banks/default", "clients/documents",
              "restraints/add", "clients/banks"}
  BY <1>4, OtherRoutes
<1>5. CASE path \in
           {"merchant-withdraw", "accounts/open", "clients/create"}
  BY <1>5, SpecialRoutes
<1>6. CASE path \in
           {"accounts/search", "ops/accounts/balance",
              "ops/accounts/balance/batch", "transactions/one", "restraints/one", "ops/je/one",
              "ops/suspense", "clients/one", "transactions", "restraints", "ops/je", "clients",
              "accounts/balance"}
  BY <1>6, PlainRoutes
<1>7. CASE path \in
           {"ops/accounts/search", "ops/clients/one", "ops/clients", "ops/clients/360"}
  BY <1>7, OpenRoutes
<1>8. CASE path \in NamesUnlogged
  BY <1>8, NameRoutes
<1>9. path \in S!Posts \cup S!Gets
  OBVIOUS
<1> QED
  BY <1>1, <1>2, <1>3, <1>4, <1>5, <1>6, <1>7, <1>8, <1>9
     DEF NamesUnlogged, S!Posts, S!Gets, S!ReverseRoutes, S!TreasuryRoutes, S!OpsRoutes, S!JEReads

\* Every list goes on to its end, but for searches and a page of journal entries that is asked
\* for more than it can hold.
PagesTold(path, p) ==
  p.kind # "refuse" /\ ~p.all =>
    ("next_cursor" \in p.answers["FRESH"].data <=>
       path \notin Searches /\ ~(path = "ops/je" /\ p.over))

LEMMA Lists ==
  ASSUME NEW p, NEW path, path \notin Searches, path # "ops/je", Continues(p)
  PROVE  PagesTold(path, p)
  BY DEF Continues, PagesTold

LEMMA RoutePages ==
  ASSUME NEW req \in Requests, NEW path \in Queries
  PROVE  PagesTold(path, S!Dispatch(path, req))
<1> DEFINE p == S!Dispatch(path, req)
<1>1. CASE path = "accounts/one"
  BY <1>1, WholeReads, Lists DEF S!Dispatch, Searches
<1>2. CASE path = "clients/accounts"
  BY <1>2, WholeReads, Lists DEF S!Dispatch, Searches
<1>3. CASE path = "accounts/search"
  <2>1. NamesNoPage(p)
    BY <1>3, SearchReads DEF S!Dispatch
  <2> HIDE DEF p
  <2>2. PagesTold(path, p)
    BY <1>3, <2>1 DEF NamesNoPage, PagesTold, Searches
  <2> QED
    BY <2>2 DEF p
<1>4. CASE path = "ops/accounts/balance"
  BY <1>4, WholeReads, Lists DEF S!Dispatch, Searches
<1>5. CASE path = "ops/accounts/balance/batch"
  BY <1>5, WholeReads, Lists DEF S!Dispatch, Searches
<1>6. CASE path = "transactions/one"
  BY <1>6, WholeReads, Lists DEF S!Dispatch, Searches
<1>7. CASE path = "restraints/one"
  BY <1>7, WholeReads, Lists DEF S!Dispatch, Searches
<1>8. CASE path = "ops/je/one"
  BY <1>8, WholeReads, Lists DEF S!Dispatch, Searches
<1>9. CASE path = "ops/suspense"
  BY <1>9, WholeReads, Lists DEF S!Dispatch, Searches
<1>10. CASE path = "clients/one"
  BY <1>10, WholeReads, Lists DEF S!Dispatch, Searches
<1>11. CASE path = "transactions"
  BY <1>11, ListReads, Lists DEF S!Dispatch, Searches
<1>12. CASE path = "restraints"
  BY <1>12, ListReads, Lists DEF S!Dispatch, Searches
<1>13. CASE path = "ops/je"
  <2>1. p.kind # "refuse" /\ ~p.all => ("next_cursor" \in p.answers["FRESH"].data <=> ~p.over)
    BY <1>13, ListReads DEF S!Dispatch
  <2> HIDE DEF p
  <2>2. PagesTold(path, p)
    BY <1>13, <2>1 DEF PagesTold, Searches
  <2> QED
    BY <2>2 DEF p
<1>14. CASE path = "clients"
  BY <1>14, ListReads, Lists DEF S!Dispatch, Searches
<1>15. CASE path = "accounts/balance"
  BY <1>15, WholeReads, Lists DEF S!Dispatch, Searches
<1>16. CASE path = "ops/accounts/search"
  <2>1. NamesNoPage(p)
    BY <1>16, SearchReads DEF S!Dispatch
  <2> HIDE DEF p
  <2>2. PagesTold(path, p)
    BY <1>16, <2>1 DEF NamesNoPage, PagesTold, Searches
  <2> QED
    BY <2>2 DEF p
<1>17. CASE path = "ops/clients/one"
  BY <1>17, WholeReads, Lists DEF S!Dispatch, Searches
<1>18. CASE path = "ops/clients"
  BY <1>18, ListReads, Lists DEF S!Dispatch, Searches
<1>19. CASE path = "ops/clients/360"
  BY <1>19, WholeReads, Lists DEF S!Dispatch, Searches
<1>20. CASE path = "clients/360"
  BY <1>20, WholeReads, Lists DEF S!Dispatch, Searches
<1> QED
  BY <1>1, <1>2, <1>3, <1>4, <1>5, <1>6, <1>7, <1>8, <1>9, <1>10, <1>11, <1>12, <1>13,
     <1>14, <1>15, <1>16, <1>17, <1>18, <1>19, <1>20 DEF Queries, S!Gets, S!OpsRoutes, S!JEReads

-----------------------------------------------------------------------------
(* What the chain of middleware settles                                    *)

\* What a request that was served promises: the plan, the actor, the role.
Owes(x) ==
  /\ Promised(x.plan)
  /\ x.plan.kind = "write" => x.audit.actor = Claimed(x.caller)
  /\ x.plan.kind = "write" => x.route.path \notin NamesUnlogged
  /\ x.plan.kind = "read" =>
       /\ Discloses(x.route.path, x.plan)
       /\ x.route.path \in S!OpsRoutes /\ x.jwt => "wallet.ops.read" \in x.caller.roles

\* A request that gets through to its handler carries the actor of the gateway, if it is one
\* that must, and a role of the route, if the service checks tokens.
LEMMA ChainTells ==
  ASSUME NEW caller \in Callers, NEW mutating \in BOOLEAN, NEW jwt \in BOOLEAN, NEW roles,
         NEW ctx, ~S!Answered(ctx),
         ctx = S!Chain(S!NewContext(caller, mutating), [jwt |-> jwt, enforce |-> TRUE], roles)
  PROVE  /\ mutating => ctx.audit.actor = Claimed(caller)
         /\ jwt => roles = {} \/ caller.roles \cap roles # {}
<1> DEFINE new      == S!NewContext(caller, mutating)
           audited  == S!AuditContext(S!GatewayIdentity(new))
           checked  == S!JWT(audited, jwt)
           enforced == IF S!Answered(checked) THEN checked
                       ELSE S!EnforceGatewayIdentity(checked, TRUE)
<1>1. /\ audited.gateway = S!gatewayActorFromRequest(caller) /\ audited.problem = 0
      /\ audited.caller = caller /\ audited.mutating = mutating /\ audited.verified = FALSE
      /\ audited.gateway # "" => audited.audit.actor = audited.gateway
      /\ DOMAIN audited = DOMAIN new
  BY DEF S!AuditContext, S!GatewayIdentity, S!NewContext, S!resolveActor
<1>2. S!gatewayActorFromRequest(caller) # "" =>
        S!gatewayActorFromRequest(caller) = Claimed(caller)
  BY DEF S!gatewayActorFromRequest, Claimed
<1>3. DOMAIN audited = {"caller", "mutating", "gateway", "subject", "verified", "roles", "channel",
                        "audit", "problem"}
  BY <1>1 DEF S!NewContext
<1> HIDE DEF audited, new
<1>4. ~S!Answered(checked) =>
        /\ checked.gateway = audited.gateway /\ checked.audit = audited.audit
        /\ checked.mutating = audited.mutating /\ DOMAIN checked = DOMAIN audited
        /\ jwt => checked.verified = TRUE /\ checked.roles = caller.roles
  <2>1. CASE ~jwt
    BY <2>1 DEF S!JWT
  <2>2. CASE jwt /\ (audited.caller.token # "valid" \/ audited.caller.sub = "")
    <3>1. checked = [audited EXCEPT !.problem = 401]
      BY <2>2 DEF S!JWT, S!abortUnauthorized, S!writeProblem
    <3>2. checked.problem = 401
      BY <1>3, <3>1
    <3> QED
      BY <3>2 DEF S!Answered
  <2>3. CASE jwt /\ ~(audited.caller.token # "valid" \/ audited.caller.sub = "")
    <3>1. checked = [audited EXCEPT !.subject = audited.caller.sub, !.verified = TRUE,
                                    !.roles = audited.caller.roles,
                                    !.channel = audited.caller.channel]
      BY <2>3 DEF S!JWT
    <3> QED
      BY <1>1, <1>3, <3>1
  <2> QED
    BY <2>1, <2>2, <2>3
<1>5. ctx = IF S!Answered(enforced) THEN enforced ELSE S!RequireAnyRole(enforced, roles)
  BY DEF S!Chain, audited, new
<1> HIDE DEF checked
<1>6. ~S!Answered(enforced)
  BY <1>5
<1>7. enforced = checked /\ ~S!Answered(checked) /\ (mutating => checked.gateway # "")
  <2>1. ~S!Answered(checked) /\ enforced = S!EnforceGatewayIdentity(checked, TRUE)
    BY <1>6
  <2>2. CASE mutating /\ checked.gateway = ""
    <3>1. enforced = [checked EXCEPT !.problem = 401]
      BY <1>1, <1>4, <2>1, <2>2 DEF S!EnforceGatewayIdentity, S!writeProblem
    <3>2. enforced.problem = 401
      BY <1>3, <1>4, <2>1, <3>1, ZenonT(30)
    <3> HIDE DEF enforced
    <3>3. FALSE
      BY <1>6, <3>2 DEF S!Answered
    <3> QED
      BY <3>3
  <2>3. CASE ~(mutating /\ checked.gateway = "")
    <3>1. checked.mutating = mutating
      BY <1>1, <1>4, <2>1
    <3>2. S!EnforceGatewayIdentity(checked, TRUE) = checked
      BY <2>3, <3>1 DEF S!EnforceGatewayIdentity
    <3>3. enforced = checked
      BY <2>1, <3>2
    <3> HIDE DEF enforced
    <3> QED
      BY <2>1, <2>3, <3>3
  <2> QED
    BY <2>2, <2>3
<1>8. ctx = S!RequireAnyRole(checked, roles)
  BY <1>5, <1>6, <1>7
<1>9. ctx = checked /\ (jwt => roles = {} \/ caller.roles \cap roles # {})
  <2>1. CASE checked.verified /\ roles # {} /\ checked.roles \cap roles = {}
    <3>1. ctx = [checked EXCEPT !.problem = 403]
      BY <1>8, <2>1 DEF S!RequireAnyRole, S!writeProblem
    <3>2. ctx.problem = 403
      BY <1>3, <1>4, <1>7, <3>1, ZenonT(60)
    <3> QED
      BY <3>2 DEF S!Answered
  <2>2. CASE ~(checked.verified /\ roles # {} /\ checked.roles \cap roles = {})
    BY <1>4, <1>7, <1>8, <2>2 DEF S!RequireAnyRole
  <2> QED
    BY <2>1, <2>2
<1> QED
  BY <1>1, <1>2, <1>4, <1>7, <1>9

LEMMA ServeOwes ==
  ASSUME NEW route \in S!Routes, NEW req \in Requests, NEW caller \in Callers, NEW jwt \in BOOLEAN
  PROVE  Owes(S!Serve(route, req, caller, [jwt |-> jwt, enforce |-> TRUE]))
<1> DEFINE cfg  == [jwt |-> jwt, enforce |-> TRUE]
           ctx  == S!Chain(S!NewContext(caller, route.mutating), cfg, S!RolesOf(route.path))
           unauthorized == S!Problem(ctx.problem)
           x    == S!Serve(route, req, caller, cfg)
           p    == S!Dispatch(route.path, req)
<1>1. /\ x.audit = ctx.audit /\ x.caller = caller /\ x.jwt = jwt /\ x.route = route
      /\ x.plan = IF S!Answered(ctx) THEN S!H!Refused(unauthorized) ELSE p
  BY DEF S!Serve
<1>2. \/ route.path \in S!Posts /\ route.mutating = TRUE
      \/ route.path \in S!Gets /\ route.mutating = FALSE
  BY DEF S!Routes, S!Send, S!Get
<1> HIDE DEF x
<1>3. ASSUME S!Answered(ctx) PROVE Owes(x)
  <2>1. x.plan.kind = "refuse" /\ x.plan.problem.code \in {"UNAUTHORIZED", "FORBIDDEN"}
    BY <1>1, <1>3 DEF S!H!Refused, S!Problem
  <2> QED
    BY <2>1 DEF Owes, Promised, Acts, Refuses
<1>4. ASSUME ~S!Answered(ctx) PROVE Owes(x)
  <2>1. Duties(route.path, p)
    BY <1>2, RouteDuties
  <2>2. /\ route.mutating => ctx.audit.actor = Claimed(caller)
        /\ jwt => S!RolesOf(route.path) = {} \/ caller.roles \cap S!RolesOf(route.path) # {}
    BY <1>2, <1>4, ChainTells
  <2> HIDE DEF p, ctx
  <2>3. x.plan = p
    BY <1>1, <1>4
  <2>4. p.kind = "write" => route.mutating
    <3>1. S!Posts \cap S!Gets = {}
      BY DEF S!Posts, S!Gets, S!ReverseRoutes, S!TreasuryRoutes, S!OpsRoutes, S!JEReads
    <3> QED
      BY <1>2, <2>1, <3>1 DEF Duties
  <2>6. p.kind = "write" => route.path \notin NamesUnlogged
    <3>1. S!Posts \cap NamesUnlogged = {}
      BY DEF S!Posts, S!ReverseRoutes, S!TreasuryRoutes, NamesUnlogged
    <3> QED
      BY <2>1, <3>1 DEF Duties
  <2>5. route.path \in S!OpsRoutes => S!RolesOf(route.path) = {"wallet.ops.read"}
    <3>1. /\ S!OpsRoutes \cap (S!ReverseRoutes \cup S!TreasuryRoutes \cup S!JEReads) = {}
          /\ S!OpsRoutes \cap {"ops/je/create", "ops/je/approve", "ops/je/reject"} = {}
      BY DEF S!ReverseRoutes, S!TreasuryRoutes, S!OpsRoutes, S!JEReads
    <3> QED
      BY <3>1 DEF S!RolesOf
  <2> QED
    BY <1>1, <2>1, <2>2, <2>3, <2>4, <2>5, <2>6 DEF Owes, Duties
<1>5. Owes(x)
  BY <1>3, <1>4
<1> QED
  BY <1>5 DEF x

\* The pages of what is served.
LEMMA ServePages ==
  ASSUME NEW route \in S!Routes, NEW req \in Requests, NEW caller \in Callers, NEW jwt \in BOOLEAN
  PROVE  PagesTold(route.path, S!Serve(route, req, caller, [jwt |-> jwt, enforce |-> TRUE]).plan)
<1> DEFINE cfg  == [jwt |-> jwt, enforce |-> TRUE]
           ctx  == S!Chain(S!NewContext(caller, route.mutating), cfg, S!RolesOf(route.path))
           unauthorized == S!Problem(ctx.problem)
           x    == S!Serve(route, req, caller, cfg)
           p    == S!Dispatch(route.path, req)
<1>1. x.plan = IF S!Answered(ctx) THEN S!H!Refused(unauthorized) ELSE p
  BY DEF S!Serve
<1>2. route.path \in S!Posts \cup S!Gets
  BY DEF S!Routes, S!Send, S!Get
<1> HIDE DEF x, ctx
<1>3. ASSUME S!Answered(ctx) PROVE PagesTold(route.path, x.plan)
  BY <1>1, <1>3, RefusedKind DEF PagesTold
<1>4. ASSUME ~S!Answered(ctx) PROVE PagesTold(route.path, x.plan)
  <2>1. Duties(route.path, p)
    BY <1>2, RouteDuties
  <2>2. CASE route.path \in Queries
    BY <1>1, <1>4, <2>2, RoutePages
  <2>3. CASE route.path \notin Queries
    <3>1. p.kind = "refuse" \/ p.all = TRUE
      BY <2>1, <2>3 DEF Duties, Promised, Acts, Writes
    <3> QED
      BY <1>1, <1>4, <3>1 DEF PagesTold
  <2> QED
    BY <2>2, <2>3
<1>5. PagesTold(route.path, x.plan)
  BY <1>3, <1>4
<1> QED
  BY <1>5 DEF x

-----------------------------------------------------------------------------
(* The theorems                                                            *)

\* What is served comes through the server, which insists on the identity of the gateway.
FromServer ==
  \A x \in Served : \E route \in S!Routes, req \in Requests, caller \in Callers, jwt \in BOOLEAN :
    x = S!Serve(route, req, caller, [jwt |-> jwt, enforce |-> TRUE])

LEMMA ServedOwes == FromServer => \A x \in Served : Owes(x)
<1> SUFFICES ASSUME FromServer, NEW x \in Served PROVE Owes(x)
  OBVIOUS
<1>1. PICK route \in S!Routes, req \in Requests, caller \in Callers, jwt \in BOOLEAN :
        x = S!Serve(route, req, caller, [jwt |-> jwt, enforce |-> TRUE])
  BY DEF FromServer
<1>2. Owes(S!Serve(route, req, caller, [jwt |-> jwt, enforce |-> TRUE]))
  BY ServeOwes
<1> QED
  BY <1>1, <1>2

LEMMA ServedPages == FromServer => \A x \in Served : PagesTold(x.route.path, x.plan)
<1> SUFFICES ASSUME FromServer, NEW x \in Served PROVE PagesTold(x.route.path, x.plan)
  OBVIOUS
<1>1. PICK route \in S!Routes, req \in Requests, caller \in Callers, jwt \in BOOLEAN :
        x = S!Serve(route, req, caller, [jwt |-> jwt, enforce |-> TRUE])
  BY DEF FromServer
<1>2. x.route = route
  BY <1>1 DEF S!Serve
<1> QED
  BY <1>1, <1>2, ServePages

\* A rule reaches the caller by its name, as a 4xx but for the missing key of the personal data.
LEMMA ByName ==
  \A c \in Rules : /\ H!renderError(R!mapPgError(c)).code = c
                   /\ H!renderError(R!mapPgError(c)).status < 500 \/ c = "PII_DEK_NOT_SET"
<1> SUFFICES ASSUME NEW c \in Rules
             PROVE  /\ H!renderError(R!mapPgError(c)).code = c
                    /\ H!renderError(R!mapPgError(c)).status < 500 \/ c = "PII_DEK_NOT_SET"
  OBVIOUS
<1>1. H!IsClientSafeCode(c)
  BY DEF Rules, H!IsClientSafeCode, H!codeMeta, H!MetaFor
<1>2. R!mapPgError(c) = R!pgDomainError(c)
  BY DEF Rules, R!mapPgError
<1>3. R!httpStatusFor(c) < 500 \/ c = "PII_DEK_NOT_SET"
  BY DEF Rules, R!httpStatusFor
<1> QED
  BY <1>1, <1>2, <1>3 DEF R!pgDomainError, R!NewError, H!renderError, H!NewProblemFromError,
     H!ProblemDetails

\* An answer that hides what became of a COMMIT is no 4xx the caller could take for a refusal.
LEMMA LostAnswers == \A e \in Lost : H!renderError(R!mapPgError(e)).status \notin 400 .. 498
  BY DEF Lost, R!mapPgError, R!NewError, R!Internal, H!renderError, H!NewProblemFromError,
         H!ProblemDetails, H!IsClientSafeCode, H!codeMeta, H!MetaFor

\* Told of a success, the effect is committed and the answer says whose it is; told of an error
\* of its own, the attempt has left nothing; and a rule is told by its name: for every request
\* the server can be sent, any attempts at it and any retries.
THEOREM AnswersAreTrue ==
  ASSUME FromServer
  PROVE  Spec => []AnswersTrue
<1>1. \A x \in Served : Owes(x)
  BY ServedOwes
<1>2. ToldInv => AnswersTrue
  <2> SUFFICES ASSUME ToldInv, NEW a \in Attempts, pc[a] = "done", plan.kind = "write"
               PROVE  /\ Success(a) =>
                           IF "PDNG" \in answer[a].data THEN By(a) = {}
                           ELSE rows # {} /\ (TellsRepeat(a) <=> By(a) = {})
                      /\ answer[a].status \in 400 .. 498 => By(a) = {}
                      /\ err[a] \in call.proc.refusals =>
                           /\ answer[a].code = err[a]
                           /\ answer[a].status < 500 \/ err[a] = "PII_DEK_NOT_SET"
    BY DEF AnswersTrue
  <2>1. Writes(plan) /\ Tells(a)
    BY <1>1 DEF ToldInv, Told, Owes, Promised, Acts, plan
  <2>2. class = call.proc.class /\ plan.call = call
    BY DEF class, call
  <2>3. "" \notin call.proc.refusals /\ call.proc.refusals \subseteq Rules
    <3>1. "" \notin Rules
      BY DEF Rules
    <3> QED
      BY <2>1, <2>2, <3>1 DEF Writes
  <2>4. CASE /\ err[a] = ""
             /\ \E o \in H!Outcomes : answer[a] = plan.answers[o] /\ Holds(a, o)
    <3>1. PICK o \in H!Outcomes : answer[a] = plan.answers[o] /\ Holds(a, o)
      BY <2>4
    <3>2. answer[a].status \notin 400 .. 498
      <4>1. answer[a].status \in {200, 201}
        BY <2>1, <3>1 DEF H!Outcomes, Writes
      <4> QED
        BY <4>1
    <3>3. rows # {} \/ By(a) = {}
      BY DEF By
    <3>4. CASE o = "FRESH"
      <4>1. By(a) # {} /\ rows # {} /\ "PDNG" \notin answer[a].data
        BY <2>1, <3>1, <3>3, <3>4 DEF Holds, Writes
      <4>2. ~TellsRepeat(a)
        BY <2>1, <2>2, <3>1, <3>4 DEF Writes, TellsRepeat
      <4>3. rows # {} /\ (TellsRepeat(a) <=> By(a) = {})
        BY <4>1, <4>2
      <4> QED
        BY <2>3, <2>4, <3>2, <4>1, <4>3
    <3>5. CASE o = "REPEAT"
      <4>1. By(a) = {} /\ rows # {} /\ class \in {"KEYED", "REVERSAL", "STEP"}
        BY <3>1, <3>5 DEF Holds
      <4>2. TellsRepeat(a)
        BY <2>1, <2>2, <3>1, <3>5, <4>1 DEF Writes, TellsRepeat
      <4> QED
        BY <2>3, <2>4, <3>2, <4>1, <4>2
    <3>6. CASE o = "SWEEP"
      <4>1. By(a) = {} /\ "PDNG" \in answer[a].data
        BY <2>1, <2>2, <3>1, <3>6 DEF Holds, MaySweep, Writes
      <4> QED
        BY <2>3, <2>4, <3>2, <4>1
    <3> QED
      BY <3>4, <3>5, <3>6 DEF H!Outcomes
  <2>5. CASE /\ answer[a] = H!renderError(R!mapPgError(err[a]))
             /\ By(a) # {} => err[a] \in Lost
    <3>1. ~Success(a)
      BY <2>5, ErrorsAreTold DEF Success
    <3>2. answer[a].status \in 400 .. 498 => By(a) = {}
      BY <2>5, LostAnswers
    <3> QED
      BY <2>3, <2>5, <3>1, <3>2, ByName, ZenonT(30)
  <2> QED
    BY <2>1, <2>4, <2>5 DEF Tells
<1> QED
  BY <1>2, ToldInit, ToldStep, PTL DEF Spec

\* What is stored is what was sent, in the name the gateway vouches for: for every request that
\* comes through the chain with the check of the gateway's identity on.
THEOREM StoredIsSent ==
  ASSUME FromServer
  PROVE  Spec => []StoredAsSent
<1>1. \A x \in Served : Owes(x)
  BY ServedOwes
<1>2. ToldInv => StoredAsSent
  <2> SUFFICES ASSUME ToldInv, NEW r \in rows
               PROVE  /\ plan.taken \cup {"actor"} \subseteq call.args
                      /\ R!setAuditGUCs(served.audit).actor = Claimed(served.caller)
    BY DEF StoredAsSent
  <2>1. Changes /\ Owes(served)
    BY <1>1 DEF ToldInv, Told
  <2>2. plan.kind = "write" /\ Writes(plan)
    BY <2>1 DEF Changes, Owes, Promised, Acts, plan
  <2> QED
    BY <2>1, <2>2 DEF Owes, Writes, plan, call, R!setAuditGUCs
<1> QED
  BY <1>2, ToldInit, ToldStep, PTL DEF Spec

\* Raw personal data is answered only where it is logged, to a caller with the role for it,
\* but for the name of the holder, which three masked routes answer with.
THEOREM PiiAlwaysLogged ==
  ASSUME FromServer
  PROVE  Spec => []PiiIsLogged
<1>1. \A x \in Served : Owes(x)
  BY ServedOwes
<1>2. ToldInv => PiiIsLogged
  <2> SUFFICES ASSUME ToldInv, NEW a \in Attempts, Success(a)
               PROVE  LET raw == answer[a].data \cap RawPii IN
                      /\ raw # {} =>
                           \/ /\ plan.log \in PIIAccess
                              /\ served.jwt => "wallet.ops.read" \in served.caller.roles
                              /\ "pii" \in call.pools
                           \/ raw \subseteq HolderName /\ served.route.path \in NamesUnlogged
                      /\ served.route.path \in NamesUnlogged => raw # {} /\ plan.log = ""
                      /\ plan.kind = "read" /\ call.out \cap Encrypted # {} => call.keys
    BY DEF PiiIsLogged
  <2>1. Owes(served) /\ Tells(a)
    BY <1>1 DEF ToldInv, Told, Success
  <2>2. answer[a] # H!renderError(R!mapPgError(err[a]))
    BY ErrorsAreTold DEF Success
  <2>3. CASE plan.kind = "refuse"
    BY <2>1, <2>2, <2>3 DEF Tells, Changes, Owes, Promised, Acts, Refuses, Success, plan
  <2>4. CASE plan.kind = "read"
    <3>1. answer[a] = plan.answers["FRESH"]
      BY <2>1, <2>2, <2>4 DEF Tells, Changes
    <3> QED
      BY <2>1, <2>4, <3>1 DEF Owes, Promised, Acts, Reads, Discloses, plan, call
  <2>5. CASE plan.kind = "write"
    <3>1. Writes(plan)
      BY <2>1, <2>5 DEF Owes, Promised, Acts, plan
    <3>2. PICK o \in H!Outcomes : answer[a] = plan.answers[o]
      BY <2>1, <2>2, <2>5 DEF Tells
    <3>3. served.route.path \notin NamesUnlogged
      BY <2>1, <2>5 DEF Owes, plan
    <3>4. answer[a].data \cap RawPii = {}
      BY <3>1, <3>2 DEF Writes
    <3> QED
      BY <2>5, <3>3, <3>4
  <2>6. plan.kind \in {"refuse", "read", "write"}
    BY <2>1 DEF Owes, Promised, Acts, plan
  <2> QED
    BY <2>3, <2>4, <2>5, <2>6
<1> QED
  BY <1>2, ToldInit, ToldStep, PTL DEF Spec

\* Every list can be read to its end, but for searches and a page of journal entries that is
\* asked for more than it can hold, for every request the server can be sent.
THEOREM PagesAlwaysGoOn ==
  ASSUME FromServer
  PROVE  Spec => []PagesGoOn
<1>1. \A x \in Served : Owes(x) /\ PagesTold(x.route.path, x.plan)
  BY ServedOwes, ServedPages
<1>2. ToldInv => PagesGoOn
  <2> SUFFICES ASSUME ToldInv, NEW a \in Attempts, Success(a), ~plan.all
               PROVE  "next_cursor" \in answer[a].data <=>
                        /\ served.route.path \notin Searches
                        /\ ~(served.route.path = "ops/je" /\ plan.over)
    BY DEF PagesGoOn
  <2>1. Owes(served) /\ PagesTold(served.route.path, plan) /\ Tells(a)
    BY <1>1 DEF ToldInv, Told, Success, plan
  <2>2. answer[a] # H!renderError(R!mapPgError(err[a]))
    BY ErrorsAreTold DEF Success
  <2>3. plan.kind # "refuse"
    BY <2>1, <2>2 DEF Tells, Changes, Owes, Promised, Acts, Refuses, Success, plan
  <2>4. plan.kind # "write"
    BY <2>1 DEF Owes, Promised, Acts, Writes, plan
  <2>5. answer[a] = plan.answers["FRESH"]
    BY <2>1, <2>2, <2>3, <2>4 DEF Tells, Changes, Owes, Promised, Acts, plan
  <2> QED
    BY <2>1, <2>3, <2>5 DEF PagesTold
<1> QED
  BY <1>2, ToldInit, ToldStep, PTL DEF Spec
=============================================================================
