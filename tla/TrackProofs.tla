------------------------------ MODULE TrackProofs ------------------------------
(***************************************************************************)
(* Theorems about WithdrawTrack, for every set of payouts, any number of   *)
(* callbacks under way and any size of the janitor's batch.                *)
(***************************************************************************)
EXTENDS WithdrawTrack, TLAPS

(* The inductive invariant.                                                 *)

\* FOR UPDATE: a payout in the janitor's batch stays as it was found.
Held == \A e \in batch : status[e] \in Open

\* Nobody was told anything of a payout that is not there.
ToldOfRows == \A t \in told : status[t[1]] # "NONE"

\* Nor is there an event of it.
QuietBefore == \A e \in Payouts : status[e] = "NONE" => events[e] = <<>>

TrackInv == TypeOK /\ Held /\ ToldOfRows /\ QuietBefore /\ EventsTellStatus /\ AnswersHold

\* What a step may do to the row of a payout: nothing, or one step forward that
\* is told by an event.
Forward(e) ==
  \/ status'[e] = status[e] /\ events'[e] = events[e]
  \/ /\ status'[e] \in Statuses \ {"NONE"}
     /\ status[e] \in {"NONE"} \cup Open
     /\ status[e] # "NONE" => Rank(status[e]) < Rank(status'[e])
     /\ events'[e] = Append(events[e], status'[e])

LEMMA InitTrack == Init => TrackInv
<1> SUFFICES ASSUME Init PROVE TrackInv
  OBVIOUS
<1>1. events \in [Payouts -> Seq(Statuses)] /\ status \in [Payouts -> Statuses]
  BY DEF Init, Statuses
<1>2. TypeOK
  BY <1>1 DEF Init, TypeOK
<1>3. EventsTellStatus
  BY DEF Init, EventsTellStatus
<1> QED
  BY <1>2, <1>3 DEF Init, TrackInv, Held, ToldOfRows, QuietBefore, AnswersHold

-----------------------------------------------------------------------------
(* Steps forward keep the history and the answers given.                    *)

LEMMA HistoryGrows ==
  ASSUME TypeOK, EventsTellStatus, QuietBefore, \A e \in Payouts : Forward(e)
  PROVE  EventsTellStatus'
<1> SUFFICES ASSUME NEW e \in Payouts
             PROVE  LET h == events'[e] IN
                    /\ \A i \in 1 .. Len(h) - 1 : Rank(h[i]) < Rank(h[i + 1])
                    /\ status'[e] = IF h = <<>> THEN "NONE" ELSE h[Len(h)]
  BY DEF EventsTellStatus
<1>1. /\ events[e] \in Seq(Statuses) /\ status[e] \in Statuses
      /\ \A i \in 1 .. Len(events[e]) - 1 : Rank(events[e][i]) < Rank(events[e][i + 1])
      /\ status[e] = IF events[e] = <<>> THEN "NONE" ELSE events[e][Len(events[e])]
  BY DEF TypeOK, EventsTellStatus
<1>2. CASE status'[e] = status[e] /\ events'[e] = events[e]
  BY <1>1, <1>2
<1>3. CASE ~(status'[e] = status[e] /\ events'[e] = events[e])
  <2> DEFINE h == events[e]
             st == status'[e]
  <2>1. /\ st \in Statuses \ {"NONE"} /\ events'[e] = Append(h, st)
        /\ status[e] # "NONE" => Rank(status[e]) < Rank(st)
    BY <1>3 DEF Forward
  <2>2. /\ Len(Append(h, st)) = Len(h) + 1 /\ Append(h, st)[Len(h) + 1] = st
        /\ \A i \in 1 .. Len(h) : Append(h, st)[i] = h[i]
        /\ Append(h, st) # <<>> /\ Len(h) \in Nat
    BY <1>1, <2>1
  <2>3. h # <<>> => status[e] # "NONE"
    BY DEF QuietBefore
  <2> QED
    BY <1>1, <2>1, <2>2, <2>3
<1> QED
  BY <1>2, <1>3

LEMMA AnswersStay ==
  ASSUME TypeOK, ToldOfRows, AnswersHold, \A e \in Payouts : Forward(e)
  PROVE  \A t \in told : /\ status'[t[1]] # "NONE"
                         /\ CASE t[2] \in Terminal -> status'[t[1]] = t[2]
                              [] OTHER -> Rank(status'[t[1]]) >= Rank(t[2])
<1> SUFFICES ASSUME NEW t \in told
             PROVE  /\ status'[t[1]] # "NONE"
                    /\ CASE t[2] \in Terminal -> status'[t[1]] = t[2]
                         [] OTHER -> Rank(status'[t[1]]) >= Rank(t[2])
  OBVIOUS
<1>1. t[1] \in Payouts /\ t[2] \in Steps \cup {"REVERSED"}
  BY DEF TypeOK
<1>2. status[t[1]] \in Statuses /\ status[t[1]] # "NONE" /\ Forward(t[1])
  BY <1>1 DEF TypeOK, ToldOfRows
<1>3. CASE t[2] \in Terminal => status[t[1]] = t[2]
  <2>1. CASE t[2] \in Terminal
    BY <1>2, <1>3, <2>1 DEF Forward, Terminal, Open
  <2>2. CASE t[2] \notin Terminal
    <3>1. Rank(status[t[1]]) >= Rank(t[2])
      BY <2>2 DEF AnswersHold
    <3>2. /\ Rank(status[t[1]]) \in Nat /\ Rank(status'[t[1]]) \in Nat /\ Rank(t[2]) \in Nat
          /\ Rank(status[t[1]]) <= Rank(status'[t[1]])
      BY <1>2 DEF Forward, Rank
    <3> QED
      BY <1>2, <2>2, <3>1, <3>2 DEF Forward
  <2> QED
    BY <2>1, <2>2
<1> QED
  BY <1>3 DEF AnswersHold

-----------------------------------------------------------------------------
(* Every step moves payouts forward, and no more.                           *)

LEMMA OneForward ==
  ASSUME TypeOK, NEW e \in Payouts, NEW st \in Statuses \ {"NONE"},
         status[e] \in {"NONE"} \cup Open, status[e] # "NONE" => Rank(status[e]) < Rank(st),
         status' = [status EXCEPT ![e] = st], Emits(e, st)
  PROVE  \A x \in Payouts : Forward(x)
<1> SUFFICES ASSUME NEW x \in Payouts PROVE Forward(x)
  OBVIOUS
<1>1. CASE x = e
  BY <1>1 DEF TypeOK, Emits, Forward
<1>2. CASE x # e
  BY <1>2 DEF TypeOK, Emits, Forward
<1> QED
  BY <1>1, <1>2

LEMMA MarkForward ==
  ASSUME TypeOK, NEW e \in Payouts, NEW to \in Steps, Mark(e, to)
  PROVE  \A x \in Payouts : Forward(x)
<1>1. status[e] \in Open /\ Rank(status[e]) < Rank(to) /\ to \in Statuses \ {"NONE"}
  BY DEF Mark, From, Open, Rank, Steps, Statuses, Terminal
<1> QED
  BY <1>1, OneForward DEF Mark

LEMMA ReverseForward ==
  ASSUME TypeOK, NEW e \in Payouts, Reverse(e)
  PROVE  \A x \in Payouts : Forward(x)
<1>1. CASE status[e] = "REVERSED"
  BY <1>1 DEF Reverse, Forward
<1>2. CASE status[e] # "REVERSED"
  <2>1. /\ status[e] \in Open /\ Rank(status[e]) < Rank("REVERSED")
        /\ "REVERSED" \in Statuses \ {"NONE"}
    BY <1>2 DEF Reverse, Open, Rank, Statuses, Terminal
  <2> QED
    BY <1>2, <2>1, OneForward DEF Reverse
<1> QED
  BY <1>1, <1>2

LEMMA SweepForward ==
  ASSUME TypeOK, Held, SweepCommit
  PROVE  \A x \in Payouts : Forward(x)
<1> SUFFICES ASSUME NEW x \in Payouts PROVE Forward(x)
  OBVIOUS
<1>1. CASE x \in refunded
  <2>1. status[x] \in Open
    BY <1>1 DEF TypeOK, Held
  <2>2. status'[x] = "REVERSED" /\ events'[x] = Append(events[x], "REVERSED")
    BY <1>1 DEF SweepCommit
  <2> QED
    BY <2>1, <2>2 DEF Forward, Rank, Open, Statuses, Terminal
<1>2. CASE x \notin refunded
  BY <1>2 DEF SweepCommit, Forward
<1> QED
  BY <1>1, <1>2

LEMMA StepForward ==
  ASSUME TypeOK, Held, [Next]_vars
  PROVE  \A x \in Payouts : Forward(x)
<1>1. CASE \E e \in Payouts : Submit(e)
  BY <1>1, OneForward DEF Submit, Statuses, Open
<1>2. CASE \E e \in Payouts, to \in Steps : Mark(e, to)
  BY <1>2, MarkForward
<1>3. CASE \E e \in Payouts : Reverse(e)
  BY <1>3, ReverseForward
<1>4. CASE SweepCommit
  BY <1>4, SweepForward
<1>5. CASE UNCHANGED <<status, events>>
  BY <1>5 DEF Forward
<1>6. \/ \E e \in Payouts : Due(e) \/ Fails(e) \/ Refund(e) \/ Expired(e)
      \/ \E e \in Payouts, to \in Steps, c \in Callbacks : Miss(c, e, to)
      \/ \E c \in Callbacks : Answer(c)
      \/ Tick \/ CutOff
      => UNCHANGED <<status, events>>
  BY DEF Due, Fails, Refund, Expired, Miss, Answer, Tick, CutOff
<1> QED
  BY <1>1, <1>2, <1>3, <1>4, <1>5, <1>6 DEF Next, Sweeping, vars

-----------------------------------------------------------------------------
(* The invariant.                                                           *)

LEMMA HistoryType ==
  ASSUME TypeOK, \A e \in Payouts : Forward(e),
         status' = [e \in Payouts |-> status'[e]], events' = [e \in Payouts |-> events'[e]]
  PROVE  status' \in [Payouts -> Statuses] /\ events' \in [Payouts -> Seq(Statuses)]
<1>1. ASSUME NEW e \in Payouts
      PROVE  status'[e] \in Statuses /\ events'[e] \in Seq(Statuses)
  <2>1. status[e] \in Statuses /\ events[e] \in Seq(Statuses) /\ Forward(e)
    BY DEF TypeOK
  <2>2. CASE status'[e] = status[e] /\ events'[e] = events[e]
    BY <2>1, <2>2
  <2>3. CASE status'[e] \in Statuses /\ events'[e] = Append(events[e], status'[e])
    BY <2>1, <2>3
  <2> QED
    BY <2>1, <2>2, <2>3 DEF Forward
<1> QED
  BY <1>1

LEMMA StepShape ==
  ASSUME TypeOK, [Next]_vars
  PROVE  status' = [e \in Payouts |-> status'[e]] /\ events' = [e \in Payouts |-> events'[e]]
<1>1. CASE \/ \E e \in Payouts : Submit(e) \/ Reverse(e)
           \/ \E e \in Payouts, to \in Steps : Mark(e, to)
  BY <1>1 DEF TypeOK, Submit, Reverse, Mark, Emits
<1>2. CASE SweepCommit
  BY <1>2 DEF SweepCommit
<1>3. CASE UNCHANGED <<status, events>>
  BY <1>3 DEF TypeOK
<1>4. \/ \E e \in Payouts : Due(e) \/ Fails(e) \/ Refund(e) \/ Expired(e)
      \/ \E e \in Payouts, to \in Steps, c \in Callbacks : Miss(c, e, to)
      \/ \E c \in Callbacks : Answer(c)
      \/ Tick \/ CutOff
      => UNCHANGED <<status, events>>
  BY DEF Due, Fails, Refund, Expired, Miss, Answer, Tick, CutOff
<1> QED
  BY <1>1, <1>2, <1>3, <1>4 DEF Next, Sweeping, vars

\* Rows, calls and the batch.
RestType ==
  /\ overdue \in [Payouts -> BOOLEAN]
  /\ call \in [Callbacks -> (Payouts \X Steps) \cup {None}]
  /\ told \subseteq Payouts \X (Steps \cup {"REVERSED"})
  /\ batch \subseteq Payouts /\ todo \subseteq batch /\ refunded \subseteq batch \ todo
  /\ sweeping \in BOOLEAN /\ (~sweeping => batch = {})
  /\ faults \in Nat

LEMMA RestStep ==
  ASSUME TypeOK, [Next]_vars
  PROVE  RestType'
<1>1. CASE \E e \in Payouts : Submit(e) \/ Due(e) \/ Reverse(e)
  <2>1. UNCHANGED <<call, janitor>> /\ told' \subseteq Payouts \X (Steps \cup {"REVERSED"})
    BY <1>1 DEF TypeOK, Submit, Due, Reverse
  <2>2. overdue' \in [Payouts -> BOOLEAN]
    BY <1>1 DEF TypeOK, Submit, Due, Reverse
  <2> QED
    BY <2>1, <2>2 DEF TypeOK, RestType, janitor
<1>2. CASE \E e \in Payouts : Fails(e) \/ Refund(e) \/ Expired(e)
  BY <1>2 DEF TypeOK, RestType, Fails, Refund, Expired, IsNext
<1>3. CASE \E e \in Payouts, to \in Steps : Mark(e, to)
  BY <1>3 DEF TypeOK, RestType, Mark, janitor
<1>4. CASE \E e \in Payouts, to \in Steps, c \in Callbacks : Miss(c, e, to)
  BY <1>4 DEF TypeOK, RestType, Miss, janitor
<1>5. CASE \E c \in Callbacks : Answer(c)
  <2>1. PICK c \in Callbacks : Answer(c)
    BY <1>5
  <2>2. call[c] \in Payouts \X Steps
    BY <2>1 DEF Answer, TypeOK
  <2> QED
    BY <2>1, <2>2 DEF TypeOK, RestType, Answer, janitor
<1>6. CASE Tick
  <2>1. batch' \subseteq Payouts
    BY <1>6 DEF Tick, Batches, Stuck
  <2> QED
    BY <1>6, <2>1 DEF TypeOK, RestType, Tick
<1>7. CASE SweepCommit
  BY <1>7 DEF TypeOK, RestType, SweepCommit, Idle
<1>8. CASE CutOff
  <2>1. faults' \in Nat
    BY <1>8 DEF TypeOK, CutOff
  <2> QED
    BY <1>8, <2>1 DEF TypeOK, RestType, CutOff, Idle
<1>9. CASE UNCHANGED vars
  BY <1>9 DEF TypeOK, RestType, vars, janitor
<1> QED
  BY <1>1, <1>2, <1>3, <1>4, <1>5, <1>6, <1>7, <1>8, <1>9 DEF Next, Sweeping

LEMMA HeldStep ==
  ASSUME TypeOK, Held, [Next]_vars
  PROVE  Held'
<1>1. CASE \E e \in Payouts : Submit(e) \/ Reverse(e)
  BY <1>1 DEF TypeOK, Held, Submit, Reverse, Open, janitor
<1>2. CASE \E e \in Payouts, to \in Steps : Mark(e, to)
  BY <1>2 DEF TypeOK, Held, Mark, janitor
<1>3. CASE Tick
  BY <1>3 DEF Held, Tick, Batches, Stuck
<1>4. CASE SweepCommit \/ CutOff
  BY <1>4 DEF Held, SweepCommit, CutOff, Idle
<1>5. CASE UNCHANGED <<status, batch>>
  BY <1>5 DEF Held
<1>6. \/ \E e \in Payouts : Due(e) \/ Fails(e) \/ Refund(e) \/ Expired(e)
      \/ \E e \in Payouts, to \in Steps, c \in Callbacks : Miss(c, e, to)
      \/ \E c \in Callbacks : Answer(c)
      => UNCHANGED <<status, batch>>
  BY DEF Due, Fails, Refund, Expired, Miss, Answer, janitor
<1> QED
  BY <1>1, <1>2, <1>3, <1>4, <1>5, <1>6 DEF Next, Sweeping, vars, janitor

\* Whatever is answered is true when it is answered.
LEMMA ToldStep ==
  ASSUME TypeOK, [Next]_vars, NEW t \in told' \ told
  PROVE  /\ status'[t[1]] # "NONE"
         /\ CASE t[2] \in Terminal -> status'[t[1]] = t[2]
              [] OTHER -> Rank(status'[t[1]]) >= Rank(t[2])
<1>1. CASE \E e \in Payouts, to \in Steps : Mark(e, to)
  BY <1>1 DEF TypeOK, Mark, Steps, Rank, Terminal
<1>2. CASE \E e \in Payouts : Reverse(e)
  BY <1>2 DEF TypeOK, Reverse, Terminal
<1>3. CASE \E c \in Callbacks : Answer(c)
  <2>1. PICK c \in Callbacks : Answer(c) /\ t = call[c] /\ call[c] # None
    BY <1>3 DEF Answer
  <2>2. t[1] \in Payouts /\ t[2] \in Steps /\ status[t[1]] \in Repeats(t[2]) /\ status' = status
    BY <2>1 DEF Answer, TypeOK
  <2> QED
    BY <2>2 DEF Repeats, Steps, Rank, Terminal
<1>4. CASE told' = told
  BY <1>4
<1>5. \/ \E e \in Payouts : Submit(e) \/ Due(e) \/ Fails(e) \/ Refund(e) \/ Expired(e)
      \/ \E e \in Payouts, to \in Steps, c \in Callbacks : Miss(c, e, to)
      \/ Tick \/ SweepCommit \/ CutOff
      => told' = told
  BY DEF Submit, Due, Fails, Refund, Expired, Miss, Tick, SweepCommit, CutOff
<1> QED
  BY <1>1, <1>2, <1>3, <1>4, <1>5 DEF Next, Sweeping, vars

LEMMA TrackStep == TrackInv /\ [Next]_vars => TrackInv'
<1> SUFFICES ASSUME TrackInv, [Next]_vars PROVE TrackInv'
  OBVIOUS
<1> USE DEF TrackInv
<1>1. \A e \in Payouts : Forward(e)
  BY StepForward
<1>2. TypeOK'
  BY <1>1, StepShape, HistoryType, RestStep DEF TypeOK, RestType
<1>3. Held'
  BY HeldStep
<1>4. EventsTellStatus'
  BY <1>1, HistoryGrows
<1>5. QuietBefore'
  BY <1>1 DEF Forward, QuietBefore
<1>6. ToldOfRows' /\ AnswersHold'
  <2>1. \A t \in told' : /\ status'[t[1]] # "NONE"
                         /\ CASE t[2] \in Terminal -> status'[t[1]] = t[2]
                              [] OTHER -> Rank(status'[t[1]]) >= Rank(t[2])
    BY <1>1, AnswersStay, ToldStep
  <2> QED
    BY <2>1 DEF ToldOfRows, AnswersHold, Rank
<1> QED
  BY <1>2, <1>3, <1>4, <1>5, <1>6

LEMMA TrackAlways == Spec => []TrackInv
  BY InitTrack, TrackStep, PTL DEF Spec

-----------------------------------------------------------------------------
(* What Treasury, the customers and the consumers of events can rely on.    *)

\* The rows, the callbacks under way and the janitor's batch keep their types.
THEOREM TrackType == Spec => []TypeOK
<1>1. TrackInv => TypeOK
  BY DEF TrackInv
<1> QED
  BY <1>1, TrackAlways, PTL

\* The events of a payout are its history, forward only and with one end, and the last
\* one is its status: mark_withdraw_*, post_withdraw_reversal and the sweep, in any order.
THEOREM EventsAreHistory == Spec => []EventsTellStatus
<1>1. TrackInv => EventsTellStatus
  BY DEF TrackInv
<1> QED
  BY <1>1, TrackAlways, PTL

\* A callback that was answered with success was told the truth, although the row is
\* read again without a lock to answer it.
THEOREM AnswersStayTrue == Spec => []AnswersHold
<1>1. TrackInv => AnswersHold
  BY DEF TrackInv
<1> QED
  BY <1>1, TrackAlways, PTL

LEMMA InitDisburses == Init => Abstract!Init
  BY DEF Init, Abstract!Init, Shown, Open

LEMMA StepDisburses == TrackInv /\ [Next]_vars => [Abstract!Next]_Shown
<1> SUFFICES ASSUME TrackInv, [Next]_vars PROVE Abstract!Next \/ Shown' = Shown
  OBVIOUS
<1>0. status \in [Payouts -> Statuses]
  BY DEF TrackInv, TypeOK
<1>1. CASE \E e \in Payouts : Submit(e)
  BY <1>0, <1>1 DEF Submit, Shown, Open, Abstract!Next, Abstract!Submit, Abstract!Moves
<1>2. CASE \E e \in Payouts, to \in Steps : Mark(e, to)
  <2>1. PICK e \in Payouts, to \in Steps : Mark(e, to)
    BY <1>2
  <2>2. CASE to = "COMPLETED"
    <3>1. Abstract!Complete(e)
      BY <1>0, <2>1, <2>2 DEF Mark, From, Shown, Open, Abstract!Complete, Abstract!Moves
    <3> QED
      BY <3>1 DEF Abstract!Next
  <2>3. CASE to # "COMPLETED"
    BY <1>0, <2>1, <2>3 DEF Mark, From, Shown, Open, Steps
  <2> QED
    BY <2>2, <2>3
<1>3. CASE \E e \in Payouts : Reverse(e)
  <2>1. PICK e \in Payouts : Reverse(e)
    BY <1>3
  <2>2. CASE status[e] = "REVERSED"
    BY <2>1, <2>2 DEF Reverse, Shown
  <2>3. CASE status[e] # "REVERSED"
    <3>1. Abstract!Refund({e})
      BY <1>0, <2>1, <2>3 DEF Reverse, Shown, Open, Abstract!Refund
    <3> QED
      BY <3>1 DEF Abstract!Next
  <2> QED
    BY <2>2, <2>3
<1>4. CASE SweepCommit
  <2>1. refunded \in SUBSET Payouts /\ \A e \in refunded : status[e] \in Open
    BY DEF TrackInv, TypeOK, Held
  <2>2. Abstract!Refund(refunded)
    BY <1>0, <1>4, <2>1 DEF SweepCommit, Shown, Open, Abstract!Refund
  <2> QED
    BY <2>1, <2>2 DEF Abstract!Next
<1>5. CASE status' = status
  BY <1>5 DEF Shown
<1>6. \/ \E e \in Payouts : Due(e) \/ Fails(e) \/ Refund(e) \/ Expired(e)
      \/ \E e \in Payouts, to \in Steps, c \in Callbacks : Miss(c, e, to)
      \/ \E c \in Callbacks : Answer(c)
      \/ Tick \/ CutOff
      => status' = status
  BY DEF Due, Fails, Refund, Expired, Miss, Answer, Tick, CutOff
<1> QED
  BY <1>1, <1>2, <1>3, <1>4, <1>5, <1>6 DEF Next, Sweeping, vars

\* "First terminal write wins": whatever callbacks, operators and sweeps do at the same
\* time, a payout is submitted once, then completed or refunded, and that is final.
THEOREM FirstTerminalWins == Spec => ImplementsDisbursement
  BY InitDisburses, StepDisburses, TrackAlways, PTL
     DEF Spec, ImplementsDisbursement, Abstract!Spec
=============================================================================
