----------------------------- MODULE WithdrawTrack -----------------------------
(***************************************************************************)
(* The life of a payout after its withdrawal is posted: Treasury's         *)
(* callbacks (mark_withdraw_*, post_withdraw_reversal) and the SLA janitor *)
(* (internal/janitor/withdraw.go, reverse_stuck_withdrawals) meet on the   *)
(* row of WLT_WITHDRAW_TRACK.  Callbacks come in any order, any number of  *)
(* times and late.  What a refund does to the ledger is in Posting.        *)
(***************************************************************************)
EXTENDS Integers, Sequences, FiniteSets

CONSTANTS
  Payouts,      \* EXT_PAYOUT_REFs: numbers, they order the FINAL_DEADLINEs
  TooLate,      \* payouts past WDRAW's reversal window when they come due
  Callbacks,    \* Treasury calls under way at the same time
  Limit,        \* p_limit: rows one sweep of the janitor takes
  MaxFaults,    \* bound on sweeps cut off and refunds that fail in passing
  None

ASSUME PayoutsAssumption == Payouts \subseteq Nat
ASSUME TooLateAssumption == TooLate \subseteq Payouts
ASSUME LimitAssumption == Limit \in Nat \ {0}
ASSUME NoneAssumption == None \notin Payouts

VARIABLES
  status,       \* STATUS, NONE before the withdrawal commits
  overdue,      \* FINAL_DEADLINE < now()
  events,       \* the payout's rows of WLT_OUTBOX, in commit order
  call,         \* per callback whose UPDATE matched no row: what it asked for
  told,         \* history: callbacks answered with success
  batch,        \* rows the janitor holds FOR UPDATE
  todo,         \* those of them it has not tried yet
  refunded,     \* those it has refunded, not yet committed
  sweeping,     \* the janitor is in a transaction
  faults

janitor == <<batch, todo, refunded, sweeping, faults>>
vars == <<status, overdue, events, call, told, janitor>>

Steps == {"ACKED", "DISBURSING", "COMPLETED"}
Open == {"SUBMITTED", "ACKED", "DISBURSING"}
Terminal == {"COMPLETED", "REVERSED"}
Statuses == {"NONE"} \cup Open \cup Terminal

Init ==
  /\ status = [e \in Payouts |-> "NONE"]
  /\ overdue = [e \in Payouts |-> FALSE]
  /\ events = [e \in Payouts |-> <<>>]
  /\ call = [c \in Callbacks |-> None]
  /\ told = {}
  /\ batch = {} /\ todo = {} /\ refunded = {}
  /\ sweeping = FALSE
  /\ faults = 0

Emits(e, type) == events' = [events EXCEPT ![e] = Append(@, type)]

\* post_withdraw: the row and its event, in one transaction with the debit.
Submit(e) ==
  /\ status[e] = "NONE"
  /\ status' = [status EXCEPT ![e] = "SUBMITTED"]
  /\ Emits(e, "SUBMITTED")
  /\ UNCHANGED <<overdue, call, told, janitor>>

\* A day later.  (Payouts come due in the order of their submission.)
Due(e) ==
  /\ status[e] # "NONE" /\ ~overdue[e]
  /\ \A x \in Payouts : x < e => overdue[x]
  /\ overdue' = [overdue EXCEPT ![e] = TRUE]
  /\ UNCHANGED <<status, events, call, told, janitor>>

-----------------------------------------------------------------------------
(* Treasury's callbacks.                                                    *)

FromAny(to) == Open \cup Terminal       \* mutant: the UPDATE has no status guard

\* The source states of the guarded UPDATE of mark_withdraw_*.
From(to) ==
  CASE to = "ACKED" -> {"SUBMITTED"}
    [] to = "DISBURSING" -> {"ACKED"}
    [] to = "COMPLETED" -> {"ACKED", "DISBURSING"}

AnyLater(to) == Statuses \ {"NONE"}     \* mutant: whatever it is, it is a repeat

\* The states in which a call that changed nothing is answered as a repeat.
Repeats(to) ==
  CASE to = "ACKED" -> {"ACKED", "DISBURSING", "COMPLETED", "REVERSED"}
    [] to = "DISBURSING" -> {"DISBURSING", "COMPLETED", "REVERSED"}
    [] to = "COMPLETED" -> {"COMPLETED"}

\* The UPDATE ... WHERE STATUS IN ...: one statement, which waits for the
\* janitor if the row matches and looks at it again afterwards.
Mark(e, to) ==
  /\ status[e] \in From(to) /\ e \notin batch
  /\ status' = [status EXCEPT ![e] = to]
  /\ Emits(e, to)
  /\ told' = told \cup {<<e, to>>}
  /\ UNCHANGED <<overdue, call, janitor>>

\* No row matched; the SELECT that finds out why sees a later state.
Miss(c, e, to) ==
  /\ call[c] = None
  /\ status[e] \notin From(to)
  /\ call' = [call EXCEPT ![c] = <<e, to>>]
  /\ UNCHANGED <<status, overdue, events, told, janitor>>

Answer(c) ==
  /\ call[c] # None
  /\ told' = IF status[call[c][1]] \in Repeats(call[c][2]) THEN told \cup {call[c]} ELSE told
  /\ call' = [call EXCEPT ![c] = None]
  /\ UNCHANGED <<status, overdue, events, janitor>>

\* post_withdraw_reversal: the row is locked before it is looked at.
Reverse(e) ==
  /\ status[e] \in Open \cup {"REVERSED"} /\ e \notin batch
  /\ IF status[e] = "REVERSED" THEN UNCHANGED <<status, events>>
     ELSE /\ ~(overdue[e] /\ e \in TooLate)              \* REVERSAL_WINDOW_EXPIRED
          /\ status' = [status EXCEPT ![e] = "REVERSED"]
          /\ Emits(e, "REVERSED")
  /\ told' = told \cup {<<e, "REVERSED">>}
  /\ UNCHANGED <<overdue, call, janitor>>

-----------------------------------------------------------------------------
(* The janitor: one transaction per tick.                                   *)

Young ==                   \* mutant: a payout Treasury never acknowledged is forgotten
  {e \in Payouts : status[e] \in {"ACKED", "DISBURSING"} /\ overdue[e]}

Stuck == {e \in Payouts : status[e] \in Open /\ overdue[e]}

\* ORDER BY FINAL_DEADLINE LIMIT p_limit FOR UPDATE.
Batches ==
  {B \in SUBSET Stuck :
     /\ Cardinality(B) = IF Cardinality(Stuck) < Limit THEN Cardinality(Stuck) ELSE Limit
     /\ \A e \in B, x \in Stuck \ B : e < x}

Tick ==
  /\ ~sweeping /\ Stuck # {}
  /\ batch' \in Batches
  /\ todo' = batch'
  /\ sweeping' = TRUE
  /\ UNCHANGED <<status, overdue, events, call, told, refunded, faults>>

IsNext(e) == e \in todo /\ \A x \in todo : e <= x

\* post_withdraw_reversal in the subtransaction of a row.
Refund(e) ==
  /\ sweeping /\ IsNext(e) /\ e \notin TooLate
  /\ refunded' = refunded \cup {e}
  /\ todo' = todo \ {e}
  /\ UNCHANGED <<status, overdue, events, call, told, batch, sweeping, faults>>

\* P0060: counted as expired, left to the operator.
Expired(e) ==
  /\ sweeping /\ IsNext(e) /\ e \in TooLate
  /\ todo' = todo \ {e}
  /\ UNCHANGED <<status, overdue, events, call, told, batch, refunded, sweeping, faults>>

\* WHEN OTHERS: counted as failed, the next tick tries again.
Fails(e) ==
  /\ sweeping /\ IsNext(e) /\ e \notin TooLate /\ faults < MaxFaults
  /\ todo' = todo \ {e}
  /\ faults' = faults + 1
  /\ UNCHANGED <<status, overdue, events, call, told, batch, refunded, sweeping>>

Idle == batch' = {} /\ todo' = {} /\ refunded' = {} /\ sweeping' = FALSE

CommitAll ==               \* mutant: every row of the batch is marked
  /\ sweeping /\ todo = {}
  /\ status' = [e \in Payouts |-> IF e \in batch THEN "REVERSED" ELSE status[e]]
  /\ events' = [e \in Payouts |-> IF e \in refunded THEN Append(events[e], "REVERSED")
                                  ELSE events[e]]
  /\ Idle /\ UNCHANGED <<overdue, call, told, faults>>

SweepCommit ==
  /\ sweeping /\ todo = {}
  /\ status' = [e \in Payouts |-> IF e \in refunded THEN "REVERSED" ELSE status[e]]
  /\ events' = [e \in Payouts |-> IF e \in refunded THEN Append(events[e], "REVERSED")
                                  ELSE events[e]]
  /\ Idle /\ UNCHANGED <<overdue, call, told, faults>>

CutOffHeld ==              \* mutant: no rollback, the rows stay locked
  /\ sweeping /\ faults < MaxFaults
  /\ faults' = faults + 1 /\ sweeping' = FALSE
  /\ UNCHANGED <<status, overdue, events, call, told, batch, todo, refunded>>

\* The run timeout, a lost connection, a crash: the batch is rolled back.
CutOff ==
  /\ sweeping /\ faults < MaxFaults
  /\ faults' = faults + 1
  /\ Idle /\ UNCHANGED <<status, overdue, events, call, told>>

-----------------------------------------------------------------------------

Sweeping ==
  \/ Tick \/ SweepCommit
  \/ \E e \in Payouts : Refund(e) \/ Expired(e)

Next ==
  \/ \E e \in Payouts : Submit(e) \/ Due(e) \/ Reverse(e) \/ Fails(e)
  \/ \E e \in Payouts, to \in Steps : \/ Mark(e, to)
                                      \/ \E c \in Callbacks : Miss(c, e, to)
  \/ \E c \in Callbacks : Answer(c)
  \/ Sweeping \/ CutOff

\* Time passes, and the ticker of the janitor fires again and again.  Nothing is
\* asked of Treasury.
Fairness ==
  /\ \A e \in Payouts : WF_vars(Due(e))
  /\ WF_vars(Sweeping)

Spec == Init /\ [][Next]_vars /\ Fairness

-----------------------------------------------------------------------------
(* What must hold.                                                          *)

TypeOK ==
  /\ status \in [Payouts -> Statuses]
  /\ overdue \in [Payouts -> BOOLEAN]
  /\ events \in [Payouts -> Seq(Statuses)]
  /\ call \in [Callbacks -> (Payouts \X Steps) \cup {None}]
  /\ told \subseteq Payouts \X (Steps \cup {"REVERSED"})
  /\ batch \subseteq Payouts /\ todo \subseteq batch /\ refunded \subseteq batch \ todo
  /\ sweeping \in BOOLEAN /\ (~sweeping => batch = {})
  /\ faults \in Nat

\* "All four emit an outbox event so downstream consumers see every state
\* change": the events of a payout are its history - forward only, one
\* terminal event at most - and the last one is its status.
Rank(st) ==
  CASE st = "SUBMITTED" -> 1 [] st = "ACKED" -> 2 [] st = "DISBURSING" -> 3 [] OTHER -> 4

EventsTellStatus ==
  \A e \in Payouts :
    LET h == events[e] IN
    /\ \A i \in 1 .. Len(h) - 1 : Rank(h[i]) < Rank(h[i + 1])
    /\ status[e] = IF h = <<>> THEN "NONE" ELSE h[Len(h)]

\* A callback answered with success has the effect it reports, however late its
\* answer: completed is never said of a payout that was refunded, and refunded
\* never of one that was completed.
AnswersHold ==
  \A t \in told : CASE t[2] \in Terminal -> status[t[1]] = t[2]
                    [] OTHER -> Rank(status[t[1]]) >= Rank(t[2])

Shown == [e \in Payouts |-> IF status[e] \in Open THEN "OPEN" ELSE status[e]]

\* "First terminal write wins."
Abstract == INSTANCE Disbursement WITH payout <- Shown

ImplementsDisbursement == Abstract!Spec

\* "Auto-reverse everything past [FINAL_DEADLINE]": a payout that comes due and
\* can still be refunded does not stay open, so the customer's money is not
\* debited indefinitely - unless Limit payouts that came due before it, are too
\* late for the reversal window and stay open fill every batch.  Nothing takes
\* such rows out of the sweep, so then it is left to the operator too.
Starves(e) == Cardinality({x \in Stuck \cap TooLate : x < e}) >= Limit

OverdueEnds ==
  \A e \in Payouts \ TooLate :
    <>[]Starves(e) \/ (overdue[e] ~> status[e] \in Terminal)
=============================================================================
