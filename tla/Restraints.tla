------------------------------- MODULE Restraints -------------------------------
(***************************************************************************)
(* Holds on wallets: add_restraint, release_restraint and the nightly      *)
(* eod_expire_restraints keep WLT_ACCT.TOTAL_RESTRAINED_AMT and CR_BLOCKED *)
(* in step with the rows of WLT_RESTRAINTS.                                *)
(*                                                                         *)
(* A client call is one step, its commit: it reads only under the lock of  *)
(* the account row (release takes the hold's row first), and waiters look  *)
(* again.  The nightly job is not: it recomputes the totals of an account  *)
(* from the snapshot its UPDATE takes before it waits for the account row. *)
(***************************************************************************)
EXTENDS Integers, FiniteSets, FiniteSetsExt

CONSTANTS
  Accounts,     \* INTERNAL_KEYs: numbers, the job takes them in order
  Holds,        \* the rows of WLT_RESTRAINTS that may be inserted
  AcctOf,       \* AcctOf[h]: the wallet h is placed on
  Pledge,       \* Pledge[h]: PLEDGED_AMT if the type is DEBIT or ALL, else 0
  Credit,       \* holds of type CREDIT or ALL
  Lead,         \* Lead[h]: days from the call to START_DATE
  Days,         \* Days[h]: days from START_DATE to END_DATE
  Deposit,      \* ACTUAL_BAL of every wallet at the start
  MaxDay,       \* bound on the calendar
  MaxCrashes,   \* bound on the runs of the job that are cut off
  Quiet         \* nobody adds or releases between midnight and the end of the job

ASSUME AccountsAssumption == Accounts \subseteq Nat
ASSUME HoldsAssumption ==
  /\ IsFiniteSet(Holds)
  /\ AcctOf \in [Holds -> Accounts] /\ Pledge \in [Holds -> Nat] /\ Credit \subseteq Holds
  /\ Lead \in [Holds -> Nat] /\ Days \in [Holds -> Nat]
ASSUME BoundsAssumption ==
  Deposit \in Nat /\ MaxDay \in Nat \ {0} /\ MaxCrashes \in Nat /\ Quiet \in BOOLEAN

VARIABLES
  today,        \* CURRENT_DATE
  status,       \* WLT_RESTRAINTS.STATUS, NONE before the insert
  start,        \* WLT_RESTRAINTS.START_DATE
  bal,          \* WLT_ACCT.ACTUAL_BAL
  restr,        \* WLT_ACCT.TOTAL_RESTRAINED_AMT
  crBlk,        \* WLT_ACCT.CR_BLOCKED
  job,          \* idle, due (after midnight), or where it is in the loop
  keys,         \* v_keys: the wallets the job has not finished
  agg,          \* the totals its UPDATE has computed
  crashes

holds == <<status, start>>
totals == <<restr, crBlk>>
jobVars == <<job, keys, agg, crashes>>
vars == <<today, holds, bal, totals, jobVars>>

End(h) == start[h] + Days[h]
On(a) == {h \in Holds : AcctOf[h] = a /\ status[h] = "A"}
Reserved(H) == MapThenSumSet(LAMBDA h : Pledge[h], H)

FromTomorrow(h, day) ==    \* mutant: START_DATE is exclusive
  start[h] < day /\ day <= End(h)

\* day BETWEEN START_DATE AND END_DATE
InWindow(h, day) == start[h] <= day /\ day <= End(h)

\* The totals of wallet a from holds H, as of a day.
Totals(H, day) ==
  LET live == {h \in H : InWindow(h, day)} IN
  [restr |-> Reserved(live), crBlk |-> live \cap Credit # {}]

Init ==
  /\ today = 1
  /\ status = [h \in Holds |-> "NONE"] /\ start = [h \in Holds |-> 0]
  /\ bal = [a \in Accounts |-> Deposit]
  /\ restr = [a \in Accounts |-> 0] /\ crBlk = [a \in Accounts |-> FALSE]
  /\ job = "idle" /\ keys = {} /\ agg = Totals({}, 1) /\ crashes = 0

-----------------------------------------------------------------------------
(* The API.                                                                 *)

ApiOpen == Quiet => job = "idle"

\* The job has updated (and locked) the rows of the wallet it is on.
Expirable(a, day) == {h \in On(a) : End(h) < day}
Current == CHOOSE a \in keys : \A b \in keys : a <= b
LockedRows == IF job = "write" \/ job = "sum" THEN Expirable(Current, today - 1) ELSE {}

AddPledge(h) ==            \* mutant: the pledge is compared with ACTUAL_BAL only
  LET a == AcctOf[h] IN
  /\ ApiOpen /\ status[h] = "NONE"
  /\ Pledge[h] <= bal[a]
  /\ status' = [status EXCEPT ![h] = "A"]
  /\ start' = [start EXCEPT ![h] = today + Lead[h]]
  /\ restr' = [restr EXCEPT ![a] = @ + Pledge[h]]
  /\ crBlk' = [crBlk EXCEPT ![a] = @ \/ h \in Credit]
  /\ UNCHANGED <<today, bal, jobVars>>

\* add_restraint: refused if the pledge exceeds the balance (P0064) or the
\* balance left (chk_acct_avail); otherwise added to the totals at once.
Add(h) ==
  LET a == AcctOf[h] IN
  /\ ApiOpen /\ status[h] = "NONE"
  /\ restr[a] + Pledge[h] <= bal[a]
  /\ status' = [status EXCEPT ![h] = "A"]
  /\ start' = [start EXCEPT ![h] = today + Lead[h]]
  /\ restr' = [restr EXCEPT ![a] = @ + Pledge[h]]
  /\ crBlk' = [crBlk EXCEPT ![a] = @ \/ h \in Credit]
  /\ UNCHANGED <<today, bal, jobVars>>

\* release_restraint: the totals are recomputed as of CURRENT_DATE.
Release(h) ==
  LET a == AcctOf[h] new == Totals(On(a) \ {h}, today) IN
  /\ ApiOpen /\ status[h] = "A" /\ h \notin LockedRows
  /\ new.restr <= bal[a]
  /\ status' = [status EXCEPT ![h] = "R"]
  /\ restr' = [restr EXCEPT ![a] = new.restr]
  /\ crBlk' = [crBlk EXCEPT ![a] = new.crBlk]
  /\ UNCHANGED <<today, start, bal, jobVars>>

\* A debit of any kind takes what is not reserved.
Spend(a) ==
  /\ bal[a] > restr[a]
  /\ bal' = [bal EXCEPT ![a] = restr[a]]
  /\ UNCHANGED <<today, holds, totals, jobVars>>

-----------------------------------------------------------------------------
(* The nightly job.                                                         *)

\* A run is over, one way or the other, before the next midnight.
Midnight ==
  /\ today < MaxDay /\ job = "idle"
  /\ today' = today + 1
  /\ job' = "due"
  /\ UNCHANGED <<holds, bal, totals, keys, agg, crashes>>

biz == today - 1           \* PriorDay

LastNight ==               \* mutant: a missed night is forgotten
  {a \in Accounts : \E h \in On(a) : End(h) = biz - 1}

Expiring == {a \in Accounts : Expirable(a, biz) # {}}

JobStart ==
  /\ job = "due"
  /\ keys' = Expiring
  /\ job' = "next"
  /\ UNCHANGED <<today, holds, bal, totals, agg, crashes>>

JobEnd ==
  /\ job = "next" /\ keys = {}
  /\ job' = "idle"
  /\ UNCHANGED <<today, holds, bal, totals, keys, agg, crashes>>

\* UPDATE WLT_RESTRAINTS: the rows are the job's until its COMMIT.
JobExpire ==
  /\ job = "next" /\ keys # {}
  /\ job' = "sum"
  /\ UNCHANGED <<today, holds, bal, totals, keys, agg, crashes>>

\* UPDATE WLT_ACCT: the subquery reads the statement's snapshot, ...
JobSum ==
  /\ job = "sum"
  /\ agg' = Totals(On(Current) \ Expirable(Current, biz), biz)
  /\ job' = "write"
  /\ UNCHANGED <<today, holds, bal, totals, keys, crashes>>

\* ... and the row is updated when its lock is free, with no new look at the
\* holds.  COMMIT.  If chk_acct_avail refuses the row the error ends the CALL,
\* and the wallets after this one are not looked at.
JobWrite ==
  /\ job = "write"
  /\ IF agg.restr <= bal[Current]
     THEN /\ status' = [h \in Holds |-> IF h \in LockedRows THEN "E" ELSE status[h]]
          /\ restr' = [restr EXCEPT ![Current] = agg.restr]
          /\ crBlk' = [crBlk EXCEPT ![Current] = agg.crBlk]
          /\ keys' = keys \ {Current} /\ job' = "next"
     ELSE /\ keys' = {} /\ job' = "idle"
          /\ UNCHANGED <<status, totals>>
  /\ UNCHANGED <<today, start, bal, agg, crashes>>

\* The run timeout, a shutdown, or a failure of the tasks before this one.
JobCutOff ==
  /\ job # "idle" /\ crashes < MaxCrashes
  /\ crashes' = crashes + 1
  /\ job' = "idle" /\ keys' = {}
  /\ UNCHANGED <<today, holds, bal, totals, agg>>

-----------------------------------------------------------------------------

Job == JobStart \/ JobExpire \/ JobSum \/ JobWrite \/ JobEnd

Next ==
  \/ \E h \in Holds : Add(h) \/ Release(h)
  \/ \E a \in Accounts : Spend(a)
  \/ Midnight \/ Job \/ JobCutOff

\* The calendar turns, and the scheduler runs the job every night.
Spec == Init /\ [][Next]_vars /\ WF_vars(Midnight) /\ WF_vars(Job)

-----------------------------------------------------------------------------
(* What must hold.                                                          *)

TypeOK ==
  /\ today \in 1 .. MaxDay
  /\ status \in [Holds -> {"NONE", "A", "R", "E"}]
  /\ start \in [Holds -> Nat]
  /\ bal \in [Accounts -> Nat] /\ restr \in [Accounts -> Nat]
  /\ \A a \in Accounts : restr[a] <= bal[a]
  /\ crBlk \in [Accounts -> BOOLEAN]
  /\ job \in {"idle", "due", "next", "sum", "write"}
  /\ keys \subseteq Accounts /\ (job \in {"sum", "write"} => keys # {})
  /\ agg \in [restr : Nat, crBlk : BOOLEAN]
  /\ crashes \in 0 .. MaxCrashes

\* TOTAL_RESTRAINED_AMT is the "denorm SUM(WLT_RESTRAINTS ...)", and CR_BLOCKED
\* says "if there is >= 1 active restraint with type in {CREDIT, ALL}": what a
\* hold in force reserves or blocks is reserved and blocked on its wallet.
InForceCounts ==
  \A a \in Accounts :
    LET now == Totals(On(a), today) IN
    restr[a] >= now.restr /\ (now.crBlk => crBlk[a])

\* Nothing stays reserved or blocked without a hold that is still active.
NothingWithoutHold ==
  \A a \in Accounts :
    restr[a] <= Reserved(On(a)) /\ (crBlk[a] => On(a) \cap Credit # {})

\* A hold whose END_DATE passes does not stay active, even if MaxCrashes nights
\* are missed: what it reserved comes back to the customer.
HoldsEnd ==
  \A h \in Holds :
    (status[h] = "A" /\ End(h) + 2 + MaxCrashes <= MaxDay) ~> status[h] # "A"
=============================================================================
