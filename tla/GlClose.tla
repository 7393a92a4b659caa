-------------------------------- MODULE GlClose --------------------------------
(***************************************************************************)
(* The accounting day: postings and manual journal entries that write the  *)
(* general-ledger journal (WLT_GL_BATCH), the cutoff, and run_gl_close,    *)
(* which reports a day in chunks, proves its trial balance and seals it.   *)
(*                                                                         *)
(* An entry is the legs of one TRAN_KEY: they are inserted by one          *)
(* transaction, carry one accounting date and show at its commit.  One     *)
(* currency; a day is a number.                                            *)
(***************************************************************************)
EXTENDS Integers, FiniteSets, FiniteSetsExt

CONSTANTS
  Postings,     \* entries of the posting procedures
  Manuals,      \* manual journal entries
  LastDay,
  Chunk,        \* p_step: how many keys a chunk of the feed covers
  MaxKey,       \* bound on the keys drawn
  MaxCuts,      \* bound on the closes that are cut off
  None

Entries == Postings \cup Manuals
Days == 1 .. LastDay

ASSUME DaysAssumption == LastDay \in Nat \ {0}
ASSUME ChunkAssumption == Chunk \in Nat \ {0}
ASSUME BoundsAssumption == MaxKey \in Nat /\ MaxCuts \in Nat
ASSUME KindsAssumption == Postings \cap Manuals = {}

VARIABLES
  today,      \* fn_accounting_date()
  place,      \* of an entry: none, draft, begun, inserted, committed, rejected
  date,       \* its ACCOUNTING_DATE
  key,        \* its TRAN_KEY
  nextKey,    \* the sequence
  reported,   \* entries with STATUS 'S'
  cursor,     \* LAST_KEY of the feed of a day
  fed,        \* days whose GL_FEED is DONE
  weighed,    \* days whose TRIAL_BALANCE is DONE
  proof,      \* by day that has one: what its trial balance counts, the proof it continues
  closed,     \* WLT_PERIOD
  job,        \* the close under way: its day, its task, the last key of its feed
  due,        \* history, by day: its entries when a close first began to feed it
  cuts

journal == <<place, date, key, nextKey>>
control == <<reported, cursor, fed, weighed, proof, closed>>
vars == <<today, journal, control, job, due, cuts>>

Init ==
  /\ today = 1
  /\ place = [e \in Entries |-> "none"]
  /\ date = [e \in Entries |-> 0]
  /\ key = [e \in Entries |-> 0] /\ nextKey = 1
  /\ reported = {}
  /\ cursor = [d \in Days |-> 0] /\ fed = {} /\ weighed = {}
  /\ proof = [d \in {} |-> {}]
  /\ closed = {}
  /\ job = None /\ due = [d \in {} |-> {}] /\ cuts = 0

ClosedThrough == Max(closed \cup {0})
UnderWay(e) == place[e] \in {"begun", "inserted"}
Committed(d) == {e \in Entries : place[e] = "committed" /\ date[e] = d}

-----------------------------------------------------------------------------
(* Entries *)

\* The cutoff: from now on a transaction that begins carries the next day.
Cutoff ==
  /\ today < LastDay
  /\ today' = today + 1
  /\ UNCHANGED <<journal, control, job, due, cuts>>

\* A posting begins: now(), and with it the accounting date, is fixed.
Begin(p) ==
  /\ place[p] = "none"
  /\ place' = [place EXCEPT ![p] = "begun"]
  /\ date' = [date EXCEPT ![p] = today]
  /\ UNCHANGED <<today, key, nextKey, control, job, due, cuts>>

\* create_manual_je: the maker may name the day.
Draft(m, d) ==
  /\ place[m] = "none"
  /\ place' = [place EXCEPT ![m] = "draft"]
  /\ date' = [date EXCEPT ![m] = d]
  /\ UNCHANGED <<today, key, nextKey, control, job, due, cuts>>

\* approve_manual_je: the row is PENDING and locked from here on.
Approve(m) ==
  /\ place[m] = "draft"
  /\ place' = [place EXCEPT ![m] = "begun"]
  /\ UNCHANGED <<today, date, key, nextKey, control, job, due, cuts>>

Decline(m) ==
  /\ place[m] = "draft"
  /\ place' = [place EXCEPT ![m] = "rejected"]
  /\ UNCHANGED <<today, date, key, nextKey, control, job, due, cuts>>

\* fn_freeze_closed_period lets legs in as of what is closed when they are inserted.
Insert(e) ==
  /\ place[e] = "begun" /\ nextKey <= MaxKey
  /\ date[e] > ClosedThrough
  /\ place' = [place EXCEPT ![e] = "inserted"]
  /\ key' = [key EXCEPT ![e] = nextKey] /\ nextKey' = nextKey + 1
  /\ UNCHANGED <<today, date, control, job, due, cuts>>

Commit(e) ==
  /\ place[e] = "inserted"
  /\ place' = [place EXCEPT ![e] = "committed"]
  /\ UNCHANGED <<today, date, key, nextKey, control, job, due, cuts>>

\* Refused by the freeze, or for any other reason: the transaction rolls back.
Rollback(e) ==
  /\ UnderWay(e)
  /\ place' = [place EXCEPT ![e] = IF e \in Manuals THEN "draft" ELSE "none"]
  /\ key' = [key EXCEPT ![e] = 0]
  /\ UNCHANGED <<today, date, nextKey, control, job, due, cuts>>

-----------------------------------------------------------------------------
(* run_gl_close *)

\* The scheduler, at the cutoff, or an operator.  The feed goes on behind its cursor, to the
\* highest key there is now.
Close(d) ==
  /\ job = None /\ d <= today
  /\ job' = [day |-> d, at |-> "feed", last |-> Max({key[e] : e \in Committed(d)} \cup {0})]
  /\ due' = IF cursor[d] > 0 THEN due
            ELSE [x \in DOMAIN due \cup {d} |-> IF x = d THEN Committed(d) ELSE due[x]]
  /\ UNCHANGED <<today, journal, control, cuts>>

Running(task) == job # None /\ job.at = task
Continue(task) == job' = [job EXCEPT !.at = task]

\* mutant: the last key of the chunk is left out
ChunkButLast(d) ==
  {e \in Committed(d) \ reported : key[e] > cursor[d] /\ key[e] < cursor[d] + Chunk}

NextChunk(d) ==
  {e \in Committed(d) \ reported : key[e] > cursor[d] /\ key[e] <= cursor[d] + Chunk}

\* One chunk and its commit.  An entry of a closed day cannot be updated.
Feed ==
  LET d == job.day IN
  /\ Running("feed") /\ cursor[d] <= job.last
  /\ NextChunk(d) # {} => d > ClosedThrough
  /\ reported' = reported \cup NextChunk(d)
  /\ cursor' = [cursor EXCEPT ![d] = @ + Chunk]
  /\ fed' = fed \ {d}
  /\ UNCHANGED <<today, journal, weighed, proof, closed, job, due, cuts>>

FeedDone ==
  LET d == job.day IN
  /\ Running("feed") /\ cursor[d] > job.last
  /\ fed' = fed \cup {d}
  /\ Continue("weigh")
  /\ UNCHANGED <<today, journal, reported, cursor, weighed, proof, closed, due, cuts>>

\* mutant: the last proof made, of a day before or after
BeforeAny(d) == DOMAIN proof \ {d}

Before(d) == {x \in DOMAIN proof : x < d}

Prior(d) == IF Before(d) = {} THEN None ELSE proof[Max(Before(d))]

Carried(d) == IF Before(d) = {} THEN {} ELSE proof[Max(Before(d))].lines

Counted(d) == Carried(d) \cup Committed(d)

\* eod_trial_balance, one transaction: the lines are deleted and built anew and the proof with
\* them, also those of a day that is closed.
Weigh ==
  LET d == job.day IN
  /\ Running("weigh")
  /\ proof' = IF Counted(d) = {} THEN proof
              ELSE [x \in DOMAIN proof \cup {d} |->
                      IF x = d THEN [lines |-> Counted(d), prev |-> Prior(d)] ELSE proof[x]]
  /\ weighed' = weighed \cup {d}
  /\ Continue("close")
  /\ UNCHANGED <<today, journal, reported, cursor, fed, closed, due, cuts>>

\* eod_close_period.
ClosePeriod ==
  LET d == job.day IN
  /\ Running("close") /\ d < today
  /\ d \in fed /\ d \in weighed
  /\ closed' = closed \cup {d}
  /\ job' = None
  /\ UNCHANGED <<today, journal, reported, cursor, fed, weighed, proof, due, cuts>>

\* A timeout, a shutdown, a crash, an error (EOD_PERIOD_NOT_PAST, PERIOD_CLOSED): what was
\* committed stays.
CutOff ==
  /\ job # None /\ cuts < MaxCuts
  /\ job' = None /\ cuts' = cuts + 1
  /\ UNCHANGED <<today, journal, control, due>>

-----------------------------------------------------------------------------

Next ==
  \/ Cutoff
  \/ \E p \in Postings : Begin(p)
  \/ \E m \in Manuals : Approve(m) \/ Decline(m) \/ \E d \in Days : Draft(m, d)
  \/ \E e \in Entries : Insert(e) \/ Commit(e) \/ Rollback(e)
  \/ \E d \in Days : Close(d)
  \/ Feed \/ FeedDone \/ Weigh \/ ClosePeriod \/ CutOff

Spec == Init /\ [][Next]_vars

-----------------------------------------------------------------------------

\* Days, entries and the job have their types; only committed entries are reported or counted,
\* none before its day, and only what was committed is due.
TypeOK ==
  /\ today \in Days
  /\ place \in [Entries -> {"none", "draft", "begun", "inserted", "committed", "rejected"}]
  /\ date \in [Entries -> 0 .. LastDay]
  /\ key \in [Entries -> 0 .. MaxKey] /\ nextKey \in 1 .. MaxKey + 1
  /\ cursor \in [Days -> Nat]
  /\ fed \subseteq Days /\ weighed \subseteq Days /\ closed \subseteq 1 .. today - 1
  /\ \A e \in reported : place[e] = "committed"
  /\ DOMAIN proof \subseteq Days /\ DOMAIN due \subseteq Days
  /\ \A d \in DOMAIN proof : \A e \in proof[d].lines : place[e] = "committed" /\ date[e] <= d
  /\ \A d \in DOMAIN due : \A e \in due[d] : place[e] = "committed" /\ date[e] = d
  /\ job # None =>
       job.day \in 1 .. today /\ job.at \in {"feed", "weigh", "close"} /\ job.last \in Nat
  /\ cuts \in 0 .. MaxCuts

\* A close that runs in chunks beside postings, is cut off, repeated, run for days out of order
\* or again over a closed day keeps its word: what the day held when a close first began to feed
\* it is reported before the day is closed, what is reported of it is in its trial balance and
\* nothing more of it is reported later; a trial balance that is deleted and built anew has all
\* that it had and all of the one before; and what is new in a closed day was in the journal,
\* uncommitted, when the day was closed.
Book == INSTANCE DayBook WITH
  entered <- [e \in Entries |-> IF place[e] \in {"inserted", "committed"} THEN date[e] ELSE 0],
  posted <- {e \in Entries : place[e] = "committed"},
  sealed <- closed,
  reported <- {e \in reported : date[e] \in closed}
ImplementsDayBook == Book!Spec

\* "A closed day immutable": no entry appears in it.
ClosedDayStays == [][\A d \in closed : Committed(d)' = Committed(d)]_vars
=============================================================================
