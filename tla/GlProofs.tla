-------------------------------- MODULE GlProofs --------------------------------
(***************************************************************************)
(* The close of the accounting day: types, and that a close in chunks, cut *)
(* off, repeated and run beside postings keeps what DayBook promises - for *)
(* any number of entries and days and any size of the chunks.              *)
(***************************************************************************)
EXTENDS GlClose, WellFoundedInduction, TLAPS

LEMMA LeastNatural ==
  ASSUME NEW S \in SUBSET Nat, S # {}
  PROVE  \E m \in S : \A n \in S : m <= n
<1>1. PICK m \in S : \A n \in S : <<n, m>> \notin OpToRel(<, Nat)
  BY NatLessThanWellFounded, WFMin, Zenon
<1>2. \A n \in S : ~(n < m)
  BY <1>1 DEF OpToRel
<1> QED
  BY <1>2

LEMMA GreatestNatural ==
  ASSUME NEW S \in SUBSET Nat, S # {}, NEW m \in Nat, \A n \in S : n <= m
  PROVE  Max(S) \in S /\ \A n \in S : n <= Max(S)
<1> DEFINE below == {m - n : n \in S}
<1>1. below \in SUBSET Nat /\ below # {}
  <2>1. \A n \in S : m - n \in Nat
    OBVIOUS
  <2> QED
    BY <2>1
<1>2. PICK x \in below : \A y \in below : x <= y
  BY <1>1, LeastNatural
<1>3. PICK g \in S : x = m - g
  BY <1>2
<1>4. \A n \in S : g >= n
  <2> SUFFICES ASSUME NEW n \in S PROVE g >= n
    OBVIOUS
  <2>1. x <= m - n
    BY <1>2
  <2> QED
    BY <1>3, <2>1
<1> QED
  BY <1>4 DEF Max

-----------------------------------------------------------------------------
(* Types.                                                                   *)

Tasks == {"feed", "weigh", "close"}

\* What TypeOK needs to be inductive: the shape of the records it looks into.
Shape ==
  /\ reported \subseteq Entries
  /\ proof = [d \in DOMAIN proof |-> proof[d]] /\ due = [d \in DOMAIN due |-> due[d]]
  /\ \A d \in DOMAIN proof : proof[d].lines \subseteq Entries
  /\ \A d \in DOMAIN due : due[d] \subseteq Entries
  /\ job # None => job \in [day : Days, at : Tasks, last : Nat]

TypeInv == TypeOK /\ Shape

LEMMA InitType == Init => TypeInv
  BY DaysAssumption, BoundsAssumption DEF Init, TypeInv, TypeOK, Shape, Days

\* The last day before a day that has a trial balance is one of those days.
LEMMA LastBefore ==
  ASSUME TypeInv, NEW d \in Days, Before(d) # {}
  PROVE  /\ Max(Before(d)) \in Before(d) /\ Max(Before(d)) \in DOMAIN proof
         /\ Max(Before(d)) \in Days /\ Max(Before(d)) < d
         /\ \A x \in Before(d) : x <= Max(Before(d))
<1>1. d \in Nat /\ Before(d) \in SUBSET Nat /\ \A x \in Before(d) : x <= d
  BY DaysAssumption DEF Days, Before, TypeInv, TypeOK
<1>2. Max(Before(d)) \in Before(d) /\ \A x \in Before(d) : x <= Max(Before(d))
  BY <1>1, GreatestNatural
<1> QED
  BY <1>2 DEF Before, TypeInv, TypeOK

Places == {"none", "draft", "begun", "inserted", "committed", "rejected"}

\* An entry moves: what is committed stays as it is.
LEMMA EntriesMove ==
  ASSUME TypeInv, UNCHANGED <<today, control, job, due, cuts>>,
         place' \in [Entries -> Places], date' \in [Entries -> 0 .. LastDay],
         key' \in [Entries -> 0 .. MaxKey], nextKey' \in 1 .. MaxKey + 1,
         \A e \in Entries : place[e] = "committed" => place'[e] = "committed" /\ date'[e] = date[e]
  PROVE  TypeInv'
<1>1. Shape'
  BY DEF TypeInv, Shape, control
<1>2. TypeOK'
  BY DEF TypeInv, TypeOK, Shape, control, Places
<1> QED
  BY <1>1, <1>2 DEF TypeInv

LEMMA NextType ==
  ASSUME TypeInv, [Next]_vars
  PROVE  TypeInv'
<1> USE DaysAssumption, BoundsAssumption, ChunkAssumption
    DEF TypeInv, TypeOK, Shape, Days, Tasks
<1>1. CASE Cutoff
  <2>1. /\ today' = today + 1 /\ today' \in Days /\ today \in Nat
        /\ UNCHANGED <<place, date, key, nextKey, control, job, due, cuts>>
    BY <1>1 DEF Cutoff, journal
  <2>2. 1 .. today - 1 \subseteq 1 .. today' - 1 /\ 1 .. today \subseteq 1 .. today'
    <3> HIDE DEF TypeInv, TypeOK, Shape, Tasks
    <3> QED
      BY <2>1
  <2>3. TypeOK'
    BY ZenonT(60), <2>1, <2>2 DEF control
  <2>4. Shape'
    BY <2>1 DEF control
  <2> QED
    BY <2>3, <2>4
<1>2. ASSUME NEW e \in Entries, Begin(e) \/ (\E d \in Days : Draft(e, d)) PROVE TypeInv'
  <2>1. /\ place[e] = "none" /\ UNCHANGED <<today, control, job, due, cuts, key, nextKey>>
        /\ \E p \in {"begun", "draft"} : place' = [place EXCEPT ![e] = p]
        /\ \E d \in Days : date' = [date EXCEPT ![e] = d]
    BY <1>2 DEF Begin, Draft, control
  <2>2. place' \in [Entries -> Places] /\ date' \in [Entries -> 0 .. LastDay]
    BY <2>1 DEF Places
  <2>3. /\ key' \in [Entries -> 0 .. MaxKey] /\ nextKey' \in 1 .. MaxKey + 1
        /\ \A x \in Entries : place[x] = "committed" => place'[x] = "committed" /\ date'[x] = date[x]
    BY <2>1
  <2> HIDE DEF TypeInv, TypeOK, Shape
  <2> QED
    BY <2>1, <2>2, <2>3, EntriesMove
<1>3. ASSUME NEW e \in Entries,
             Approve(e) \/ Decline(e) \/ Insert(e) \/ Commit(e) \/ Rollback(e)
      PROVE  TypeInv'
  <2>1. /\ place[e] \in {"draft", "begun", "inserted"}
        /\ UNCHANGED <<today, control, job, due, cuts, date>>
        /\ \E p \in Places : place' = [place EXCEPT ![e] = p]
    BY <1>3 DEF Approve, Decline, Insert, Commit, Rollback, UnderWay, control, Places
  <2>2. /\ \E k \in 0 .. MaxKey : key' = [key EXCEPT ![e] = k]
        /\ nextKey' \in 1 .. MaxKey + 1
    <3>1. CASE Insert(e)
      <4>1. key' = [key EXCEPT ![e] = nextKey] /\ nextKey' = nextKey + 1 /\ nextKey <= MaxKey
        BY <3>1 DEF Insert
      <4>2. nextKey \in 0 .. MaxKey /\ nextKey + 1 \in 1 .. MaxKey + 1
        BY <4>1
      <4> QED
        BY <4>1, <4>2
    <3>2. CASE Approve(e) \/ Decline(e) \/ Commit(e)
      <4>1. key' = [key EXCEPT ![e] = key[e]] /\ nextKey' = nextKey
        BY <3>2 DEF Approve, Decline, Commit
      <4> QED
        BY <4>1
    <3>3. CASE Rollback(e)
      <4>1. key' = [key EXCEPT ![e] = 0] /\ nextKey' = nextKey /\ 0 \in 0 .. MaxKey
        BY <3>3 DEF Rollback
      <4> QED
        BY <4>1
    <3> QED
      BY <1>3, <3>1, <3>2, <3>3
  <2>3. place' \in [Entries -> Places] /\ key' \in [Entries -> 0 .. MaxKey]
    BY <2>1, <2>2 DEF Places
  <2>4. date' \in [Entries -> 0 .. LastDay]
    BY <2>1
  <2>5. \A x \in Entries : place[x] = "committed" => place'[x] = "committed" /\ date'[x] = date[x]
    BY <2>1
  <2> HIDE DEF TypeInv, TypeOK, Shape
  <2> QED
    BY <2>1, <2>2, <2>3, <2>4, <2>5, EntriesMove
<1>4. ASSUME NEW d \in Days, Close(d) PROVE TypeInv'
  <2> DEFINE keys == {key[e] : e \in Committed(d)} \cup {0}
  <2>1. keys \in SUBSET Nat /\ keys # {} /\ \A n \in keys : n <= MaxKey
    BY DEF Committed
  <2>2. Max(keys) \in Nat
    BY <2>1, GreatestNatural
  <2>3. /\ job' = [day |-> d, at |-> "feed", last |-> Max(keys)] /\ d <= today
        /\ UNCHANGED <<today, journal, control, cuts>>
        /\ \/ due' = due
           \/ due' = [x \in DOMAIN due \cup {d} |-> IF x = d THEN Committed(d) ELSE due[x]]
    BY <1>4 DEF Close
  <2>4. /\ DOMAIN due' \subseteq Days /\ due' = [x \in DOMAIN due' |-> due'[x]]
        /\ \A x \in DOMAIN due' : \/ x = d /\ due'[x] = Committed(d)
                                  \/ x \in DOMAIN due /\ due'[x] = due[x]
    BY <2>3
  <2>5. \A e \in Committed(d) : e \in Entries /\ place[e] = "committed" /\ date[e] = d
    BY DEF Committed
  <2>6. \A x \in DOMAIN due' : /\ due'[x] \subseteq Entries
                              /\ \A e \in due'[x] : place[e] = "committed" /\ date[e] = x
    BY SMTT(40), <2>4, <2>5
  <2>7. /\ job' \in [day : Days, at : Tasks, last : Nat]
        /\ job'.day \in 1 .. today /\ job'.at \in Tasks /\ job'.last \in Nat
    BY <2>2, <2>3
  <2>8. UNCHANGED <<today, place, date, key, nextKey, reported, cursor, fed, weighed, proof, closed, cuts>>
    BY <2>3 DEF journal, control
  <2> HIDE DEF keys
  <2>9. TypeOK'
    <3>1. DOMAIN due' \subseteq Days
      BY <2>4
    <3>2. \A x \in DOMAIN due' : \A e \in due'[x] : place'[e] = "committed" /\ date'[e] = x
      BY <2>6, <2>8
    <3>3. job' # None =>
            job'.day \in 1 .. today' /\ job'.at \in {"feed", "weigh", "close"} /\ job'.last \in Nat
      BY <2>7, <2>8
    <3> QED
      BY <2>8, <3>1, <3>2, <3>3
  <2>10. Shape'
    BY <2>4, <2>6, <2>7, <2>8
  <2> HIDE DEF TypeOK, Shape
  <2> QED
    BY <2>9, <2>10
<1>5. CASE Feed
  <2>1. /\ job # None /\ job.day \in Days
        /\ reported' = reported \cup NextChunk(job.day)
        /\ cursor' = [cursor EXCEPT ![job.day] = cursor[job.day] + Chunk]
        /\ fed' = fed \ {job.day}
        /\ UNCHANGED <<today, place, date, key, nextKey, weighed, proof, closed, job, due, cuts>>
    BY <1>5 DEF Feed, Running, journal
  <2>2. NextChunk(job.day) \subseteq Entries /\ \A e \in NextChunk(job.day) : place[e] = "committed"
    BY DEF NextChunk, Committed
  <2>3. cursor' \in [Days -> Nat]
    BY <2>1
  <2>4. \A e \in reported' : place'[e] = "committed"
    BY <2>1, <2>2
  <2>5. fed' \subseteq Days
    BY <2>1
  <2>6. TypeOK'
    <3>1. /\ today' \in Days
          /\ place' \in [Entries -> {"none", "draft", "begun", "inserted", "committed", "rejected"}]
          /\ date' \in [Entries -> 0 .. LastDay]
          /\ key' \in [Entries -> 0 .. MaxKey] /\ nextKey' \in 1 .. MaxKey + 1
          /\ weighed' \subseteq Days /\ closed' \subseteq 1 .. today' - 1 /\ cuts' \in 0 .. MaxCuts
      BY <2>1
    <3>2. /\ DOMAIN proof' \subseteq Days /\ DOMAIN due' \subseteq Days
          /\ \A d \in DOMAIN proof' : \A e \in proof'[d].lines : place'[e] = "committed" /\ date'[e] <= d
          /\ \A d \in DOMAIN due' : \A e \in due'[d] : place'[e] = "committed" /\ date'[e] = d
      BY <2>1
    <3>3. job' # None =>
            job'.day \in 1 .. today' /\ job'.at \in {"feed", "weigh", "close"} /\ job'.last \in Nat
      BY <2>1
    <3> QED
      BY <2>3, <2>4, <2>5, <3>1, <3>2, <3>3
  <2>7. Shape'
    BY <2>1, <2>2
  <2> HIDE DEF TypeOK, Shape
  <2> QED
    BY <2>6, <2>7
<1>6. CASE FeedDone
  <2>1. /\ job # None /\ job \in [day : Days, at : Tasks, last : Nat] /\ job.day \in 1 .. today
        /\ fed' = fed \cup {job.day} /\ job' = [job EXCEPT !.at = "weigh"]
        /\ UNCHANGED <<today, place, date, key, nextKey, reported, cursor, weighed, proof, closed, due, cuts>>
    BY <1>6 DEF FeedDone, Running, Continue, journal
  <2>2. /\ job' \in [day : Days, at : Tasks, last : Nat] /\ fed' \subseteq Days
        /\ job'.day \in 1 .. today' /\ job'.at \in Tasks /\ job'.last \in Nat
    BY <2>1
  <2>3. TypeOK'
    BY <2>1, <2>2
  <2>4. Shape'
    BY <2>1, <2>2
  <2> HIDE DEF TypeOK, Shape
  <2> QED
    BY <2>3, <2>4
<1>7. CASE Weigh
  <2> DEFINE d == job.day
  <2>1. d \in Days /\ job \in [day : Days, at : Tasks, last : Nat]
    BY <1>7 DEF Weigh, Running
  <2>2. \A e \in Counted(d) : e \in Entries /\ place[e] = "committed" /\ date[e] <= d
    <3>1. \A e \in Committed(d) : e \in Entries /\ place[e] = "committed" /\ date[e] <= d
      BY <2>1 DEF Committed
    <3>2. ASSUME NEW e \in Carried(d)
          PROVE  e \in Entries /\ place[e] = "committed" /\ date[e] <= d
      <4>1. Before(d) # {} /\ e \in proof[Max(Before(d))].lines
        BY DEF Carried
      <4>2. PICK x \in Days : x < d /\ x \in DOMAIN proof /\ e \in proof[x].lines
        BY <2>1, <4>1, LastBefore
      <4>3. e \in Entries /\ place[e] = "committed" /\ date[e] <= x
        BY <4>2
      <4>4. date[e] \in Nat /\ x \in Nat /\ d \in Nat
        BY <2>1, <4>3, SMTT(30)
      <4> HIDE DEF TypeInv, TypeOK, Shape
      <4> QED
        BY <4>2, <4>3, <4>4
    <3> QED
      BY <3>1, <3>2 DEF Counted
  <2> DEFINE line == [lines |-> Counted(d), prev |-> Prior(d)]
             made == [x \in DOMAIN proof \cup {d} |-> IF x = d THEN line ELSE proof[x]]
  <2>3. proof' = proof \/ proof' = made
    BY <1>7 DEF Weigh
  <2>4. /\ DOMAIN proof' \subseteq Days /\ proof' = [x \in DOMAIN proof' |-> proof'[x]]
        /\ \A x \in DOMAIN proof' : \/ x = d /\ proof'[x].lines = Counted(d)
                                    \/ x \in DOMAIN proof /\ proof'[x] = proof[x]
    BY <2>1, <2>3
  <2>5. \A x \in DOMAIN proof' :
          /\ proof'[x].lines \subseteq Entries
          /\ \A e \in proof'[x].lines : place[e] = "committed" /\ date[e] <= x
    <3>1. \A x \in DOMAIN proof :
            /\ proof[x].lines \subseteq Entries
            /\ \A e \in proof[x].lines : place[e] = "committed" /\ date[e] <= x
      OBVIOUS
    <3> HIDE DEF TypeInv, TypeOK, Shape
    <3> QED
      BY <2>2, <2>4, <3>1
  <2>6. /\ job' = [job EXCEPT !.at = "close"] /\ weighed' = weighed \cup {d}
        /\ UNCHANGED <<today, journal, reported, cursor, fed, closed, due, cuts>>
    BY <1>7 DEF Weigh, Continue
  <2>7. job'.day = d /\ job'.at = "close" /\ job'.last \in Nat /\ d \in 1 .. today'
    <3>1. d \in 1 .. today
      BY <1>7 DEF Weigh, Running
    <3> QED
      BY <2>1, <2>6, <3>1
  <2>8. weighed' \subseteq Days
    BY <2>1, <2>6
  <2>9. TypeOK'
    BY SMTT(60), <2>4, <2>5, <2>6, <2>7, <2>8 DEF journal
  <2>10. Shape'
    <3>1. job' \in [day : Days, at : Tasks, last : Nat]
      BY <2>1, <2>6
    <3> HIDE DEF made, line
    <3> QED
      BY <2>4, <2>5, <2>6, <3>1
  <2> QED
    BY <2>9, <2>10
<1>8. CASE ClosePeriod
  <2>1. /\ job.day \in 1 .. today - 1
        /\ closed' = closed \cup {job.day} /\ job' = None
        /\ UNCHANGED <<today, place, date, key, nextKey, reported, cursor, fed, weighed, proof, due, cuts>>
    BY <1>8 DEF ClosePeriod, Running, journal
  <2>2. TypeOK'
    BY <2>1
  <2>3. Shape'
    BY <2>1
  <2> QED
    BY <2>2, <2>3
<1>9. CASE CutOff
  <2>1. /\ job' = None /\ cuts' = cuts + 1 /\ cuts' \in 0 .. MaxCuts
        /\ UNCHANGED <<today, place, date, key, nextKey, reported, cursor, fed, weighed, proof, closed, due>>
    BY <1>9 DEF CutOff, journal, control
  <2>2. TypeOK'
    BY <2>1
  <2>3. Shape'
    BY <2>1
  <2> QED
    BY <2>2, <2>3
<1>10. CASE UNCHANGED vars
  BY <1>10 DEF vars, journal, control
<1> QED
  BY <1>1, <1>2, <1>3, <1>4, <1>5, <1>6, <1>7, <1>8, <1>9, <1>10 DEF Next, Entries

\* Days, entries and the close keep their types; only committed entries are
\* reported or weighed, none in a trial balance before its own day.
THEOREM DayTypes == Spec => []TypeOK
<1>1. TypeInv => TypeOK
  BY DEF TypeInv
<1> QED
  BY <1>1, InitType, NextType, PTL DEF Spec

-----------------------------------------------------------------------------
(* The invariant of the close.                                              *)

\* An entry with legs in the journal has its key and its day.
Dated ==
  \A e \in Entries :
    /\ place[e] # "none" => date[e] \in Days
    /\ place[e] \in {"inserted", "committed"} => key[e] >= 1

\* The feed has passed nothing by that was there when it began.
DueFed == \A d \in DOMAIN due : \A e \in due[d] : key[e] <= cursor[d] => e \in reported

Lines(d) == IF d \in DOMAIN proof THEN proof[d].lines ELSE {}

ReportedOf(d) == {e \in reported : date[e] = d}

JobFed ==
  job # None =>
    /\ job.day \in DOMAIN due
    /\ \A e \in due[job.day] : key[e] <= job.last
    /\ job.at # "feed" => cursor[job.day] > 0 /\ due[job.day] \subseteq reported
    /\ job.at = "close" => ReportedOf(job.day) \subseteq Lines(job.day)

\* A trial balance that is built anew has all the lines it had.
Kept == \A d \in Days : Lines(d) \subseteq Counted(d)

FedFirst ==
  /\ \A d \in closed : cursor[d] > 0
  /\ \A d \in Days : cursor[d] > 0 => d \in DOMAIN due

CloseInv == TypeInv /\ Dated /\ DueFed /\ JobFed /\ Kept /\ FedFirst

LEMMA CloseInit == Init => CloseInv
<1> SUFFICES ASSUME Init PROVE CloseInv
  OBVIOUS
<1>1. Dated /\ DueFed /\ JobFed /\ FedFirst
  BY DEF Init, Dated, DueFed, JobFed, FedFirst, Days
<1>2. Kept
  BY DEF Init, Kept, Lines
<1> QED
  BY <1>1, <1>2, InitType DEF CloseInv

\* Entries move: what is committed stays as it is.
LEMMA EntriesKeep ==
  ASSUME CloseInv, TypeInv', Dated', UNCHANGED <<control, job, due>>,
         \A e \in Entries : place[e] = "committed" =>
           place'[e] = "committed" /\ date'[e] = date[e] /\ key'[e] = key[e]
  PROVE  CloseInv'
<1> USE DEF control
<1>1. \A d \in Days : Committed(d) \subseteq Committed(d)' /\ Carried(d)' = Carried(d)
  BY DEF Committed, Carried, Before
<1>2. \A d : Lines(d)' = Lines(d)
  BY DEF Lines
<1>3. Kept'
  BY <1>1, <1>2 DEF CloseInv, Kept, Counted
<1>4. \A d \in DOMAIN due : \A e \in due[d] : key'[e] = key[e]
  BY DEF CloseInv, TypeInv, TypeOK, Shape
<1>5. DueFed'
  BY <1>4 DEF CloseInv, DueFed
<1>6. \A d : ReportedOf(d)' = ReportedOf(d)
  BY DEF ReportedOf, CloseInv, TypeInv, TypeOK, Shape
<1>7. JobFed'
  BY <1>2, <1>4, <1>6 DEF CloseInv, JobFed
<1>8. FedFirst'
  BY DEF CloseInv, FedFirst
<1> QED
  BY <1>3, <1>5, <1>7, <1>8 DEF CloseInv

LEMMA EntryKeepsClose ==
  ASSUME CloseInv, TypeInv', NEW e \in Entries,
         \/ Begin(e) \/ (\E d \in Days : Draft(e, d)) \/ Approve(e) \/ Decline(e)
         \/ Insert(e) \/ Commit(e) \/ Rollback(e)
  PROVE  /\ CloseInv'
         /\ UNCHANGED <<control, job, due>>
         /\ \A x \in Entries \ {e} : place'[x] = place[x] /\ date'[x] = date[x]
         /\ place[e] # "committed"
<1>1. /\ UNCHANGED <<control, job, due>> /\ place[e] # "committed"
      /\ \A x \in Entries \ {e} : place'[x] = place[x] /\ date'[x] = date[x] /\ key'[x] = key[x]
  BY DEF Begin, Draft, Approve, Decline, Insert, Commit, Rollback, UnderWay, CloseInv, TypeInv,
         TypeOK
<1>2. place'[e] # "none" => date'[e] \in Days
  <2>1. CASE Begin(e) \/ (\E d \in Days : Draft(e, d))
    BY <2>1 DEF Begin, Draft, CloseInv, TypeInv, TypeOK
  <2>2. CASE Approve(e) \/ Decline(e) \/ Insert(e) \/ Commit(e) \/ Rollback(e)
    BY <2>2 DEF Approve, Decline, Insert, Commit, Rollback, UnderWay, CloseInv, Dated
  <2> QED
    BY <2>1, <2>2
<1>3. place'[e] \in {"inserted", "committed"} => key'[e] >= 1
  <2>1. CASE Insert(e)
    BY <2>1, BoundsAssumption DEF Insert, CloseInv, TypeInv, TypeOK
  <2>2. CASE Commit(e)
    BY <2>2 DEF Commit, CloseInv, Dated
  <2>3. CASE ~Insert(e) /\ ~Commit(e)
    BY <2>3 DEF Begin, Draft, Approve, Decline, Rollback, CloseInv, TypeInv, TypeOK
  <2> QED
    BY <2>1, <2>2, <2>3
<1>4. Dated'
  BY <1>1, <1>2, <1>3 DEF CloseInv, Dated
<1> QED
  BY <1>1, <1>4, EntriesKeep

LEMMA CloseBegins ==
  ASSUME CloseInv, TypeInv', NEW d \in Days, Close(d)
  PROVE  CloseInv'
<1> DEFINE keys == {key[e] : e \in Committed(d)} \cup {0}
<1>1. keys \in SUBSET Nat /\ keys # {} /\ \A n \in keys : n <= MaxKey
  BY BoundsAssumption DEF CloseInv, TypeInv, TypeOK, Committed
<1>2. \A e \in Committed(d) : key[e] <= Max(keys)
  <2>1. Max(keys) \in keys /\ \A n \in keys : n <= Max(keys)
    BY <1>1, GreatestNatural, BoundsAssumption
  <2>2. \A e \in Committed(d) : key[e] \in keys
    OBVIOUS
  <2> QED
    BY <2>1, <2>2
<1>3. /\ job' = [day |-> d, at |-> "feed", last |-> Max(keys)]
      /\ UNCHANGED <<today, place, date, key, nextKey, reported, cursor, fed, weighed, proof, closed>>
  BY DEF Close, journal, control
<1> HIDE DEF keys
<1>4. \/ cursor[d] > 0 /\ due' = due
      \/ /\ cursor[d] = 0
         /\ due' = [x \in DOMAIN due \cup {d} |-> IF x = d THEN Committed(d) ELSE due[x]]
  BY DEF Close, CloseInv, TypeInv, TypeOK
<1>5. \A x \in DOMAIN due' : \/ x = d /\ cursor[d] = 0 /\ due'[x] = Committed(d)
                             \/ x \in DOMAIN due /\ due'[x] = due[x]
  BY <1>4
<1>6. DueFed'
  <2> SUFFICES ASSUME NEW x \in DOMAIN due', NEW e \in due'[x], key[e] <= cursor[x]
               PROVE  e \in reported
    BY <1>3 DEF DueFed
  <2>1. CASE x = d /\ cursor[d] = 0 /\ due'[x] = Committed(d)
    <3>1. key[e] >= 1 /\ key[e] \in Nat
      BY <2>1 DEF Committed, CloseInv, Dated, TypeInv, TypeOK
    <3> QED
      BY <2>1, <3>1
  <2>2. CASE x \in DOMAIN due /\ due'[x] = due[x]
    BY <2>2 DEF CloseInv, DueFed
  <2> QED
    BY <1>5, <2>1, <2>2
<1>7. d \in DOMAIN due' /\ due'[d] \subseteq Committed(d)
  <2>1. CASE cursor[d] = 0
    BY <1>4, <2>1
  <2>2. CASE cursor[d] > 0
    <3>1. d \in DOMAIN due
      BY <2>2 DEF CloseInv, FedFirst
    <3> QED
      BY <1>4, <2>2, <3>1 DEF CloseInv, TypeInv, TypeOK, Shape, Committed
  <2> QED
    BY <1>4, <2>1, <2>2
<1>8. JobFed'
  BY <1>2, <1>3, <1>7 DEF JobFed
<1>9. Dated' /\ Kept'
  BY <1>3 DEF CloseInv, Dated, Kept, Lines, Counted, Carried, Before, Committed
<1>10. FedFirst'
  BY <1>3, <1>4 DEF CloseInv, FedFirst
<1> QED
  BY <1>6, <1>8, <1>9, <1>10 DEF CloseInv

\* A close that goes on, or ends, with what is known of its day.
LEMMA DayOfJob ==
  ASSUME CloseInv, job # None
  PROVE  /\ job \in [day : Days, at : Tasks, last : Nat]
         /\ job.day \in Days /\ job.day \in DOMAIN due /\ job.day \in Nat
  BY DEF CloseInv, TypeInv, Shape, JobFed, Days

LEMMA FeedKeeps ==
  ASSUME CloseInv, TypeInv', Feed
  PROVE  CloseInv'
<1> DEFINE d == job.day
<1>1. /\ job # None /\ job.at = "feed" /\ d \in Days /\ d \in DOMAIN due
      /\ reported' = reported \cup NextChunk(d)
      /\ cursor' = [cursor EXCEPT ![d] = cursor[d] + Chunk]
      /\ UNCHANGED <<place, date, key, proof, closed, job, due>>
  BY DayOfJob DEF Feed, Running, journal
<1>2. cursor[d] \in Nat /\ Chunk \in Nat \ {0} /\ cursor \in [Days -> Nat]
  BY <1>1, ChunkAssumption DEF CloseInv, TypeInv, TypeOK
<1>3. \A x \in Days : cursor'[x] = IF x = d THEN cursor[d] + Chunk ELSE cursor[x]
  BY <1>1, <1>2
<1>4. DueFed'
  <2> SUFFICES ASSUME NEW x \in DOMAIN due, NEW e \in due[x], key[e] <= cursor'[x]
               PROVE  e \in reported'
    BY <1>1 DEF DueFed
  <2>1. /\ x \in Days /\ e \in Entries /\ place[e] = "committed" /\ date[e] = x /\ key[e] \in Nat
    BY DEF CloseInv, TypeInv, TypeOK, Shape
  <2>2. CASE x # d \/ key[e] <= cursor[d]
    BY <1>1, <1>3, <2>1, <2>2 DEF CloseInv, DueFed
  <2>3. CASE x = d /\ key[e] > cursor[d]
    BY <1>1, <1>2, <1>3, <2>1, <2>3 DEF NextChunk, Committed
  <2> QED
    BY <1>2, <2>1, <2>2, <2>3
<1>5. JobFed'
  BY <1>1 DEF CloseInv, JobFed
<1>6. Dated' /\ Kept'
  BY <1>1 DEF CloseInv, Dated, Kept, Lines, Counted, Carried, Before, Committed
<1>7. FedFirst'
  <2>1. \A x \in closed : x \in Days
    BY DaysAssumption DEF CloseInv, TypeInv, TypeOK, Days
  <2>2. cursor'[d] > 0
    BY <1>1, <1>2, <1>3
  <2> QED
    BY <1>1, <1>3, <2>1, <2>2 DEF CloseInv, FedFirst
<1> QED
  BY <1>4, <1>5, <1>6, <1>7 DEF CloseInv

LEMMA FeedDoneKeeps ==
  ASSUME CloseInv, TypeInv', FeedDone
  PROVE  CloseInv'
<1> DEFINE d == job.day
<1>1. /\ job # None /\ d \in Days /\ d \in DOMAIN due /\ job \in [day : Days, at : Tasks, last : Nat]
      /\ cursor[d] > job.last /\ job' = [job EXCEPT !.at = "weigh"]
      /\ UNCHANGED <<place, date, key, reported, cursor, proof, closed, due>>
  BY DayOfJob DEF FeedDone, Running, Continue, journal
<1>2. cursor[d] \in Nat /\ job.last \in Nat
  BY <1>1 DEF CloseInv, TypeInv, TypeOK
<1>3. job'.day = d /\ job'.at = "weigh" /\ job'.last = job.last
  BY <1>1
<1>4. ASSUME NEW e \in due[d] PROVE e \in reported /\ key[e] <= job.last
  <2>1. key[e] \in Nat /\ key[e] <= job.last
    BY <1>1, <1>4 DEF CloseInv, TypeInv, TypeOK, Shape, JobFed
  <2>2. key[e] <= cursor[d]
    BY <1>1, <1>2, <2>1
  <2> QED
    BY <1>1, <2>1, <2>2 DEF CloseInv, DueFed
<1>5. JobFed'
  BY <1>1, <1>2, <1>3, <1>4 DEF JobFed
<1>6. Dated' /\ DueFed' /\ FedFirst' /\ Kept'
  BY <1>1 DEF CloseInv, Dated, DueFed, FedFirst, Kept, Lines, Counted, Carried, Before, Committed
<1> QED
  BY <1>5, <1>6 DEF CloseInv

\* The last day with a trial balance before a day, when one is made for day d.
LEMMA BeforeNext ==
  ASSUME TypeInv, NEW d \in Days, NEW x \in Days, DOMAIN proof' = DOMAIN proof \cup {d}
  PROVE  Before(x)' = IF d < x THEN Before(x) \cup {d} ELSE Before(x)
  BY DEF Before, TypeInv, TypeOK, Days

\* A trial balance made again is carried by those that come after, with all it had.
LEMMA CarriedGrows ==
  ASSUME CloseInv, TypeInv', NEW d \in Days, NEW x \in Days,
         UNCHANGED <<place, date>>,
         DOMAIN proof' = DOMAIN proof \cup {d},
         proof'[d].lines = Counted(d),
         \A y \in DOMAIN proof \ {d} : proof'[y] = proof[y]
  PROVE  Carried(x) \subseteq Carried(x)'
<1>1. TypeInv /\ \A y \in Days : y \in Nat
  BY DEF CloseInv, Days
<1>2. CASE Before(x) = {}
  BY <1>2 DEF Carried
<1>3. CASE Before(x) # {} /\ ~(d < x)
  <2>1. Before(x)' = Before(x)
    BY <1>1, <1>3, BeforeNext
  <2>2. Max(Before(x)) \in DOMAIN proof /\ Max(Before(x)) < x
    BY <1>1, <1>3, LastBefore
  <2>3. Max(Before(x)) # d
    BY <1>3, <2>2
  <2> QED
    BY <1>3, <2>1, <2>2, <2>3 DEF Carried
<1>4. CASE Before(x) # {} /\ d < x
  <2> DEFINE m == Max(Before(x))
             n == Max(Before(x)')
  <2>1. Before(x)' = Before(x) \cup {d}
    BY <1>1, <1>4, BeforeNext
  <2>2. m \in Before(x) /\ m \in DOMAIN proof /\ m \in Days /\ \A y \in Before(x) : y <= m
    BY <1>1, <1>4, LastBefore
  <2>3. n \in Before(x)' /\ n \in Days /\ \A y \in Before(x)' : y <= n
    <3>1. Before(x)' \in SUBSET Nat /\ Before(x)' # {} /\ \A y \in Before(x)' : y <= x
      BY <1>1, <1>4, <2>1 DEF Before, TypeInv, TypeOK
    <3>2. n \in Before(x)' /\ \A y \in Before(x)' : y <= n
      BY <1>1, <3>1, GreatestNatural
    <3> QED
      BY <2>1, <3>2, <1>1 DEF Before, TypeInv, TypeOK
  <2>4. m <= n /\ m \in Nat /\ n \in Nat /\ d \in Nat
    BY <1>1, <2>1, <2>2, <2>3
  <2>5. Carried(x) = proof[m].lines /\ Carried(x)' = proof'[n].lines
    BY <1>4, <2>1 DEF Carried
  <2> HIDE DEF m, n
  <2>6. CASE n # d
    <3>1. n \in Before(x) /\ n <= m
      BY <2>1, <2>2, <2>3, <2>6
    <3>2. n = m
      BY <2>4, <3>1
    <3> QED
      BY <2>2, <2>5, <2>6, <3>2
  <2>7. CASE n = d /\ m = d
    <3>1. Lines(d) = proof[m].lines
      BY <2>2, <2>7 DEF Lines
    <3> QED
      BY <2>5, <2>7, <3>1 DEF CloseInv, Kept
  <2>8. CASE n = d /\ m # d
    <3>1. m < d
      BY <2>4, <2>8
    <3>2. m \in Before(d)
      BY <2>2, <3>1 DEF Before
    <3>3. /\ Max(Before(d)) \in Before(d) /\ m <= Max(Before(d)) /\ Max(Before(d)) \in Days
      BY <1>1, <3>2, LastBefore
    <3>4. Max(Before(d)) \in Before(x)
      BY <1>1, <1>4, <3>3 DEF Before
    <3>5. Max(Before(d)) = m
      <4>1. Max(Before(d)) <= m /\ Max(Before(d)) \in Nat
        BY <1>1, <2>2, <3>3, <3>4
      <4> QED
        BY <2>4, <3>3, <4>1
    <3>6. Carried(d) = proof[m].lines
      BY <3>2, <3>5 DEF Carried
    <3> QED
      BY <2>5, <2>8, <3>6 DEF Counted
  <2> QED
    BY <2>6, <2>7, <2>8
<1> QED
  BY <1>2, <1>3, <1>4

\* eod_trial_balance either finds nothing to count or makes the trial balance anew.
LEMMA WeighMakes ==
  ASSUME CloseInv, Weigh
  PROVE  /\ job # None /\ job.at = "weigh" /\ job.day \in Days /\ job.day \in DOMAIN due
         /\ job' = [job EXCEPT !.at = "close"]
         /\ UNCHANGED <<place, date, key, reported, cursor, closed, due>>
         /\ \/ Counted(job.day) = {} /\ proof' = proof
            \/ /\ Counted(job.day) # {}
               /\ DOMAIN proof' = DOMAIN proof \cup {job.day}
               /\ proof'[job.day] = [lines |-> Counted(job.day), prev |-> Prior(job.day)]
               /\ \A y \in DOMAIN proof \ {job.day} : proof'[y] = proof[y]
BY DayOfJob DEF Weigh, Running, Continue, journal

LEMMA WeighKeeps ==
  ASSUME CloseInv, TypeInv', Weigh
  PROVE  CloseInv'
<1> DEFINE d == job.day
<1>1. /\ job # None /\ job.at = "weigh" /\ d \in Days /\ d \in DOMAIN due
      /\ job' = [job EXCEPT !.at = "close"]
      /\ UNCHANGED <<place, date, key, reported, cursor, closed, due>>
  BY WeighMakes
<1>2. job'.day = d /\ job'.at = "close" /\ job'.last = job.last
  BY <1>1, DayOfJob
<1>3. \A x \in Days : Committed(x)' = Committed(x)
  BY <1>1 DEF Committed
<1>4. ReportedOf(d) \subseteq Counted(d) /\ ReportedOf(d)' = ReportedOf(d)
  BY <1>1 DEF ReportedOf, Counted, Committed, CloseInv, TypeInv, TypeOK, Shape
<1>5. Kept' /\ Counted(d) \subseteq Lines(d)'
  <2>1. CASE Counted(d) = {} /\ proof' = proof
    BY <1>3, <2>1 DEF CloseInv, Kept, Lines, Counted, Carried, Before
  <2>2. CASE /\ DOMAIN proof' = DOMAIN proof \cup {d}
             /\ proof'[d] = [lines |-> Counted(d), prev |-> Prior(d)]
             /\ \A y \in DOMAIN proof \ {d} : proof'[y] = proof[y]
    <3>1. proof'[d].lines = Counted(d)
      BY <2>2
    <3>2. \A x \in Days : Counted(x) \subseteq Counted(x)'
      BY <1>1, <1>3, <2>2, <3>1, CarriedGrows DEF Counted
    <3>3. \A x \in Days : Lines(x)' = IF x = d THEN Counted(d) ELSE Lines(x)
      BY <1>1, <2>2, <3>1 DEF Lines
    <3> QED
      BY <1>1, <3>2, <3>3 DEF CloseInv, Kept
  <2> QED
    BY <2>1, <2>2, WeighMakes
<1>6. JobFed'
  <2>1. /\ \A e \in due[d] : key[e] <= job.last
        /\ cursor[d] > 0 /\ due[d] \subseteq reported
    BY <1>1 DEF CloseInv, JobFed
  <2> QED
    BY <1>1, <1>2, <1>4, <1>5, <2>1 DEF JobFed
<1>7. Dated' /\ DueFed' /\ FedFirst'
  BY <1>1 DEF CloseInv, Dated, DueFed, FedFirst
<1> QED
  BY <1>5, <1>6, <1>7 DEF CloseInv

LEMMA PeriodKeeps ==
  ASSUME CloseInv, TypeInv', ClosePeriod \/ CutOff \/ Cutoff
  PROVE  CloseInv'
<1>1. UNCHANGED <<place, date, key, reported, cursor, proof, due>>
  BY DEF ClosePeriod, CutOff, Cutoff, journal, control
<1>2. JobFed'
  <2>1. job' = job \/ job' = None
    BY DEF ClosePeriod, CutOff, Cutoff
  <2> QED
    BY <1>1, <2>1 DEF CloseInv, JobFed, ReportedOf, Lines
<1>3. FedFirst'
  <2>1. \A x \in closed' : x \in closed \/ (job # None /\ job.at = "close" /\ x = job.day)
    BY DEF ClosePeriod, CutOff, Cutoff, Running, control
  <2> QED
    BY <1>1, <2>1 DEF CloseInv, FedFirst, JobFed
<1>4. Dated' /\ DueFed' /\ Kept'
  BY <1>1 DEF CloseInv, Dated, DueFed, Kept, Lines, Counted, Carried, Before, Committed
<1> QED
  BY <1>2, <1>3, <1>4 DEF CloseInv

LEMMA CloseStep ==
  ASSUME CloseInv, [Next]_vars
  PROVE  CloseInv'
<1>1. TypeInv'
  BY NextType DEF CloseInv
<1>2. CASE UNCHANGED vars
  <2>1. UNCHANGED <<place, date, key, control, job, due>> /\ Dated'
    BY <1>2 DEF vars, journal, CloseInv, Dated
  <2> QED
    BY <1>1, <2>1, EntriesKeep
<1> QED
  BY <1>1, <1>2, EntryKeepsClose, CloseBegins, FeedKeeps, FeedDoneKeeps, WeighKeeps, PeriodKeeps
     DEF Next, Entries

-----------------------------------------------------------------------------
(* Refinement.                                                              *)

InDay(e) == IF place[e] \in {"inserted", "committed"} THEN date[e] ELSE 0
IsPosted == {e \in Entries : place[e] = "committed"}
ReportedThrough == {e \in reported : date[e] \in closed}

\* What DayBook sees of the close.
LEMMA BookOf ==
  /\ \A d : Book!In(d) = {e \in IsPosted : [x \in Entries |-> InDay(x)][e] = d}
  /\ \A d : Book!Lines(d) = Lines(d)
  /\ \A d : Book!Before(d) = Before(d)
BY DEF Book!In, Book!Lines, Book!Before, IsPosted, InDay, Lines, Before

LEMMA BookMax == \A S : Book!Max(S) = Max(S)
  BY DEF Book!Max, Max

LEMMA BookIn ==
  ASSUME NEW d \in Days
  PROVE  Book!In(d) = Committed(d)
<1>1. \A e \in IsPosted : e \in Entries /\ InDay(e) = date[e] /\ place[e] = "committed"
  BY DEF IsPosted, InDay
<1>2. Book!In(d) = {e \in IsPosted : InDay(e) = d}
  BY <1>1, BookOf
<1> QED
  BY <1>1, <1>2 DEF Committed, IsPosted

LEMMA BookInit == Init => Book!Init
<1> SUFFICES ASSUME Init PROVE Book!Init
  OBVIOUS
<1> QED
  BY DEF Init, Book!Init

\* Whatever leaves the entries, what is due, what is sealed and what is told of it alone.
LEMMA BookStays ==
  ASSUME UNCHANGED <<closed, proof, due>>,
         \A e \in Entries : InDay(e)' = InDay(e) /\ (place'[e] = "committed" <=> place[e] = "committed"),
         ReportedThrough' = ReportedThrough
  PROVE  UNCHANGED Book!vars
BY DEF Book!vars, InDay, ReportedThrough

\* An entry that moves leaves what was reported alone.
LEMMA EntryTold ==
  ASSUME CloseInv, UNCHANGED <<reported, closed>>, NEW e \in Entries, place[e] # "committed",
         \A x \in Entries \ {e} : place'[x] = place[x] /\ date'[x] = date[x]
  PROVE  ReportedThrough' = ReportedThrough
<1>1. \A x \in reported : x \in Entries \ {e}
  BY DEF CloseInv, TypeInv, TypeOK, Shape
<1>2. \A x \in reported : date'[x] = date[x]
  BY <1>1
<1> QED
  BY <1>2 DEF ReportedThrough

\* ClosedThrough is not before any day that is closed.
LEMMA Through ==
  ASSUME CloseInv, NEW d \in Nat, d > ClosedThrough
  PROVE  \A x \in closed : x < d
<1>1. today \in Nat /\ closed \cup {0} \in SUBSET Nat /\ \A x \in closed \cup {0} : x <= today
  BY DaysAssumption DEF CloseInv, TypeInv, TypeOK, Days
<1>2. /\ ClosedThrough \in closed \cup {0} /\ \A x \in closed \cup {0} : x <= ClosedThrough
  BY <1>1, GreatestNatural DEF ClosedThrough
<1> QED
  BY <1>1, <1>2

LEMMA InsertEnters ==
  ASSUME CloseInv, NEW e \in Entries, Insert(e)
  PROVE  \E d \in 1 .. LastDay : Book!Enter(e, d)
<1>1. /\ place[e] = "begun" /\ place' = [place EXCEPT ![e] = "inserted"]
      /\ UNCHANGED <<date, reported, proof, closed, due>> /\ date[e] > ClosedThrough
  BY DEF Insert, control
<1>2. date[e] \in Days /\ date[e] \in Nat /\ place \in [Entries -> Places]
  BY <1>1 DEF CloseInv, Dated, Days, TypeInv, TypeOK, Places
<1>3. \A x \in closed : x < date[e]
  BY <1>1, <1>2, Through
<1>4. [x \in Entries |-> InDay(x)]' = [[x \in Entries |-> InDay(x)] EXCEPT ![e] = date[e]]
  BY <1>1, <1>2 DEF InDay
<1>5. IsPosted' = IsPosted
  BY <1>1, <1>2 DEF IsPosted
<1>6. [x \in Entries |-> InDay(x)][e] = 0
  BY <1>1 DEF InDay
<1>7. ReportedThrough' = ReportedThrough
  BY <1>1 DEF ReportedThrough
<1>8. PICK d \in 1 .. LastDay : d = date[e]
  BY <1>2 DEF Days
<1>9. Book!Enter(e, d)
  BY <1>1, <1>3, <1>4, <1>5, <1>6, <1>7, <1>8 DEF Book!Enter, InDay, IsPosted, ReportedThrough
<1> QED
  BY <1>9

LEMMA CommitPosts ==
  ASSUME CloseInv, NEW e \in Entries, Commit(e)
  PROVE  Book!Post(e)
<1>1. /\ place[e] = "inserted" /\ place' = [place EXCEPT ![e] = "committed"]
      /\ UNCHANGED <<date, reported, proof, closed, due>>
  BY DEF Commit, control
<1>2. date[e] \in Days /\ date[e] # 0 /\ place \in [Entries -> Places]
  BY <1>1 DEF CloseInv, Dated, Days, TypeInv, TypeOK, Places
<1>3. [x \in Entries |-> InDay(x)]' = [x \in Entries |-> InDay(x)]
  BY <1>1, <1>2 DEF InDay
<1>4. IsPosted' = IsPosted \cup {e}
  BY <1>1, <1>2 DEF IsPosted
<1>5. [x \in Entries |-> InDay(x)][e] # 0
  BY <1>1, <1>2 DEF InDay
<1>6. ReportedThrough' = ReportedThrough
  BY <1>1 DEF ReportedThrough
<1> QED
  BY <1>1, <1>3, <1>4, <1>5, <1>6 DEF Book!Post, InDay, IsPosted, ReportedThrough

LEMMA RollbackWithdraws ==
  ASSUME CloseInv, NEW e \in Entries, Rollback(e)
  PROVE  Book!Withdraw(e)
<1>1. /\ place[e] \in {"begun", "inserted"} /\ place'[e] \in {"draft", "none"}
      /\ place' = [place EXCEPT ![e] = place'[e]]
      /\ UNCHANGED <<date, reported, proof, closed, due>>
  BY DEF Rollback, UnderWay, control, CloseInv, TypeInv, TypeOK
<1>2. place \in [Entries -> Places]
  BY DEF CloseInv, TypeInv, TypeOK, Places
<1>3. [x \in Entries |-> InDay(x)]' = [[x \in Entries |-> InDay(x)] EXCEPT ![e] = 0]
  BY <1>1, <1>2 DEF InDay
<1>4. IsPosted' = IsPosted /\ e \notin IsPosted
  BY <1>1, <1>2 DEF IsPosted
<1>5. ReportedThrough' = ReportedThrough
  BY <1>1 DEF ReportedThrough
<1> QED
  BY <1>1, <1>3, <1>4, <1>5 DEF Book!Withdraw, InDay, IsPosted, ReportedThrough

LEMMA CloseOpens ==
  ASSUME CloseInv, NEW d \in Days, Close(d)
  PROVE  Book!Begin(d) \/ UNCHANGED Book!vars
<1>1. /\ UNCHANGED <<place, date, reported, cursor, proof, closed>>
      /\ \/ cursor[d] > 0 /\ due' = due
         \/ /\ cursor[d] = 0
            /\ due' = [x \in DOMAIN due \cup {d} |-> IF x = d THEN Committed(d) ELSE due[x]]
  BY DEF Close, journal, control, CloseInv, TypeInv, TypeOK
<1>2. CASE due' = due
  BY <1>1, <1>2, BookStays DEF InDay, ReportedThrough
<1>3. CASE /\ cursor[d] = 0
           /\ due' = [x \in DOMAIN due \cup {d} |-> IF x = d THEN Committed(d) ELSE due[x]]
  <2>1. d \notin closed
    BY <1>3 DEF CloseInv, FedFirst
  <2>2. due' = [x \in DOMAIN due \cup {d} |-> IF x = d THEN Book!In(d) ELSE due[x]]
    BY <1>3, BookIn
  <2>3. Book!Begin(d)
    BY <1>1, <2>1, <2>2 DEF Book!Begin
  <2> QED
    BY <2>3
<1> QED
  BY <1>1, <1>2, <1>3

LEMMA WeighWeighs ==
  ASSUME CloseInv, Weigh
  PROVE  (\E d \in 1 .. LastDay : Book!Weigh(d)) \/ UNCHANGED Book!vars
<1>1. PICK d \in Days : d = job.day
  BY WeighMakes
<1>2. UNCHANGED <<place, date, reported, closed, due>>
  BY WeighMakes
<1>3. CASE proof' = proof
  BY <1>2, <1>3, BookStays DEF InDay, ReportedThrough
<1>4. CASE /\ Counted(d) # {}
           /\ DOMAIN proof' = DOMAIN proof \cup {d}
           /\ proof'[d] = [lines |-> Counted(d), prev |-> Prior(d)]
           /\ \A y \in DOMAIN proof \ {d} : proof'[y] = proof[y]
  <2> DEFINE prior == IF Before(d) = {} THEN 0 ELSE Max(Before(d))
             line == [lines |-> Lines(d) \cup Committed(d) \cup Lines(prior),
                      prev |-> IF prior = 0 THEN None ELSE proof[prior]]
  <2>1. TypeInv /\ 0 \notin DOMAIN proof
    BY DEF CloseInv, TypeInv, TypeOK, Days
  <2>2. Lines(prior) = Carried(d) /\ (IF prior = 0 THEN None ELSE proof[prior]) = Prior(d)
    <3>1. CASE Before(d) = {}
      BY <2>1, <3>1 DEF Lines, Carried, Prior
    <3>2. CASE Before(d) # {}
      <4>1. Max(Before(d)) \in DOMAIN proof
        BY <2>1, <3>2, LastBefore
      <4>2. Max(Before(d)) # 0
        BY <2>1, <4>1
      <4> QED
        BY <3>2, <4>1, <4>2 DEF Lines, Carried, Prior
    <3> QED
      BY <3>1, <3>2
  <2>3. line.lines = Counted(d)
    BY <2>2 DEF CloseInv, Kept, Counted
  <2>4. line = proof'[d]
    BY <1>4, <2>2, <2>3
  <2>5. proof' = [x \in DOMAIN proof \cup {d} |-> IF x = d THEN line ELSE proof[x]]
    <3>1. proof' = [x \in DOMAIN proof' |-> proof'[x]]
      BY <1>1 DEF Weigh, CloseInv, TypeInv, Shape
    <3> HIDE DEF line
    <3> QED
      BY <1>4, <2>4, <3>1
  <2>6. Book!In(d) = Committed(d) /\ Book!Before(d) = Before(d)
    BY BookIn, BookOf
  <2>7. Book!Lines(d) = Lines(d) /\ Book!Lines(prior) = Lines(prior)
    BY BookOf
  <2>8. line.lines # {}
    BY <1>4, <2>3
  <2>9. Book!Weigh(d)
    BY <1>2, <2>5, <2>6, <2>7, <2>8, BookMax DEF Book!Weigh
  <2> QED
    BY <2>9 DEF Days
<1> QED
  BY <1>1, <1>3, <1>4, WeighMakes

LEMMA PeriodSeals ==
  ASSUME CloseInv, ClosePeriod
  PROVE  (\E d \in 1 .. LastDay : Book!Seal(d)) \/ UNCHANGED Book!vars
<1>1. PICK d \in Days : d = job.day
  BY DayOfJob DEF ClosePeriod, Running
<1>2. /\ job # None /\ job.at = "close" /\ closed' = closed \cup {d}
      /\ UNCHANGED <<place, date, reported, proof, due>>
  BY <1>1 DEF ClosePeriod, Running, journal
<1>3. CASE d \in closed
  <2>1. closed' = closed
    BY <1>2, <1>3
  <2> QED
    BY <1>2, <2>1, BookStays DEF InDay, ReportedThrough
<1>4. CASE d \notin closed
  <2>1. /\ d \in DOMAIN due /\ due[d] \subseteq reported
        /\ ReportedOf(d) \subseteq Lines(d)
    BY <1>1, <1>2 DEF CloseInv, JobFed
  <2>2. ReportedOf(d) \subseteq Committed(d)
    BY DEF ReportedOf, Committed, CloseInv, TypeInv, TypeOK, Shape
  <2>3. due[d] \subseteq ReportedOf(d)
    BY <2>1 DEF ReportedOf, CloseInv, TypeInv, TypeOK
  <2>4. ReportedThrough' = ReportedThrough \cup ReportedOf(d)
    BY <1>2 DEF ReportedThrough, ReportedOf
  <2>5. ReportedOf(d) \in SUBSET (Book!In(d) \cap Book!Lines(d))
    BY <2>1, <2>2, BookIn, BookOf
  <2>6. Book!Seal(d)
    BY <1>2, <1>4, <2>1, <2>3, <2>4, <2>5 DEF Book!Seal, ReportedThrough
  <2> QED
    BY <2>6 DEF Days
<1> QED
  BY <1>3, <1>4

LEMMA BookStep ==
  ASSUME CloseInv, CloseInv', [Next]_vars
  PROVE  [Book!Next]_(Book!vars)
<1>1. ASSUME NEW e \in Entries, Insert(e) PROVE Book!Next
  BY <1>1, InsertEnters DEF Book!Next
<1>2. ASSUME NEW e \in Entries, Commit(e) \/ Rollback(e) PROVE Book!Next
  BY <1>2, CommitPosts, RollbackWithdraws DEF Book!Next
<1>3. ASSUME NEW e \in Entries,
             Begin(e) \/ (\E d \in Days : Draft(e, d)) \/ Approve(e) \/ Decline(e)
      PROVE  UNCHANGED Book!vars
  <2>1. /\ UNCHANGED <<control, due>> /\ place[e] # "committed"
        /\ \A x \in Entries \ {e} : place'[x] = place[x] /\ date'[x] = date[x]
    BY <1>3, EntryKeepsClose DEF CloseInv
  <2>2. /\ place[e] \notin {"inserted", "committed"} /\ place'[e] \notin {"inserted", "committed"}
    BY <1>3 DEF Begin, Draft, Approve, Decline, CloseInv, TypeInv, TypeOK
  <2>3. ReportedThrough' = ReportedThrough
    BY <2>1, EntryTold DEF control
  <2> QED
    BY <2>1, <2>2, <2>3, BookStays DEF InDay, control
<1>4. ASSUME NEW d \in Days, Close(d) PROVE Book!Next \/ UNCHANGED Book!vars
  BY <1>4, CloseOpens DEF Book!Next, Days
<1>5. ASSUME Weigh PROVE Book!Next \/ UNCHANGED Book!vars
  BY <1>5, WeighWeighs DEF Book!Next
<1>6. ASSUME ClosePeriod PROVE Book!Next \/ UNCHANGED Book!vars
  BY <1>6, PeriodSeals DEF Book!Next
<1>7. ASSUME Cutoff \/ FeedDone \/ CutOff \/ UNCHANGED vars PROVE UNCHANGED Book!vars
  <2>1. UNCHANGED <<place, date, reported, proof, closed, due>>
    BY <1>7 DEF Cutoff, FeedDone, CutOff, journal, control, vars
  <2> QED
    BY <2>1, BookStays DEF InDay, ReportedThrough
<1>8. ASSUME Feed PROVE UNCHANGED Book!vars
  <2>1. /\ UNCHANGED <<place, date, proof, closed, due>> /\ job # None /\ job.day \in Nat
        /\ reported' = reported \cup NextChunk(job.day)
        /\ NextChunk(job.day) # {} => job.day > ClosedThrough
    BY <1>8, DayOfJob DEF Feed, Running, journal
  <2>2. \A e \in NextChunk(job.day) : date[e] \notin closed
    <3> SUFFICES ASSUME NEW e \in NextChunk(job.day), date[e] \in closed PROVE FALSE
      OBVIOUS
    <3>1. date[e] = job.day /\ job.day > ClosedThrough
      BY <2>1 DEF NextChunk, Committed
    <3>2. date[e] < job.day
      BY <2>1, <3>1, Through
    <3> QED
      BY <2>1, <3>1, <3>2
  <2>3. ReportedThrough' = ReportedThrough
    BY <2>1, <2>2 DEF ReportedThrough
  <2> QED
    BY <2>1, <2>3, BookStays DEF InDay
<1> QED
  BY <1>1, <1>2, <1>3, <1>4, <1>5, <1>6, <1>7, <1>8 DEF Next, Entries

\* Whatever is under way when a close runs, in whatever order days are closed and
\* wherever a close is cut off: what a day held when its close first began to feed
\* it is reported and in its trial balance when it is closed, nothing more of it is
\* reported later, a trial balance that is built anew loses nothing, and only what
\* was in the journal before a day was closed can still commit into it.
THEOREM DaysAreSealed == Spec => ImplementsDayBook
<1>1. Init => CloseInv /\ Book!Init
  BY CloseInit, BookInit
<1>2. CloseInv /\ [Next]_vars => CloseInv' /\ [Book!Next]_(Book!vars)
  BY CloseStep, BookStep
<1> QED
  BY <1>1, <1>2, PTL DEF Spec, ImplementsDayBook, Book!Spec
=============================================================================
