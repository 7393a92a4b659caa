-------------------------------- MODULE DayBook --------------------------------
(***************************************************************************)
(* What the general ledger promises an auditor.  Legs go into days that    *)
(* are not sealed, and show when their transaction ends, which may be      *)
(* after the day was sealed.  What was in a day when its close began is    *)
(* reported by the time the day is sealed, and what is reported of it is   *)
(* in its trial balance.  A trial balance loses nothing, however often it  *)
(* is made, and carries all of the one before; what was reported of a      *)
(* sealed day stays what it was.                                           *)
(***************************************************************************)
EXTENDS Integers, FiniteSetsExt

CONSTANTS Entries, LastDay, None

VARIABLES
  entered,    \* by entry: the day its legs are in, or 0
  posted,     \* the entries whose transaction has committed
  due,        \* by day whose close has begun: what it held then
  sealed,     \* the days sealed
  reported,   \* entries of sealed days that were fed to the general ledger
  proof       \* by day weighed: the entries its trial balance counts, the proof it continues

vars == <<entered, posted, due, sealed, reported, proof>>

Init ==
  /\ entered = [e \in Entries |-> 0] /\ posted = {}
  /\ due = [d \in {} |-> {}]
  /\ sealed = {} /\ reported = {}
  /\ proof = [d \in {} |-> {}]

In(d) == {e \in posted : entered[e] = d}

Enter(e, d) ==
  /\ entered[e] = 0 /\ \A x \in sealed : x < d
  /\ entered' = [entered EXCEPT ![e] = d]
  /\ UNCHANGED <<posted, due, sealed, reported, proof>>

Withdraw(e) ==
  /\ e \notin posted
  /\ entered' = [entered EXCEPT ![e] = 0]
  /\ UNCHANGED <<posted, due, sealed, reported, proof>>

Post(e) ==
  /\ entered[e] # 0
  /\ posted' = posted \cup {e}
  /\ UNCHANGED <<entered, due, sealed, reported, proof>>

Begin(d) ==
  /\ d \notin sealed
  /\ due' = [x \in DOMAIN due \cup {d} |-> IF x = d THEN In(d) ELSE due[x]]
  /\ UNCHANGED <<entered, posted, sealed, reported, proof>>

Lines(d) == IF d \in DOMAIN proof THEN proof[d].lines ELSE {}

Before(d) == {x \in DOMAIN proof : x < d}

Weigh(d) ==
  LET prior == IF Before(d) = {} THEN 0 ELSE Max(Before(d))
      line == [lines |-> Lines(d) \cup In(d) \cup Lines(prior),
               prev |-> IF prior = 0 THEN None ELSE proof[prior]]
  IN /\ line.lines # {}
     /\ proof' = [x \in DOMAIN proof \cup {d} |-> IF x = d THEN line ELSE proof[x]]
     /\ UNCHANGED <<entered, posted, due, sealed, reported>>

Seal(d) ==
  /\ d \in DOMAIN due \ sealed
  /\ sealed' = sealed \cup {d}
  /\ \E told \in SUBSET (In(d) \cap Lines(d)) :
       due[d] \subseteq told /\ reported' = reported \cup told
  /\ UNCHANGED <<entered, posted, due, proof>>

Next ==
  \/ \E d \in 1 .. LastDay : Begin(d) \/ Weigh(d) \/ Seal(d) \/ \E e \in Entries : Enter(e, d)
  \/ \E e \in Entries : Withdraw(e) \/ Post(e)

Spec == Init /\ [][Next]_vars
=============================================================================
