------------------------------ MODULE AtLeastOnce ------------------------------
(***************************************************************************)
(* What the outbox promises: an event that was accepted is published,      *)
(* perhaps several times, until it is settled; it is settled as sent only  *)
(* if it was published, and never published again after that.              *)
(***************************************************************************)
EXTENDS Naturals

CONSTANTS Events

VARIABLES
  state,        \* per event: none, open, sent or dead
  copies        \* per event: how often the broker has stored it

vars == <<state, copies>>

Init == state = [e \in Events |-> "none"] /\ copies = [e \in Events |-> 0]

Accept(e) ==
  /\ state[e] = "none"
  /\ state' = [state EXCEPT ![e] = "open"]
  /\ UNCHANGED copies

Publish(e) ==
  /\ state[e] = "open"
  /\ copies' = [copies EXCEPT ![e] = @ + 1]
  /\ UNCHANGED state

\* A batch is settled as a whole: S is sent, D is given up.
Settle(S, D) ==
  /\ S \cap D = {}
  /\ \A e \in S \cup D : state[e] = "open"
  /\ \A e \in S : copies[e] > 0
  /\ state' = [e \in Events |-> IF e \in S THEN "sent" ELSE IF e \in D THEN "dead" ELSE state[e]]
  /\ UNCHANGED copies

Next ==
  \/ \E e \in Events : Accept(e) \/ Publish(e)
  \/ \E S, D \in SUBSET Events : Settle(S, D)

Spec == Init /\ [][Next]_vars
=============================================================================
