------------------------------ MODULE Disbursement ------------------------------
(***************************************************************************)
(* What the life of a payout promises: it is submitted once, it may be     *)
(* completed or refunded once it is, and the first of the two is final.    *)
(***************************************************************************)
CONSTANTS Payouts

VARIABLES payout

Init == payout = [e \in Payouts |-> "NONE"]

Moves(e, from, to) == payout[e] = from /\ payout' = [payout EXCEPT ![e] = to]

Submit(e) == Moves(e, "NONE", "OPEN")
Complete(e) == Moves(e, "OPEN", "COMPLETED")

\* A batch of the janitor refunds several payouts at once.
Refund(E) ==
  /\ \A e \in E : payout[e] = "OPEN"
  /\ payout' = [e \in Payouts |-> IF e \in E THEN "REVERSED" ELSE payout[e]]

Next ==
  \/ \E e \in Payouts : Submit(e) \/ Complete(e)
  \/ \E E \in SUBSET Payouts : Refund(E)

Spec == Init /\ [][Next]_payout
=============================================================================
