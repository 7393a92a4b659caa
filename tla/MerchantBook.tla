----------------------------- MODULE MerchantBook ------------------------------
(***************************************************************************)
(* What a merchant group promises, hot or cold: it is one account.  A      *)
(* deposit, a customer's transfer to it, a withdrawal, a charge, and the   *)
(* reversal of one of the last three each take effect once, on the money   *)
(* of the whole group as it is at that instant; what is pledged in it,     *)
(* wherever, stays.  There are no shards here, so no sweep, no activation  *)
(* and no rescaling.                                                       *)
(***************************************************************************)
EXTENDS Integers

CONSTANTS Requests, Refs, Opening, None

VARIABLES
  total,      \* the money of the group
  pledged,    \* the part of it that is restrained
  posted,     \* by reference, the request posted under it, or None
  reversed    \* references whose request was reversed

vars == <<total, pledged, posted, reversed>>

Init ==
  /\ total = Opening /\ pledged = 0
  /\ posted = [f \in Refs |-> None]
  /\ reversed = {}

Comes(r) == r.op \in {"DEPOSIT", "TRANSFER"}

\* What a posted request brings the group: less than nothing if it takes.
Effect(r) == IF Comes(r) THEN r.amt ELSE IF r.op = "WITHDRAW" THEN -(r.amt + r.fee) ELSE -r.amt

\* Money leaves only if as much of it is free.
Moves(amount) ==
  /\ total + amount >= (IF amount < 0 THEN pledged ELSE 0)
  /\ total' = total + amount

Post(r) ==
  /\ r.op \in {"DEPOSIT", "TRANSFER", "WITHDRAW", "CHARGE"} /\ posted[r.ref] = None
  /\ Moves(Effect(r))
  /\ posted' = [posted EXCEPT ![r.ref] = r]
  /\ UNCHANGED <<pledged, reversed>>

Reverse(f) ==
  /\ posted[f] # None /\ posted[f].op # "DEPOSIT" /\ f \notin reversed
  /\ Moves(-Effect(posted[f]))
  /\ reversed' = reversed \cup {f}
  /\ UNCHANGED <<pledged, posted>>

Restrain ==
  /\ pledged' \in 0 .. total
  /\ UNCHANGED <<total, posted, reversed>>

Next ==
  \/ \E r \in Requests : Post(r)
  \/ \E f \in Refs : Reverse(f)
  \/ Restrain

Spec == Init /\ [][Next]_vars
=============================================================================
