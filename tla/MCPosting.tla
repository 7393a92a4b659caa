------------------------------ MODULE MCPosting ------------------------------
(***************************************************************************)
(* Instances of Posting for TLC.                                           *)
(***************************************************************************)
EXTENDS Posting, Functions, TLC

CONSTANTS s1, s2

MCSessions == {s1, s2}
MCAccounts == {1, 2}
Symmetry == Permutations(MCSessions)

SumOfPledges(S) ==
  SumFunction([h \in S |-> IF h.debit THEN h.pledge ELSE 0])

Request(op, ref, a, b, amt, fee, ext) ==
  [op |-> op, ref |-> ref, a |-> a, b |-> b, amt |-> amt, fee |-> fee, ext |-> ext]

\* Postings: opposite transfers - the second empties its wallet, which can then be
\* closed - a topup and a fee charge with their reversals, two kinds of hold.
PostOpening == [a \in MCAccounts |-> IF a = 1 THEN 7 ELSE 2]
PostRefs == {"t1", "t2", "p1", "f1"}
PostExts == {"none"}
PostRequests ==
  {Request("TRANSFER", "t1", 1, 2, 3, 1, "none"),
   Request("TRANSFER", "t2", 2, 1, 2, 0, "none"),
   Request("TOPUP", "p1", 1, 1, 1, 0, "none"),
   Request("RVTPUP", "p1", 1, 1, 1, 0, "none"),
   Request("FEE", "f1", 1, 1, 6, 0, "none"),
   Request("RVFC", "f1", 1, 1, 1, 0, "none")}
PostHolds ==
  {[id |-> 1, acct |-> 1, debit |-> TRUE, credit |-> TRUE, pledge |-> 0],
   [id |-> 2, acct |-> 1, debit |-> TRUE, credit |-> FALSE, pledge |-> 4]}
PostPledged == [S \in SUBSET PostHolds |-> SumOfPledges(S)]
PostStem == [f \in PostRefs |-> f]

\* Payouts: two withdrawals from different wallets that Treasury and the janitor refund, beside
\* a transfer and its reversal.  w2 pays out what t1 brought: wallet 2 can be closed, be
\* refunded while it is closed and have the transfer clawed back.
RevOpening == [a \in MCAccounts |-> IF a = 1 THEN 6 ELSE 1]
RevRefs == {"t1", "w1", "w2"}
RevExts == {"x1", "x2"}
RevRequests ==
  {Request("TRANSFER", "t1", 1, 2, 2, 1, "x1"), Request("RVTRF", "t1", 1, 1, 1, 0, "x1"),
   Request("WITHDRAW", "w1", 1, 1, 2, 1, "x1"), Request("RVWD", "w1", 1, 1, 1, 0, "x1"),
   Request("WITHDRAW", "w2", 2, 2, 3, 0, "x2")}
RevHolds == {[id |-> 1, acct |-> 2, debit |-> TRUE, credit |-> TRUE, pledge |-> 0]}
RevPledged == [S \in SUBSET RevHolds |-> SumOfPledges(S)]
RevStem == [f \in RevRefs |-> f]

\* A client that repeats a withdrawal with a payout reference of its own each
\* time: the reference is what makes the call idempotent.
DupOpening == [a \in MCAccounts |-> 4]
DupRefs == {"w1"}
DupRequests ==
  {Request("WITHDRAW", "w1", 2, 2, 2, 0, "x1"), Request("WITHDRAW", "w1", 2, 2, 2, 0, "x2")}
DupPledged == [S \in SUBSET {} |-> 0]
DupStem == [f \in DupRefs |-> f]
=============================================================================
