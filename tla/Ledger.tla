-------------------------------- MODULE Ledger ---------------------------------
(***************************************************************************)
(* What the posting procedures promise: every call that succeeds takes     *)
(* effect once, at one instant, on the wallets as they are at that instant.*)
(* There are no sessions, no locks and no versions here; the restrained    *)
(* amount and the credit block are what the active restraints say.         *)
(***************************************************************************)
EXTENDS LedgerOps, Functions

CONSTANTS Opening

VARIABLES
  wallet,     \* balance and status of each wallet
  active,     \* restraints in force
  posted,     \* by reference, the request that was posted under it, or None
  reversed,   \* references whose posting has been reversed
  payout      \* by payout reference: its status and the withdrawal, or None

vars == <<wallet, active, posted, reversed, payout>>

HoldsOn(a, S) == {h \in S : h.acct = a}

\* The row a procedure sees, were it alone.
Row == [a \in Accounts |->
          [bal    |-> wallet[a].bal,
           status |-> wallet[a].status,
           restr  |-> Pledged[HoldsOn(a, active)],
           crBlk  |-> \E h \in HoldsOn(a, active) : h.credit]]

Init ==
  /\ wallet = [a \in Accounts |-> [bal |-> Opening[a], status |-> "A"]]
  /\ active = {}
  /\ posted = [f \in Refs |-> None]
  /\ reversed = {}
  /\ payout = [e \in Exts |-> None]

Moves(l) == wallet' = [a \in Accounts |-> [wallet[a] EXCEPT !.bal = @ + l.bal[a]]]

\* A posting: its reference is new and the wallets allow it now.
Post(r) ==
  /\ r.op \in {"TOPUP", "TRANSFER", "WITHDRAW", "FEE"}
  /\ posted[r.ref] = None
  /\ Allowed(r.op, r, Row, active)
  /\ Moves(Legs(r.op, r))
  /\ posted' = [posted EXCEPT ![r.ref] = r]
  /\ IF r.op = "WITHDRAW"
     THEN /\ payout[r.ext] = None
          /\ payout' = [payout EXCEPT ![r.ext] = [status |-> "OPEN", by |-> r]]
     ELSE UNCHANGED payout
  /\ UNCHANGED <<active, reversed>>

\* A reversal: of a posting of its kind, not reversed before.
Reverse(r) ==
  LET o == posted[r.ref] IN
  /\ r.op \in Reversals
  /\ o # None /\ o.op = OriginalOp(r.op)
  /\ r.ref \notin reversed
  /\ Allowed(r.op, o, Row, active)
  /\ Moves(Legs(r.op, o))
  /\ reversed' = reversed \cup {r.ref}
  /\ UNCHANGED <<active, posted, payout>>

\* Payouts under way are refunded together, each wallet gets back what its
\* own withdrawals took.
RefundAll(E) ==
  LET back(a) == {e \in E : payout[e].by.a = a}
      amounts(a) == [e \in back(a) |-> payout[e].by.amt + payout[e].by.fee] IN
  /\ \A e \in E : payout[e] # None /\ payout[e].status = "OPEN"
  /\ wallet' = [a \in Accounts |->
                  [wallet[a] EXCEPT !.bal = @ + SumFunction(amounts(a))]]
  /\ payout' = [e \in Exts |-> IF e \in E THEN [payout[e] EXCEPT !.status = "REVERSED"]
                               ELSE payout[e]]
  /\ UNCHANGED <<active, posted, reversed>>

Complete(e) ==
  /\ payout[e] # None /\ payout[e].status = "OPEN"
  /\ payout' = [payout EXCEPT ![e].status = "COMPLETED"]
  /\ UNCHANGED <<wallet, active, posted, reversed>>

Hold(h) ==
  /\ h \notin active /\ wallet[h.acct].status # "C"
  /\ active' = active \cup {h}
  /\ Row[h.acct].restr + (IF h.debit THEN h.pledge ELSE 0) <= Row[h.acct].bal
  /\ UNCHANGED <<wallet, posted, reversed, payout>>

Release(h) ==
  /\ h \in active
  /\ active' = active \ {h}
  /\ UNCHANGED <<wallet, posted, reversed, payout>>

SetStatus(a, new) ==
  /\ wallet[a].status # "C"
  /\ new = "C" => wallet[a].bal = 0
  /\ wallet' = [wallet EXCEPT ![a].status = new]
  /\ UNCHANGED <<active, posted, reversed, payout>>

Next ==
  \/ \E r \in Requests : Post(r) \/ Reverse(r)
  \/ \E E \in SUBSET Exts : RefundAll(E)
  \/ \E e \in Exts : Complete(e)
  \/ \E h \in Holds : Hold(h) \/ Release(h)
  \/ \E a \in Accounts, new \in {"A", "B", "C"} : SetStatus(a, new)

Spec == Init /\ [][Next]_vars
=============================================================================
