------------------------------- MODULE LedgerOps -------------------------------
(***************************************************************************)
(* What each stored procedure of the wallet ledger demands of the rows it  *)
(* touches and writes to them.  Constant-level: the concurrent model       *)
(* (Posting) and its abstract specification (Ledger) both build on it.     *)
(*                                                                         *)
(* A request is a record [op, ref, a, b, amt, fee, ext]: the procedure, the*)
(* client's reference (for a reversal, the reference of the original), the *)
(* wallet it works on, the receiver of a transfer (a itself otherwise), the*)
(* amount, the gross fee its transaction type carries and the payout       *)
(* reference of a withdrawal.                                              *)
(***************************************************************************)
EXTENDS Integers, FiniteSets

CONSTANTS
  Accounts,   \* INTERNAL_KEYs of WLT_ACCT: numbers, they order the row locks
  Refs,       \* references of the postings
  Exts,       \* EXT_PAYOUT_REFs
  Requests,   \* the calls clients, operators, Treasury and the janitor make
  Holds,      \* restraints that can be placed: [id, acct, debit, credit, pledge]
  Pledged,    \* what a set of holds reserves together: their sum (HoldsAssumption)
  Stem,       \* what the 64 characters of a reversal's key keep of a reference
  None

ClaimOps == {"TOPUP", "TRANSFER", "FEE", "RVTPUP", "RVTRF", "RVFC"}
Ops == ClaimOps \cup {"WITHDRAW", "RVWD"}
Reversals == {"RVTPUP", "RVTRF", "RVFC"}

\* Operations that read their rows unlocked and update them by version
\* compare-and-swap; the others lock the rows first and read afterwards.
CasOps == {"TOPUP", "TRANSFER", "WITHDRAW"}

ASSUME AccountsAssumption == Accounts \subseteq Nat
ASSUME AccountsFinite == IsFiniteSet(Accounts)

ASSUME RequestsAssumption ==
  /\ \A r \in Requests : r \in [op : Ops, ref : Refs, a : Accounts, b : Accounts,
                                amt : Nat \ {0}, fee : Nat, ext : Exts]
  /\ \A r \in Requests : r.op = "TRANSFER" <=> r.a # r.b      \* SAME_ACCOUNT

ASSUME HoldsAssumption ==
  /\ \A h \in Holds : /\ h.acct \in Accounts /\ h.pledge \in Nat
                      /\ h.debit \in BOOLEAN /\ h.credit \in BOOLEAN
  /\ Pledged \in [SUBSET Holds -> Nat]
  /\ Pledged[{}] = 0
  /\ \A S \in SUBSET Holds : \A h \in Holds \ S :
        Pledged[S \cup {h}] = Pledged[S] + (IF h.debit THEN h.pledge ELSE 0)

ASSUME NoneAssumption == None \notin Requests

GLCodes == {"NOSTRO", "FEE", "VAT"}

-----------------------------------------------------------------------------
(* Fee and VAT: the fee is gross of VAT, the rate of the seeded types is    *)
(* 10%.  ROUND(x, 2) rounds half away from zero.                            *)

Vat(g) == (2 * g + 11) \div 22                  \* ROUND(g * 0.10 / 1.10)
Net(g) == g - Vat(g)
RefundedNetDown(g) == (20 * g) \div 22          \* mutant: truncated

RefundedNet(g) == (20 * g + 11) \div 22         \* ROUND(g * (1 - 0.10 / 1.10))

-----------------------------------------------------------------------------
(* The postings.  bal: what the UPDATEs add to ACTUAL_BAL of each wallet.   *)
(* liab: the DR (positive) and CR (negative) legs on the liability account  *)
(* of each wallet.  gl: the legs on the other GL accounts.                  *)

On(a, x) == [c \in Accounts |-> IF c = a THEN x ELSE 0]
OnBoth(a, x, b, y) == [c \in Accounts |-> IF c = a THEN x ELSE IF c = b THEN y ELSE 0]
GL(nostro, fee, vat) == [NOSTRO |-> nostro, FEE |-> fee, VAT |-> vat]

TopupLegs(o) ==
  [bal |-> On(o.a, o.amt), liab |-> On(o.a, -o.amt), gl |-> GL(o.amt, 0, 0)]

TransferLegs(o) ==
  [bal  |-> OnBoth(o.a, -(o.amt + o.fee), o.b, o.amt),
   liab |-> OnBoth(o.a, o.amt + o.fee, o.b, -o.amt),
   gl   |-> GL(0, -Net(o.fee), -Vat(o.fee))]

WithdrawLegs(o) ==
  [bal  |-> On(o.a, -(o.amt + o.fee)),
   liab |-> On(o.a, o.amt + o.fee),
   gl   |-> GL(-o.amt, -Net(o.fee), -Vat(o.fee))]

FeeChargeLegs(o) ==
  [bal  |-> On(o.a, -o.amt),
   liab |-> On(o.a, o.amt),
   gl   |-> GL(0, -Net(o.amt), -Vat(o.amt))]

\* The reversals work from the record of the original posting o.
TopupReversalLegs(o) ==
  [bal |-> On(o.a, -o.amt), liab |-> On(o.a, o.amt), gl |-> GL(-o.amt, 0, 0)]

TransferReversalLegs(o) ==
  [bal  |-> OnBoth(o.a, o.amt + o.fee, o.b, -o.amt),
   liab |-> OnBoth(o.a, -(o.amt + o.fee), o.b, o.amt),
   gl   |-> GL(0, Net(o.fee), Vat(o.fee))]

FeeNetReversalLegs(o) ==                        \* mutant: gives the fee back without its VAT
  [bal  |-> On(o.a, Net(o.amt)),
   liab |-> On(o.a, -o.amt),
   gl   |-> GL(0, Net(o.amt), Vat(o.amt))]

FeeChargeReversalLegs(o) ==
  [bal  |-> On(o.a, o.amt),
   liab |-> On(o.a, -o.amt),
   gl   |-> GL(0, Net(o.amt), Vat(o.amt))]

WithdrawReversalLegs(o) ==
  [bal  |-> On(o.a, o.amt + o.fee),
   liab |-> On(o.a, -(o.amt + o.fee)),
   gl   |-> GL(o.amt, RefundedNet(o.fee), Vat(o.fee))]

NoLegs == [bal |-> [c \in Accounts |-> 0], liab |-> [c \in Accounts |-> 0], gl |-> GL(0, 0, 0)]

Plus(x, y) ==
  [bal  |-> [c \in Accounts |-> x.bal[c] + y.bal[c]],
   liab |-> [c \in Accounts |-> x.liab[c] + y.liab[c]],
   gl   |-> [g \in GLCodes |-> x.gl[g] + y.gl[g]]]

\* The legs procedure op posts when the original is o (the request itself
\* unless op is a reversal).
Legs(op, o) ==
  CASE op = "TOPUP"    -> TopupLegs(o)
    [] op = "TRANSFER" -> TransferLegs(o)
    [] op = "WITHDRAW" -> WithdrawLegs(o)
    [] op = "FEE"      -> FeeChargeLegs(o)
    [] op = "RVTPUP"   -> TopupReversalLegs(o)
    [] op = "RVTRF"    -> TransferReversalLegs(o)
    [] op = "RVFC"     -> FeeChargeReversalLegs(o)
    [] OTHER           -> WithdrawReversalLegs(o)

Wallets(o) == {o.a, o.b}                        \* the rows a posting of o locks

-----------------------------------------------------------------------------
(* What each procedure demands of the wallet rows.  row[a] is a record      *)
(* [bal, restr, crBlk, status, ver]; held is the set of active restraints.  *)

Available(row) == row.bal - row.restr           \* CALC_BAL

DebitHeld(a, held) == \E h \in held : h.acct = a /\ h.debit /\ h.pledge = 0

TopupAllowed(o, row, held) == row[o.a].status = "A" /\ ~row[o.a].crBlk

TransferAllowed(o, row, held) ==
  /\ row[o.a].status = "A" /\ row[o.b].status = "A"
  /\ ~DebitHeld(o.a, held)
  /\ ~row[o.b].crBlk
  /\ Available(row[o.a]) >= o.amt + o.fee

WithdrawAllowed(o, row, held) ==
  /\ row[o.a].status = "A"
  /\ ~DebitHeld(o.a, held)
  /\ Available(row[o.a]) >= o.amt + o.fee

FeeOnBalance(o, row, held) ==                   \* mutant: forgets what is restrained
  row[o.a].status = "A" /\ row[o.a].bal >= o.amt

FeeChargeAllowed(o, row, held) ==
  row[o.a].status = "A" /\ Available(row[o.a]) >= o.amt

TopupReversalAllowed(o, row, held) ==
  row[o.a].status # "C" /\ Available(row[o.a]) >= o.amt

ClawBackAllowed(o, row, held) ==                \* mutant: does not look at the refund's target
  Available(row[o.b]) >= o.amt

TransferReversalAllowed(o, row, held) ==
  /\ row[o.a].status = "A" /\ ~row[o.a].crBlk
  /\ Available(row[o.b]) >= o.amt

FeeChargeReversalAllowed(o, row, held) == row[o.a].status # "C"

\* The refund of a withdrawal asks nothing of the wallet it credits.
WithdrawReversalAllowed(o, row, held) == TRUE

Allowed(op, o, row, held) ==
  CASE op = "TOPUP"    -> TopupAllowed(o, row, held)
    [] op = "TRANSFER" -> TransferAllowed(o, row, held)
    [] op = "WITHDRAW" -> WithdrawAllowed(o, row, held)
    [] op = "FEE"      -> FeeChargeAllowed(o, row, held)
    [] op = "RVTPUP"   -> TopupReversalAllowed(o, row, held)
    [] op = "RVTRF"    -> TransferReversalAllowed(o, row, held)
    [] op = "RVFC"     -> FeeChargeReversalAllowed(o, row, held)
    [] OTHER           -> WithdrawReversalAllowed(o, row, held)

\* The inline fund guard of the compare-and-swap UPDATE that debits wallet a.
FundGuard(o, a, row) ==
  a = o.a /\ o.op # "TOPUP" => Available(row[a]) >= o.amt + o.fee

-----------------------------------------------------------------------------
(* Identities.                                                              *)

\* The subject a reversal looks for in WLT_API_MESSAGE.
OriginalOp(op) ==
  CASE op = "RVTPUP" -> "TOPUP" [] op = "RVTRF" -> "TRANSFER" [] OTHER -> "FEE"

PlainKey(r) == <<"REF", r.ref>>                 \* mutant: no prefix

\* OBJECT_REF_ID of the row a call claims: its reference, or for a reversal
\* the prefixed original reference cut to 64 characters.
MsgKey(r) ==
  IF r.op \in Reversals THEN <<r.op, Stem[r.ref]>> ELSE <<"REF", r.ref>>

MsgKeys == ({"REF"} \X Refs) \cup (Reversals \X {Stem[f] : f \in Refs})

\* What a call makes true in WLT_TRAN_HIST: legs carrying its own reference,
\* or reversal legs that point back (ORIG_SEQ_NO) at the original's.
Effect(r) ==
  CASE r.op \in Reversals -> <<"REVERSAL", r.ref>>
    [] r.op = "RVWD"       -> <<"REFUND", r.ext>>
    [] OTHER               -> <<"POSTING", r.ref>>

Effects == ({"POSTING", "REVERSAL"} \X Refs) \cup ({"REFUND"} \X Exts)
=============================================================================
