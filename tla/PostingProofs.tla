----------------------------- MODULE PostingProofs -----------------------------
(***************************************************************************)
(* Theorems about Posting, for every set of sessions, wallets, references  *)
(* and requests: types, nothing twice, what is reserved and what is        *)
(* blocked stays, who can wait for whom, every commit is a step of Ledger, *)
(* and the books balance.                                                  *)
(***************************************************************************)
EXTENDS Posting, SumProofs

(* The operators of LedgerOps have their types.                             *)

LEMMA VatType == \A g \in Nat : Vat(g) \in Int /\ Net(g) \in Int /\ RefundedNet(g) \in Int
  BY DEF Vat, Net, RefundedNet

\* VAT and net amount of a fee, rounded one by one as the reversal of a
\* withdrawal does, are the fee again: its batch balances.
THEOREM RefundedFeeBalances == \A g \in Nat : RefundedNet(g) + Vat(g) = g
  BY DEF RefundedNet, Vat

LEMMA LegsType ==
  ASSUME NEW op \in Ops, NEW o \in Requests
  PROVE  Legs(op, o) \in LegSet
<1>1. /\ o.a \in Accounts /\ o.b \in Accounts /\ o.amt \in Nat /\ o.fee \in Nat
      /\ -o.amt \in Int /\ o.amt + o.fee \in Int /\ -(o.amt + o.fee) \in Int
  BY RequestsAssumption
<1>2. /\ Vat(o.fee) \in Int /\ Net(o.fee) \in Int /\ RefundedNet(o.fee) \in Int
      /\ Vat(o.amt) \in Int /\ Net(o.amt) \in Int
  BY <1>1, VatType
<1>3. \A a, x : x \in Int => On(a, x) \in [Accounts -> Int]
  BY DEF On
<1>4. \A a, x, b, y : x \in Int /\ y \in Int => OnBoth(a, x, b, y) \in [Accounts -> Int]
  BY DEF OnBoth
<1>5. \A x, y, z : x \in Int /\ y \in Int /\ z \in Int => GL(x, y, z) \in [GLCodes -> Int]
  BY DEF GL, GLCodes
<1>6. \A b, l, g : b \in [Accounts -> Int] /\ l \in [Accounts -> Int] /\ g \in [GLCodes -> Int]
        => [bal |-> b, liab |-> l, gl |-> g] \in LegSet
  BY DEF LegSet
<1> QED
  BY <1>1, <1>2, <1>3, <1>4, <1>5, <1>6
     DEF Legs, TopupLegs, TransferLegs, WithdrawLegs, FeeChargeLegs, TopupReversalLegs,
         TransferReversalLegs, FeeChargeReversalLegs, WithdrawReversalLegs

LEMMA PlusType == \A x, y \in LegSet : Plus(x, y) \in LegSet
<1> SUFFICES ASSUME NEW x \in LegSet, NEW y \in LegSet PROVE Plus(x, y) \in LegSet
  OBVIOUS
<1>1. /\ [c \in Accounts |-> x.bal[c] + y.bal[c]] \in [Accounts -> Int]
      /\ [c \in Accounts |-> x.liab[c] + y.liab[c]] \in [Accounts -> Int]
      /\ [g \in GLCodes |-> x.gl[g] + y.gl[g]] \in [GLCodes -> Int]
  BY DEF LegSet
<1> QED
  BY <1>1 DEF Plus, LegSet

LEMMA NoLegsType == NoLegs \in LegSet
  BY DEF NoLegs, LegSet, GL, GLCodes

LEMMA KeyType ==
  ASSUME NEW r \in Requests
  PROVE  MsgKey(r) \in MsgKeys /\ Effect(r) \in Effects /\ OriginalKey(r) \in MsgKeys
<1>1. r.ref \in Refs /\ r.ext \in Exts
  BY RequestsAssumption
<1> QED
  BY <1>1 DEF MsgKey, MsgKeys, Effect, Effects, OriginalKey, Reversals

\* The end of a transaction leaves the locks and the sessions well-typed.
LEMMA EndType ==
  ASSUME LocksType, CallsType, NEW s \in Sessions, End(s)
  PROVE  LocksType' /\ CallsType'
<1>1. LocksType'
  BY DEF LocksType, End, Freed
<1>2. CallsType'
  BY NoLegsType DEF CallsType, End, Go, PCs, NoSnap
<1> QED
  BY <1>1, <1>2

LEMMA RowTaken ==
  ASSUME TypeOK, SessionsOK, NEW s \in Sessions, pc[s] = "rows", Unlocked(s) # {}
  PROVE  NextRow(s) \in Accounts /\ NextRow(s) \in Unlocked(s)
<1>1. orig[s] \in Requests
  BY DEF SessionsOK
<1>2. Wallets(orig[s]) = {orig[s].a, orig[s].b} /\ orig[s].a \in Accounts /\ orig[s].b \in Accounts
  BY <1>1, RequestsAssumption DEF Wallets
<1>3. orig[s].a \in Nat /\ orig[s].b \in Nat
  BY <1>2, AccountsAssumption
<1>4. \E a \in Unlocked(s) : \A b \in Unlocked(s) : a <= b
  BY <1>2, <1>3 DEF Unlocked
<1> QED
  BY <1>2, <1>4 DEF NextRow, Unlocked

-----------------------------------------------------------------------------
(* Type correctness.  SessionsOK is what makes it inductive: a session reads*)
(* its request, and the payouts it is refunding.                            *)

TypeInv == TypeOK /\ SessionsOK

LEMMA InitType == Init => TypeInv
<1> SUFFICES ASSUME Init PROVE TypeInv
  OBVIOUS
<1>1. TablesType
  BY OpeningAssumption, NoLegsType DEF Init, TablesType, Rows, WalletRow, Statuses, LegSet
<1>2. LocksType
  BY DEF Init, LocksType
<1>3. CallsType
  BY NoLegsType DEF Init, CallsType, PCs, NoSnap
<1>4. SessionsOK
  BY DEF Init, SessionsOK
<1> QED
  BY <1>1, <1>2, <1>3, <1>4 DEF TypeInv, TypeOK, Init

\* A transaction that ends without writing.
LEMMA EndKeepsType ==
  ASSUME TypeInv, NEW s \in Sessions, End(s), UNCHANGED tables, told' \subseteq Requests
  PROVE  TypeInv'
<1>1. LocksType' /\ CallsType'
  BY EndType DEF TypeInv, TypeOK
<1>2. TablesType'
  BY DEF TypeInv, TypeOK, TablesType, tables
<1>3. SessionsOK'
  BY DEF TypeInv, TypeOK, SessionsOK, LocksType, CallsType, End, Go, Freed, Open, tables
<1> QED
  BY <1>1, <1>2, <1>3 DEF TypeInv, TypeOK

LEMMA CallKeepsType ==
  ASSUME TypeInv, NEW s \in Sessions, NEW r \in Requests, Call(s, r)
  PROVE  TypeInv'
  BY DEF TypeInv, TypeOK, SessionsOK, TablesType, LocksType, CallsType, Call, Go, PCs, Open,
         tables, locks

\* The steps that take an idempotency key, and the reads.
LEMMA GateKeepsType ==
  ASSUME TypeInv, NEW s \in Sessions,
         Claim(s) \/ WithdrawLookup(s) \/ WithdrawInsert(s) \/ LoadOriginal(s) \/ Read(s)
  PROVE  TypeInv'
<1>1. req[s] \in Requests /\ orig[s] \in Requests
  BY DEF TypeInv, SessionsOK, Claim, WithdrawLookup, WithdrawInsert, LoadOriginal, Read
<1>2. MsgKey(req[s]) \in MsgKeys /\ OriginalKey(req[s]) \in MsgKeys
  BY <1>1, KeyType
<1>3. CASE Claim(s)
  BY <1>1, <1>2, <1>3
     DEF TypeInv, TypeOK, SessionsOK, TablesType, LocksType, CallsType, Claim, Go, PCs, Open,
         AfterClaim, tables
<1>4. CASE WithdrawLookup(s)
  BY <1>1, <1>4
     DEF TypeInv, TypeOK, SessionsOK, TablesType, LocksType, CallsType, WithdrawLookup, Go, PCs,
         Open, tables, locks
<1>5. CASE WithdrawInsert(s)
  <2>1. keyOwner' \in [MsgKeys -> Sessions \cup {None}]
    BY <1>2, <1>5 DEF TypeInv, TypeOK, LocksType, WithdrawInsert
  <2>2. pc' \in [Sessions -> PCs]
    BY <1>5 DEF TypeInv, TypeOK, CallsType, WithdrawInsert, Go, PCs
  <2>3. SessionsOK'
    BY <1>1, <1>5 DEF TypeInv, TypeOK, CallsType, SessionsOK, WithdrawInsert, Go, Open, tables
  <2> QED
    BY <1>5, <2>1, <2>2, <2>3
       DEF TypeInv, TypeOK, TablesType, LocksType, CallsType, WithdrawInsert, tables
<1>6. CASE LoadOriginal(s)
  <2>1. msg[OriginalKey(req[s])] \in Requests
    BY <1>2, <1>6 DEF TypeInv, TypeOK, TablesType, LoadOriginal, OriginalFound
  <2> QED
    BY <1>1, <1>2, <1>6, <2>1
       DEF TypeInv, TypeOK, SessionsOK, TablesType, LocksType, CallsType, LoadOriginal, Go, PCs,
           Open, tables
<1>7. CASE Read(s)
  <2>1. [a \in Accounts |-> IF a \in Wallets(req[s]) THEN acct[a].ver ELSE 0]
          \in [Accounts -> Nat]
    BY DEF TypeInv, TypeOK, TablesType, Rows
  <2> QED
    BY <1>1, <1>7, <2>1
       DEF TypeInv, TypeOK, SessionsOK, TablesType, LocksType, CallsType, Read, Go, PCs, Open,
           tables, locks
<1> QED
  BY <1>3, <1>4, <1>5, <1>6, <1>7

LEMMA LockRowKeepsType ==
  ASSUME TypeInv, NEW s \in Sessions, LockRow(s)
  PROVE  TypeInv'
<1>1. NextRow(s) \in Accounts
  BY RowTaken DEF TypeInv, LockRow
<1> QED
  BY <1>1 DEF TypeInv, TypeOK, SessionsOK, TablesType, LocksType, CallsType, LockRow, Open,
              tables, sessions

LEMMA WalletRowType ==
  ASSUME NEW row \in Rows, NEW bal \in Int, NEW restr \in Nat, NEW crBlk \in BOOLEAN,
         NEW status \in Statuses
  PROVE  /\ WalletRow(bal, restr, crBlk, status, row.ver + 1) \in Rows
         /\ WalletRow(bal, row.restr, row.crBlk, row.status, row.ver + 1) \in Rows
<1>1. row.ver + 1 \in Nat /\ row.restr \in Nat /\ row.crBlk \in BOOLEAN /\ row.status \in Statuses
  BY DEF Rows
<1> QED
  BY <1>1 DEF WalletRow, Rows

\* What a session installs when it commits legs l.
LEMMA PostedType ==
  ASSUME TypeInv, NEW s \in Sessions, NEW l \in LegSet
  PROVE  /\ Posted(s, l) \in [Accounts -> Rows]
         /\ Booked(l) \in [liab : [Accounts -> Int], gl : [GLCodes -> Int]]
<1>1. \A a \in Accounts : acct[a] \in Rows /\ l.bal[a] \in Int
  BY DEF TypeInv, TypeOK, TablesType, LegSet
<1>2. \A a \in Accounts :
        WalletRow(acct[a].bal + l.bal[a], acct[a].restr, acct[a].crBlk, acct[a].status,
                  acct[a].ver + 1) \in Rows
  <2> SUFFICES ASSUME NEW a \in Accounts
               PROVE  WalletRow(acct[a].bal + l.bal[a], acct[a].restr, acct[a].crBlk,
                                acct[a].status, acct[a].ver + 1) \in Rows
    OBVIOUS
  <2>1. acct[a] \in Rows /\ acct[a].bal + l.bal[a] \in Int
    BY <1>1 DEF Rows
  <2> QED
    BY <2>1, WalletRowType DEF Rows
<1>3. Posted(s, l) \in [Accounts -> Rows]
  BY <1>1, <1>2 DEF Posted
<1>4. Booked(l) \in [liab : [Accounts -> Int], gl : [GLCodes -> Int]]
  BY DEF TypeInv, TypeOK, TablesType, LegSet, Booked
<1> QED
  BY <1>3, <1>4

\* The sessions of a transaction that has ended, if no payout was closed under
\* another session.
LEMMA EndSessionsOK ==
  ASSUME TypeInv, NEW s \in Sessions, End(s),
         \A e \in Exts : Open(e) /\ trackOwner[e] # s => Open(e)'
  PROVE  SessionsOK'
  BY DEF TypeInv, TypeOK, SessionsOK, LocksType, CallsType, End, Go, Freed

LEMMA CommitKeepsType ==
  ASSUME TypeInv, NEW s \in Sessions, Commit(s)
  PROVE  TypeInv'
<1> DEFINE r == req[s]
           l == Legs(r.op, orig[s])
<1>1. r \in Requests /\ orig[s] \in Requests
  BY DEF TypeInv, SessionsOK, Commit
<1>2. r.op \in Ops /\ r.ext \in Exts /\ MsgKey(r) \in MsgKeys /\ Effect(r) \in Effects
  BY <1>1, KeyType, RequestsAssumption
<1>3. l \in LegSet
  BY <1>1, <1>2, LegsType
<1>4. acct' \in [Accounts -> Rows] /\ books' \in [liab : [Accounts -> Int], gl : [GLCodes -> Int]]
  BY <1>3, PostedType DEF Commit
<1>5. /\ msg' \in [MsgKeys -> Requests \cup {None}]
      /\ hist' \in [Effects -> Nat]
  BY <1>1, <1>2 DEF TypeInv, TypeOK, TablesType, Commit
<1>6. /\ track' \in [Exts -> Payouts \cup {None}]
      /\ clock' \in Nat
  BY <1>1, <1>2 DEF TypeInv, TypeOK, TablesType, Commit, Payouts, PayoutStatuses
<1>7. TablesType'
  BY <1>4, <1>5, <1>6 DEF TypeInv, TypeOK, TablesType, Commit
<1>8. LocksType' /\ CallsType'
  BY EndType DEF TypeInv, TypeOK, Commit
<1>9. SessionsOK'
  <2>1. \A e \in Exts : Open(e) => Open(e)'
    BY <1>1, <1>2 DEF TypeInv, TypeOK, TablesType, Commit, Passes, Open
  <2> QED
    BY <2>1, EndSessionsOK DEF Commit
<1>10. told' \subseteq Requests
  BY <1>1 DEF TypeInv, TypeOK, Commit
<1> QED
  BY <1>7, <1>8, <1>9, <1>10 DEF TypeInv, TypeOK

\* The steps of a refund: the payouts it works on are locked and open.
LEMMA PickKeepsType ==
  ASSUME TypeInv, NEW s \in Sessions, LockTrack(s) \/ Sweep(s)
  PROVE  TypeInv'
<1>1. CASE LockTrack(s)
  <2>1. req[s] \in Requests /\ orig[s] \in Requests /\ req[s].ext \in Exts
    BY <1>1, RequestsAssumption DEF TypeInv, SessionsOK, LockTrack
  <2>2. TypeOK'
    BY <1>1, <2>1 DEF TypeInv, TypeOK, TablesType, LocksType, CallsType, LockTrack, Go, PCs, tables
  <2>3. SessionsOK'
    BY <1>1, <2>1, SessionsAssumption
       DEF TypeInv, TypeOK, LocksType, CallsType, SessionsOK, LockTrack, Go, Open, tables
  <2> QED
    BY <2>2, <2>3 DEF TypeInv
<1>2. CASE Sweep(s)
  <2>1. PICK batch \in SUBSET Stuck :
          /\ work' = [work EXCEPT ![s] = batch]
          /\ trackOwner' = [e \in Exts |-> IF e \in batch THEN s ELSE trackOwner[e]]
    BY <1>2 DEF Sweep
  <2>2. batch \subseteq Exts
    BY DEF Stuck
  <2>3. TypeOK'
    BY <1>2, <2>1, <2>2
       DEF TypeInv, TypeOK, TablesType, LocksType, CallsType, Sweep, Go, PCs, tables
  <2>4. SessionsOK'
    BY <1>2, <2>1, <2>2, SessionsAssumption
       DEF TypeInv, TypeOK, LocksType, CallsType, SessionsOK, Sweep, Stuck, Go, Open, tables
  <2> QED
    BY <2>3, <2>4 DEF TypeInv
<1> QED
  BY <1>1, <1>2

LEMMA RefundKeepsType ==
  ASSUME TypeInv, NEW s \in Sessions, NEW e \in Exts, Refund(s, e) \/ Skip(s, e)
  PROVE  TypeInv'
<1>1. e \in work[s] /\ Open(e) /\ trackOwner[e] = s /\ pc[s] = "refund"
  BY DEF TypeInv, SessionsOK, Refund, Skip, IsNext
<1>2. track[e].by \in Requests
  BY <1>1 DEF TypeInv, TypeOK, TablesType, Payouts, Open
<1>3. track[e].by.a \in Accounts
  BY <1>2, RequestsAssumption
<1>4. CASE Refund(s, e)
  <2>1. Legs("RVWD", track[e].by) \in LegSet
    BY <1>2, LegsType DEF Ops
  <2>2. Plus(pend[s], Legs("RVWD", track[e].by)) \in LegSet
    BY <2>1, PlusType DEF TypeInv, TypeOK, CallsType
  <2>3. TypeOK'
    BY <1>3, <1>4, <2>2 DEF TypeInv, TypeOK, TablesType, LocksType, CallsType, Refund, tables
  <2>4. SessionsOK'
    BY <1>1, <1>4 DEF TypeInv, TypeOK, CallsType, SessionsOK, Refund, Open, tables
  <2> QED
    BY <2>3, <2>4 DEF TypeInv
<1>5. CASE Skip(s, e)
  <2>1. TypeOK'
    BY <1>5 DEF TypeInv, TypeOK, TablesType, LocksType, CallsType, Skip, tables, locks
  <2>2. SessionsOK'
    BY <1>5 DEF TypeInv, TypeOK, CallsType, SessionsOK, Skip, Open, tables, locks
  <2> QED
    BY <2>1, <2>2 DEF TypeInv
<1> QED
  BY <1>4, <1>5

LEMMA RefundCommitKeepsType ==
  ASSUME TypeInv, NEW s \in Sessions, RefundCommit(s)
  PROVE  TypeInv'
<1>1. pend[s] \in LegSet /\ done[s] \subseteq Exts
  BY DEF TypeInv, TypeOK, CallsType
<1>2. acct' \in [Accounts -> Rows] /\ books' \in [liab : [Accounts -> Int], gl : [GLCodes -> Int]]
  BY <1>1, PostedType DEF RefundCommit
<1>3. \A e \in done[s] : Open(e) /\ trackOwner[e] = s
  BY DEF TypeInv, SessionsOK
<1>4. track' \in [Exts -> Payouts \cup {None}]
  <2>1. \A e \in done[s] : track[e] \in Payouts
    BY <1>1, <1>3 DEF TypeInv, TypeOK, TablesType, Open
  <2>2. \A e \in done[s] : [track[e] EXCEPT !.status = "REVERSED"] \in Payouts
    BY <2>1 DEF Payouts, PayoutStatuses
  <2> QED
    BY <1>1, <2>2 DEF TypeInv, TypeOK, TablesType, RefundCommit
<1>5. hist' \in [Effects -> Nat]
  BY DEF TypeInv, TypeOK, TablesType, RefundCommit
<1>6. TablesType'
  BY <1>2, <1>4, <1>5 DEF TypeInv, TypeOK, TablesType, RefundCommit
<1>7. LocksType' /\ CallsType'
  BY EndType DEF TypeInv, TypeOK, RefundCommit
<1>8. SessionsOK'
  <2>1. \A e \in Exts : Open(e) /\ trackOwner[e] # s => Open(e)'
    BY <1>3 DEF TypeInv, TypeOK, TablesType, RefundCommit, Open
  <2> QED
    BY <2>1, EndSessionsOK DEF RefundCommit
<1>9. told' \subseteq Requests
  BY DEF TypeInv, TypeOK, CallsType, RefundCommit
<1> QED
  BY <1>6, <1>7, <1>8, <1>9 DEF TypeInv, TypeOK

\* The single-statement writers.  Nobody settles a payout that is locked.
LEMMA SettleKeepsType ==
  ASSUME TypeInv, NEW e \in Exts, Settle(e)
  PROVE  TypeInv'
<1>1. track[e] \in Payouts
  BY DEF TypeInv, TypeOK, TablesType, Settle, Open
<1>2. [track[e] EXCEPT !.status = "COMPLETED"] \in Payouts
  BY <1>1 DEF Payouts, PayoutStatuses
<1>3. track' = [track EXCEPT ![e] = [track[e] EXCEPT !.status = "COMPLETED"]]
  BY DEF Settle
<1>4. TypeOK'
  BY <1>2, <1>3 DEF TypeInv, TypeOK, TablesType, LocksType, CallsType, Settle, locks, sessions
<1>5. SessionsOK'
  BY <1>3, SessionsAssumption
     DEF TypeInv, TypeOK, TablesType, CallsType, SessionsOK, Settle, Open, locks, sessions
<1> QED
  BY <1>4, <1>5 DEF TypeInv

LEMMA OtherTablesKeepType ==
  ASSUME TypeInv, acct' \in [Accounts -> Rows], active' \subseteq Holds,
         UNCHANGED <<msg, track, clock, hist, books, locks, sessions, told>>
  PROVE  TypeInv'
  BY DEF TypeInv, TypeOK, TablesType, LocksType, CallsType, SessionsOK, Open, locks, sessions

LEMMA HoldsKeepType ==
  ASSUME TypeInv, NEW h \in Holds, AddRestraint(h) \/ ReleaseRestraint(h)
  PROVE  TypeInv'
<1>1. /\ h.acct \in Accounts /\ h.pledge \in Nat
      /\ h.debit \in BOOLEAN /\ h.credit \in BOOLEAN
  BY HoldsAssumption
<1> DEFINE row == acct[h.acct]
           rest == HoldsOn(h.acct, active \ {h})
<1>2. row \in Rows
  BY <1>1 DEF TypeInv, TypeOK, TablesType
<1>3. /\ row.bal \in Int /\ row.restr \in Nat /\ row.crBlk \in BOOLEAN /\ row.status \in Statuses
  BY <1>2 DEF Rows
<1>4. CASE AddRestraint(h)
  <2>1. row.restr + (IF h.debit THEN h.pledge ELSE 0) \in Nat /\ (row.crBlk \/ h.credit) \in BOOLEAN
    BY <1>1, <1>3
  <2>2. acct' \in [Accounts -> Rows]
    BY <1>1, <1>2, <1>3, <1>4, <2>1, WalletRowType DEF TypeInv, TypeOK, TablesType, AddRestraint
  <2>3. active' \subseteq Holds /\ UNCHANGED <<msg, track, clock, hist, books, locks, sessions, told>>
    BY <1>4 DEF AddRestraint, TypeInv, TypeOK, TablesType
  <2> QED
    BY <2>2, <2>3, OtherTablesKeepType
<1>5. CASE ReleaseRestraint(h)
  <2>1. rest \in SUBSET Holds
    BY DEF TypeInv, TypeOK, TablesType, HoldsOn
  <2>2. Pledged[rest] \in Nat /\ (\E x \in rest : x.credit) \in BOOLEAN
    BY <2>1, HoldsAssumption
  <2>3. acct' \in [Accounts -> Rows]
    BY <1>1, <1>2, <1>3, <1>5, <2>2, WalletRowType DEF TypeInv, TypeOK, TablesType, ReleaseRestraint
  <2>4. active' \subseteq Holds /\ UNCHANGED <<msg, track, clock, hist, books, locks, sessions, told>>
    BY <1>5 DEF ReleaseRestraint, TypeInv, TypeOK, TablesType
  <2> QED
    BY <2>3, <2>4, OtherTablesKeepType
<1> QED
  BY <1>4, <1>5

LEMMA StatusKeepsType ==
  ASSUME TypeInv, NEW a \in Accounts, NEW new \in Statuses, UpdateStatus(a, new)
  PROVE  TypeInv'
<1>1. acct[a] \in Rows
  BY DEF TypeInv, TypeOK, TablesType
<1>2. acct[a].bal \in Int /\ acct[a].restr \in Nat /\ acct[a].crBlk \in BOOLEAN
  BY <1>1 DEF Rows
<1>3. acct' \in [Accounts -> Rows]
  BY <1>1, <1>2, WalletRowType DEF TypeInv, TypeOK, TablesType, UpdateStatus
<1> QED
  BY <1>3, OtherTablesKeepType DEF UpdateStatus, TypeInv, TypeOK, TablesType

LEMMA NextKeepsType == TypeInv /\ [Next]_vars => TypeInv'
<1> SUFFICES ASSUME TypeInv, [Next]_vars PROVE TypeInv'
  OBVIOUS
<1>1. ASSUME NEW s \in Sessions, NEW r \in Requests, Call(s, r) PROVE TypeInv'
  BY <1>1, CallKeepsType
<1>2. ASSUME NEW s \in Sessions,
             Claim(s) \/ WithdrawLookup(s) \/ WithdrawInsert(s) \/ LoadOriginal(s) \/ Read(s)
      PROVE  TypeInv'
  BY <1>2, GateKeepsType
<1>3. ASSUME NEW s \in Sessions, Abort(s) \/ Reject(s) PROVE TypeInv'
  BY <1>3, EndKeepsType DEF Abort, Reject, TypeInv, TypeOK
<1>4. ASSUME NEW s \in Sessions, Duplicate(s) \/ AlreadyRefunded(s) PROVE TypeInv'
  <2>1. req[s] \in Requests
    BY <1>4 DEF TypeInv, SessionsOK, Duplicate, AlreadyRefunded
  <2>2. told' \subseteq Requests
    BY <1>4, <2>1 DEF Duplicate, AlreadyRefunded, TypeInv, TypeOK
  <2> QED
    BY <1>4, <2>2, EndKeepsType DEF Duplicate, AlreadyRefunded
<1>5. ASSUME NEW s \in Sessions, LockRow(s) PROVE TypeInv'
  BY <1>5, LockRowKeepsType
<1>6. ASSUME NEW s \in Sessions, Commit(s) PROVE TypeInv'
  BY <1>6, CommitKeepsType
<1>7. ASSUME NEW s \in Sessions, LockTrack(s) \/ Sweep(s) PROVE TypeInv'
  BY <1>7, PickKeepsType
<1>8. ASSUME NEW s \in Sessions, NEW e \in Exts, Refund(s, e) \/ Skip(s, e) PROVE TypeInv'
  BY <1>8, RefundKeepsType
<1>9. ASSUME NEW s \in Sessions, RefundCommit(s) PROVE TypeInv'
  BY <1>9, RefundCommitKeepsType
<1>10. ASSUME NEW e \in Exts, Settle(e) PROVE TypeInv'
  BY <1>10, SettleKeepsType
<1>11. ASSUME NEW h \in Holds, AddRestraint(h) \/ ReleaseRestraint(h) PROVE TypeInv'
  BY <1>11, HoldsKeepType
<1>12. ASSUME NEW a \in Accounts, NEW new \in Statuses, UpdateStatus(a, new) PROVE TypeInv'
  BY <1>12, StatusKeepsType
<1>13. CASE UNCHANGED vars
  BY <1>13 DEF TypeInv, TypeOK, TablesType, LocksType, CallsType, SessionsOK, Open, vars, tables,
               locks, sessions
<1> QED
  BY <1>1, <1>2, <1>3, <1>4, <1>5, <1>6, <1>7, <1>8, <1>9, <1>10, <1>11, <1>12, <1>13
     DEF Next, Step

\* Tables, locks and sessions keep their types, however calls, sweeps,
\* completions, restraints and failures interleave; balances stay integers
\* and restrained amounts natural numbers.
THEOREM TypeCorrect == Spec => []TypeOK
<1>1. Init => TypeInv
  BY InitType
<1>2. TypeInv /\ [Next]_vars => TypeInv'
  BY NextKeepsType
<1>3. TypeInv => TypeOK
  BY DEF TypeInv
<1> QED
  BY <1>1, <1>2, <1>3, PTL DEF Spec

-----------------------------------------------------------------------------
(***************************************************************************)
(* No posting, reversal or refund takes effect twice.                      *)
(***************************************************************************)

Postings == {"TOPUP", "TRANSFER", "WITHDRAW", "FEE"}

\* What clients must do for it: repeat a withdrawal under its reference with
\* the same arguments, the payout reference in particular, or not at all.
\* (The run withdraw_dup shows what happens otherwise.)  Of the procedures that
\* claim their key nothing is asked.
WithdrawalsRepeatExactly ==
  \A q, r \in Requests :
    q.op = "WITHDRAW" /\ r.op \in Postings /\ q.ref = r.ref => q = r

-----------------------------------------------------------------------------
(* The inductive invariant.                                                 *)

AtRows == {"load", "read", "rows"}

\* A call past the gate holds the key it claimed, and the key is still new; a
\* withdrawal holds its key or has seen it used.
Gate ==
  \A s \in Sessions :
    /\ pc[s] \in AtRows => req[s].op \in ClaimOps \cup {"WITHDRAW"}
    /\ pc[s] = "insert" => req[s].op = "WITHDRAW"
    /\ pc[s] \in AtRows /\ req[s].op \in ClaimOps =>
         keyOwner[MsgKey(req[s])] = s /\ msg[MsgKey(req[s])] = None
    /\ pc[s] \in AtRows /\ req[s].op = "WITHDRAW" =>
         keyOwner[MsgKey(req[s])] = s \/ msg[MsgKey(req[s])] # None

\* A reversal that reached the rows has found its original.
Loaded ==
  \A s \in Sessions :
    /\ pc[s] = "read" => req[s].op \notin Reversals
    /\ pc[s] = "rows" /\ req[s].op \in Reversals => OriginalFound(req[s])

PostingsCounted ==
  \A f \in Refs : /\ hist[<<"POSTING", f>>] <= 1
                  /\ hist[<<"POSTING", f>>] > 0 => msg[<<"REF", f>>] # None

WithdrawalsCounted ==
  \A r \in Requests :
    r.op = "WITHDRAW" /\ hist[<<"POSTING", r.ref>>] > 0 => track[r.ext] # None

\* The key of a reversal names the kind of its original: no other reversal
\* finds an original of that kind.
ReversalUsed(f) ==
  \E op \in Reversals : /\ msg[<<"REF", f>>] # None
                        /\ msg[<<"REF", f>>].op = OriginalOp(op)
                        /\ msg[<<op, Stem[f]>>] # None

ReversalsCounted ==
  \A f \in Refs : /\ hist[<<"REVERSAL", f>>] <= 1
                  /\ hist[<<"REVERSAL", f>>] > 0 => ReversalUsed(f)

GateInv == TypeInv /\ Gate /\ Loaded

RefundInv == GateInv /\ SettledXorRefunded

OnceInv == RefundInv /\ ReversalsCounted /\ PostingsCounted /\ WithdrawalsCounted

-----------------------------------------------------------------------------
(* The gate.                                                                *)

LEMMA KeysApart ==
  ASSUME NEW r \in Requests, r.op \in Reversals
  PROVE  MsgKey(r) # OriginalKey(r) /\ MsgKey(r) = <<r.op, Stem[r.ref]>>
  BY DEF MsgKey, OriginalKey, Reversals

\* The end of a transaction, which may have put its own request under a free
\* key it holds.
LEMMA EndKeepsGate ==
  ASSUME GateInv, NEW s \in Sessions, End(s),
         \A k \in MsgKeys : msg'[k] = msg[k] \/ (keyOwner[k] = s /\ msg[k] = None /\ msg'[k] # None)
  PROVE  Gate' /\ Loaded'
<1>1. ASSUME NEW t \in Sessions
      PROVE  /\ pc'[t] # "idle" => t # s /\ pc'[t] = pc[t] /\ req'[t] = req[t]
             /\ \A k \in MsgKeys : keyOwner[k] = t /\ t # s => keyOwner'[k] = t /\ msg'[k] = msg[k]
             /\ \A k \in MsgKeys : msg[k] # None => msg'[k] = msg[k]
  BY DEF GateInv, TypeInv, TypeOK, LocksType, CallsType, End, Go, Freed
<1>2. \A t \in Sessions : pc[t] \notin {"idle", "refund"} =>
        MsgKey(req[t]) \in MsgKeys /\ OriginalKey(req[t]) \in MsgKeys
  BY KeyType DEF GateInv, TypeInv, SessionsOK
<1>3. Gate'
  BY <1>1, <1>2 DEF GateInv, Gate, AtRows
<1>4. Loaded'
  BY <1>1, <1>2 DEF GateInv, Loaded, OriginalFound
<1> QED
  BY <1>3, <1>4

LEMMA GateStep ==
  ASSUME GateInv, [Next]_vars
  PROVE  Gate' /\ Loaded'
<1>1. \A t \in Sessions : pc[t] \notin {"idle", "refund"} =>
        /\ req[t] \in Requests
        /\ MsgKey(req[t]) \in MsgKeys /\ OriginalKey(req[t]) \in MsgKeys
  BY KeyType DEF GateInv, TypeInv, SessionsOK
<1>2. ASSUME NEW s \in Sessions, NEW r \in Requests, Call(s, r) PROVE Gate' /\ Loaded'
  BY <1>2 DEF GateInv, TypeInv, TypeOK, CallsType, Gate, Loaded, AtRows, OriginalFound, Call, Go,
              tables, locks
<1>3. ASSUME NEW s \in Sessions, Claim(s) PROVE Gate' /\ Loaded'
  <2>1. /\ pc' = [pc EXCEPT ![s] = AfterClaim(req[s].op)]
        /\ keyOwner' = [keyOwner EXCEPT ![MsgKey(req[s])] = s]
        /\ msg[MsgKey(req[s])] = None /\ keyOwner[MsgKey(req[s])] = None
        /\ req[s].op \in ClaimOps /\ UNCHANGED <<msg, req>>
    BY <1>3 DEF Claim, Go, tables
  <2>2. AfterClaim(req[s].op) \in AtRows
    BY DEF AfterClaim, AtRows
  <2>3. Gate'
    BY <1>1, <1>3, <2>1, <2>2, SessionsAssumption
       DEF GateInv, TypeInv, TypeOK, CallsType, LocksType, Gate, AtRows, Claim
  <2>4. Loaded'
    BY <1>3, <2>1
       DEF GateInv, TypeInv, TypeOK, CallsType, Loaded, OriginalFound, AfterClaim, CasOps
  <2> QED
    BY <2>3, <2>4
<1>4. ASSUME NEW s \in Sessions, WithdrawLookup(s) \/ Read(s) PROVE Gate' /\ Loaded'
  <2>1. /\ UNCHANGED <<msg, req, keyOwner>>
        /\ \/ pc' = [pc EXCEPT ![s] = "insert"] /\ req[s].op = "WITHDRAW"
           \/ pc' = [pc EXCEPT ![s] = "rows"] /\ pc[s] = "read"
    BY <1>4 DEF WithdrawLookup, Read, Go, tables, locks
  <2>2. Gate'
    BY <2>1 DEF GateInv, TypeInv, TypeOK, CallsType, Gate, AtRows
  <2>3. Loaded'
    BY <2>1 DEF GateInv, TypeInv, TypeOK, CallsType, Loaded, OriginalFound, Reversals
  <2> QED
    BY <2>2, <2>3
<1>5. ASSUME NEW s \in Sessions, WithdrawInsert(s) PROVE Gate' /\ Loaded'
  <2>1. /\ pc' = [pc EXCEPT ![s] = "read"] /\ req[s].op = "WITHDRAW" /\ pc[s] = "insert"
        /\ UNCHANGED <<msg, req>>
        /\ keyOwner[MsgKey(req[s])] = None
        /\ keyOwner' = IF msg[MsgKey(req[s])] = None
                       THEN [keyOwner EXCEPT ![MsgKey(req[s])] = s] ELSE keyOwner
    BY <1>5 DEF WithdrawInsert, Go, tables, GateInv, Gate
  <2>2. Gate'
    BY <1>1, <2>1, SessionsAssumption
       DEF GateInv, TypeInv, TypeOK, CallsType, LocksType, Gate, AtRows, ClaimOps
  <2>3. Loaded'
    BY <2>1 DEF GateInv, TypeInv, TypeOK, CallsType, Loaded, OriginalFound, Reversals
  <2> QED
    BY <2>2, <2>3
<1>6. ASSUME NEW s \in Sessions, LoadOriginal(s) PROVE Gate' /\ Loaded'
  <2>1. /\ pc' = [pc EXCEPT ![s] = "rows"] /\ pc[s] = "load" /\ OriginalFound(req[s])
        /\ UNCHANGED <<msg, req>>
        /\ keyOwner[OriginalKey(req[s])] = None
        /\ keyOwner' = [keyOwner EXCEPT ![OriginalKey(req[s])] = s]
    BY <1>6 DEF LoadOriginal, Go, tables
  <2>2. Gate'
    BY <1>1, <2>1, SessionsAssumption
       DEF GateInv, TypeInv, TypeOK, CallsType, LocksType, Gate, AtRows
  <2>3. Loaded'
    BY <2>1 DEF GateInv, TypeInv, TypeOK, CallsType, Loaded, OriginalFound
  <2> QED
    BY <2>2, <2>3
<1>7. ASSUME NEW s \in Sessions, Commit(s) PROVE Gate' /\ Loaded'
  <2>1. \A k \in MsgKeys : msg'[k] = msg[k] \/ (keyOwner[k] = s /\ msg[k] = None /\ msg'[k] # None)
    BY <1>1, <1>7, NoneAssumption
       DEF GateInv, TypeInv, TypeOK, TablesType, Commit, Gate, AtRows
  <2> QED
    BY <1>7, <2>1, EndKeepsGate DEF Commit
<1>8. ASSUME NEW s \in Sessions,
             Duplicate(s) \/ AlreadyRefunded(s) \/ RefundCommit(s) \/ Reject(s) \/ Abort(s)
      PROVE  Gate' /\ Loaded'
  BY <1>8, EndKeepsGate DEF Duplicate, AlreadyRefunded, RefundCommit, Reject, Abort, tables
<1>9. ASSUME NEW s \in Sessions, LockTrack(s) \/ Sweep(s) PROVE Gate' /\ Loaded'
  BY <1>9 DEF GateInv, TypeInv, TypeOK, CallsType, Gate, Loaded, AtRows, OriginalFound, LockTrack,
              Sweep, Go, tables
<1>10. ASSUME NEW s \in Sessions, LockRow(s) PROVE Gate' /\ Loaded'
  BY <1>10 DEF GateInv, Gate, Loaded, OriginalFound, LockRow, tables, sessions
<1>11. ASSUME NEW s \in Sessions, NEW e \in Exts, Refund(s, e) \/ Skip(s, e)
       PROVE  Gate' /\ Loaded'
  BY <1>11 DEF GateInv, Gate, Loaded, OriginalFound, Refund, Skip, tables, locks
<1>12. ASSUME UNCHANGED <<msg, keyOwner, pc, req>> PROVE Gate' /\ Loaded'
  BY <1>12 DEF GateInv, Gate, Loaded, OriginalFound
<1>13. ASSUME NEW e \in Exts, Settle(e) PROVE Gate' /\ Loaded'
  BY <1>12, <1>13 DEF Settle, locks, sessions
<1>14. ASSUME NEW h \in Holds, AddRestraint(h) \/ ReleaseRestraint(h) PROVE Gate' /\ Loaded'
  BY <1>12, <1>14 DEF AddRestraint, ReleaseRestraint, locks, sessions
<1>15. ASSUME NEW a \in Accounts, NEW new \in Statuses, UpdateStatus(a, new)
       PROVE  Gate' /\ Loaded'
  BY <1>12, <1>15 DEF UpdateStatus, locks, sessions
<1>16. CASE UNCHANGED vars
  BY <1>12, <1>16 DEF vars, tables, locks, sessions
<1> QED
  BY <1>2, <1>3, <1>4, <1>5, <1>6, <1>7, <1>8, <1>9, <1>10, <1>11, <1>13, <1>14, <1>15, <1>16
     DEF Next, Step

-----------------------------------------------------------------------------
(* The counts.                                                              *)

\* Only commits and Treasury's answer write the journal, the idempotency rows
\* and the payouts.
LEMMA Writers ==
  ASSUME [Next]_vars,
         \A s \in Sessions : ~Commit(s) /\ ~RefundCommit(s),
         \A e \in Exts : ~Settle(e)
  PROVE  UNCHANGED <<msg, hist, track>>
  BY ZenonT(60) DEF Next, Step, Call, Skip, Sweep, Claim, Duplicate, WithdrawLookup, WithdrawInsert,
         LoadOriginal, Read, LockRow, LockTrack, AlreadyRefunded, Refund, Reject, Abort,
         AddRestraint, ReleaseRestraint, UpdateStatus, vars, tables

\* The request a session commits, and the row it puts into each table.
LEMMA Committing ==
  ASSUME GateInv, NEW s \in Sessions, Commit(s)
  PROVE  /\ req[s] \in Requests /\ req[s].op \in ClaimOps \cup {"WITHDRAW"}
         /\ MsgKey(req[s]) \in MsgKeys /\ Effect(req[s]) \in Effects
         /\ req[s].ref \in Refs /\ req[s].ext \in Exts
         /\ hist' = [hist EXCEPT ![Effect(req[s])] = @ + 1]
         /\ msg' = [msg EXCEPT ![MsgKey(req[s])] = IF @ = None THEN req[s] ELSE @]
         /\ req[s].op \in ClaimOps => msg[MsgKey(req[s])] = None
         /\ req[s].op = "WITHDRAW" =>
              track[req[s].ext] = None /\ track'[req[s].ext] # None /\ track'[req[s].ext].status = "OPEN"
         /\ \A e \in Exts : track'[e] = track[e] \/ (req[s].op = "WITHDRAW" /\ e = req[s].ext)
         /\ req[s].op \in Reversals => OriginalFound(req[s])
<1>1. req[s] \in Requests /\ pc[s] = "rows"
  BY DEF GateInv, TypeInv, SessionsOK, Commit
<1>2. /\ req[s].op \in ClaimOps \cup {"WITHDRAW"}
      /\ req[s].op \in ClaimOps => msg[MsgKey(req[s])] = None
      /\ req[s].op \in Reversals => OriginalFound(req[s])
  BY <1>1 DEF GateInv, Gate, Loaded, AtRows
<1>3. /\ MsgKey(req[s]) \in MsgKeys /\ Effect(req[s]) \in Effects
      /\ req[s].ref \in Refs /\ req[s].ext \in Exts
  BY <1>1, KeyType, RequestsAssumption
<1>4. /\ hist' = [hist EXCEPT ![Effect(req[s])] = @ + 1]
      /\ msg' = [msg EXCEPT ![MsgKey(req[s])] = IF @ = None THEN req[s] ELSE @]
  BY DEF Commit
<1>5. CASE req[s].op = "WITHDRAW"
  <2>1. /\ track[req[s].ext] = None
        /\ track' = [track EXCEPT ![req[s].ext] = [status |-> "OPEN", by |-> req[s], due |-> clock]]
    BY <1>5 DEF Commit, Passes
  <2>2. track'[req[s].ext] = [status |-> "OPEN", by |-> req[s], due |-> clock]
    BY <1>3, <2>1 DEF GateInv, TypeInv, TypeOK, TablesType
  <2>3. track'[req[s].ext] \in Payouts
    BY <1>1, <2>2 DEF GateInv, TypeInv, TypeOK, TablesType, Payouts, PayoutStatuses
  <2> QED
    BY <1>1, <1>2, <1>3, <1>4, <1>5, <2>1, <2>2, <2>3, PayoutsAssumption
       DEF GateInv, TypeInv, TypeOK, TablesType
<1>6. CASE req[s].op # "WITHDRAW"
  <2>1. track' = track
    BY <1>6 DEF Commit
  <2> QED
    BY <1>1, <1>2, <1>3, <1>4, <1>6, <2>1
<1> QED
  BY <1>5, <1>6

\* What a commit adds to the journal.
LEMMA Journal ==
  ASSUME GateInv, NEW s \in Sessions, Commit(s)
  PROVE  /\ req[s].op \in Postings \/ req[s].op \in Reversals
         /\ \A e \in Exts : hist'[<<"REFUND", e>>] = hist[<<"REFUND", e>>]
         /\ \A f \in Refs : hist'[<<"POSTING", f>>] =
              IF req[s].op \in Postings /\ f = req[s].ref THEN hist[<<"POSTING", f>>] + 1
              ELSE hist[<<"POSTING", f>>]
         /\ \A f \in Refs : hist'[<<"REVERSAL", f>>] =
              IF req[s].op \in Reversals /\ f = req[s].ref THEN hist[<<"REVERSAL", f>>] + 1
              ELSE hist[<<"REVERSAL", f>>]
<1> DEFINE r == req[s]
<1>1. /\ r.op \in ClaimOps \cup {"WITHDRAW"}
      /\ Effect(r) \in Effects /\ hist' = [hist EXCEPT ![Effect(r)] = @ + 1]
      /\ hist \in [Effects -> Nat]
  BY Committing DEF GateInv, TypeInv, TypeOK, TablesType
<1>2. /\ r.op \in Postings \/ r.op \in Reversals
      /\ r.op \in Postings => r.op \notin Reversals /\ Effect(r) = <<"POSTING", r.ref>>
      /\ r.op \in Reversals => r.op \notin Postings /\ Effect(r) = <<"REVERSAL", r.ref>>
  BY <1>1 DEF Effect, Postings, Reversals, ClaimOps
<1>3. /\ \A e \in Exts : <<"REFUND", e>> \in Effects /\ hist[<<"REFUND", e>>] \in Nat
      /\ \A f \in Refs : <<"POSTING", f>> \in Effects /\ hist[<<"POSTING", f>>] \in Nat
      /\ \A f \in Refs : <<"REVERSAL", f>> \in Effects /\ hist[<<"REVERSAL", f>>] \in Nat
  BY <1>1 DEF Effects
<1>4. \A x \in Effects : hist'[x] = IF x = Effect(r) THEN hist[x] + 1 ELSE hist[x]
  BY <1>1
<1>5. /\ \A e \in Exts, f \in Refs : /\ <<"REFUND", e>> # <<"POSTING", f>>
                                     /\ <<"REFUND", e>> # <<"REVERSAL", f>>
      /\ \A f, g \in Refs : /\ <<"POSTING", f>> # <<"REVERSAL", g>>
                            /\ <<"POSTING", f>> = <<"POSTING", g>> => f = g
                            /\ <<"REVERSAL", f>> = <<"REVERSAL", g>> => f = g
  OBVIOUS
<1>6. r.ref \in Refs
  BY Committing
<1> QED
  BY <1>2, <1>3, <1>4, <1>5, <1>6

LEMMA Closing ==
  ASSUME NEW x \in Payouts, NEW st \in PayoutStatuses
  PROVE  LET y == [x EXCEPT !.status = st] IN y \in Payouts /\ y # None /\ y.status = st
<1>1. [x EXCEPT !.status = st] \in Payouts /\ [x EXCEPT !.status = st].status = st
  BY DEF Payouts
<1> QED
  BY <1>1, PayoutsAssumption

LEMMA SettledStep ==
  ASSUME GateInv, SettledXorRefunded, [Next]_vars
  PROVE  SettledXorRefunded'
<1>1. ASSUME NEW s \in Sessions, Commit(s) PROVE SettledXorRefunded'
  <2>1. \A e \in Exts : hist'[<<"REFUND", e>>] = hist[<<"REFUND", e>>]
    BY <1>1, Journal
  <2>2. \A e \in Exts : \/ track'[e] = track[e]
                        \/ track[e] = None /\ track'[e] # None /\ track'[e].status = "OPEN"
    BY <1>1, Committing
  <2> QED
    BY <2>1, <2>2 DEF SettledXorRefunded
<1>2. ASSUME NEW s \in Sessions, RefundCommit(s) PROVE SettledXorRefunded'
  <2>1. \A e \in done[s] : e \in Exts /\ track[e] # None /\ track[e].status = "OPEN" /\ track[e] \in Payouts
    BY DEF GateInv, TypeInv, TypeOK, TablesType, CallsType, SessionsOK, Open
  <2>2. \A e \in Exts :
          /\ hist'[<<"REFUND", e>>] = IF e \in done[s] THEN hist[<<"REFUND", e>>] + 1
                                      ELSE hist[<<"REFUND", e>>]
          /\ track'[e] = IF e \in done[s] THEN [track[e] EXCEPT !.status = "REVERSED"] ELSE track[e]
    BY <1>2 DEF RefundCommit, Effects
  <2>3. \A e \in done[s] : track'[e] # None /\ track'[e].status = "REVERSED"
    <3>1. "REVERSED" \in PayoutStatuses
      BY DEF PayoutStatuses
    <3>2. \A e \in done[s] :
            LET y == [track[e] EXCEPT !.status = "REVERSED"] IN y # None /\ y.status = "REVERSED"
      BY <2>1, <3>1, Closing
    <3>3. \A e \in done[s] : track'[e] = [track[e] EXCEPT !.status = "REVERSED"]
      BY <2>1, <2>2
    <3> QED
      BY <3>2, <3>3
  <2>4. \A e \in done[s] : hist[<<"REFUND", e>>] = 0
    BY <2>1 DEF SettledXorRefunded
  <2> SUFFICES ASSUME NEW e \in Exts
               PROVE  hist'[<<"REFUND", e>>] =
                        IF track'[e] # None /\ track'[e].status = "REVERSED" THEN 1 ELSE 0
    BY DEF SettledXorRefunded
  <2>5. CASE e \in done[s]
    <3>1. hist'[<<"REFUND", e>>] = hist[<<"REFUND", e>>] + 1
      BY <2>2, <2>5
    <3> QED
      BY <2>3, <2>4, <2>5, <3>1
  <2>6. CASE e \notin done[s]
    BY <2>2, <2>6 DEF SettledXorRefunded
  <2> QED
    BY <2>5, <2>6
<1>3. ASSUME NEW e \in Exts, Settle(e) PROVE SettledXorRefunded'
  <2>1. track[e] \in Payouts /\ track[e].status = "OPEN"
    BY <1>3 DEF GateInv, TypeInv, TypeOK, TablesType, Settle, Open
  <2>2. track' = [track EXCEPT ![e] = [track[e] EXCEPT !.status = "COMPLETED"]] /\ hist' = hist
    BY <1>3 DEF Settle
  <2>3. "COMPLETED" \in PayoutStatuses
    BY DEF PayoutStatuses
  <2>4. track'[e] # None /\ track'[e].status = "COMPLETED"
    BY <2>1, <2>2, <2>3, Closing DEF GateInv, TypeInv, TypeOK, TablesType
  <2> QED
    BY <2>1, <2>2, <2>4 DEF SettledXorRefunded, GateInv, TypeInv, TypeOK, TablesType
<1>4. CASE UNCHANGED <<msg, hist, track>>
  BY <1>4 DEF SettledXorRefunded
<1> QED
  BY <1>1, <1>2, <1>3, <1>4, Writers

\* The key of a reversal, still free when it commits, and the kind of its
\* original: an earlier reversal would have been of that kind, and used it.
LEMMA ReversalsStep ==
  ASSUME GateInv, ReversalsCounted, [Next]_vars
  PROVE  ReversalsCounted'
<1>1. ASSUME NEW s \in Sessions, Commit(s) PROVE ReversalsCounted'
  <2> DEFINE r == req[s]
  <2>1. \A k \in MsgKeys : msg[k] # None => msg'[k] = msg[k]
    BY <1>1, Committing DEF GateInv, TypeInv, TypeOK, TablesType
  <2>2. \A f \in Refs : /\ <<"REF", f>> \in MsgKeys
                        /\ \A op \in Reversals : <<op, Stem[f]>> \in MsgKeys
    BY DEF MsgKeys
  <2>3. \A f \in Refs : ReversalUsed(f) => ReversalUsed(f)'
    BY <2>1, <2>2 DEF ReversalUsed
  <2>4. CASE r.op \in Reversals
    <3>1. /\ r.ref \in Refs
          /\ msg[<<r.op, Stem[r.ref]>>] = None /\ msg'[<<r.op, Stem[r.ref]>>] # None
          /\ msg[<<"REF", r.ref>>] # None /\ msg[<<"REF", r.ref>>].op = OriginalOp(r.op)
      BY <1>1, <2>4, Committing, NoneAssumption
         DEF MsgKey, OriginalFound, OriginalKey, Reversals, ClaimOps, GateInv, TypeInv, TypeOK,
             TablesType
    <3>2. \A op \in Reversals : OriginalOp(op) = OriginalOp(r.op) => op = r.op
      BY <2>4 DEF Reversals, OriginalOp
    <3>3. ~ReversalUsed(r.ref)
      BY <3>1, <3>2 DEF ReversalUsed
    <3>4. \A f \in Refs : f = r.ref => ReversalUsed(f)'
      <4>1. msg'[<<"REF", r.ref>>] = msg[<<"REF", r.ref>>]
        BY <2>1, <2>2, <3>1
      <4> QED
        BY <2>4, <3>1, <4>1 DEF ReversalUsed
    <3>5. \A f \in Refs : hist[<<"REVERSAL", f>>] \in Nat
      BY DEF GateInv, TypeInv, TypeOK, TablesType, Effects
    <3> QED
      <4> SUFFICES ASSUME NEW f \in Refs
                   PROVE  /\ hist'[<<"REVERSAL", f>>] <= 1
                          /\ hist'[<<"REVERSAL", f>>] > 0 => ReversalUsed(f)'
        BY DEF ReversalsCounted
      <4>1. CASE f = r.ref
        <5>1. hist[<<"REVERSAL", f>>] = 0
          BY <3>1, <3>3, <3>5, <4>1 DEF ReversalsCounted
        <5>2. hist'[<<"REVERSAL", f>>] = hist[<<"REVERSAL", f>>] + 1
          BY <1>1, <2>4, <4>1, Journal
        <5> QED
          BY <3>4, <4>1, <5>1, <5>2
      <4>2. CASE f # r.ref
        <5>1. hist'[<<"REVERSAL", f>>] = hist[<<"REVERSAL", f>>]
          BY <1>1, <4>2, Journal
        <5> QED
          BY <2>3, <5>1 DEF ReversalsCounted
      <4> QED
        BY <4>1, <4>2
  <2>5. CASE r.op \notin Reversals
    <3>1. \A f \in Refs : /\ hist'[<<"REVERSAL", f>>] = hist[<<"REVERSAL", f>>]
                          /\ hist[<<"REVERSAL", f>>] \in Nat
      BY <1>1, <2>5, Journal DEF GateInv, TypeInv, TypeOK, TablesType, Effects
    <3> QED
      BY <2>3, <3>1 DEF ReversalsCounted
  <2> QED
    BY <2>4, <2>5
<1>2. ASSUME NEW s \in Sessions, RefundCommit(s) PROVE ReversalsCounted'
  <2>1. \A f \in Refs : hist'[<<"REVERSAL", f>>] = hist[<<"REVERSAL", f>>]
    BY <1>2 DEF RefundCommit, Effects
  <2> QED
    BY <1>2, <2>1 DEF ReversalsCounted, ReversalUsed, RefundCommit
<1>3. ASSUME NEW e \in Exts, Settle(e) PROVE ReversalsCounted'
  BY <1>3 DEF ReversalsCounted, ReversalUsed, Settle
<1>4. CASE UNCHANGED <<msg, hist, track>>
  BY <1>4 DEF ReversalsCounted, ReversalUsed
<1> QED
  BY <1>1, <1>2, <1>3, <1>4, Writers

\* A reference posted before has its key, and a withdrawal its payout: neither
\* gate lets it through again.
LEMMA PostingsStep ==
  ASSUME GateInv, WithdrawalsRepeatExactly, PostingsCounted, WithdrawalsCounted, [Next]_vars
  PROVE  PostingsCounted' /\ WithdrawalsCounted'
<1> USE DEF Postings
<1>1. \A f \in Refs : <<"REF", f>> \in MsgKeys /\ hist[<<"POSTING", f>>] \in Nat
  BY DEF MsgKeys, GateInv, TypeInv, TypeOK, TablesType, Effects
<1>2. \A q \in Requests : q.ref \in Refs /\ q.ext \in Exts
  BY RequestsAssumption
<1>3. ASSUME NEW s \in Sessions, Commit(s) PROVE PostingsCounted' /\ WithdrawalsCounted'
  <2> DEFINE r == req[s]
  <2>1. \A k \in MsgKeys : msg[k] # None => msg'[k] = msg[k]
    BY <1>3, Committing DEF GateInv, TypeInv, TypeOK, TablesType
  <2>2. \A e \in Exts : track[e] # None => track'[e] # None
    BY <1>3, Committing
  <2>3. CASE r.op \in Postings
    <3>1. r \in Requests /\ r.ref \in Refs /\ r.ext \in Exts /\ MsgKey(r) = <<"REF", r.ref>>
      BY <1>3, <2>3, Committing DEF MsgKey, Reversals
    <3>2. msg'[<<"REF", r.ref>>] # None
      BY <1>1, <1>3, <3>1, Committing, NoneAssumption DEF GateInv, TypeInv, TypeOK, TablesType
    <3>3. hist[<<"POSTING", r.ref>>] = 0
      <4>1. CASE r.op = "WITHDRAW"
        BY <1>1, <1>3, <3>1, <4>1, Committing DEF WithdrawalsCounted
      <4>2. CASE r.op # "WITHDRAW"
        BY <1>1, <1>3, <2>3, <3>1, <4>2, Committing DEF PostingsCounted, ClaimOps
      <4> QED
        BY <4>1, <4>2
    <3>4. \A q \in Requests : q.op = "WITHDRAW" /\ q.ref = r.ref => track'[q.ext] # None
      BY <1>3, <2>3, <3>1, Committing DEF WithdrawalsRepeatExactly
    <3>5. \A f \in Refs : hist'[<<"POSTING", f>>] = IF f = r.ref THEN 1 ELSE hist[<<"POSTING", f>>]
      <4> SUFFICES ASSUME NEW f \in Refs
                   PROVE  hist'[<<"POSTING", f>>] = IF f = r.ref THEN 1 ELSE hist[<<"POSTING", f>>]
        OBVIOUS
      <4>1. CASE f = r.ref
        <5>1. hist'[<<"POSTING", f>>] = hist[<<"POSTING", f>>] + 1
          BY <1>3, <2>3, <4>1, Journal
        <5> QED
          BY <3>3, <4>1, <5>1
      <4>2. CASE f # r.ref
        BY <1>3, <4>2, Journal
      <4> QED
        BY <4>1, <4>2
    <3>6. PostingsCounted'
      <4> SUFFICES ASSUME NEW f \in Refs
                   PROVE  /\ hist'[<<"POSTING", f>>] <= 1
                          /\ hist'[<<"POSTING", f>>] > 0 => msg'[<<"REF", f>>] # None
        BY DEF PostingsCounted
      <4>1. CASE f = r.ref
        BY <3>2, <3>5, <4>1
      <4>2. CASE f # r.ref
        BY <1>1, <2>1, <3>5, <4>2 DEF PostingsCounted
      <4> QED
        BY <4>1, <4>2
    <3>7. WithdrawalsCounted'
      BY <1>2, <2>2, <3>4, <3>5 DEF WithdrawalsCounted
    <3> QED
      BY <3>6, <3>7
  <2>4. CASE r.op \notin Postings
    <3>1. \A f \in Refs : hist'[<<"POSTING", f>>] = hist[<<"POSTING", f>>]
      BY <1>1, <1>3, <2>4, Journal
    <3> QED
      BY <1>1, <1>2, <2>1, <2>2, <3>1 DEF PostingsCounted, WithdrawalsCounted
  <2> QED
    BY <2>3, <2>4
<1>4. ASSUME NEW s \in Sessions, RefundCommit(s) PROVE PostingsCounted' /\ WithdrawalsCounted'
  <2>1. \A f \in Refs : hist'[<<"POSTING", f>>] = hist[<<"POSTING", f>>]
    BY <1>4 DEF RefundCommit, Effects
  <2>2. \A e \in done[s] : e \in Exts /\ track[e] \in Payouts
    BY DEF GateInv, TypeInv, TypeOK, TablesType, CallsType, SessionsOK, Open
  <2>3. \A e \in Exts : track[e] # None => track'[e] # None
    <3>1. "REVERSED" \in PayoutStatuses
      BY DEF PayoutStatuses
    <3> QED
      BY <1>4, <2>2, <3>1, Closing DEF RefundCommit
  <2> QED
    BY <1>2, <1>4, <2>1, <2>3 DEF PostingsCounted, WithdrawalsCounted, RefundCommit
<1>5. ASSUME NEW e \in Exts, Settle(e) PROVE PostingsCounted' /\ WithdrawalsCounted'
  <2>1. track[e] \in Payouts /\ "COMPLETED" \in PayoutStatuses
    BY <1>5 DEF GateInv, TypeInv, TypeOK, TablesType, Settle, Open, PayoutStatuses
  <2>2. track' = [track EXCEPT ![e] = [track[e] EXCEPT !.status = "COMPLETED"]]
    BY <1>5 DEF Settle
  <2>3. \A x \in Exts : track[x] # None => track'[x] # None
    BY <2>1, <2>2, Closing DEF GateInv, TypeInv, TypeOK, TablesType
  <2> QED
    BY <1>2, <1>5, <2>3 DEF PostingsCounted, WithdrawalsCounted, Settle
<1>6. CASE UNCHANGED <<msg, hist, track>>
  BY <1>6 DEF PostingsCounted, WithdrawalsCounted
<1> QED
  BY <1>3, <1>4, <1>5, <1>6, Writers

-----------------------------------------------------------------------------

LEMMA RefundInvInductive == (Init => RefundInv) /\ (RefundInv /\ [Next]_vars => RefundInv')
<1>1. Init => RefundInv
  <2> SUFFICES ASSUME Init PROVE RefundInv
    OBVIOUS
  <2>1. TypeInv
    BY InitType
  <2>2. Gate /\ Loaded
    BY DEF Init, Gate, Loaded, AtRows
  <2>3. SettledXorRefunded
    BY DEF Init, SettledXorRefunded, Effects
  <2> QED
    BY <2>1, <2>2, <2>3 DEF RefundInv, GateInv
<1>2. RefundInv /\ [Next]_vars => RefundInv'
  BY NextKeepsType, GateStep, SettledStep DEF RefundInv, GateInv
<1> QED
  BY <1>1, <1>2

\* A payout's withdrawal is refunded once if the payout was reversed and never
\* if it was completed or is under way, whether Treasury, an operator or the
\* janitor asks and whatever overlaps: the row of WLT_WITHDRAW_TRACK, locked
\* until the refund commits, decides.
THEOREM RefundedOrSettled == Spec => []SettledXorRefunded
<1>1. RefundInv => SettledXorRefunded
  BY DEF RefundInv
<1> QED
  BY <1>1, RefundInvInductive, PTL DEF Spec

\* If withdrawals are repeated only with the payout reference they came with,
\* no reference is posted twice, no original reversed twice and no payout
\* refunded twice.
THEOREM NothingTwice ==
  ASSUME WithdrawalsRepeatExactly
  PROVE  Spec => []PostedOnce
<1>1. Init => OnceInv
  <2> SUFFICES ASSUME Init PROVE OnceInv
    OBVIOUS
  <2>1. \A x \in Effects : hist[x] = 0
    BY DEF Init
  <2>2. ReversalsCounted /\ PostingsCounted /\ WithdrawalsCounted
    BY <2>1, RequestsAssumption
       DEF ReversalsCounted, PostingsCounted, WithdrawalsCounted, Effects
  <2> QED
    BY <2>2, RefundInvInductive DEF OnceInv
<1>2. OnceInv /\ [Next]_vars => OnceInv'
  BY RefundInvInductive, ReversalsStep, PostingsStep DEF OnceInv, RefundInv
<1>3. OnceInv => PostedOnce
  <2> SUFFICES ASSUME OnceInv, NEW x \in Effects PROVE hist[x] <= 1
    BY DEF PostedOnce
  <2>1. CASE \E f \in Refs : x = <<"POSTING", f>>
    BY <2>1 DEF OnceInv, PostingsCounted
  <2>2. CASE \E f \in Refs : x = <<"REVERSAL", f>>
    BY <2>2 DEF OnceInv, ReversalsCounted
  <2>3. CASE \E e \in Exts : x = <<"REFUND", e>>
    BY <2>3 DEF OnceInv, RefundInv, SettledXorRefunded
  <2> QED
    BY <2>1, <2>2, <2>3 DEF Effects
<1> QED
  BY <1>1, <1>2, <1>3, PTL DEF Spec

-----------------------------------------------------------------------------
(* A call answered with success has taken effect.                           *)

\* No two references share what a reversal's key keeps of them: they have the
\* same first characters only if they are equal.
StemsDiffer == \A f, g \in Refs : Stem[f] = Stem[g] => f = g

\* A key in WLT_API_MESSAGE is that of a posting, or a reversal, in the journal.
KeysPosted ==
  \A f \in Refs :
    /\ msg[<<"REF", f>>] # None => hist[<<"POSTING", f>>] >= 1
    /\ \A op \in Reversals : msg[<<op, Stem[f]>>] # None => hist[<<"REVERSAL", f>>] >= 1

\* A session with a refund under way was called for one of its payouts, or is
\* the janitor's.
RefundCalls ==
  \A s \in Sessions :
    /\ pc[s] = "idle" => req[s] = None
    /\ pc[s] = "refund" /\ req[s] # None =>
         req[s] \in Requests /\ req[s].op = "RVWD" /\ req[s].ext \in work[s] \cup done[s]

ToldInv == RefundInv /\ KeysPosted /\ RefundCalls /\ ToldIsPosted

LEMMA JournalGrows ==
  ASSUME GateInv, [Next]_vars, NEW x \in Effects
  PROVE  hist'[x] >= hist[x] /\ hist[x] \in Nat /\ hist'[x] \in Nat
<1>1. hist[x] \in Nat
  BY DEF GateInv, TypeInv, TypeOK, TablesType
<1>2. ASSUME NEW s \in Sessions, Commit(s) PROVE hist'[x] >= hist[x] /\ hist'[x] \in Nat
  <2>1. hist'[x] = hist[x] \/ hist'[x] = hist[x] + 1
    BY <1>2, Committing DEF GateInv, TypeInv, TypeOK, TablesType
  <2> QED
    BY <1>1, <2>1
<1>3. ASSUME NEW s \in Sessions, RefundCommit(s) PROVE hist'[x] >= hist[x] /\ hist'[x] \in Nat
  <2>1. hist'[x] = hist[x] \/ hist'[x] = hist[x] + 1
    BY <1>3 DEF RefundCommit
  <2> QED
    BY <1>1, <2>1
<1>4. ASSUME NEW e \in Exts, Settle(e) PROVE hist'[x] >= hist[x] /\ hist'[x] \in Nat
  BY <1>1, <1>4 DEF Settle
<1> QED
  BY <1>1, <1>2, <1>3, <1>4, Writers

LEMMA KeysPostedStep ==
  ASSUME StemsDiffer, GateInv, KeysPosted, [Next]_vars
  PROVE  KeysPosted'
<1>1. \A f \in Refs : /\ <<"POSTING", f>> \in Effects /\ <<"REVERSAL", f>> \in Effects
                      /\ <<"REF", f>> \in MsgKeys
                      /\ \A op \in Reversals : <<op, Stem[f]>> \in MsgKeys
  BY DEF Effects, MsgKeys
<1>2. ASSUME NEW f \in Refs
      PROVE  /\ hist[<<"POSTING", f>>] \in Nat /\ hist'[<<"POSTING", f>>] \in Nat
             /\ hist'[<<"POSTING", f>>] >= hist[<<"POSTING", f>>]
  BY <1>1, JournalGrows
<1>3. ASSUME NEW f \in Refs
      PROVE  /\ hist[<<"REVERSAL", f>>] \in Nat /\ hist'[<<"REVERSAL", f>>] \in Nat
             /\ hist'[<<"REVERSAL", f>>] >= hist[<<"REVERSAL", f>>]
  BY <1>1, JournalGrows
<1>4. ASSUME NEW s \in Sessions, Commit(s) PROVE KeysPosted'
  <2> DEFINE r == req[s]
  <2>1. /\ r.ref \in Refs /\ MsgKey(r) \in MsgKeys
        /\ r.op \in Postings \/ r.op \in Reversals
        /\ \A k \in MsgKeys : k # MsgKey(r) => msg'[k] = msg[k]
    BY <1>4, Committing, Journal DEF GateInv, TypeInv, TypeOK, TablesType
  <2>2. \A op \in Reversals : op # "REF"
    BY DEF Reversals
  <2>3. ASSUME NEW f \in Refs, msg'[<<"REF", f>>] # None PROVE hist'[<<"POSTING", f>>] >= 1
    <3>1. CASE <<"REF", f>> = MsgKey(r)
      <4>1. f = r.ref /\ r.op \notin Reversals
        BY <2>2, <3>1 DEF MsgKey
      <4>2. hist'[<<"POSTING", f>>] = hist[<<"POSTING", f>>] + 1
        BY <1>4, <2>1, <4>1, Journal
      <4>3. hist[<<"POSTING", f>>] \in Nat
        BY <1>2
      <4> QED
        BY <4>2, <4>3
    <3>2. CASE <<"REF", f>> # MsgKey(r)
      <4>1. hist[<<"POSTING", f>>] >= 1
        BY <1>1, <2>1, <2>3, <3>2 DEF KeysPosted
      <4> QED
        BY <1>2, <4>1
    <3> QED
      BY <3>1, <3>2
  <2>4. ASSUME NEW f \in Refs, NEW op \in Reversals, msg'[<<op, Stem[f]>>] # None
        PROVE  hist'[<<"REVERSAL", f>>] >= 1
    <3>1. CASE <<op, Stem[f]>> = MsgKey(r)
      <4>1. r.op \in Reversals /\ Stem[f] = Stem[r.ref]
        BY <2>2, <3>1 DEF MsgKey
      <4>2. f = r.ref
        BY <2>1, <4>1 DEF StemsDiffer
      <4>3. hist'[<<"REVERSAL", f>>] = hist[<<"REVERSAL", f>>] + 1
        BY <1>4, <4>1, <4>2, Journal
      <4>4. hist[<<"REVERSAL", f>>] \in Nat
        BY <1>3
      <4> QED
        BY <4>3, <4>4
    <3>2. CASE <<op, Stem[f]>> # MsgKey(r)
      <4>1. hist[<<"REVERSAL", f>>] >= 1
        BY <1>1, <2>1, <2>4, <3>2 DEF KeysPosted
      <4> QED
        BY <1>3, <4>1
    <3> QED
      BY <3>1, <3>2
  <2> QED
    BY <2>3, <2>4 DEF KeysPosted
<1>5. CASE msg' = msg
  <2>1. ASSUME NEW f \in Refs, msg'[<<"REF", f>>] # None PROVE hist'[<<"POSTING", f>>] >= 1
    <3>1. hist[<<"POSTING", f>>] >= 1
      BY <1>5, <2>1 DEF KeysPosted
    <3> QED
      BY <1>2, <3>1
  <2>2. ASSUME NEW f \in Refs, NEW op \in Reversals, msg'[<<op, Stem[f]>>] # None
        PROVE  hist'[<<"REVERSAL", f>>] >= 1
    <3>1. hist[<<"REVERSAL", f>>] >= 1
      BY <1>5, <2>2 DEF KeysPosted
    <3> QED
      BY <1>3, <3>1
  <2> QED
    BY <2>1, <2>2 DEF KeysPosted
<1>6. \A s \in Sessions : RefundCommit(s) => msg' = msg
  BY DEF RefundCommit
<1>7. \A e \in Exts : Settle(e) => msg' = msg
  BY DEF Settle
<1> QED
  BY <1>4, <1>5, <1>6, <1>7, Writers

LEMMA RefundCallsStep ==
  ASSUME GateInv, RefundCalls, [Next]_vars
  PROVE  RefundCalls'
<1> USE DEF GateInv, TypeInv, TypeOK, CallsType
<1>1. ASSUME NEW s \in Sessions, End(s) PROVE RefundCalls'
  BY <1>1 DEF RefundCalls, End, Go
<1>2. ASSUME NEW s \in Sessions, NEW r \in Requests, Call(s, r) PROVE RefundCalls'
  BY <1>2 DEF RefundCalls, Call, Go
<1>3. ASSUME NEW s \in Sessions, LockTrack(s) PROVE RefundCalls'
  <2>1. req[s] \in Requests
    BY <1>3 DEF SessionsOK, LockTrack
  <2> QED
    BY <1>3, <2>1 DEF RefundCalls, LockTrack, Go
<1>4. ASSUME NEW s \in Sessions, Sweep(s) PROVE RefundCalls'
  BY <1>4 DEF RefundCalls, Sweep, Go
<1>5. ASSUME NEW s \in Sessions, NEW e \in Exts, Refund(s, e) PROVE RefundCalls'
  BY <1>5 DEF RefundCalls, Refund
<1>6. ASSUME NEW s \in Sessions, NEW e \in Exts, Skip(s, e) PROVE RefundCalls'
  BY <1>6 DEF RefundCalls, Skip
<1>7. ASSUME NEW s \in Sessions,
             Claim(s) \/ WithdrawLookup(s) \/ WithdrawInsert(s) \/ LoadOriginal(s) \/ Read(s)
      PROVE  RefundCalls'
  <2>1. /\ UNCHANGED <<req, work, done>>
        /\ \E label \in {"insert", "load", "read", "rows"} : pc' = [pc EXCEPT ![s] = label]
    BY <1>7 DEF Claim, WithdrawLookup, WithdrawInsert, LoadOriginal, Read, Go, AfterClaim
  <2> QED
    BY <2>1 DEF RefundCalls
<1>8. CASE UNCHANGED <<pc, req, work, done>>
  BY <1>8 DEF RefundCalls
<1> QED
  BY <1>1, <1>2, <1>3, <1>4, <1>5, <1>6, <1>7, <1>8
     DEF Next, Step, Duplicate, Commit, RefundCommit, AlreadyRefunded, Reject, Abort, LockRow,
         Settle, AddRestraint, ReleaseRestraint, UpdateStatus, sessions, vars

LEMMA ToldStep ==
  ASSUME ToldInv, [Next]_vars
  PROVE  ToldIsPosted'
<1> USE DEF ToldInv, RefundInv
<1>1. \A r \in Requests : Effect(r) \in Effects /\ r.ref \in Refs /\ r.ext \in Exts
  BY KeyType, RequestsAssumption
<1>2. ASSUME NEW r \in told PROVE hist'[Effect(r)] >= 1
  <2>1. r \in Requests /\ hist[Effect(r)] >= 1
    BY DEF ToldIsPosted, GateInv, TypeInv, TypeOK
  <2>2. hist'[Effect(r)] >= hist[Effect(r)] /\ hist[Effect(r)] \in Nat /\ hist'[Effect(r)] \in Nat
    BY <1>1, <2>1, JournalGrows, NextKeepsType DEF GateInv, TypeInv, TypeOK, TablesType
  <2> QED
    BY <2>1, <2>2
<1>3. ASSUME NEW s \in Sessions, Commit(s) PROVE ToldIsPosted'
  <2>1. told' = told \cup {req[s]}
    BY <1>3 DEF Commit
  <2>2. hist'[Effect(req[s])] = hist[Effect(req[s])] + 1 /\ hist[Effect(req[s])] \in Nat
    BY <1>3, Committing DEF GateInv, TypeInv, TypeOK, TablesType
  <2>3. hist'[Effect(req[s])] >= 1
    BY <2>2
  <2> QED
    BY <1>2, <2>1, <2>3 DEF ToldIsPosted
<1>4. ASSUME NEW s \in Sessions, Duplicate(s) PROVE ToldIsPosted'
  <2> DEFINE r == req[s]
  <2>1. /\ told' = told \cup {r} /\ hist' = hist /\ r \in Requests
        /\ msg[MsgKey(r)] # None /\ r.op \in ClaimOps \cup {"WITHDRAW"}
    BY <1>4 DEF Duplicate, tables, GateInv, TypeInv, SessionsOK
  <2>2. hist[Effect(r)] >= 1
    <3>1. CASE r.op \in Reversals
      <4>1. MsgKey(r) = <<r.op, Stem[r.ref]>> /\ Effect(r) = <<"REVERSAL", r.ref>>
        BY <3>1 DEF MsgKey, Effect, Reversals
      <4> QED
        BY <1>1, <2>1, <3>1, <4>1 DEF KeysPosted
    <3>2. CASE r.op \notin Reversals
      <4>1. MsgKey(r) = <<"REF", r.ref>> /\ Effect(r) = <<"POSTING", r.ref>>
        BY <2>1, <3>2 DEF MsgKey, Effect, ClaimOps
      <4> QED
        BY <1>1, <2>1, <4>1 DEF KeysPosted
    <3> QED
      BY <3>1, <3>2
  <2> QED
    BY <2>1, <2>2 DEF ToldIsPosted
<1>5. ASSUME NEW s \in Sessions, AlreadyRefunded(s) PROVE ToldIsPosted'
  <2> DEFINE r == req[s]
  <2>1. /\ told' = told \cup {r} /\ hist' = hist /\ r \in Requests /\ r.op = "RVWD"
        /\ track[r.ext] # None /\ track[r.ext].status = "REVERSED"
    BY <1>5 DEF AlreadyRefunded, tables, GateInv, TypeInv, SessionsOK
  <2>2. Effect(r) = <<"REFUND", r.ext>>
    BY <2>1 DEF Effect, Reversals
  <2>3. hist[Effect(r)] = 1
    BY <1>1, <2>1, <2>2 DEF SettledXorRefunded
  <2> QED
    BY <2>1, <2>3 DEF ToldIsPosted
<1>6. ASSUME NEW s \in Sessions, RefundCommit(s) PROVE ToldIsPosted'
  <2>1. CASE req[s] = None
    BY <1>2, <1>6, <2>1 DEF RefundCommit, ToldIsPosted
  <2>2. CASE req[s] # None
    <3>1. /\ req[s] \in Requests /\ req[s].op = "RVWD" /\ req[s].ext \in done[s]
          /\ told' = told \cup {req[s]}
      BY <1>6, <2>2 DEF RefundCommit, RefundCalls
    <3>2. Effect(req[s]) = <<"REFUND", req[s].ext>>
      BY <3>1 DEF Effect, Reversals
    <3>3. /\ <<"REFUND", req[s].ext>> \in Effects
          /\ hist[<<"REFUND", req[s].ext>>] \in Nat
          /\ hist'[<<"REFUND", req[s].ext>>] = hist[<<"REFUND", req[s].ext>>] + 1
      BY <1>1, <1>6, <3>1, <3>2 DEF RefundCommit, GateInv, TypeInv, TypeOK, TablesType
    <3>4. hist'[Effect(req[s])] >= 1
      BY <3>2, <3>3
    <3> QED
      BY <1>2, <3>1, <3>4 DEF ToldIsPosted
  <2> QED
    BY <2>1, <2>2
<1>7. CASE told' = told
  BY <1>2, <1>7 DEF ToldIsPosted
<1> QED
  BY <1>3, <1>4, <1>5, <1>6, <1>7, ZenonT(30)
     DEF Next, Step, Call, Claim, WithdrawLookup, WithdrawInsert, LoadOriginal, Read, LockRow,
         LockTrack, Sweep, Skip, Refund, Reject, Abort, Settle, AddRestraint, ReleaseRestraint,
         UpdateStatus, vars

\* If the keys of reversals tell references apart, a call answered with
\* success - posted, DUPLICATE, already reversed, already refunded - has its
\* own effect in the ledger.
THEOREM NothingToldUnposted ==
  ASSUME StemsDiffer
  PROVE  Spec => []ToldIsPosted
<1>1. Init => ToldInv
  <2> SUFFICES ASSUME Init PROVE ToldInv
    OBVIOUS
  <2>1. RefundInv
    BY RefundInvInductive
  <2>2. KeysPosted
    BY DEF Init, KeysPosted, MsgKeys
  <2>3. RefundCalls /\ ToldIsPosted
    BY DEF Init, RefundCalls, ToldIsPosted
  <2> QED
    BY <2>1, <2>2, <2>3 DEF ToldInv
<1>2. ToldInv /\ [Next]_vars => ToldInv'
  BY RefundInvInductive, KeysPostedStep, RefundCallsStep, ToldStep DEF ToldInv, RefundInv
<1>3. ToldInv => ToldIsPosted
  BY DEF ToldInv
<1> QED
  BY <1>1, <1>2, <1>3, PTL DEF Spec

-----------------------------------------------------------------------------
(***************************************************************************)
(* What restraints reserve is never spent.                                 *)
(***************************************************************************)

\* TOTAL_RESTRAINED_AMT is the sum of the restraints in force, and ACTUAL_BAL
\* covers it.
Summed == \A a \in Accounts : acct[a].restr = Pledged[HoldsOn(a, active)]
Covered == \A a \in Accounts : acct[a].restr <= acct[a].bal

\* A call that is not a reversal posts its own request.
OwnRequest ==
  \A s \in Sessions : pc[s] \in {"start", "insert", "read", "rows"} /\ req[s].op \notin Reversals
                        => orig[s] = req[s]

OnlyReversalsLoad == \A s \in Sessions : pc[s] = "load" => req[s].op \in Reversals

\* The wallets a compare-and-swap call has locked have the funds it takes:
\* the guard held when the UPDATE took the row, and nobody else writes it.
Guarded ==
  \A s \in Sessions : \A a \in Accounts : rowOwner[a] = s =>
    /\ pc[s] \in {"rows", "refund"}
    /\ pc[s] = "rows" /\ req[s].op \in CasOps => FundGuard(orig[s], a, acct)

\* Refunds only give.
RefundsGive == \A s \in Sessions : \A a \in Accounts : pend[s].bal[a] >= 0

CallsInv == OwnRequest /\ OnlyReversalsLoad /\ Guarded /\ RefundsGive

FundsInv == GateInv /\ Summed /\ Covered /\ CallsInv

LEMMA FundsInit == Init => FundsInv
<1> SUFFICES ASSUME Init PROVE FundsInv
  OBVIOUS
<1>1. GateInv
  BY InitType DEF Init, GateInv, Gate, Loaded, AtRows
<1>2. Summed /\ Covered
  <2>1. \A a \in Accounts : HoldsOn(a, active) = {}
    BY DEF Init, HoldsOn
  <2>2. \A a \in Accounts : acct[a].restr = 0 /\ acct[a].bal = Opening[a] /\ Opening[a] \in Nat
    BY OpeningAssumption DEF Init, WalletRow
  <2>3. Pledged[{}] = 0
    BY HoldsAssumption
  <2>4. Summed
    BY <2>1, <2>2, <2>3 DEF Summed
  <2>5. Covered
    <3> SUFFICES ASSUME NEW a \in Accounts PROVE acct[a].restr <= acct[a].bal
      BY DEF Covered
    <3>1. Opening[a] \in Nat /\ acct[a].restr = 0 /\ acct[a].bal = Opening[a]
      BY <2>2
    <3> QED
      BY <3>1
  <2> QED
    BY <2>4, <2>5
<1>3. CallsInv
  BY SessionsAssumption DEF Init, CallsInv, OwnRequest, OnlyReversalsLoad, Guarded, RefundsGive, NoLegs
<1> QED
  BY <1>1, <1>2, <1>3 DEF FundsInv

-----------------------------------------------------------------------------
(* The rows.                                                                *)

\* A wallet row a session owns is written by that session only.
LEMMA OwnedRowsStay ==
  ASSUME GateInv, [Next]_vars, NEW t \in Sessions, NEW a \in Accounts, rowOwner[a] = t,
         ~Commit(t), ~RefundCommit(t)
  PROVE  acct'[a] = acct[a]
<1>1. ASSUME NEW s \in Sessions, Commit(s) \/ RefundCommit(s) PROVE acct'[a] = acct[a]
  <2>1. s # t /\ a \notin Owned(s)
    BY <1>1 DEF Owned
  <2> QED
    BY <1>1, <2>1 DEF Commit, RefundCommit, Posted
<1>2. ASSUME NEW h \in Holds, AddRestraint(h) \/ ReleaseRestraint(h) PROVE acct'[a] = acct[a]
  <2>1. h.acct # a
    BY <1>2, SessionsAssumption DEF AddRestraint, ReleaseRestraint
  <2> QED
    BY <1>2, <2>1 DEF AddRestraint, ReleaseRestraint, GateInv, TypeInv, TypeOK, TablesType
<1>3. ASSUME NEW b \in Accounts, NEW new \in Statuses, UpdateStatus(b, new)
      PROVE  acct'[a] = acct[a]
  BY <1>3, SessionsAssumption DEF UpdateStatus, GateInv, TypeInv, TypeOK, TablesType
<1> QED
  BY <1>1, <1>2, <1>3, ZenonT(60)
     DEF Next, Step, Call, Skip, Sweep, Claim, Duplicate, WithdrawLookup, WithdrawInsert,
         LoadOriginal, Read, LockRow, LockTrack, AlreadyRefunded, Refund, Reject, Abort, Settle,
         vars, tables

\* The legs of a call that commits leave what is restrained on every wallet.
LEMMA DebitsCovered ==
  ASSUME FundsInv, NEW s \in Sessions, Commit(s), NEW a \in Accounts
  PROVE  acct[a].restr <= acct[a].bal + Legs(req[s].op, orig[s]).bal[a]
<1> DEFINE o == orig[s]
           row == acct[a]
<1>1. /\ o \in Requests /\ req[s] \in Requests /\ pc[s] = "rows"
      /\ req[s].op \in ClaimOps \cup {"WITHDRAW"}
  BY DEF FundsInv, GateInv, Gate, AtRows, TypeInv, SessionsOK, Commit
<1>2. /\ o.a \in Accounts /\ o.b \in Accounts /\ o.amt \in Nat /\ o.fee \in Nat
      /\ row.restr \in Nat /\ row.bal \in Int /\ row.restr <= row.bal
  BY <1>1, RequestsAssumption
     DEF FundsInv, Covered, GateInv, TypeInv, TypeOK, TablesType, Rows
<1>3. rowOwner[o.a] = s
  BY <1>2 DEF Commit, Unlocked, Wallets, Owned
<1>4. req[s].op \notin Reversals => o = req[s]
  BY <1>1 DEF FundsInv, CallsInv, OwnRequest
<1>5. req[s].op \in CasOps => FundGuard(o, o.a, acct)
  BY <1>1, <1>2, <1>3 DEF FundsInv, CallsInv, Guarded
<1>6. req[s].op \notin CasOps => Allowed(req[s].op, o, acct, active)
  BY DEF Commit, Passes
<1>7. CASE req[s].op = "TOPUP"
  BY <1>2, <1>7 DEF Legs, TopupLegs, On
<1>8. CASE req[s].op = "TRANSFER"
  BY <1>2, <1>4, <1>5, <1>8
     DEF Legs, TransferLegs, OnBoth, CasOps, Reversals, FundGuard, Available
<1>9. CASE req[s].op = "WITHDRAW"
  BY <1>2, <1>4, <1>5, <1>9 DEF Legs, WithdrawLegs, On, CasOps, Reversals, FundGuard, Available
<1>10. CASE req[s].op = "FEE"
  BY <1>2, <1>6, <1>10 DEF Legs, FeeChargeLegs, On, CasOps, Allowed, FeeChargeAllowed, Available
<1>11. CASE req[s].op = "RVTPUP"
  BY <1>2, <1>6, <1>11
     DEF Legs, TopupReversalLegs, On, CasOps, Allowed, TopupReversalAllowed, Available
<1>12. CASE req[s].op = "RVTRF"
  BY <1>2, <1>6, <1>12
     DEF Legs, TransferReversalLegs, OnBoth, CasOps, Allowed, TransferReversalAllowed, Available
<1>13. CASE req[s].op = "RVFC"
  BY <1>2, <1>13 DEF Legs, FeeChargeReversalLegs, On
<1> QED
  BY <1>1, <1>7, <1>8, <1>9, <1>10, <1>11, <1>12, <1>13 DEF ClaimOps

\* Installing legs the wallets can bear.
LEMMA PostedCovered ==
  ASSUME FundsInv, NEW s \in Sessions, NEW l \in LegSet,
         acct' = Posted(s, l), active' = active,
         \A a \in Accounts : acct[a].restr <= acct[a].bal + l.bal[a]
  PROVE  Summed' /\ Covered'
<1>1. ASSUME NEW a \in Accounts
      PROVE  /\ acct'[a].restr = acct[a].restr
             /\ acct'[a].bal \in {acct[a].bal, acct[a].bal + l.bal[a]}
  BY DEF Posted, WalletRow
<1>2. Summed'
  BY <1>1 DEF FundsInv, Summed
<1>3. Covered'
  BY <1>1 DEF FundsInv, Covered
<1> QED
  BY <1>2, <1>3

LEMMA RowsStep ==
  ASSUME FundsInv, [Next]_vars
  PROVE  Summed' /\ Covered'
<1>1. ASSUME NEW s \in Sessions, Commit(s) PROVE Summed' /\ Covered'
  <2>1. Legs(req[s].op, orig[s]) \in LegSet
    BY <1>1, LegsType, RequestsAssumption DEF FundsInv, GateInv, TypeInv, SessionsOK, Commit
  <2> QED
    BY <1>1, <2>1, DebitsCovered, PostedCovered DEF Commit
<1>2. ASSUME NEW s \in Sessions, RefundCommit(s) PROVE Summed' /\ Covered'
  <2>1. pend[s] \in LegSet
    BY DEF FundsInv, GateInv, TypeInv, TypeOK, CallsType
  <2>2. \A a \in Accounts : /\ acct[a].restr \in Nat /\ acct[a].bal \in Int /\ pend[s].bal[a] \in Int
                            /\ acct[a].restr <= acct[a].bal /\ pend[s].bal[a] >= 0
    BY <2>1 DEF FundsInv, CallsInv, RefundsGive, Covered, GateInv, TypeInv, TypeOK, TablesType,
                Rows, LegSet
  <2>3. \A a \in Accounts : acct[a].restr <= acct[a].bal + pend[s].bal[a]
    BY <2>2
  <2> QED
    BY <1>2, <2>1, <2>3, PostedCovered DEF RefundCommit
<1>3. ASSUME NEW h \in Holds, AddRestraint(h) PROVE Summed' /\ Covered'
  <2> DEFINE reserved == IF h.debit THEN h.pledge ELSE 0
  <2>1. /\ h \notin active /\ active' = active \cup {h} /\ active \subseteq Holds
        /\ h.acct \in Accounts
    BY <1>3, HoldsAssumption DEF AddRestraint, FundsInv, GateInv, TypeInv, TypeOK, TablesType
  <2>2. /\ HoldsOn(h.acct, active') = HoldsOn(h.acct, active) \cup {h}
        /\ HoldsOn(h.acct, active) \in SUBSET Holds /\ h \in Holds \ HoldsOn(h.acct, active)
        /\ \A a \in Accounts : a # h.acct => HoldsOn(a, active') = HoldsOn(a, active)
    BY <2>1 DEF HoldsOn
  <2>3. Pledged[HoldsOn(h.acct, active')] = Pledged[HoldsOn(h.acct, active)] + reserved
    BY <2>2, HoldsAssumption
  <2>4. /\ acct'[h.acct].restr = acct[h.acct].restr + reserved
        /\ acct'[h.acct].bal = acct[h.acct].bal
        /\ acct[h.acct].restr + reserved <= acct[h.acct].bal
        /\ \A a \in Accounts : a # h.acct => acct'[a] = acct[a]
    BY <1>3, <2>1 DEF AddRestraint, WalletRow, FundsInv, GateInv, TypeInv, TypeOK, TablesType
  <2>5. Summed'
    BY <2>1, <2>2, <2>3, <2>4 DEF FundsInv, Summed
  <2>6. Covered'
    BY <2>1, <2>4 DEF FundsInv, Covered
  <2> QED
    BY <2>5, <2>6
<1>4. ASSUME NEW h \in Holds, ReleaseRestraint(h) PROVE Summed' /\ Covered'
  <2> DEFINE rest == HoldsOn(h.acct, active \ {h})
  <2>1. /\ h \in active /\ active' = active \ {h} /\ active \subseteq Holds
        /\ h.acct \in Accounts /\ h.pledge \in Nat
    BY <1>4, HoldsAssumption DEF ReleaseRestraint, FundsInv, GateInv, TypeInv, TypeOK, TablesType
  <2>2. /\ HoldsOn(h.acct, active) = rest \cup {h}
        /\ HoldsOn(h.acct, active') = rest
        /\ rest \in SUBSET Holds /\ h \in Holds \ rest
        /\ \A a \in Accounts : a # h.acct => HoldsOn(a, active') = HoldsOn(a, active)
    BY <2>1 DEF HoldsOn
  <2>3. Pledged[HoldsOn(h.acct, active)] = Pledged[rest] + (IF h.debit THEN h.pledge ELSE 0)
    BY <2>2, HoldsAssumption
  <2>4. Pledged[rest] \in Nat
    BY <2>2, HoldsAssumption
  <2>5. Pledged[rest] <= acct[h.acct].restr
    BY <2>1, <2>3, <2>4 DEF FundsInv, Summed
  <2>6. /\ acct'[h.acct].restr = Pledged[rest]
        /\ acct'[h.acct].bal = acct[h.acct].bal
        /\ \A a \in Accounts : a # h.acct => acct'[a] = acct[a]
    BY <1>4, <2>1 DEF ReleaseRestraint, WalletRow, FundsInv, GateInv, TypeInv, TypeOK, TablesType
  <2>7. Summed'
    BY <2>1, <2>2, <2>6 DEF FundsInv, Summed
  <2>8. Covered'
    <3>1. acct[h.acct].restr <= acct[h.acct].bal /\ acct[h.acct].restr \in Nat /\ acct[h.acct].bal \in Int
      BY <2>1 DEF FundsInv, Covered, GateInv, TypeInv, TypeOK, TablesType, Rows
    <3>2. Pledged[rest] <= acct[h.acct].bal
      BY <2>4, <2>5, <3>1
    <3> QED
      BY <2>1, <2>6, <3>2 DEF FundsInv, Covered
  <2> QED
    BY <2>7, <2>8
<1>5. ASSUME NEW b \in Accounts, NEW new \in Statuses, UpdateStatus(b, new)
      PROVE  Summed' /\ Covered'
  <2>1. \A a \in Accounts : acct'[a].restr = acct[a].restr /\ acct'[a].bal = acct[a].bal
    BY <1>5 DEF UpdateStatus, WalletRow, FundsInv, GateInv, TypeInv, TypeOK, TablesType
  <2>2. active' = active
    BY <1>5 DEF UpdateStatus
  <2> QED
    BY <2>1, <2>2 DEF FundsInv, Summed, Covered
<1>6. CASE UNCHANGED <<acct, active>>
  BY <1>6 DEF FundsInv, Summed, Covered
<1> QED
  BY <1>1, <1>2, <1>3, <1>4, <1>5, <1>6, ZenonT(60)
     DEF Next, Step, Call, Skip, Sweep, Claim, Duplicate, WithdrawLookup, WithdrawInsert,
         LoadOriginal, Read, LockRow, LockTrack, AlreadyRefunded, Refund, Reject, Abort, Settle,
         vars, tables
-----------------------------------------------------------------------------
(* The sessions.                                                            *)

\* A session that ends its transaction takes its locks and its legs with it.
LEMMA EndKeepsCalls ==
  ASSUME FundsInv, [Next]_vars, NEW s \in Sessions, End(s)
  PROVE  CallsInv'
<1>1. ASSUME NEW t \in Sessions, t # s
      PROVE  /\ pc'[t] = pc[t] /\ req'[t] = req[t] /\ orig'[t] = orig[t] /\ pend'[t] = pend[t]
             /\ \A a \in Accounts : rowOwner'[a] = t => rowOwner[a] = t
  BY <1>1, SessionsAssumption
     DEF FundsInv, GateInv, TypeInv, TypeOK, LocksType, CallsType, End, Go, Freed
<1>2. /\ pc'[s] = "idle" /\ pend'[s] = NoLegs
      /\ \A a \in Accounts : rowOwner'[a] # s
  BY SessionsAssumption DEF FundsInv, GateInv, TypeInv, TypeOK, LocksType, CallsType, End, Go, Freed
<1>3. ASSUME NEW t \in Sessions, t # s, pc[t] = "rows" PROVE ~Commit(t) /\ ~RefundCommit(t)
  <2>1. pc'[t] # "idle"
    BY <1>1, <1>3
  <2> QED
    BY <2>1 DEF Commit, RefundCommit, End, Go, FundsInv, GateInv, TypeInv, TypeOK, CallsType
<1>4. OwnRequest' /\ OnlyReversalsLoad'
  BY <1>1, <1>2 DEF FundsInv, CallsInv, OwnRequest, OnlyReversalsLoad
<1>5. RefundsGive'
  BY <1>1, <1>2 DEF FundsInv, CallsInv, RefundsGive, NoLegs
<1>6. Guarded'
  <2> SUFFICES ASSUME NEW t \in Sessions, NEW a \in Accounts, rowOwner'[a] = t
               PROVE  /\ pc'[t] \in {"rows", "refund"}
                      /\ pc'[t] = "rows" /\ req'[t].op \in CasOps =>
                           FundGuard(orig'[t], a, acct')
    BY DEF Guarded
  <2>1. /\ t # s /\ rowOwner[a] = t
        /\ pc'[t] = pc[t] /\ orig'[t] = orig[t] /\ req'[t] = req[t]
    BY <1>1, <1>2
  <2>2. pc[t] = "rows" => acct'[a] = acct[a]
    BY <1>3, <2>1, OwnedRowsStay DEF FundsInv
  <2> QED
    BY <2>1, <2>2 DEF FundsInv, CallsInv, Guarded, FundGuard, Available
<1> QED
  BY <1>4, <1>5, <1>6 DEF CallsInv

LEMMA CallsStep ==
  ASSUME FundsInv, [Next]_vars
  PROVE  CallsInv'
<1> USE DEF FundsInv, CallsInv
<1>1. ASSUME NEW s \in Sessions, NEW r \in Requests, Call(s, r) PROVE CallsInv'
  BY <1>1 DEF OwnRequest, OnlyReversalsLoad, Guarded, RefundsGive, Call, Go, tables, locks, GateInv, TypeInv, TypeOK,
              CallsType
<1>2. ASSUME NEW s \in Sessions, Claim(s) PROVE CallsInv'
  <2>1. /\ pc[s] = "start" /\ pc' = [pc EXCEPT ![s] = AfterClaim(req[s].op)]
        /\ UNCHANGED <<acct, rowOwner, req, orig, pend>>
    BY <1>2 DEF Claim, Go, tables
  <2>2. /\ AfterClaim(req[s].op) = "load" <=> req[s].op \in Reversals
        /\ AfterClaim(req[s].op) # "start"
    BY DEF AfterClaim
  <2>3. OwnRequest' /\ OnlyReversalsLoad'
    BY <2>1, <2>2 DEF OwnRequest, OnlyReversalsLoad, GateInv, TypeInv, TypeOK, CallsType
  <2>4. Guarded' /\ RefundsGive'
    BY <2>1 DEF Guarded, RefundsGive, GateInv, TypeInv, TypeOK, CallsType
  <2> QED
    BY <2>3, <2>4
<1>3. ASSUME NEW s \in Sessions, WithdrawLookup(s) \/ WithdrawInsert(s) \/ Read(s)
      PROVE  CallsInv'
  <2>1. /\ UNCHANGED <<acct, rowOwner, req, orig, pend>>
        /\ pc[s] \in {"start", "insert", "read"}
        /\ \E label \in {"insert", "read", "rows"} : pc' = [pc EXCEPT ![s] = label]
    BY <1>3 DEF WithdrawLookup, WithdrawInsert, Read, Go, tables, locks
  <2> QED
    BY <2>1 DEF OwnRequest, OnlyReversalsLoad, Guarded, RefundsGive, GateInv, TypeInv, TypeOK, CallsType
<1>4. ASSUME NEW s \in Sessions, LoadOriginal(s) PROVE CallsInv'
  <2>1. /\ UNCHANGED <<acct, rowOwner, req, pend>>
        /\ pc[s] = "load" /\ req[s].op \in Reversals
        /\ pc' = [pc EXCEPT ![s] = "rows"]
        /\ orig' = [orig EXCEPT ![s] = msg[OriginalKey(req[s])]]
    BY <1>4 DEF LoadOriginal, Go, tables, OnlyReversalsLoad
  <2> QED
    BY <2>1 DEF OwnRequest, OnlyReversalsLoad, Guarded, RefundsGive, GateInv, TypeInv, TypeOK, CallsType
<1>5. ASSUME NEW s \in Sessions, LockRow(s) PROVE CallsInv'
  <2>1. NextRow(s) \in Accounts
    BY <1>5, RowTaken DEF GateInv, TypeInv, LockRow
  <2>2. /\ UNCHANGED <<acct, pc, req, orig, pend>> /\ pc[s] = "rows"
        /\ rowOwner' = [rowOwner EXCEPT ![NextRow(s)] = s]
        /\ req[s].op \in CasOps => FundGuard(orig[s], NextRow(s), acct)
    BY <1>5 DEF LockRow, SwapHolds, tables, sessions
  <2> QED
    BY <2>1, <2>2 DEF OwnRequest, OnlyReversalsLoad, Guarded, RefundsGive, GateInv, TypeInv, TypeOK, LocksType
<1>6. ASSUME NEW s \in Sessions, LockTrack(s) \/ Sweep(s) PROVE CallsInv'
  <2>1. /\ UNCHANGED <<acct, rowOwner, req, orig, pend>>
        /\ pc' = [pc EXCEPT ![s] = "refund"]
    BY <1>6 DEF LockTrack, Sweep, Go, tables
  <2> QED
    BY <2>1 DEF OwnRequest, OnlyReversalsLoad, Guarded, RefundsGive, GateInv, TypeInv, TypeOK, CallsType
<1>7. ASSUME NEW s \in Sessions, NEW e \in Exts, Skip(s, e) PROVE CallsInv'
  BY <1>7 DEF OwnRequest, OnlyReversalsLoad, Guarded, RefundsGive, Skip, tables, locks
<1>8. ASSUME NEW s \in Sessions, NEW e \in Exts, Refund(s, e) PROVE CallsInv'
  <2> DEFINE o == track[e].by
  <2>1. e \in work[s] /\ Open(e)
    BY <1>8 DEF Refund, IsNext, GateInv, TypeInv, SessionsOK
  <2>2. o \in Requests
    BY <2>1 DEF GateInv, TypeInv, TypeOK, TablesType, Payouts, Open
  <2>3. /\ o.a \in Accounts /\ o.amt \in Nat /\ o.fee \in Nat
    BY <2>2, RequestsAssumption
  <2>4. /\ UNCHANGED <<acct, pc, req, orig>> /\ pc[s] = "refund"
        /\ rowOwner' = [rowOwner EXCEPT ![o.a] = s]
        /\ pend' = [pend EXCEPT ![s] = Plus(pend[s], Legs("RVWD", o))]
    BY <1>8 DEF Refund, tables
  <2>5. \A a \in Accounts : Plus(pend[s], Legs("RVWD", o)).bal[a] >= 0
    <3> SUFFICES ASSUME NEW a \in Accounts PROVE Plus(pend[s], Legs("RVWD", o)).bal[a] >= 0
      OBVIOUS
    <3>1. pend[s].bal[a] \in Int /\ pend[s].bal[a] >= 0
      BY DEF RefundsGive, GateInv, TypeInv, TypeOK, CallsType, LegSet
    <3>2. Legs("RVWD", o).bal[a] \in Nat
      BY <2>3 DEF Legs, WithdrawReversalLegs, On
    <3>3. Plus(pend[s], Legs("RVWD", o)).bal[a] = pend[s].bal[a] + Legs("RVWD", o).bal[a]
      BY DEF Plus
    <3> QED
      BY <3>1, <3>2, <3>3
  <2>6. RefundsGive'
    BY <2>4, <2>5 DEF RefundsGive, GateInv, TypeInv, TypeOK, CallsType
  <2>7. Guarded' /\ OwnRequest' /\ OnlyReversalsLoad'
    BY <2>3, <2>4 DEF OwnRequest, OnlyReversalsLoad, Guarded, GateInv, TypeInv, TypeOK, LocksType
  <2> QED
    BY <2>6, <2>7
<1>9. ASSUME NEW s \in Sessions,
             Commit(s) \/ RefundCommit(s) \/ Duplicate(s) \/ AlreadyRefunded(s) \/ Reject(s) \/ Abort(s)
      PROVE  CallsInv'
  BY <1>9, EndKeepsCalls DEF Commit, RefundCommit, Duplicate, AlreadyRefunded, Reject, Abort
\* Nobody commits: a row that is owned stays as it is.
<1>10. ASSUME UNCHANGED <<rowOwner, pc, req, orig, pend>>,
              \A t \in Sessions : ~Commit(t) /\ ~RefundCommit(t)
       PROVE  CallsInv'
  <2>1. \A t \in Sessions, a \in Accounts : rowOwner[a] = t => acct'[a] = acct[a]
    BY <1>10, OwnedRowsStay
  <2> QED
    BY <1>10, <2>1 DEF OwnRequest, OnlyReversalsLoad, Guarded, RefundsGive, FundGuard, Available
<1>11. CASE UNCHANGED sessions /\ UNCHANGED rowOwner
  <2>1. \A t \in Sessions : ~Commit(t) /\ ~RefundCommit(t)
    BY <1>11 DEF Commit, RefundCommit, End, Go, sessions, GateInv, TypeInv, TypeOK, CallsType
  <2> QED
    BY <1>10, <1>11, <2>1 DEF sessions
<1> QED
  BY <1>1, <1>2, <1>3, <1>4, <1>5, <1>6, <1>7, <1>8, <1>9, <1>11
     DEF Next, Step, Settle, AddRestraint, ReleaseRestraint, UpdateStatus, locks, vars

LEMMA FundsStep == FundsInv /\ [Next]_vars => FundsInv'
  BY NextKeepsType, GateStep, RowsStep, CallsStep DEF FundsInv, GateInv

\* What restraints reserve is never spent, by any interleaving of postings,
\* reversals, sweeps and restraints: the rows of WLT_ACCT always cover their
\* restrained amount, which is the sum of the restraints in force.
THEOREM HeldFundsStay == Spec => []HeldFundsSafe
<1>1. FundsInv => HeldFundsSafe
  BY DEF FundsInv, Summed, Covered, HeldFundsSafe
<1> QED
  BY <1>1, FundsInit, FundsStep, PTL DEF Spec
-----------------------------------------------------------------------------
(* Validation outlives the unlocked read.                                   *)

\* What the validation of a compare-and-swap call demands of one wallet,
\* besides the funds.
Clear(op, o, a) ==
  /\ acct[a].status = "A"
  /\ op = "TOPUP" => ~acct[a].crBlk
  /\ op \in {"TRANSFER", "WITHDRAW"} /\ a = o.a => ~DebitHeld(a, active)
  /\ op = "TRANSFER" /\ a = o.b => ~acct[a].crBlk

\* As long as the VERSION is the one that was read, what was checked holds; a
\* wallet that is locked still has that VERSION.
Fresh ==
  \A s \in Sessions : pc[s] = "rows" /\ req[s].op \in CasOps =>
    \A a \in Wallets(req[s]) :
      /\ snap[s][a] <= acct[a].ver
      /\ acct[a].ver = snap[s][a] => Clear(req[s].op, req[s], a)
      /\ rowOwner[a] = s => acct[a].ver = snap[s][a]

\* The legs of a batch under way are those of the payouts it has done.
RefundsNamed ==
  \A s \in Sessions : \A a \in Accounts :
    pend[s].bal[a] # 0 => \E e \in done[s] : track[e].by.a = a

FreshInv == FundsInv /\ Fresh /\ RefundsNamed

LEMMA FreshInit == Init => FreshInv
<1> SUFFICES ASSUME Init PROVE FreshInv
  OBVIOUS
<1>1. FundsInv
  BY FundsInit
<1>2. Fresh /\ RefundsNamed
  BY DEF Init, Fresh, RefundsNamed, NoLegs
<1> QED
  BY <1>1, <1>2 DEF FreshInv

\* Whoever changes a wallet, or the restraints on it, raises its VERSION.
LEMMA WritesRaiseVersion ==
  ASSUME GateInv, [Next]_vars, NEW a \in Accounts
  PROVE  \/ acct'[a] = acct[a] /\ (DebitHeld(a, active') <=> DebitHeld(a, active))
         \/ acct'[a].ver = acct[a].ver + 1
<1>1. ASSUME NEW s \in Sessions, Commit(s) \/ RefundCommit(s)
      PROVE  acct'[a] = acct[a] \/ acct'[a].ver = acct[a].ver + 1
  BY <1>1 DEF Commit, RefundCommit, Posted, WalletRow
<1>2. ASSUME NEW s \in Sessions, Commit(s) \/ RefundCommit(s) PROVE active' = active
  BY <1>2 DEF Commit, RefundCommit
<1>3. ASSUME NEW h \in Holds, AddRestraint(h) \/ ReleaseRestraint(h), h.acct = a
      PROVE  acct'[a].ver = acct[a].ver + 1
  BY <1>3 DEF AddRestraint, ReleaseRestraint, WalletRow, GateInv, TypeInv, TypeOK, TablesType
<1>4. ASSUME NEW h \in Holds, AddRestraint(h) \/ ReleaseRestraint(h), h.acct # a
      PROVE  acct'[a] = acct[a] /\ (DebitHeld(a, active') <=> DebitHeld(a, active))
  BY <1>4 DEF AddRestraint, ReleaseRestraint, DebitHeld, GateInv, TypeInv, TypeOK, TablesType
<1>5. ASSUME NEW b \in Accounts, NEW new \in Statuses, UpdateStatus(b, new)
      PROVE  active' = active /\ (acct'[a] = acct[a] \/ acct'[a].ver = acct[a].ver + 1)
  BY <1>5 DEF UpdateStatus, WalletRow, GateInv, TypeInv, TypeOK, TablesType
<1>6. CASE UNCHANGED <<acct, active>>
  BY <1>6
<1> QED
  BY <1>1, <1>2, <1>3, <1>4, <1>5, <1>6, ZenonT(100)
     DEF Next, Step, Call, Skip, Sweep, Claim, Duplicate, WithdrawLookup, WithdrawInsert,
         LoadOriginal, Read, LockRow, LockTrack, AlreadyRefunded, Refund, Reject, Abort, Settle,
         vars, tables

\* What a session read stays so while the VERSION does.
LEMMA StaysFresh ==
  ASSUME FreshInv, [Next]_vars, NEW s \in Sessions, pc[s] = "rows", req[s].op \in CasOps,
         req'[s] = req[s], NEW a \in Wallets(req[s])
  PROVE  /\ snap[s][a] <= acct'[a].ver
         /\ acct'[a].ver = snap[s][a] => Clear(req[s].op, req[s], a)'
<1>1. req[s] \in Requests /\ req[s].a \in Accounts /\ req[s].b \in Accounts
  BY RequestsAssumption DEF FreshInv, FundsInv, GateInv, TypeInv, SessionsOK
<1>2. a \in Accounts
  BY <1>1 DEF Wallets
<1>3. snap[s][a] \in Nat /\ acct[a].ver \in Nat
  BY <1>2 DEF FreshInv, FundsInv, GateInv, TypeInv, TypeOK, TablesType, CallsType, Rows
<1>4. snap[s][a] <= acct[a].ver /\ (acct[a].ver = snap[s][a] => Clear(req[s].op, req[s], a))
  BY DEF FreshInv, Fresh
<1>5. CASE acct'[a].ver = acct[a].ver + 1
  BY <1>3, <1>4, <1>5
<1>6. CASE acct'[a] = acct[a] /\ (DebitHeld(a, active') <=> DebitHeld(a, active))
  BY <1>4, <1>6 DEF Clear
<1> QED
  BY <1>2, <1>5, <1>6, WritesRaiseVersion DEF FreshInv, FundsInv

\* A session at its rows either was there before, with the same request and
\* the same snapshot, or has just read them, or does not compare VERSIONs.
LEMMA AtTheRows ==
  ASSUME FundsInv, [Next]_vars, NEW t \in Sessions, pc'[t] = "rows", req'[t].op \in CasOps
  PROVE  \/ /\ pc[t] = "rows" /\ req'[t] = req[t] /\ snap'[t] = snap[t]
            /\ ~Commit(t) /\ ~RefundCommit(t)
         \/ Read(t)
<1>1. \A s \in Sessions : Commit(s) \/ RefundCommit(s) => pc'[s] = "idle" /\ End(s)
  BY DEF Commit, RefundCommit, End, Go, FundsInv, GateInv, TypeInv, TypeOK, CallsType
<1>2. ~Commit(t) /\ ~RefundCommit(t)
  BY <1>1
<1>3. ASSUME NEW s \in Sessions, End(s)
      PROVE  pc[t] = "rows" /\ req'[t] = req[t] /\ snap'[t] = snap[t]
  BY <1>3 DEF End, Go, FundsInv, GateInv, TypeInv, TypeOK, CallsType
<1>4. ASSUME NEW s \in Sessions, NEW r \in Requests, Call(s, r)
      PROVE  pc[t] = "rows" /\ req'[t] = req[t] /\ snap'[t] = snap[t]
  BY <1>4 DEF Call, Go, FundsInv, GateInv, TypeInv, TypeOK, CallsType
<1>5. ASSUME NEW s \in Sessions, Claim(s)
      PROVE  pc[t] = "rows" /\ req'[t] = req[t] /\ snap'[t] = snap[t]
  BY <1>5 DEF Claim, Go, AfterClaim, FundsInv, GateInv, TypeInv, TypeOK, CallsType, CasOps
<1>6. ASSUME NEW s \in Sessions, LoadOriginal(s)
      PROVE  pc[t] = "rows" /\ req'[t] = req[t] /\ snap'[t] = snap[t]
  <2>1. s # t
    BY <1>6 DEF LoadOriginal, FundsInv, CallsInv, OnlyReversalsLoad, Reversals, CasOps
  <2> QED
    BY <1>6, <2>1 DEF LoadOriginal, Go, FundsInv, GateInv, TypeInv, TypeOK, CallsType
<1>7. ASSUME NEW s \in Sessions, Read(s), s # t
      PROVE  pc[t] = "rows" /\ req'[t] = req[t] /\ snap'[t] = snap[t]
  BY <1>7 DEF Read, Go, FundsInv, GateInv, TypeInv, TypeOK, CallsType
<1>8. ASSUME NEW s \in Sessions,
             WithdrawLookup(s) \/ WithdrawInsert(s) \/ LockTrack(s) \/ Sweep(s)
      PROVE  pc[t] = "rows" /\ req'[t] = req[t] /\ snap'[t] = snap[t]
  BY <1>8 DEF WithdrawLookup, WithdrawInsert, LockTrack, Sweep, Go, FundsInv, GateInv, TypeInv, TypeOK, CallsType
<1>9. ASSUME UNCHANGED <<pc, req, snap>>
      PROVE  pc[t] = "rows" /\ req'[t] = req[t] /\ snap'[t] = snap[t]
  BY <1>9
<1> QED
  BY <1>2, <1>3, <1>4, <1>5, <1>6, <1>7, <1>8, <1>9, ZenonT(60)
     DEF Next, Step, Duplicate, Commit, RefundCommit, AlreadyRefunded, Reject, Abort, LockRow,
         Refund, Skip, Settle, AddRestraint, ReleaseRestraint, UpdateStatus, sessions, locks, vars

\* A session comes to own a wallet by locking the next of its rows, or by a
\* refund.
LEMMA OwnersChange ==
  ASSUME GateInv, [Next]_vars, NEW t \in Sessions, NEW a \in Accounts, pc[t] = "rows",
         rowOwner[a] # t, rowOwner'[a] = t
  PROVE  LockRow(t) /\ a = NextRow(t)
<1>1. ASSUME NEW s \in Sessions, End(s) PROVE FALSE
  BY <1>1, SessionsAssumption DEF End, Freed, GateInv, TypeInv, TypeOK, LocksType
<1>2. ASSUME NEW s \in Sessions, LockRow(s) PROVE s = t /\ a = NextRow(s)
  BY <1>2 DEF LockRow, GateInv, TypeInv, TypeOK, LocksType
<1>3. ASSUME NEW s \in Sessions, NEW e \in Exts, Refund(s, e) PROVE FALSE
  BY <1>3 DEF Refund, GateInv, TypeInv, TypeOK, LocksType
<1>4. rowOwner' # rowOwner
  OBVIOUS
<1> QED
  BY <1>1, <1>2, <1>3, <1>4, ZenonT(60)
     DEF Next, Step, Call, Claim, WithdrawLookup, WithdrawInsert, LoadOriginal, Read, Duplicate,
         Commit, RefundCommit, AlreadyRefunded, Reject, Abort, LockTrack, Sweep, Skip, Settle,
         AddRestraint, ReleaseRestraint, UpdateStatus, locks, vars

LEMMA FreshStep ==
  ASSUME FreshInv, [Next]_vars
  PROVE  Fresh'
<1> SUFFICES ASSUME NEW s \in Sessions, pc'[s] = "rows", req'[s].op \in CasOps,
                    NEW a \in Wallets(req'[s])
             PROVE  /\ snap'[s][a] <= acct'[a].ver
                    /\ acct'[a].ver = snap'[s][a] => Clear(req[s].op, req[s], a)'
                    /\ rowOwner'[a] = s => acct'[a].ver = snap'[s][a]
  BY DEF Fresh, Clear, DebitHeld
<1>1. CASE /\ pc[s] = "rows" /\ req'[s] = req[s] /\ snap'[s] = snap[s]
           /\ ~Commit(s) /\ ~RefundCommit(s)
  <2>1. req[s] \in Requests /\ req[s].a \in Accounts /\ req[s].b \in Accounts
    BY <1>1, RequestsAssumption DEF FreshInv, FundsInv, GateInv, TypeInv, SessionsOK
  <2>2. a \in Accounts /\ a \in Wallets(req[s])
    BY <1>1, <2>1 DEF Wallets
  <2>3. /\ snap[s][a] <= acct'[a].ver
        /\ acct'[a].ver = snap[s][a] => Clear(req[s].op, req[s], a)'
    BY <1>1, <2>2, StaysFresh
  <2>4. CASE rowOwner[a] = s
    <3>1. acct'[a] = acct[a]
      BY <1>1, <2>2, <2>4, OwnedRowsStay DEF FreshInv, FundsInv
    <3>2. acct[a].ver = snap[s][a]
      BY <1>1, <2>2, <2>4 DEF FreshInv, Fresh
    <3> QED
      BY <1>1, <2>3, <3>1, <3>2
  <2>5. CASE rowOwner[a] # s
    <3>1. rowOwner'[a] = s => LockRow(s) /\ a = NextRow(s)
      BY <1>1, <2>2, <2>5, OwnersChange DEF FreshInv, FundsInv
    <3>2. LockRow(s) /\ a = NextRow(s) => acct'[a].ver = snap[s][a]
      BY <1>1 DEF LockRow, SwapHolds, tables
    <3> QED
      BY <1>1, <2>3, <3>1, <3>2
  <2> QED
    BY <2>4, <2>5
<1>2. CASE Read(s)
  <2>1. /\ pc[s] = "read" /\ req' = req /\ acct' = acct /\ active' = active /\ rowOwner' = rowOwner
        /\ snap' = [snap EXCEPT ![s] = [c \in Accounts |-> IF c \in Wallets(req[s])
                                                           THEN acct[c].ver ELSE 0]]
        /\ Allowed(req[s].op, req[s], acct, active)
    BY <1>2 DEF Read, tables, locks
  <2>2. req[s] \in Requests /\ req[s].a \in Accounts /\ req[s].b \in Accounts
    BY <2>1, RequestsAssumption DEF FreshInv, FundsInv, GateInv, TypeInv, SessionsOK
  <2>3. a \in Accounts /\ a \in Wallets(req[s])
    BY <2>1, <2>2 DEF Wallets
  <2>4. snap'[s][a] = acct'[a].ver /\ acct'[a].ver \in Nat
    BY <2>1, <2>3 DEF FreshInv, FundsInv, GateInv, TypeInv, TypeOK, TablesType, CallsType, Rows
  <2>5. Clear(req[s].op, req[s], a)
    <3>1. req[s].op = "TRANSFER" <=> req[s].a # req[s].b
      BY <2>2, RequestsAssumption
    <3>2. CASE req[s].op = "TOPUP"
      BY <2>1, <2>3, <3>1, <3>2 DEF Allowed, TopupAllowed, Clear, Wallets
    <3>3. CASE req[s].op = "TRANSFER"
      BY <2>1, <2>3, <3>1, <3>3 DEF Allowed, TransferAllowed, Clear, Wallets
    <3>4. CASE req[s].op = "WITHDRAW"
      BY <2>1, <2>3, <3>1, <3>4 DEF Allowed, WithdrawAllowed, Clear, Wallets
    <3> QED
      BY <2>1, <3>2, <3>3, <3>4 DEF CasOps
  <2>6. Clear(req[s].op, req[s], a)'
    BY <2>1, <2>5 DEF Clear, DebitHeld
  <2> QED
    BY <2>4, <2>6
<1> QED
  BY <1>1, <1>2, AtTheRows DEF FreshInv

\* Who took a payout is never rewritten.
LEMMA TakersStay ==
  ASSUME GateInv, [Next]_vars, NEW e \in Exts, track[e] # None
  PROVE  track'[e].by = track[e].by
<1>1. track[e] \in Payouts
  BY DEF GateInv, TypeInv, TypeOK, TablesType
<1>2. \A st : [track[e] EXCEPT !.status = st].by = track[e].by
  BY <1>1 DEF Payouts
<1>3. ASSUME NEW s \in Sessions, Commit(s) PROVE track'[e].by = track[e].by
  BY <1>3, Committing
<1>4. ASSUME NEW s \in Sessions, RefundCommit(s) PROVE track'[e].by = track[e].by
  <2>1. track'[e] = track[e] \/ track'[e] = [track[e] EXCEPT !.status = "REVERSED"]
    BY <1>4 DEF RefundCommit
  <2> QED
    BY <1>2, <2>1
<1>5. ASSUME NEW x \in Exts, Settle(x) PROVE track'[e].by = track[e].by
  <2>1. track'[e] = track[e] \/ track'[e] = [track[e] EXCEPT !.status = "COMPLETED"]
    BY <1>5 DEF Settle, GateInv, TypeInv, TypeOK, TablesType
  <2> QED
    BY <1>2, <2>1
<1> QED
  BY <1>3, <1>4, <1>5, Writers

LEMMA NamedStep ==
  ASSUME FreshInv, [Next]_vars
  PROVE  RefundsNamed'
<1>1. \A s \in Sessions : \A e \in done[s] : e \in Exts /\ track'[e].by = track[e].by
  BY TakersStay DEF FreshInv, FundsInv, GateInv, TypeInv, TypeOK, CallsType, SessionsOK, Open
<1>2. ASSUME NEW s \in Sessions, End(s) PROVE RefundsNamed'
  <2>1. \A t \in Sessions : t # s => pend'[t] = pend[t] /\ done'[t] = done[t]
    BY <1>2 DEF End, FreshInv, FundsInv, GateInv, TypeInv, TypeOK, CallsType
  <2>2. \A a \in Accounts : pend'[s].bal[a] = 0
    BY <1>2 DEF End, NoLegs, FreshInv, FundsInv, GateInv, TypeInv, TypeOK, CallsType
  <2> QED
    BY <1>1, <2>1, <2>2 DEF FreshInv, RefundsNamed
<1>3. ASSUME NEW s \in Sessions, NEW e \in Exts, Refund(s, e) PROVE RefundsNamed'
  <2> DEFINE o == track[e].by
  <2>1. e \in work[s] /\ Open(e)
    BY <1>3 DEF Refund, IsNext, FreshInv, FundsInv, GateInv, TypeInv, SessionsOK
  <2>2. o \in Requests
    BY <2>1 DEF FreshInv, FundsInv, GateInv, TypeInv, TypeOK, TablesType, Payouts, Open
  <2>3. /\ o.a \in Accounts /\ o.amt \in Nat /\ o.fee \in Nat
    BY <2>2, RequestsAssumption
  <2>4. /\ track' = track
        /\ pend' = [pend EXCEPT ![s] = Plus(pend[s], Legs("RVWD", o))]
        /\ done' = [done EXCEPT ![s] = done[s] \cup {e}]
    BY <1>3 DEF Refund, tables
  <2>5. ASSUME NEW a \in Accounts, a # o.a
        PROVE  Plus(pend[s], Legs("RVWD", o)).bal[a] = pend[s].bal[a]
    <3>1. Legs("RVWD", o).bal[a] = 0
      BY <2>3, <2>5 DEF Legs, WithdrawReversalLegs, On
    <3>2. pend[s].bal[a] \in Int
      BY DEF FreshInv, FundsInv, GateInv, TypeInv, TypeOK, CallsType, LegSet
    <3> QED
      BY <3>1, <3>2 DEF Plus
  <2>6. /\ pend'[s] = Plus(pend[s], Legs("RVWD", o)) /\ done'[s] = done[s] \cup {e}
        /\ \A t \in Sessions : t # s => pend'[t] = pend[t] /\ done'[t] = done[t]
    BY <2>4 DEF FreshInv, FundsInv, GateInv, TypeInv, TypeOK, CallsType
  <2>7. ASSUME NEW a \in Accounts, pend'[s].bal[a] # 0
        PROVE  \E x \in done'[s] : track'[x].by.a = a
    <3>1. CASE a = o.a
      BY <2>4, <2>6, <3>1
    <3>2. CASE a # o.a
      <4>1. pend[s].bal[a] # 0
        BY <2>5, <2>6, <2>7, <3>2
      <4> QED
        BY <2>4, <2>6, <4>1 DEF FreshInv, RefundsNamed
    <3> QED
      BY <3>1, <3>2
  <2> QED
    BY <2>4, <2>6, <2>7 DEF FreshInv, RefundsNamed
<1>4. CASE UNCHANGED <<pend, done>>
  BY <1>1, <1>4 DEF FreshInv, RefundsNamed
<1> QED
  BY <1>2, <1>3, <1>4, ZenonT(60)
     DEF Next, Step, Call, Claim, WithdrawLookup, WithdrawInsert, LoadOriginal, Read, Duplicate,
         Commit, RefundCommit, AlreadyRefunded, Reject, Abort, LockRow, LockTrack, Sweep, Skip,
         Settle, AddRestraint, ReleaseRestraint, UpdateStatus, sessions, vars

LEMMA FreshInvStep == FreshInv /\ [Next]_vars => FreshInv'
  BY FundsStep, FreshStep, NamedStep DEF FreshInv

\* Everything a procedure demands of the wallets holds at the instant it
\* commits, though the compare-and-swap procedures checked it before they had
\* any lock.
LEMMA AllowedAtCommit ==
  ASSUME FreshInv, NEW s \in Sessions, Commit(s)
  PROVE  Allowed(req[s].op, orig[s], acct, active)
<1>1. /\ orig[s] \in Requests /\ req[s] \in Requests /\ pc[s] = "rows"
  BY DEF FreshInv, FundsInv, GateInv, TypeInv, SessionsOK, Commit
<1>2. CASE req[s].op \notin CasOps
  BY <1>2 DEF Commit, Passes
<1>3. CASE req[s].op \in CasOps
  <2> DEFINE o == orig[s]
  <2>1. o = req[s]
    BY <1>1, <1>3 DEF FreshInv, FundsInv, CallsInv, OwnRequest, CasOps, Reversals
  <2>2. o.a \in Accounts /\ o.b \in Accounts
    BY <1>1, RequestsAssumption
  <2>3. \A a \in Wallets(o) : a \in Accounts /\ rowOwner[a] = s
    BY <2>2 DEF Commit, Unlocked, Owned, Wallets
  <2>4. \A a \in Wallets(o) : Clear(o.op, o, a) /\ FundGuard(o, a, acct)
    BY <1>1, <1>3, <2>1, <2>3 DEF FreshInv, FundsInv, CallsInv, Guarded, Fresh
  <2>5. CASE o.op = "TOPUP"
    BY <2>1, <2>4, <2>5 DEF Allowed, TopupAllowed, Clear, Wallets
  <2>6. CASE o.op = "TRANSFER"
    BY <2>1, <2>4, <2>6 DEF Allowed, TransferAllowed, Clear, Wallets, FundGuard
  <2>7. CASE o.op = "WITHDRAW"
    BY <2>1, <2>4, <2>7 DEF Allowed, WithdrawAllowed, Clear, Wallets, FundGuard
  <2> QED
    BY <1>3, <2>1, <2>5, <2>6, <2>7 DEF CasOps
<1> QED
  BY <1>2, <1>3

\* The three ways a posting is read off the journal.
LEMMA CommitGrows ==
  ASSUME GateInv, NEW s \in Sessions, Commit(s)
  PROVE  /\ req[s].op \in Reversals => req[s].ref \in Grows("REVERSAL")
         /\ req[s].op \in Postings => req[s].ref \in Grows("POSTING")
<1>1. /\ req[s].ref \in Refs /\ hist \in [Effects -> Nat]
      /\ hist' = [hist EXCEPT ![Effect(req[s])] = @ + 1]
      /\ Effect(req[s]) \in Effects
  BY Committing DEF GateInv, TypeInv, TypeOK, TablesType
<1>2. hist'[Effect(req[s])] > hist[Effect(req[s])]
  BY <1>1
<1>3. req[s].op \in Reversals => Effect(req[s]) = <<"REVERSAL", req[s].ref>>
  BY DEF Effect, Reversals
<1>4. req[s].op \in Postings => Effect(req[s]) = <<"POSTING", req[s].ref>>
  BY DEF Effect, Postings, Reversals
<1>5. \A kind, f : <<kind, f>> \in Effects /\ hist'[<<kind, f>>] > hist[<<kind, f>>] => f \in Grows(kind)
  BY DEF Grows
<1> QED
  BY <1>1, <1>2, <1>3, <1>4, <1>5

\* What a commit does to the balance of a wallet.
LEMMA CommitMoves ==
  ASSUME FreshInv, NEW s \in Sessions, Commit(s), NEW a \in Accounts
  PROVE  /\ acct[a].status = "C" => acct'[a].bal <= acct[a].bal
         /\ acct[a].status = "C" /\ acct'[a].bal < acct[a].bal => ReversalOf("TRANSFER")
         /\ acct[a].crBlk /\ acct'[a].bal > acct[a].bal => ReversalOf("FEE")
         /\ DebitHeld(a, active) /\ acct'[a].bal < acct[a].bal =>
              FeeCharged \/ ReversalOf("TOPUP") \/ ReversalOf("TRANSFER")
<1> DEFINE r == req[s]
           o == orig[s]
<1>1. /\ o \in Requests /\ r \in Requests
      /\ r.op \in ClaimOps \cup {"WITHDRAW"} /\ r.ref \in Refs
      /\ r.op \in Reversals => OriginalFound(r)
      /\ r.op \notin Reversals => o = r
  BY Committing
     DEF FreshInv, FundsInv, CallsInv, OwnRequest, GateInv, TypeInv, SessionsOK, Commit
<1>2. /\ o.a \in Accounts /\ o.b \in Accounts /\ o.amt \in Nat \ {0} /\ o.fee \in Nat
      /\ acct[a].bal \in Int /\ acct[a].crBlk \in BOOLEAN
  BY <1>1, RequestsAssumption DEF FreshInv, FundsInv, GateInv, TypeInv, TypeOK, TablesType, Rows
<1>3. /\ acct'[a].bal = acct[a].bal
      \/ acct'[a].bal = acct[a].bal + Legs(r.op, o).bal[a]
  BY DEF Commit, Posted, WalletRow
<1>4. Allowed(r.op, o, acct, active)
  BY AllowedAtCommit
<1>5. ASSUME r.op \in Reversals PROVE ReversalOf(OriginalOp(r.op))
  <2>1. r.ref \in Grows("REVERSAL")
    BY <1>5, CommitGrows DEF FreshInv, FundsInv
  <2> QED
    BY <1>1, <1>5, <2>1 DEF ReversalOf, OriginalFound, OriginalKey
<1>6. CASE r.op = "TOPUP"
  BY <1>2, <1>3, <1>4, <1>6 DEF Legs, TopupLegs, On, Allowed, TopupAllowed
<1>7. CASE r.op = "TRANSFER"
  BY <1>2, <1>3, <1>4, <1>7 DEF Legs, TransferLegs, OnBoth, Allowed, TransferAllowed
<1>8. CASE r.op = "WITHDRAW"
  BY <1>2, <1>3, <1>4, <1>8 DEF Legs, WithdrawLegs, On, Allowed, WithdrawAllowed
<1>9. CASE r.op = "FEE"
  <2>1. r.ref \in Grows("POSTING")
    BY <1>9, CommitGrows DEF FreshInv, FundsInv, Postings
  <2>2. MsgKey(r) = <<"REF", r.ref>> /\ r.op \in ClaimOps /\ MsgKey(r) \in MsgKeys
    BY <1>1, <1>9, KeyType DEF MsgKey, Reversals, ClaimOps
  <2>3. msg[MsgKey(r)] = None /\ msg' = [msg EXCEPT ![MsgKey(r)] = IF @ = None THEN r ELSE @]
    BY <2>2, Committing DEF FreshInv, FundsInv
  <2>4. msg'[<<"REF", r.ref>>] = r
    BY <2>2, <2>3 DEF FreshInv, FundsInv, GateInv, TypeInv, TypeOK, TablesType
  <2>5. FeeCharged
    BY <1>9, <2>1, <2>4 DEF FeeCharged
  <2> QED
    BY <1>2, <1>3, <1>4, <1>9, <2>5 DEF Legs, FeeChargeLegs, On, Allowed, FeeChargeAllowed
<1>10. CASE r.op = "RVTPUP"
  <2>1. ReversalOf("TOPUP")
    BY <1>5, <1>10 DEF Reversals, OriginalOp
  <2> QED
    BY <1>2, <1>3, <1>4, <1>10, <2>1 DEF Legs, TopupReversalLegs, On, Allowed, TopupReversalAllowed
<1>11. CASE r.op = "RVTRF"
  <2>1. ReversalOf("TRANSFER")
    BY <1>5, <1>11 DEF Reversals, OriginalOp
  <2> QED
    BY <1>2, <1>3, <1>4, <1>11, <2>1
       DEF Legs, TransferReversalLegs, OnBoth, Allowed, TransferReversalAllowed
<1>12. CASE r.op = "RVFC"
  <2>1. ReversalOf("FEE")
    BY <1>5, <1>12 DEF Reversals, OriginalOp
  <2> QED
    BY <1>2, <1>3, <1>4, <1>12, <2>1
       DEF Legs, FeeChargeReversalLegs, On, Allowed, FeeChargeReversalAllowed
<1> QED
  BY <1>1, <1>6, <1>7, <1>8, <1>9, <1>10, <1>11, <1>12 DEF ClaimOps

\* A batch of refunds only raises balances, each for one of its payouts.
LEMMA RefundMoves ==
  ASSUME FreshInv, NEW s \in Sessions, RefundCommit(s), NEW a \in Accounts
  PROVE  /\ acct[a].bal \in Int /\ acct'[a].bal \in Int /\ acct'[a].bal >= acct[a].bal
         /\ acct'[a].bal # acct[a].bal => RefundOf(a)
<1>1. /\ acct[a].bal \in Int /\ pend[s].bal[a] \in Int /\ pend[s].bal[a] >= 0
      /\ pend[s].bal[a] # 0 => \E e \in done[s] : track[e].by.a = a
  BY DEF FreshInv, RefundsNamed, FundsInv, CallsInv, RefundsGive, GateInv, TypeInv, TypeOK,
         TablesType, CallsType, Rows, LegSet
<1>2. acct'[a].bal = acct[a].bal \/ acct'[a].bal = acct[a].bal + pend[s].bal[a]
  BY DEF RefundCommit, Posted, WalletRow
<1>3. \A e \in done[s] : e \in Grows("REFUND")
  <2> SUFFICES ASSUME NEW e \in done[s] PROVE e \in Grows("REFUND")
    OBVIOUS
  <2>1. e \in Exts /\ <<"REFUND", e>> \in Effects /\ hist[<<"REFUND", e>>] \in Nat
    BY DEF FreshInv, FundsInv, GateInv, TypeInv, TypeOK, TablesType, CallsType, Effects
  <2>2. hist'[<<"REFUND", e>>] = hist[<<"REFUND", e>>] + 1
    BY <2>1 DEF RefundCommit
  <2>3. hist'[<<"REFUND", e>>] > hist[<<"REFUND", e>>]
    BY <2>1, <2>2
  <2> QED
    BY <2>1, <2>3 DEF Grows
<1> QED
  BY <1>1, <1>2, <1>3 DEF RefundOf

\* Nobody else touches a balance.
LEMMA OthersMoveNothing ==
  ASSUME GateInv, [Next]_vars, \A s \in Sessions : ~Commit(s) /\ ~RefundCommit(s),
         NEW a \in Accounts
  PROVE  acct'[a].bal = acct[a].bal
<1>1. ASSUME NEW h \in Holds, AddRestraint(h) \/ ReleaseRestraint(h)
      PROVE  acct'[a].bal = acct[a].bal
  BY <1>1 DEF AddRestraint, ReleaseRestraint, WalletRow, GateInv, TypeInv, TypeOK, TablesType
<1>2. ASSUME NEW b \in Accounts, NEW new \in Statuses, UpdateStatus(b, new)
      PROVE  acct'[a].bal = acct[a].bal
  BY <1>2 DEF UpdateStatus, WalletRow, GateInv, TypeInv, TypeOK, TablesType
<1> QED
  BY <1>1, <1>2, ZenonT(60)
     DEF Next, Step, Call, Skip, Sweep, Claim, Duplicate, WithdrawLookup, WithdrawInsert,
         LoadOriginal, Read, LockRow, LockTrack, AlreadyRefunded, Refund, Reject, Abort, Settle,
         vars, tables

\* Postings a restraint or a status forbids do not slip in between the check
\* and the commit, whatever commits or fails in between.
THEOREM FrozenMoneyIsSafe == Spec => FrozenMoneyStays
<1> DEFINE Frozen ==
  \A a \in Accounts :
       /\ acct[a].status = "C" /\ acct'[a].bal > acct[a].bal => RefundOf(a)
       /\ acct[a].status = "C" /\ acct'[a].bal < acct[a].bal => ReversalOf("TRANSFER")
       /\ acct[a].crBlk /\ acct'[a].bal > acct[a].bal =>
            RefundOf(a) \/ ReversalOf("FEE")
       /\ DebitHeld(a, active) /\ acct'[a].bal < acct[a].bal =>
            FeeCharged \/ ReversalOf("TOPUP") \/ ReversalOf("TRANSFER")
<1>1. FreshInv /\ [Next]_vars => [Frozen]_vars
  <2> SUFFICES ASSUME FreshInv, [Next]_vars, NEW a \in Accounts
               PROVE  /\ acct[a].status = "C" /\ acct'[a].bal > acct[a].bal => RefundOf(a)
                      /\ acct[a].status = "C" /\ acct'[a].bal < acct[a].bal => ReversalOf("TRANSFER")
                      /\ acct[a].crBlk /\ acct'[a].bal > acct[a].bal =>
                           RefundOf(a) \/ ReversalOf("FEE")
                      /\ DebitHeld(a, active) /\ acct'[a].bal < acct[a].bal =>
                           FeeCharged \/ ReversalOf("TOPUP") \/ ReversalOf("TRANSFER")
    OBVIOUS
  <2>1. acct[a].bal \in Int /\ acct'[a].bal \in Int
    BY NextKeepsType DEF FreshInv, FundsInv, GateInv, TypeInv, TypeOK, TablesType, Rows
  <2>2. ASSUME NEW s \in Sessions, Commit(s)
        PROVE  /\ acct[a].status = "C" => acct'[a].bal <= acct[a].bal
               /\ acct[a].status = "C" /\ acct'[a].bal < acct[a].bal => ReversalOf("TRANSFER")
               /\ acct[a].crBlk /\ acct'[a].bal > acct[a].bal => ReversalOf("FEE")
               /\ DebitHeld(a, active) /\ acct'[a].bal < acct[a].bal =>
                    FeeCharged \/ ReversalOf("TOPUP") \/ ReversalOf("TRANSFER")
    BY <2>2, CommitMoves
  <2>3. ASSUME NEW s \in Sessions, RefundCommit(s)
        PROVE  acct'[a].bal >= acct[a].bal /\ (acct'[a].bal # acct[a].bal => RefundOf(a))
    BY <2>3, RefundMoves
  <2>4. CASE \A s \in Sessions : ~Commit(s) /\ ~RefundCommit(s)
    BY <2>1, <2>4, OthersMoveNothing DEF FreshInv, FundsInv
  <2>5. CASE \E s \in Sessions : Commit(s)
    BY <2>1, <2>2, <2>5
  <2>6. CASE \E s \in Sessions : RefundCommit(s)
    BY <2>1, <2>3, <2>6
  <2> QED
    BY <2>4, <2>5, <2>6
<1>2. FrozenMoneyStays <=> [][Frozen]_vars
  BY DEF FrozenMoneyStays
<1>3. Init => FreshInv
  BY FreshInit
<1>4. FreshInv /\ [Next]_vars => FreshInv'
  BY FreshInvStep
<1> QED
  BY <1>1, <1>2, <1>3, <1>4, PTL DEF Spec

-----------------------------------------------------------------------------
(***************************************************************************)
(* The lock order of the posting procedures: who can wait for whom.        *)
(***************************************************************************)

-----------------------------------------------------------------------------
(* The inductive invariant.                                                 *)

\* A posting holds the lower of its rows, a batch of refunds the wallets it has
\* credited.
RowsHeld ==
  \A s \in Sessions : \A a \in Accounts : rowOwner[a] = s =>
    /\ pc[s] = "rows" => a \in Wallets(orig[s]) /\ \A b \in Unlocked(s) : a < b
    /\ pc[s] = "refund" => done[s] # {}

\* Keys are held past the gate; a reversal that loads its original holds the
\* reversal's key only.
KeysHeld ==
  \A s \in Sessions : \A k \in MsgKeys : keyOwner[k] = s =>
    /\ pc[s] \notin {"idle", "start", "insert"}
    /\ pc[s] = "load" => k[1] # "REF"

TracksHeld == \A s \in Sessions : \A e \in Exts : trackOwner[e] = s => pc[s] = "refund"

OrderInv == FundsInv /\ RowsHeld /\ KeysHeld /\ TracksHeld

-----------------------------------------------------------------------------
(* What waits for whom.                                                     *)

\* A batch of refunds that has credited a wallet.
Batch(s) == pc[s] = "refund" /\ done[s] # {}

NextWallet(s) == track[CHOOSE e \in work[s] : IsNext(s, e)].by.a

KeyRank(k) == IF k[1] = "REF" THEN 1 ELSE 0

\* The place in the lock order of what s waits for: the reversal's key, the
\* key of a posting, the payout, the wallets by INTERNAL_KEY.
Wanted(s) ==
  CASE pc[s] = "start" /\ req[s].op \in ClaimOps -> KeyRank(MsgKey(req[s]))
    [] pc[s] \in {"insert", "load"} -> 1
    [] pc[s] = "start" /\ req[s].op = "RVWD" -> 2
    [] pc[s] = "rows" -> 3 + NextRow(s)
    [] OTHER -> 3 + NextWallet(s)

Waits(s) ==
  \/ pc[s] = "start" /\ req[s].op \in ClaimOps \cup {"RVWD"}
  \/ pc[s] \in {"insert", "load"}
  \/ pc[s] = "rows" /\ Unlocked(s) # {}
  \/ pc[s] = "refund" /\ work[s] # {}

LEMMA NextWalletType ==
  ASSUME TypeInv, NEW s \in Sessions, work[s] # {}
  PROVE  NextWallet(s) \in Accounts
<1>1. \A e \in work[s] : e \in Exts /\ track[e].due \in Nat /\ track[e].by \in Requests
  BY DEF TypeInv, TypeOK, TablesType, CallsType, SessionsOK, Open, Payouts
<1> DEFINE dues == {track[e].due : e \in work[s]}
<1>2. dues \in SUBSET Nat /\ dues # {}
  BY <1>1
<1>3. PICK d \in dues : \A x \in dues : d <= x
  BY <1>2, LeastNatural
<1>4. PICK e \in work[s] : d = track[e].due
  BY <1>3
<1>5. IsNext(s, e)
  BY <1>3, <1>4 DEF IsNext
<1>6. (CHOOSE x \in work[s] : IsNext(s, x)) \in work[s]
  BY <1>5
<1> QED
  BY <1>1, <1>6, RequestsAssumption DEF NextWallet

LEMMA WantedBounds ==
  ASSUME TypeInv, NEW s \in Sessions, Waits(s), NEW m \in Nat, \A a \in Accounts : a <= m
  PROVE  Wanted(s) \in Nat /\ Wanted(s) <= m + 3
<1>1. Accounts \subseteq Nat
  BY AccountsAssumption
<1>2. pc[s] = "rows" => NextRow(s) \in Accounts
  BY RowTaken DEF TypeInv, Waits
<1>3. pc[s] = "refund" => NextWallet(s) \in Accounts
  BY NextWalletType DEF Waits
<1>4. KeyRank(MsgKey(req[s])) \in {0, 1}
  BY DEF KeyRank
<1>5. CASE pc[s] \in {"start", "insert", "load"}
  BY <1>4, <1>5 DEF Waits, Wanted, ClaimOps
<1>6. CASE pc[s] = "rows"
  BY <1>1, <1>2, <1>6 DEF Wanted
<1>7. CASE pc[s] = "refund"
  BY <1>1, <1>3, <1>7 DEF Wanted
<1> QED
  BY <1>5, <1>6, <1>7 DEF Waits

\* What a waiting session holds comes before what it waits for, a batch apart.
LEMMA HeldBefore ==
  ASSUME OrderInv, NEW s \in Sessions, Waits(s), ~Batch(s)
  PROVE  /\ \A k \in MsgKeys : keyOwner[k] = s => KeyRank(k) < Wanted(s)
         /\ \A e \in Exts : trackOwner[e] = s => 2 < Wanted(s)
         /\ \A a \in Accounts : rowOwner[a] = s => 3 + a < Wanted(s)
<1>1. Accounts \subseteq Nat
  BY AccountsAssumption
<1>2. pc[s] = "rows" => NextRow(s) \in Accounts /\ NextRow(s) \in Unlocked(s)
  BY RowTaken DEF OrderInv, FundsInv, GateInv, TypeInv, Waits
<1>3. pc[s] = "refund" => NextWallet(s) \in Accounts
  BY NextWalletType DEF OrderInv, FundsInv, GateInv, Waits
<1>4. pc[s] = "rows" => Wanted(s) = 3 + NextRow(s) /\ NextRow(s) \in Nat
  BY <1>1, <1>2 DEF Wanted
<1>5. pc[s] = "refund" => Wanted(s) = 3 + NextWallet(s) /\ NextWallet(s) \in Nat
  BY <1>1, <1>3 DEF Wanted
<1>6. ASSUME NEW k \in MsgKeys, keyOwner[k] = s PROVE KeyRank(k) < Wanted(s)
  <2>1. pc[s] \notin {"start", "insert"} /\ (pc[s] = "load" => k[1] # "REF")
    BY <1>6 DEF OrderInv, KeysHeld
  <2>2. CASE pc[s] = "load"
    BY <2>1, <2>2 DEF KeyRank, Wanted
  <2>3. CASE pc[s] \in {"rows", "refund"}
    BY <1>4, <1>5, <2>3 DEF KeyRank
  <2> QED
    BY <2>1, <2>2, <2>3 DEF Waits
<1>7. ASSUME NEW e \in Exts, trackOwner[e] = s PROVE 2 < Wanted(s)
  BY <1>5, <1>7 DEF OrderInv, TracksHeld
<1>8. ASSUME NEW a \in Accounts, rowOwner[a] = s PROVE 3 + a < Wanted(s)
  <2>1. pc[s] = "rows"
    BY <1>8 DEF OrderInv, FundsInv, CallsInv, Guarded, RowsHeld, Batch
  <2>2. a < NextRow(s) /\ a \in Nat
    BY <1>1, <1>2, <1>8, <2>1 DEF OrderInv, RowsHeld
  <2> QED
    BY <1>4, <2>1, <2>2
<1> QED
  BY <1>6, <1>7, <1>8

\* Whoever a session waits for, if it waits too and is no batch, waits for
\* something further down the order.
LEMMA WaitsClimb ==
  ASSUME OrderInv, NEW s \in Sessions, WaitsFor(s) \in Sessions,
         Waits(WaitsFor(s)), ~Batch(WaitsFor(s))
  PROVE  Wanted(s) < Wanted(WaitsFor(s))
<1> DEFINE t == WaitsFor(s)
<1>1. t # None
  BY SessionsAssumption
<1>2. pc[s] \in {"start", "insert", "load"} =>
        /\ MsgKey(req[s]) \in MsgKeys /\ OriginalKey(req[s]) \in MsgKeys
        /\ req[s].ext \in Exts
  BY KeyType, RequestsAssumption DEF OrderInv, FundsInv, GateInv, TypeInv, SessionsOK
<1>3. CASE pc[s] = "start" /\ req[s].op \in ClaimOps
  <2>1. keyOwner[MsgKey(req[s])] = t /\ Wanted(s) = KeyRank(MsgKey(req[s]))
    BY <1>3 DEF WaitsFor, Wanted, ClaimOps
  <2> QED
    BY <1>2, <1>3, <2>1, HeldBefore
<1>4. CASE pc[s] = "insert"
  <2>1. keyOwner[MsgKey(req[s])] = t /\ Wanted(s) = 1
    BY <1>4 DEF WaitsFor, Wanted
  <2>2. KeyRank(MsgKey(req[s])) = 1
    BY <1>4 DEF OrderInv, FundsInv, GateInv, Gate, KeyRank, MsgKey, Reversals
  <2> QED
    BY <1>2, <1>4, <2>1, <2>2, HeldBefore
<1>5. CASE pc[s] = "load"
  <2>1. keyOwner[OriginalKey(req[s])] = t /\ Wanted(s) = 1
    BY <1>5 DEF WaitsFor, Wanted
  <2>2. KeyRank(OriginalKey(req[s])) = 1
    BY DEF KeyRank, OriginalKey
  <2> QED
    BY <1>2, <1>5, <2>1, <2>2, HeldBefore
<1>6. CASE pc[s] = "start" /\ req[s].op = "RVWD"
  <2>1. trackOwner[req[s].ext] = t /\ Wanted(s) = 2
    BY <1>6 DEF WaitsFor, Wanted, ClaimOps
  <2> QED
    BY <1>2, <1>6, <2>1, HeldBefore
<1>7. CASE pc[s] = "rows" /\ Unlocked(s) # {}
  <2>1. rowOwner[NextRow(s)] = t /\ Wanted(s) = 3 + NextRow(s)
    BY <1>7 DEF WaitsFor, Wanted
  <2>2. NextRow(s) \in Accounts
    BY <1>7, RowTaken DEF OrderInv, FundsInv, GateInv, TypeInv
  <2> QED
    BY <2>1, <2>2, HeldBefore
<1>8. CASE pc[s] = "refund" /\ work[s] # {}
  <2>1. rowOwner[NextWallet(s)] = t /\ Wanted(s) = 3 + NextWallet(s)
    BY <1>8 DEF WaitsFor, Wanted, NextWallet
  <2>2. NextWallet(s) \in Accounts
    BY <1>8, NextWalletType DEF OrderInv, FundsInv, GateInv
  <2> QED
    BY <2>1, <2>2, HeldBefore
<1> QED
  BY <1>1, <1>3, <1>4, <1>5, <1>6, <1>7, <1>8 DEF WaitsFor

LEMMA NoCircle ==
  ASSUME OrderInv, NEW m \in Nat, \A a \in Accounts : a <= m,
         NEW C \in SUBSET Sessions, C # {},
         \A s \in C : WaitsFor(s) \in C, \A s \in C : ~Batch(s)
  PROVE  FALSE
<1>1. \A s \in C : Waits(s)
  <2> SUFFICES ASSUME NEW s \in C PROVE Waits(s)
    OBVIOUS
  <2>1. WaitsFor(s) # None
    BY SessionsAssumption
  <2> QED
    BY <2>1 DEF WaitsFor, Waits
<1> DEFINE left == {m + 3 - Wanted(s) : s \in C}
<1>2. \A s \in C : m + 3 - Wanted(s) \in Nat /\ Wanted(s) \in Nat
  BY <1>1, WantedBounds DEF OrderInv, FundsInv, GateInv
<1>3. left \in SUBSET Nat /\ left # {}
  BY <1>2
<1>4. PICK n \in left : \A x \in left : n <= x
  BY <1>3, LeastNatural
<1>5. PICK s \in C : n = m + 3 - Wanted(s)
  BY <1>4
<1>6. WaitsFor(s) \in C /\ Wanted(s) < Wanted(WaitsFor(s))
  BY <1>1, WaitsClimb
<1>7. n <= m + 3 - Wanted(WaitsFor(s))
  BY <1>4, <1>6
<1>8. Wanted(s) \in Nat /\ Wanted(WaitsFor(s)) \in Nat
  BY <1>2, <1>6
<1> QED
  BY <1>5, <1>6, <1>7, <1>8
-----------------------------------------------------------------------------
(* The invariant is inductive.                                              *)

LEMMA OrderInit == Init => OrderInv
  BY FundsInit, SessionsAssumption DEF Init, OrderInv, RowsHeld, KeysHeld, TracksHeld

LEMMA LowestRow ==
  ASSUME TypeInv, NEW s \in Sessions, pc[s] = "rows", Unlocked(s) # {}
  PROVE  \A b \in Unlocked(s) : NextRow(s) <= b
<1>1. Unlocked(s) \in SUBSET Nat
  BY AccountsAssumption, RequestsAssumption DEF TypeInv, SessionsOK, Unlocked, Wallets
<1>2. \E a \in Unlocked(s) : \A b \in Unlocked(s) : a <= b
  BY <1>1, LeastNatural
<1> QED
  BY <1>2 DEF NextRow

LEMMA EndKeepsOrder ==
  ASSUME OrderInv, NEW s \in Sessions, End(s)
  PROVE  RowsHeld' /\ KeysHeld' /\ TracksHeld'
<1> USE DEF OrderInv, FundsInv, GateInv, TypeInv, TypeOK, LocksType, CallsType
<1>1. ASSUME NEW t \in Sessions, t # s
      PROVE  /\ pc'[t] = pc[t] /\ orig'[t] = orig[t] /\ done'[t] = done[t]
             /\ \A a \in Accounts : rowOwner'[a] = t <=> rowOwner[a] = t
             /\ \A k \in MsgKeys : keyOwner'[k] = t => keyOwner[k] = t
             /\ \A e \in Exts : trackOwner'[e] = t => trackOwner[e] = t
  BY <1>1, SessionsAssumption DEF End, Go, Freed
<1>2. /\ \A a \in Accounts : rowOwner'[a] # s
      /\ \A k \in MsgKeys : keyOwner'[k] # s
      /\ \A e \in Exts : trackOwner'[e] # s
  BY SessionsAssumption DEF End, Freed
<1>3. RowsHeld'
  <2>1. ASSUME NEW t \in Sessions, NEW a \in Accounts, rowOwner'[a] = t
        PROVE  /\ pc'[t] = "rows" => a \in Wallets(orig'[t]) /\ \A b \in Unlocked(t)' : a < b
               /\ pc'[t] = "refund" => done'[t] # {}
    <3>1. t # s /\ rowOwner[a] = t
      BY <1>1, <1>2, <2>1
    <3>2. Unlocked(t)' = Unlocked(t)
      BY <1>1, <3>1 DEF Unlocked, Owned
    <3>3. pc'[t] = pc[t] /\ orig'[t] = orig[t] /\ done'[t] = done[t]
      BY <1>1, <3>1
    <3>4. /\ pc[t] = "rows" => a \in Wallets(orig[t]) /\ \A b \in Unlocked(t) : a < b
          /\ pc[t] = "refund" => done[t] # {}
      BY <3>1 DEF RowsHeld
    <3> QED
      BY <3>2, <3>3, <3>4
  <2> QED
    BY <2>1 DEF RowsHeld
<1>4. KeysHeld'
  BY <1>1, <1>2 DEF KeysHeld
<1>5. TracksHeld'
  BY <1>1, <1>2 DEF TracksHeld
<1> QED
  BY <1>3, <1>4, <1>5

\* Before its rows a session holds no wallet: what it does there disturbs the
\* rows of nobody.
LEMMA EarlyKeepsRows ==
  ASSUME OrderInv, NEW s \in Sessions, pc[s] \notin {"rows", "refund"}, rowOwner' = rowOwner,
         \A t \in Sessions \ {s} : pc'[t] = pc[t] /\ orig'[t] = orig[t] /\ done'[t] = done[t]
  PROVE  RowsHeld'
<1>1. \A a \in Accounts : rowOwner[a] # s
  BY DEF OrderInv, FundsInv, CallsInv, Guarded
<1>2. \A t \in Sessions \ {s} : Unlocked(t)' = Unlocked(t)
  BY DEF Unlocked, Owned
<1>3. ASSUME NEW t \in Sessions, NEW a \in Accounts, rowOwner'[a] = t
      PROVE  /\ pc'[t] = "rows" => a \in Wallets(orig'[t]) /\ \A b \in Unlocked(t)' : a < b
             /\ pc'[t] = "refund" => done'[t] # {}
  <2>1. t # s /\ rowOwner[a] = t /\ Unlocked(t)' = Unlocked(t)
    BY <1>1, <1>2, <1>3
  <2> QED
    BY <2>1 DEF OrderInv, RowsHeld
<1> QED
  BY <1>3 DEF RowsHeld

LEMMA OrderStep ==
  ASSUME OrderInv, [Next]_vars
  PROVE  OrderInv'
<1> USE DEF OrderInv, FundsInv, GateInv, TypeInv, TypeOK, LocksType, CallsType
<1>1. FundsInv'
  BY FundsStep
<1>2. ASSUME NEW s \in Sessions, NEW r \in Requests, Call(s, r)
      PROVE  RowsHeld' /\ KeysHeld' /\ TracksHeld'
  <2>1. RowsHeld'
    BY <1>2, EarlyKeepsRows DEF Call, Go, locks
  <2> QED
    BY <1>2, <2>1 DEF Call, Go, locks, KeysHeld, TracksHeld
<1>3. ASSUME NEW s \in Sessions, Claim(s) PROVE RowsHeld' /\ KeysHeld' /\ TracksHeld'
  <2> DEFINE k == MsgKey(req[s])
  <2>1. /\ pc[s] = "start" /\ pc' = [pc EXCEPT ![s] = AfterClaim(req[s].op)]
        /\ keyOwner' = [keyOwner EXCEPT ![k] = s]
        /\ UNCHANGED <<rowOwner, trackOwner, orig, done>>
    BY <1>3 DEF Claim, Go
  <2>2. k \in MsgKeys
    BY <2>1, KeyType DEF SessionsOK
  <2>3. /\ AfterClaim(req[s].op) \notin {"idle", "start", "insert"}
        /\ AfterClaim(req[s].op) = "load" => k[1] # "REF"
    BY DEF AfterClaim, MsgKey, Reversals
  <2>4. RowsHeld'
    BY <2>1, EarlyKeepsRows
  <2>5. KeysHeld'
    BY <2>1, <2>2, <2>3, SessionsAssumption DEF KeysHeld
  <2>6. TracksHeld'
    BY <2>1 DEF TracksHeld
  <2> QED
    BY <2>4, <2>5, <2>6
<1>4. ASSUME NEW s \in Sessions, WithdrawLookup(s) PROVE RowsHeld' /\ KeysHeld' /\ TracksHeld'
  <2>1. RowsHeld'
    BY <1>4, EarlyKeepsRows DEF WithdrawLookup, Go, locks
  <2> QED
    BY <1>4, <2>1 DEF WithdrawLookup, Go, locks, KeysHeld, TracksHeld
<1>5. ASSUME NEW s \in Sessions, WithdrawInsert(s) PROVE RowsHeld' /\ KeysHeld' /\ TracksHeld'
  <2>1. RowsHeld'
    BY <1>5, EarlyKeepsRows DEF WithdrawInsert, Go
  <2>2. /\ pc[s] = "insert" /\ pc' = [pc EXCEPT ![s] = "read"]
        /\ UNCHANGED trackOwner
        /\ \/ keyOwner' = keyOwner
           \/ keyOwner' = [keyOwner EXCEPT ![MsgKey(req[s])] = s]
    BY <1>5 DEF WithdrawInsert, Go
  <2> QED
    BY <2>1, <2>2, SessionsAssumption DEF KeysHeld, TracksHeld
<1>6. ASSUME NEW s \in Sessions, LoadOriginal(s) PROVE RowsHeld' /\ KeysHeld' /\ TracksHeld'
  <2>1. RowsHeld'
    BY <1>6, EarlyKeepsRows DEF LoadOriginal, Go
  <2>2. /\ pc[s] = "load" /\ pc' = [pc EXCEPT ![s] = "rows"]
        /\ keyOwner' = [keyOwner EXCEPT ![OriginalKey(req[s])] = s]
        /\ UNCHANGED trackOwner
    BY <1>6 DEF LoadOriginal, Go
  <2> QED
    BY <2>1, <2>2, SessionsAssumption DEF KeysHeld, TracksHeld
<1>7. ASSUME NEW s \in Sessions, Read(s) PROVE RowsHeld' /\ KeysHeld' /\ TracksHeld'
  <2>1. RowsHeld'
    BY <1>7, EarlyKeepsRows DEF Read, Go, locks
  <2> QED
    BY <1>7, <2>1 DEF Read, Go, locks, KeysHeld, TracksHeld
<1>8. ASSUME NEW s \in Sessions, LockRow(s) PROVE RowsHeld' /\ KeysHeld' /\ TracksHeld'
  <2> DEFINE n == NextRow(s)
  <2>1. /\ pc[s] = "rows" /\ Unlocked(s) # {} /\ rowOwner[n] = None
        /\ rowOwner' = [rowOwner EXCEPT ![n] = s]
        /\ UNCHANGED <<keyOwner, trackOwner, pc, orig, done>>
    BY <1>8 DEF LockRow, sessions
  <2>2. n \in Unlocked(s) /\ n \in Accounts /\ \A b \in Unlocked(s) : n <= b
    BY <2>1, RowTaken, LowestRow
  <2>3. Unlocked(s)' = Unlocked(s) \ {n}
    BY <2>1, <2>2 DEF Unlocked, Owned
  <2>4. \A b \in Unlocked(s)' : n < b
    <3>1. orig[s] \in Requests
      BY <2>1 DEF SessionsOK
    <3>2. Unlocked(s) \subseteq Accounts
      BY <3>1, RequestsAssumption DEF Unlocked, Wallets
    <3>3. ASSUME NEW b \in Unlocked(s), b # n PROVE n < b
      <4>1. n \in Nat /\ b \in Nat /\ n <= b
        BY <2>2, <3>2, AccountsAssumption
      <4>2. \A x, y \in Nat : x <= y /\ y # x => x < y
        OBVIOUS
      <4> QED
        BY <3>3, <4>1, <4>2
    <3> QED
      BY <2>3, <3>3
  <2>5. ASSUME NEW t \in Sessions, NEW a \in Accounts, rowOwner'[a] = t
        PROVE  /\ pc'[t] = "rows" => a \in Wallets(orig'[t]) /\ \A b \in Unlocked(t)' : a < b
               /\ pc'[t] = "refund" => done'[t] # {}
    <3>1. CASE t = s /\ a = n
      BY <2>1, <2>2, <2>4, <3>1 DEF Unlocked
    <3>2. CASE t = s /\ a # n
      BY <2>1, <2>3, <2>5, <3>2 DEF RowsHeld
    <3>3. CASE t # s
      <4>1. Unlocked(t)' = Unlocked(t) /\ rowOwner[a] = t
        BY <2>1, <2>2, <2>5, <3>3, SessionsAssumption DEF Unlocked, Owned
      <4> QED
        BY <2>1, <4>1 DEF RowsHeld
    <3> QED
      BY <3>1, <3>2, <3>3
  <2>6. RowsHeld'
    BY <2>5 DEF RowsHeld
  <2> QED
    BY <2>1, <2>6 DEF KeysHeld, TracksHeld
<1>9. ASSUME NEW s \in Sessions, LockTrack(s) \/ Sweep(s)
      PROVE  RowsHeld' /\ KeysHeld' /\ TracksHeld'
  <2>1. /\ pc[s] \in {"idle", "start"} /\ pc' = [pc EXCEPT ![s] = "refund"]
        /\ UNCHANGED <<rowOwner, keyOwner, orig, done>>
        /\ \A e \in Exts : trackOwner'[e] \in {trackOwner[e], s}
    BY <1>9 DEF LockTrack, Sweep, Go
  <2>2. RowsHeld'
    BY <2>1, EarlyKeepsRows
  <2>3. KeysHeld'
    BY <2>1 DEF KeysHeld
  <2>4. TracksHeld'
    BY <2>1 DEF TracksHeld
  <2> QED
    BY <2>2, <2>3, <2>4
<1>10. ASSUME NEW s \in Sessions, NEW e \in Exts, Refund(s, e)
       PROVE  RowsHeld' /\ KeysHeld' /\ TracksHeld'
  <2> DEFINE n == track[e].by.a
  <2>1. /\ pc[s] = "refund" /\ rowOwner[n] \in {None, s}
        /\ rowOwner' = [rowOwner EXCEPT ![n] = s]
        /\ done' = [done EXCEPT ![s] = done[s] \cup {e}]
        /\ UNCHANGED <<keyOwner, trackOwner, pc, orig>>
    BY <1>10 DEF Refund
  <2>2. done'[s] # {} /\ pc'[s] = "refund"
    BY <2>1
  <2>3. ASSUME NEW t \in Sessions, t # s
        PROVE  /\ done'[t] = done[t] /\ Unlocked(t)' = Unlocked(t)
               /\ \A a \in Accounts : rowOwner'[a] = t => rowOwner[a] = t
    BY <2>1, <2>3, SessionsAssumption DEF Unlocked, Owned
  <2>4. ASSUME NEW t \in Sessions, NEW a \in Accounts, rowOwner'[a] = t
        PROVE  /\ pc'[t] = "rows" => a \in Wallets(orig'[t]) /\ \A b \in Unlocked(t)' : a < b
               /\ pc'[t] = "refund" => done'[t] # {}
    <3>1. CASE t = s
      BY <2>2, <3>1
    <3>2. CASE t # s
      <4>1. rowOwner[a] = t /\ done'[t] = done[t] /\ Unlocked(t)' = Unlocked(t)
        BY <2>3, <2>4, <3>2
      <4> QED
        BY <2>1, <4>1 DEF RowsHeld
    <3> QED
      BY <3>1, <3>2
  <2>5. RowsHeld'
    BY <2>4 DEF RowsHeld
  <2> QED
    BY <2>1, <2>5 DEF KeysHeld, TracksHeld
<1>11. ASSUME NEW s \in Sessions, End(s) PROVE RowsHeld' /\ KeysHeld' /\ TracksHeld'
  BY <1>11, EndKeepsOrder
<1>12. ASSUME UNCHANGED <<locks, pc, orig, done>> PROVE RowsHeld' /\ KeysHeld' /\ TracksHeld'
  BY <1>12 DEF locks, RowsHeld, KeysHeld, TracksHeld, Unlocked, Owned
<1> HIDE DEF OrderInv, FundsInv, GateInv, TypeInv, TypeOK, LocksType, CallsType
<1>13. RowsHeld' /\ KeysHeld' /\ TracksHeld'
  BY <1>2, <1>3, <1>4, <1>5, <1>6, <1>7, <1>8, <1>9, <1>10, <1>11, <1>12
     DEF Next, Step, Duplicate, Commit, RefundCommit, AlreadyRefunded, Reject, Abort, Skip,
         Settle, AddRestraint, ReleaseRestraint, UpdateStatus, sessions, vars
<1> QED
  BY <1>1, <1>13 DEF OrderInv

\* Postings, reversals and single refunds never wait for each other in a
\* circle, for any number of sessions and wallets: keys come before payouts,
\* payouts before wallets, wallets in INTERNAL_KEY order.  A circle has a batch
\* of the janitor in it that has credited a wallet and wants another.
THEOREM CirclesNeedABatch ==
  ASSUME \E m \in Nat : \A a \in Accounts : a <= m
  PROVE  Spec => []CyclesNeedABatch
<1>1. OrderInv => CyclesNeedABatch
  <2> SUFFICES ASSUME OrderInv, NEW C \in (SUBSET Sessions) \ {{}},
                      \A s \in C : WaitsFor(s) \in C
               PROVE  \E s \in C : pc[s] = "refund" /\ done[s] # {}
    BY DEF CyclesNeedABatch
  <2>1. PICK m \in Nat : \A a \in Accounts : a <= m
    OBVIOUS
  <2>2. C \in SUBSET Sessions /\ C # {}
    OBVIOUS
  <2>3. ~ \A s \in C : ~Batch(s)
    BY <2>1, <2>2, NoCircle
  <2> QED
    BY <2>3 DEF Batch
<1> QED
  BY <1>1, OrderInit, OrderStep, PTL DEF Spec

-----------------------------------------------------------------------------
(* The postings implement the sequential Ledger, and the books balance.     *)

(* The inductive invariant.                                                 *)

\* CR_BLOCKED says whether a restraint in force blocks credits.
Blocked == \A a \in Accounts : acct[a].crBlk <=> \E h \in HoldsOn(a, active) : h.credit

\* A reference in WLT_API_MESSAGE is that of its posting; the payout of a
\* withdrawal is there as long as its key.
KeysNamed ==
  \A f \in Refs : msg[<<"REF", f>>] # None =>
    /\ msg[<<"REF", f>>].op \in Postings /\ msg[<<"REF", f>>].ref = f
    /\ msg[<<"REF", f>>].op = "WITHDRAW" => track[msg[<<"REF", f>>].ext] # None

\* A reversal works from the record of its original.
OriginalsStay ==
  \A s \in Sessions : pc[s] = "rows" /\ req[s].op \in Reversals
                        => orig[s] = msg[OriginalKey(req[s])]

\* The legs of a batch give every wallet what the payouts done so far took
\* from it; those wallets are locked.
Taken == [e \in Exts |-> track[e].by.amt + track[e].by.fee]
DoneFor(s, a) == {e \in done[s] : track[e].by.a = a}
RefundsSummed ==
  \A s \in Sessions :
    /\ pc[s] # "refund" => done[s] = {}
    /\ IsFiniteSet(done[s]) /\ work[s] \cap done[s] = {}
    /\ \A e \in done[s] : rowOwner[track[e].by.a] = s
    /\ \A a \in Accounts : pend[s].bal[a] = SumFunctionOnSet(Taken, DoneFor(s, a))

LedgerInv ==
  FreshInv /\ ReversalsCounted /\ Blocked /\ KeysNamed /\ OriginalsStay /\ RefundsSummed

\* Legs move what a wallet has and what the bank owes it by the same amount,
\* and with those on the other GL accounts sum to zero.
Mirrored(l) == \A a \in Accounts : l.bal[a] = -l.liab[a]
Sums(l) == SumFunction(l.liab) + SumFunction(l.gl) = 0

BooksInv ==
  /\ LedgerInv
  /\ \A s \in Sessions : Mirrored(pend[s]) /\ Sums(pend[s])
  /\ BooksTie

LEMMA LedgerInit == Init => LedgerInv
<1> SUFFICES ASSUME Init PROVE LedgerInv
  OBVIOUS
<1>1. FreshInv
  BY FreshInit
<1>2. ReversalsCounted
  BY DEF Init, ReversalsCounted, Effects
<1>3. Blocked
  BY DEF Init, Blocked, WalletRow, HoldsOn
<1>4. KeysNamed
  BY DEF Init, KeysNamed, MsgKeys
<1>5. OriginalsStay
  BY DEF Init, OriginalsStay
<1>6. RefundsSummed
  <2>1. \A s \in Sessions : done[s] = {} /\ work[s] = {} /\ \A a \in Accounts : pend[s].bal[a] = 0
    BY DEF Init, NoLegs
  <2>2. \A s \in Sessions, a \in Accounts : DoneFor(s, a) = {}
    BY <2>1 DEF DoneFor
  <2>3. SumFunctionOnSet(Taken, {}) = 0 /\ IsFiniteSet({})
    BY SumEmpty, FS_EmptySet
  <2> QED
    BY <2>1, <2>2, <2>3 DEF RefundsSummed
<1> QED
  BY <1>1, <1>2, <1>3, <1>4, <1>5, <1>6 DEF LedgerInv

-----------------------------------------------------------------------------
(* Steps keep it.                                                           *)

LEMMA BlockedStep ==
  ASSUME GateInv, Blocked, [Next]_vars
  PROVE  Blocked'
<1>0. acct \in [Accounts -> Rows] /\ active \subseteq Holds
  BY DEF GateInv, TypeInv, TypeOK, TablesType
<1>1. ASSUME NEW h \in Holds, AddRestraint(h) PROVE Blocked'
  <2> SUFFICES ASSUME NEW b \in Accounts
               PROVE  acct'[b].crBlk <=> \E x \in HoldsOn(b, active') : x.credit
    BY DEF Blocked
  <2>1. CASE b = h.acct
    <3>1. acct'[b].crBlk = (acct[b].crBlk \/ h.credit)
      BY <1>0, <1>1, <2>1 DEF AddRestraint, WalletRow
    <3>2. HoldsOn(b, active') = HoldsOn(b, active) \cup {h}
      BY <1>1, <2>1 DEF AddRestraint, HoldsOn
    <3> QED
      BY <3>1, <3>2 DEF Blocked
  <2>2. CASE b # h.acct
    <3>1. acct'[b] = acct[b] /\ HoldsOn(b, active') = HoldsOn(b, active)
      BY <1>0, <1>1, <2>2 DEF AddRestraint, HoldsOn
    <3> QED
      BY <3>1 DEF Blocked
  <2> QED
    BY <2>1, <2>2
<1>2. ASSUME NEW h \in Holds, ReleaseRestraint(h) PROVE Blocked'
  <2> SUFFICES ASSUME NEW b \in Accounts
               PROVE  acct'[b].crBlk <=> \E x \in HoldsOn(b, active') : x.credit
    BY DEF Blocked
  <2>1. CASE b = h.acct
    BY <1>0, <1>2, <2>1 DEF ReleaseRestraint, WalletRow
  <2>2. CASE b # h.acct
    <3>1. acct'[b] = acct[b] /\ HoldsOn(b, active') = HoldsOn(b, active)
      BY <1>0, <1>2, <2>2 DEF ReleaseRestraint, HoldsOn
    <3> QED
      BY <3>1 DEF Blocked
  <2> QED
    BY <2>1, <2>2
<1>3. ASSUME UNCHANGED active, \A b \in Accounts : acct'[b].crBlk = acct[b].crBlk PROVE Blocked'
  BY <1>3 DEF Blocked
<1>4. ASSUME NEW s \in Sessions, NEW l, acct' = Posted(s, l), NEW b \in Accounts
      PROVE  acct'[b].crBlk = acct[b].crBlk
  BY <1>4 DEF Posted, WalletRow
<1>5. ASSUME NEW s \in Sessions, Commit(s) \/ RefundCommit(s) PROVE Blocked'
  BY <1>3, <1>4, <1>5 DEF Commit, RefundCommit
<1>6. ASSUME NEW a \in Accounts, NEW new \in Statuses, UpdateStatus(a, new) PROVE Blocked'
  <2>1. \A b \in Accounts : acct'[b].crBlk = acct[b].crBlk
    BY <1>0, <1>6 DEF UpdateStatus, WalletRow
  <2> QED
    BY <1>3, <1>6, <2>1 DEF UpdateStatus
<1>7. CASE UNCHANGED <<acct, active>>
  BY <1>3, <1>7
<1> QED
  BY <1>1, <1>2, <1>5, <1>6, <1>7, ZenonT(60)
     DEF Next, Step, Call, Skip, Sweep, Claim, Duplicate, WithdrawLookup, WithdrawInsert,
         LoadOriginal, Read, LockRow, LockTrack, AlreadyRefunded, Refund, Reject, Abort, Settle,
         vars, tables

\* An idempotency row is never rewritten, a payout never forgotten.
LEMMA RecordsStay ==
  ASSUME GateInv, [Next]_vars
  PROVE  /\ \A k \in MsgKeys : msg[k] # None => msg'[k] = msg[k]
         /\ \A e \in Exts : track[e] # None => track'[e] # None
<1>1. ASSUME NEW s \in Sessions, Commit(s)
      PROVE  /\ \A k \in MsgKeys : msg[k] # None => msg'[k] = msg[k]
             /\ \A e \in Exts : track[e] # None => track'[e] # None
  BY <1>1, Committing DEF GateInv, TypeInv, TypeOK, TablesType
<1>2. ASSUME NEW s \in Sessions, RefundCommit(s)
      PROVE  /\ UNCHANGED msg
             /\ \A e \in Exts : track[e] # None => track'[e] # None
  <2>1. \A e \in done[s] : e \in Exts /\ track[e] \in Payouts
    BY DEF GateInv, TypeInv, TypeOK, TablesType, CallsType, SessionsOK, Open
  <2>2. "REVERSED" \in PayoutStatuses
    BY DEF PayoutStatuses
  <2> QED
    BY <1>2, <2>1, <2>2, Closing DEF RefundCommit
<1>3. ASSUME NEW e \in Exts, Settle(e)
      PROVE  UNCHANGED msg /\ \A x \in Exts : track[x] # None => track'[x] # None
  <2>1. track[e] \in Payouts /\ "COMPLETED" \in PayoutStatuses
    BY <1>3 DEF GateInv, TypeInv, TypeOK, TablesType, Settle, Open, PayoutStatuses
  <2>2. track' = [track EXCEPT ![e] = [track[e] EXCEPT !.status = "COMPLETED"]] /\ UNCHANGED msg
    BY <1>3 DEF Settle
  <2> QED
    BY <2>1, <2>2, Closing DEF GateInv, TypeInv, TypeOK, TablesType
<1>4. CASE UNCHANGED <<msg, hist, track>>
  BY <1>4
<1> QED
  BY <1>1, <1>2, <1>3, <1>4, Writers

LEMMA KeysNamedStep ==
  ASSUME GateInv, KeysNamed, [Next]_vars
  PROVE  KeysNamed'
<1>1. \A f \in Refs : <<"REF", f>> \in MsgKeys
  BY DEF MsgKeys
<1>2. \A f \in Refs : msg[<<"REF", f>>] # None => msg[<<"REF", f>>].ext \in Exts
  BY <1>1, RequestsAssumption DEF GateInv, TypeInv, TypeOK, TablesType
<1>3. ASSUME NEW f \in Refs, msg'[<<"REF", f>>] # None, msg[<<"REF", f>>] = None
      PROVE  /\ msg'[<<"REF", f>>].op \in Postings /\ msg'[<<"REF", f>>].ref = f
             /\ msg'[<<"REF", f>>].op = "WITHDRAW" => track'[msg'[<<"REF", f>>].ext] # None
  <2>1. CASE \E s \in Sessions : Commit(s)
    <3>1. PICK s \in Sessions : Commit(s)
      BY <2>1
    <3> DEFINE r == req[s]
    <3>2. /\ msg' = [msg EXCEPT ![MsgKey(r)] = IF @ = None THEN r ELSE @]
          /\ r.op = "WITHDRAW" => track'[r.ext] # None
          /\ r.op \in ClaimOps \cup {"WITHDRAW"} /\ msg \in [MsgKeys -> Requests \cup {None}]
      BY <3>1, Committing DEF GateInv, TypeInv, TypeOK, TablesType
    <3>3. MsgKey(r) = <<"REF", f>> /\ msg'[<<"REF", f>>] = r
      BY <1>1, <1>3, <3>2
    <3>4. r.op \notin Reversals /\ r.ref = f
      <4>1. ASSUME r.op \in Reversals PROVE r.op = "REF"
        BY <3>3, <4>1 DEF MsgKey
      <4>2. r.op \notin Reversals
        BY <4>1 DEF Reversals
      <4> QED
        BY <3>3, <4>2 DEF MsgKey
    <3> QED
      BY <3>2, <3>3, <3>4 DEF ClaimOps, Reversals, Postings
  <2>2. CASE msg' = msg
    BY <1>3, <2>2
  <2> QED
    BY <2>1, <2>2, Writers DEF RefundCommit, Settle
<1> QED
  BY <1>1, <1>2, <1>3, RecordsStay DEF KeysNamed

LEMMA OriginalsStep ==
  ASSUME GateInv, OriginalsStay, [Next]_vars
  PROVE  OriginalsStay'
<1> USE DEF GateInv, TypeInv, TypeOK, CallsType
<1>1. ASSUME NEW t \in Sessions, pc[t] = "rows", req[t].op \in Reversals
      PROVE  orig[t] = msg'[OriginalKey(req[t])]
  <2>1. OriginalFound(req[t]) /\ req[t] \in Requests
    BY <1>1 DEF Loaded, SessionsOK
  <2>2. OriginalKey(req[t]) \in MsgKeys
    BY <2>1, KeyType
  <2> QED
    BY <1>1, <2>1, <2>2, RecordsStay DEF OriginalsStay, OriginalFound
<1>2. ASSUME NEW s \in Sessions, End(s) PROVE OriginalsStay'
  BY <1>1, <1>2 DEF OriginalsStay, End, Go
<1>3. ASSUME NEW s \in Sessions, NEW r \in Requests, Call(s, r) PROVE OriginalsStay'
  BY <1>1, <1>3 DEF OriginalsStay, Call, Go
<1>4. ASSUME NEW s \in Sessions, LoadOriginal(s) PROVE OriginalsStay'
  BY <1>1, <1>4 DEF OriginalsStay, LoadOriginal, Go, tables
<1>5. ASSUME NEW s \in Sessions, Read(s) PROVE OriginalsStay'
  BY <1>1, <1>5 DEF OriginalsStay, Read, Go, Loaded
<1>6. ASSUME NEW s \in Sessions, Claim(s) PROVE OriginalsStay'
  <2>1. req[s].op \in Reversals => pc'[s] = "load"
    BY <1>6 DEF Claim, Go, AfterClaim
  <2> QED
    BY <1>1, <1>6, <2>1 DEF OriginalsStay, Claim, Go
<1>7. ASSUME NEW s \in Sessions, WithdrawLookup(s) \/ WithdrawInsert(s) \/ LockTrack(s) \/ Sweep(s)
      PROVE  OriginalsStay'
  BY <1>1, <1>7 DEF OriginalsStay, WithdrawLookup, WithdrawInsert, LockTrack, Sweep, Go
<1>8. CASE UNCHANGED <<pc, req, orig>>
  BY <1>1, <1>8 DEF OriginalsStay
<1> QED
  BY <1>2, <1>3, <1>4, <1>5, <1>6, <1>7, <1>8, ZenonT(60)
     DEF Next, Step, Duplicate, Commit, RefundCommit, AlreadyRefunded, Reject, Abort, LockRow,
         Refund, Skip, Settle, AddRestraint, ReleaseRestraint, UpdateStatus, sessions, vars

\* What is known of the payouts a session has done.
LEMMA DonePayouts ==
  ASSUME GateInv, NEW s \in Sessions, NEW e \in done[s] \cup work[s]
  PROVE  /\ e \in Exts /\ track[e] # None /\ track[e] \in Payouts /\ track[e].status = "OPEN"
         /\ track[e].by \in Requests /\ track[e].by.a \in Accounts
         /\ track[e].by.amt \in Nat /\ track[e].by.fee \in Nat
         /\ Taken[e] = track[e].by.amt + track[e].by.fee /\ Taken[e] \in Int
<1>1. e \in Exts /\ track[e] # None /\ track[e].status = "OPEN"
  BY DEF GateInv, TypeInv, TypeOK, CallsType, SessionsOK, Open
<1>2. track[e] \in Payouts
  BY <1>1 DEF GateInv, TypeInv, TypeOK, TablesType
<1>3. track[e].by \in Requests
  BY <1>2 DEF Payouts
<1>4. track[e].by.a \in Accounts /\ track[e].by.amt \in Nat /\ track[e].by.fee \in Nat
  BY <1>3, RequestsAssumption
<1> QED
  BY <1>1, <1>2, <1>3, <1>4 DEF Taken

\* What the payouts of a session took stays what it was as long as it does no
\* more of them.
LEMMA SumsStay ==
  ASSUME GateInv, RefundsSummed, [Next]_vars, NEW t \in Sessions,
         done'[t] = done[t], NEW a \in Accounts
  PROVE  SumFunctionOnSet(Taken', DoneFor(t, a)') = SumFunctionOnSet(Taken, DoneFor(t, a))
<1>1. \A e \in done[t] : e \in Exts /\ track'[e].by = track[e].by
  BY DonePayouts, TakersStay
<1>2. DoneFor(t, a)' = DoneFor(t, a)
  BY <1>1 DEF DoneFor
<1>3. IsFiniteSet(DoneFor(t, a))
  BY FS_Subset DEF DoneFor, RefundsSummed
<1>4. \A e \in DoneFor(t, a) : Taken'[e] = Taken[e]
  BY <1>1 DEF Taken, DoneFor
<1> QED
  BY <1>2, <1>3, <1>4, SumSame

\* The clauses of RefundsSummed for one session.
RefundOK(s) ==
  /\ pc[s] # "refund" => done[s] = {}
  /\ IsFiniteSet(done[s]) /\ work[s] \cap done[s] = {}
  /\ \A e \in done[s] : rowOwner[track[e].by.a] = s
  /\ \A a \in Accounts : pend[s].bal[a] = SumFunctionOnSet(Taken, DoneFor(s, a))

\* A session that keeps its refunds, and the rows of their wallets.
LEMMA RefundStays ==
  ASSUME GateInv, RefundsSummed, [Next]_vars, NEW t \in Sessions,
         done'[t] = done[t], pend'[t] = pend[t], work'[t] \subseteq work[t],
         pc'[t] # "refund" => pc[t] # "refund",
         \A a \in Accounts : rowOwner[a] = t => rowOwner'[a] = t
  PROVE  RefundOK(t)'
<1>1. \A e \in done[t] : track[e].by.a \in Accounts /\ e \in Exts /\ track'[e].by = track[e].by
  BY DonePayouts, TakersStay
<1>2. \A e \in done[t] : rowOwner'[track'[e].by.a] = t
  BY <1>1 DEF RefundsSummed
<1>3. \A a \in Accounts : pend'[t].bal[a] = SumFunctionOnSet(Taken', DoneFor(t, a)')
  BY SumsStay DEF RefundsSummed
<1> QED
  BY <1>2, <1>3 DEF RefundOK, RefundsSummed

LEMMA NothingRefunded ==
  ASSUME NEW t \in Sessions, done'[t] = {}, \A a \in Accounts : pend'[t].bal[a] = 0
  PROVE  RefundOK(t)'
<1>1. \A a \in Accounts : DoneFor(t, a)' = {}
  BY DEF DoneFor
<1>2. SumFunctionOnSet(Taken', {}) = 0 /\ IsFiniteSet({})
  BY SumEmpty, FS_EmptySet
<1> QED
  BY <1>1, <1>2 DEF RefundOK

LEMMA RefundsSummedStep ==
  ASSUME GateInv, RefundsSummed, [Next]_vars
  PROVE  RefundsSummed'
<1> SUFFICES ASSUME NEW t \in Sessions PROVE RefundOK(t)'
  BY DEF RefundsSummed, RefundOK
<1> USE DEF GateInv, TypeInv, TypeOK, CallsType, LocksType
<1>1. ASSUME NEW s \in Sessions, End(s) PROVE RefundOK(t)'
  <2>1. CASE t = s
    <3>1. done'[t] = {} /\ \A a \in Accounts : pend'[t].bal[a] = 0
      BY <1>1, <2>1 DEF End, NoLegs
    <3> QED
      BY <3>1, NothingRefunded
  <2>2. CASE t # s
    <3>1. /\ done'[t] = done[t] /\ pend'[t] = pend[t] /\ work'[t] = work[t] /\ pc'[t] = pc[t]
          /\ \A a \in Accounts : rowOwner[a] = t => rowOwner'[a] = t
      BY <1>1, <2>2 DEF End, Go, Freed
    <3> QED
      BY <3>1, RefundStays
  <2> QED
    BY <2>1, <2>2
<1>2. ASSUME NEW s \in Sessions, NEW e \in Exts, Refund(s, e) PROVE RefundOK(t)'
  <2>1. CASE t # s
    <3>1. /\ done'[t] = done[t] /\ pend'[t] = pend[t] /\ work'[t] = work[t] /\ pc'[t] = pc[t]
          /\ \A a \in Accounts : rowOwner[a] = t => rowOwner'[a] = t
      BY <1>2, <2>1, SessionsAssumption DEF Refund
    <3> QED
      BY <3>1, RefundStays
  <2>2. CASE t = s
    <3> DEFINE o == track[e].by
    <3>1. /\ e \in work[s] /\ rowOwner' = [rowOwner EXCEPT ![o.a] = s]
          /\ rowOwner[o.a] \in {None, s}
          /\ pend'[s] = Plus(pend[s], Legs("RVWD", o))
          /\ work'[s] = work[s] \ {e} /\ done'[s] = done[s] \cup {e}
          /\ track' = track /\ pc' = pc /\ pc[s] = "refund"
      BY <1>2 DEF Refund, IsNext, tables
    <3>2. /\ o.a \in Accounts /\ o.amt \in Nat /\ o.fee \in Nat
          /\ Taken[e] = o.amt + o.fee /\ Taken[e] \in Int
      BY <3>1, DonePayouts
    <3>3. e \notin done[s] /\ IsFiniteSet(done[s])
      BY <3>1 DEF RefundsSummed
    <3>4. IsFiniteSet(done'[s]) /\ work'[s] \cap done'[s] = {}
      <4>1. IsFiniteSet(done[s] \cup {e}) /\ work[s] \cap done[s] = {}
        BY <3>3, FS_AddElement DEF RefundsSummed
      <4> QED
        BY <3>1, <4>1
    <3>5. \A x \in done[s] : track[x].by.a \in Accounts /\ rowOwner[track[x].by.a] = s /\ Taken[x] \in Int
      BY DonePayouts DEF RefundsSummed
    <3>6. \A x \in done'[s] : rowOwner'[track'[x].by.a] = s
      BY <3>1, <3>2, <3>5
    <3>7. Taken' = Taken
      BY <3>1 DEF Taken
    <3>8. ASSUME NEW a \in Accounts
          PROVE  pend'[s].bal[a] = SumFunctionOnSet(Taken', DoneFor(s, a)')
      <4>1. pend[s].bal[a] = SumFunctionOnSet(Taken, DoneFor(s, a)) /\ pend[s].bal[a] \in Int
        BY DEF RefundsSummed, LegSet
      <4>2. pend'[s].bal[a] = pend[s].bal[a] + Legs("RVWD", o).bal[a]
        BY <3>1 DEF Plus
      <4>3. Legs("RVWD", o).bal[a] = IF a = o.a THEN o.amt + o.fee ELSE 0
        BY DEF Legs, WithdrawReversalLegs, On
      <4>4. CASE a = o.a
        <5>1. DoneFor(s, a)' = DoneFor(s, a) \cup {e}
          BY <3>1, <4>4 DEF DoneFor
        <5>2. IsFiniteSet(DoneFor(s, a)) /\ e \notin DoneFor(s, a)
          BY <3>3, FS_Subset DEF DoneFor
        <5>3. \A x \in DoneFor(s, a) \cup {e} : Taken[x] \in Int
          BY <3>2, <3>5 DEF DoneFor
        <5>4. SumFunctionOnSet(Taken, DoneFor(s, a) \cup {e})
                = Taken[e] + SumFunctionOnSet(Taken, DoneFor(s, a))
          BY <5>2, <5>3, SumAdd
        <5> QED
          BY <3>2, <3>7, <4>1, <4>2, <4>3, <4>4, <5>1, <5>4, SMTT(30)
      <4>5. CASE a # o.a
        <5>1. DoneFor(s, a)' = DoneFor(s, a)
          BY <3>1, <4>5 DEF DoneFor
        <5> QED
          BY <3>7, <4>1, <4>2, <4>3, <4>5, <5>1
      <4> QED
        BY <4>4, <4>5
    <3> QED
      BY <2>2, <3>1, <3>4, <3>6, <3>8 DEF RefundOK
  <2> QED
    BY <2>1, <2>2
<1>3. ASSUME NEW s \in Sessions, LockTrack(s) \/ Sweep(s) PROVE RefundOK(t)'
  <2>1. /\ done' = done /\ pend' = pend /\ rowOwner' = rowOwner
        /\ \A x \in Sessions : x # s => work'[x] = work[x] /\ pc'[x] = pc[x]
        /\ pc[s] # "refund"
    BY <1>3 DEF LockTrack, Sweep, Go
  <2>2. CASE t # s
    BY <2>1, <2>2, RefundStays
  <2>3. CASE t = s
    <3>1. done[s] = {} /\ \A a \in Accounts : pend[s].bal[a] = 0
      <4>1. done[s] = {} /\ \A a \in Accounts : pend[s].bal[a] = SumFunctionOnSet(Taken, DoneFor(s, a))
        BY <2>1 DEF RefundsSummed
      <4>2. \A a \in Accounts : DoneFor(s, a) = {}
        BY <4>1 DEF DoneFor
      <4> QED
        BY <4>1, <4>2, SumEmpty
    <3> QED
      BY <2>1, <2>3, <3>1, NothingRefunded
  <2> QED
    BY <2>2, <2>3
<1>4. ASSUME NEW s \in Sessions, NEW e \in Exts, Skip(s, e) PROVE RefundOK(t)'
  <2>1. /\ done' = done /\ pend' = pend /\ rowOwner' = rowOwner /\ pc' = pc
        /\ work'[t] \subseteq work[t]
    BY <1>4 DEF Skip, locks
  <2> QED
    BY <2>1, RefundStays
<1>5. ASSUME NEW s \in Sessions, LockRow(s) PROVE RefundOK(t)'
  <2>1. /\ done' = done /\ pend' = pend /\ pc' = pc /\ work' = work
        /\ \A a \in Accounts : rowOwner[a] = t => rowOwner'[a] = t
    BY <1>5, SessionsAssumption DEF LockRow, sessions
  <2> QED
    BY <2>1, RefundStays
<1>6. ASSUME UNCHANGED <<done, pend, work, rowOwner>>, pc'[t] # "refund" => pc[t] # "refund"
      PROVE  RefundOK(t)'
  BY <1>6, RefundStays
<1>7. ASSUME NEW s \in Sessions,
             \/ \E r \in Requests : Call(s, r)
             \/ Claim(s) \/ WithdrawLookup(s) \/ WithdrawInsert(s) \/ LoadOriginal(s) \/ Read(s)
      PROVE  RefundOK(t)'
  <2>1. UNCHANGED <<done, pend, work, rowOwner>> /\ (pc'[t] # "refund" => pc[t] # "refund")
    BY <1>7 DEF Call, Claim, WithdrawLookup, WithdrawInsert, LoadOriginal, Read, Go, locks
  <2> QED
    BY <1>6, <2>1
<1>8. CASE UNCHANGED <<done, pend, work, rowOwner, pc>>
  BY <1>6, <1>8
<1> QED
  BY <1>1, <1>2, <1>3, <1>4, <1>5, <1>7, <1>8, ZenonT(60)
     DEF Next, Step, Duplicate, Commit, RefundCommit, AlreadyRefunded, Reject, Abort,
         Settle, AddRestraint, ReleaseRestraint, UpdateStatus, sessions, locks, vars

LEMMA LedgerStep == LedgerInv /\ [Next]_vars => LedgerInv'
<1> SUFFICES ASSUME LedgerInv, [Next]_vars PROVE LedgerInv'
  OBVIOUS
<1>1. FreshInv /\ GateInv
  BY DEF LedgerInv, FreshInv, FundsInv
<1>2. FreshInv'
  BY <1>1, FreshInvStep
<1> QED
  BY <1>1, <1>2, ReversalsStep, BlockedStep, KeysNamedStep, OriginalsStep, RefundsSummedStep
     DEF LedgerInv

-----------------------------------------------------------------------------
(* The operators of the abstract Ledger are those of LedgerOps.             *)

LEMMA SameLegs == \A op, o : Abstract!Legs(op, o) = Legs(op, o)
  BY DEF Legs, TopupLegs, TransferLegs, WithdrawLegs, FeeChargeLegs, TopupReversalLegs,
         TransferReversalLegs, FeeChargeReversalLegs, WithdrawReversalLegs, On, OnBoth, GL,
         Vat, Net, RefundedNet,
         Abstract!Legs, Abstract!TopupLegs, Abstract!TransferLegs, Abstract!WithdrawLegs,
         Abstract!FeeChargeLegs, Abstract!TopupReversalLegs, Abstract!TransferReversalLegs,
         Abstract!FeeChargeReversalLegs, Abstract!WithdrawReversalLegs, Abstract!On,
         Abstract!OnBoth, Abstract!GL, Abstract!Vat, Abstract!Net, Abstract!RefundedNet

LEMMA SameAllowed ==
  \A op, o, row, held : Abstract!Allowed(op, o, row, held) <=> Allowed(op, o, row, held)
  BY DEF Allowed, TopupAllowed, TransferAllowed, WithdrawAllowed, FeeChargeAllowed,
         TopupReversalAllowed, TransferReversalAllowed, FeeChargeReversalAllowed,
         WithdrawReversalAllowed, DebitHeld, Available,
         Abstract!Allowed, Abstract!TopupAllowed, Abstract!TransferAllowed,
         Abstract!WithdrawAllowed, Abstract!FeeChargeAllowed, Abstract!TopupReversalAllowed,
         Abstract!TransferReversalAllowed, Abstract!FeeChargeReversalAllowed,
         Abstract!WithdrawReversalAllowed, Abstract!DebitHeld, Abstract!Available

LEMMA SameSum == \A f : Abstract!SumFunction(f) = SumFunction(f)
  BY DEF SumFunction, SumFunctionOnSet, FoldFunctionOnSet, MapThenFoldSet,
         Abstract!SumFunction, Abstract!SumFunctionOnSet, Abstract!FoldFunctionOnSet,
         Abstract!MapThenFoldSet

LEMMA SameKinds ==
  /\ Abstract!Reversals = Reversals
  /\ \A op : Abstract!OriginalOp(op) = OriginalOp(op)
  /\ \A a, S : Abstract!HoldsOn(a, S) = HoldsOn(a, S)
  BY DEF Reversals, OriginalOp, HoldsOn, Abstract!Reversals, Abstract!OriginalOp, Abstract!HoldsOn

\* A validation reads balance, restrained amount, credit block and status.
LEMMA AllowedReads ==
  ASSUME NEW op \in Ops, NEW o \in Requests, NEW row, NEW seen, NEW held,
         \A a \in Accounts : /\ seen[a].bal = row[a].bal /\ seen[a].restr = row[a].restr
                             /\ seen[a].status = row[a].status
                             /\ seen[a].crBlk <=> row[a].crBlk
  PROVE  Allowed(op, o, row, held) => Allowed(op, o, seen, held)
<1>1. o.a \in Accounts /\ o.b \in Accounts
  BY RequestsAssumption
<1> QED
  BY <1>1
     DEF Allowed, TopupAllowed, TransferAllowed, WithdrawAllowed, FeeChargeAllowed,
         TopupReversalAllowed, TransferReversalAllowed, FeeChargeReversalAllowed,
         WithdrawReversalAllowed, Available

-----------------------------------------------------------------------------
(* Every step is one of Ledger's, or none.                                  *)

\* What Ledger sees.
Wallet == [a \in Accounts |-> [bal |-> acct[a].bal, status |-> acct[a].status]]
PostedUnder == [f \in Refs |-> msg[<<"REF", f>>]]
Reversed == {f \in Refs : hist[<<"REVERSAL", f>>] > 0}
Payout == [e \in Exts |-> IF track[e] = None THEN None
                          ELSE [status |-> track[e].status, by |-> track[e].by]]

\* The row a procedure would see were it alone is the row as it is.
LEMMA RowShown ==
  ASSUME LedgerInv, NEW a \in Accounts
  PROVE  /\ Abstract!Row[a].bal = acct[a].bal /\ Abstract!Row[a].status = acct[a].status
         /\ Abstract!Row[a].restr = acct[a].restr
         /\ Abstract!Row[a].crBlk <=> acct[a].crBlk
<1>1. /\ acct[a].restr = Pledged[HoldsOn(a, active)]
      /\ acct[a].crBlk <=> \E h \in HoldsOn(a, active) : h.credit
  BY DEF LedgerInv, FreshInv, FundsInv, Summed, Blocked
<1>2. Abstract!Row[a] = [bal    |-> acct[a].bal,
                         status |-> acct[a].status,
                         restr  |-> Pledged[HoldsOn(a, active)],
                         crBlk  |-> \E h \in HoldsOn(a, active) : h.credit]
  BY SameKinds DEF Abstract!Row
<1> QED
  BY <1>1, <1>2

\* What a session installs moves the wallets by its legs.
LEMMA PostedMoves ==
  ASSUME GateInv, NEW s \in Sessions, NEW l \in LegSet, acct' = Posted(s, l),
         \A a \in Accounts : rowOwner[a] # s => l.bal[a] = 0
  PROVE  /\ Wallet' = [a \in Accounts |-> [Wallet[a] EXCEPT !.bal = @ + l.bal[a]]]
         /\ \A a \in Accounts : acct'[a].bal = acct[a].bal + l.bal[a]
<1>1. ASSUME NEW a \in Accounts
      PROVE  acct'[a].bal = acct[a].bal + l.bal[a] /\ acct'[a].status = acct[a].status
  <2>1. acct[a].bal \in Int /\ l.bal[a] \in Int
    BY DEF GateInv, TypeInv, TypeOK, TablesType, Rows, LegSet
  <2> QED
    BY <2>1 DEF Posted, Owned, WalletRow
<1>2. \A a \in Accounts : [Wallet[a] EXCEPT !.bal = @ + l.bal[a]]
                            = [bal |-> acct[a].bal + l.bal[a], status |-> acct[a].status]
  BY DEF Wallet
<1>3. Wallet' = [a \in Accounts |-> [bal |-> acct'[a].bal, status |-> acct'[a].status]]
  BY DEF Wallet
<1> QED
  BY <1>1, <1>2, <1>3

\* The legs of a call that commits are on wallets it has locked.
LEMMA LegsOwned ==
  ASSUME GateInv, NEW s \in Sessions, Commit(s), NEW a \in Accounts, rowOwner[a] # s
  PROVE  /\ Legs(req[s].op, orig[s]).bal[a] = 0 /\ Legs(req[s].op, orig[s]).liab[a] = 0
<1>1. a # orig[s].a /\ a # orig[s].b
  BY DEF Commit, Unlocked, Owned, Wallets
<1> QED
  BY <1>1
     DEF Legs, TopupLegs, TransferLegs, WithdrawLegs, FeeChargeLegs, TopupReversalLegs,
         TransferReversalLegs, FeeChargeReversalLegs, WithdrawReversalLegs, On, OnBoth

LEMMA InitShown == Init => Abstract!Init
<1> SUFFICES ASSUME Init PROVE Abstract!Init
  OBVIOUS
<1>1. Wallet = [a \in Accounts |-> [bal |-> Opening[a], status |-> "A"]]
  BY DEF Init, Wallet, WalletRow
<1>2. Reversed = {}
  BY DEF Init, Reversed, Effects
<1>3. PostedUnder = [f \in Refs |-> None]
  BY DEF Init, PostedUnder, MsgKeys
<1>4. Payout = [e \in Exts |-> None]
  BY DEF Init, Payout
<1>5. active = {}
  BY DEF Init
<1> QED
  BY <1>1, <1>2, <1>3, <1>4, <1>5 DEF Abstract!Init, Wallet, Reversed, PostedUnder, Payout

\* What a commit does to the wallets, and what Ledger asks of them.
LEMMA CommitShown ==
  ASSUME LedgerInv, NEW s \in Sessions, Commit(s)
  PROVE  /\ Abstract!Allowed(req[s].op, orig[s], Abstract!Row, active)
         /\ Wallet' = [a \in Accounts |->
                         [Wallet[a] EXCEPT !.bal = @ + Abstract!Legs(req[s].op, orig[s]).bal[a]]]
<1>1. /\ GateInv /\ FreshInv /\ orig[s] \in Requests /\ req[s] \in Requests /\ req[s].op \in Ops
  BY RequestsAssumption
     DEF LedgerInv, FreshInv, FundsInv, GateInv, TypeInv, SessionsOK, Commit
<1>2. Legs(req[s].op, orig[s]) \in LegSet
  BY <1>1, LegsType
<1>3. Wallet' = [a \in Accounts |-> [Wallet[a] EXCEPT !.bal = @ + Legs(req[s].op, orig[s]).bal[a]]]
  <2>1. acct' = Posted(s, Legs(req[s].op, orig[s]))
    BY DEF Commit
  <2>2. \A a \in Accounts : rowOwner[a] # s => Legs(req[s].op, orig[s]).bal[a] = 0
    BY <1>1, LegsOwned
  <2> QED
    BY <1>1, <1>2, <2>1, <2>2, PostedMoves
<1>5. Allowed(req[s].op, orig[s], acct, active)
  BY <1>1, AllowedAtCommit
<1>6. Allowed(req[s].op, orig[s], Abstract!Row, active)
  BY <1>1, <1>5, RowShown, AllowedReads
<1> QED
  BY <1>3, <1>6, SameLegs, SameAllowed

\* A posting finds its reference unused: a call that claims its key by the
\* gate, a withdrawal because a repeated one finds its payout.
LEMMA ReferenceNew ==
  ASSUME WithdrawalsRepeatExactly, LedgerInv, NEW s \in Sessions, Commit(s),
         req[s].op \in Postings
  PROVE  msg[<<"REF", req[s].ref>>] = None
<1> DEFINE r == req[s]
           q == msg[<<"REF", r.ref>>]
<1>1. GateInv /\ KeysNamed
  BY DEF LedgerInv, FreshInv, FundsInv
<1>2. /\ r \in Requests /\ r.ref \in Refs /\ r.op \in ClaimOps \cup {"WITHDRAW"}
      /\ r.op \in ClaimOps => msg[MsgKey(r)] = None
      /\ r.op = "WITHDRAW" => track[r.ext] = None
  BY <1>1, Committing
<1>3. MsgKey(r) = <<"REF", r.ref>> /\ <<"REF", r.ref>> \in MsgKeys
  BY <1>2 DEF MsgKey, Postings, Reversals, MsgKeys
<1>4. CASE r.op = "WITHDRAW"
  <2> SUFFICES ASSUME q # None PROVE FALSE
    OBVIOUS
  <2>1. q \in Requests
    BY <1>1, <1>3 DEF GateInv, TypeInv, TypeOK, TablesType
  <2>2. q.op \in Postings /\ q.ref = r.ref /\ (q.op = "WITHDRAW" => track[q.ext] # None)
    BY <1>1, <1>2 DEF KeysNamed
  <2>3. q = r
    BY <1>2, <1>4, <2>1, <2>2 DEF WithdrawalsRepeatExactly
  <2> QED
    BY <1>2, <1>4, <2>2, <2>3
<1>5. CASE r.op # "WITHDRAW"
  BY <1>2, <1>3, <1>5
<1> QED
  BY <1>4, <1>5

LEMMA PostingPosts ==
  ASSUME WithdrawalsRepeatExactly, LedgerInv, NEW s \in Sessions, Commit(s),
         NEW r, r = req[s], r.op \in Postings
  PROVE  Abstract!Post(r)
<1>1. /\ GateInv /\ msg \in [MsgKeys -> Requests \cup {None}] /\ track \in [Exts -> Payouts \cup {None}]
      /\ \A f \in Refs : hist[<<"REVERSAL", f>>] \in Nat
  BY DEF LedgerInv, FreshInv, FundsInv, GateInv, TypeInv, TypeOK, TablesType, Effects
<1>2. /\ r \in Requests /\ r.ref \in Refs /\ r.ext \in Exts
      /\ msg' = [msg EXCEPT ![MsgKey(r)] = IF @ = None THEN r ELSE @]
      /\ active' = active
  BY <1>1, Committing DEF Commit
<1>3. orig[s] = r
  <2>1. r.op \notin Reversals /\ pc[s] = "rows"
    BY DEF Postings, Reversals, Commit
  <2> QED
    BY <2>1 DEF LedgerInv, FreshInv, FundsInv, CallsInv, OwnRequest
<1>4. MsgKey(r) = <<"REF", r.ref>> /\ msg[<<"REF", r.ref>>] = None
  BY ReferenceNew DEF MsgKey, Postings, Reversals
<1>5. PostedUnder' = [PostedUnder EXCEPT ![r.ref] = r]
  <2>1. \A f \in Refs : <<"REF", f>> \in MsgKeys /\ (<<"REF", f>> = <<"REF", r.ref>> => f = r.ref)
    BY DEF MsgKeys
  <2>2. \A f \in Refs : msg'[<<"REF", f>>] = IF f = r.ref THEN r ELSE msg[<<"REF", f>>]
    BY <1>1, <1>2, <1>4, <2>1
  <2> QED
    BY <1>2, <2>2 DEF PostedUnder
<1>6. Reversed' = Reversed
  <2>1. \A f \in Refs : hist'[<<"REVERSAL", f>>] = hist[<<"REVERSAL", f>>]
    BY <1>1, Journal DEF Postings, Reversals
  <2> QED
    BY <2>1 DEF Reversed
<1>7. PostedUnder[r.ref] = None
  BY <1>2, <1>4 DEF PostedUnder
<1>8. IF r.op = "WITHDRAW"
      THEN /\ Payout[r.ext] = None
           /\ Payout' = [Payout EXCEPT ![r.ext] = [status |-> "OPEN", by |-> r]]
      ELSE Payout' = Payout
  <2>1. CASE r.op = "WITHDRAW"
    <3> DEFINE new == [status |-> "OPEN", by |-> r, due |-> clock]
    <3>1. track[r.ext] = None /\ track' = [track EXCEPT ![r.ext] = new]
      BY <2>1 DEF Commit, Passes
    <3>2. track'[r.ext] = new /\ track'[r.ext] # None
      BY <1>1, <1>2, <2>1, <3>1, Committing
    <3>3. \A e \in Exts : e # r.ext => track'[e] = track[e]
      BY <1>1, <3>1
    <3>4. Payout'[r.ext] = [status |-> "OPEN", by |-> r]
      BY <1>2, <3>2 DEF Payout
    <3>5. \A e \in Exts : e # r.ext => Payout'[e] = Payout[e]
      BY <3>3 DEF Payout
    <3> QED
      BY <1>2, <2>1, <3>1, <3>4, <3>5 DEF Payout
  <2>2. CASE r.op # "WITHDRAW"
    BY <2>2 DEF Commit, Payout
  <2> QED
    BY <2>1, <2>2
<1>9. /\ Abstract!Allowed(r.op, r, Abstract!Row, active)
      /\ Wallet' = [a \in Accounts |-> [Wallet[a] EXCEPT !.bal = @ + Abstract!Legs(r.op, r).bal[a]]]
  BY <1>3, CommitShown
<1> QED
  BY <1>2, <1>5, <1>6, <1>7, <1>8, <1>9
     DEF Abstract!Post, Abstract!Moves, Wallet, Postings, PostedUnder, Reversed, Payout

LEMMA ReversalReverses ==
  ASSUME LedgerInv, NEW s \in Sessions, Commit(s),
         NEW r, r = req[s], r.op \in Reversals
  PROVE  Abstract!Reverse(r)
<1>1. /\ GateInv /\ msg \in [MsgKeys -> Requests \cup {None}] /\ ReversalsCounted
      /\ \A f \in Refs : hist[<<"REVERSAL", f>>] \in Nat
  BY DEF LedgerInv, FreshInv, FundsInv, GateInv, TypeInv, TypeOK, TablesType, Effects
<1>2. /\ r \in Requests /\ r.ref \in Refs /\ OriginalFound(r) /\ r.op \in ClaimOps
      /\ msg' = [msg EXCEPT ![MsgKey(r)] = IF @ = None THEN r ELSE @]
      /\ msg[MsgKey(r)] = None /\ MsgKey(r) = <<r.op, Stem[r.ref]>>
      /\ active' = active
  BY <1>1, Committing DEF Commit, MsgKey, ClaimOps, Reversals
<1>3. orig[s] = PostedUnder[r.ref]
  <2>1. orig[s] = msg[OriginalKey(r)]
    BY DEF LedgerInv, OriginalsStay, Commit
  <2> QED
    BY <1>2, <2>1 DEF OriginalKey, PostedUnder
<1>4. orig[s] # None /\ orig[s].op = OriginalOp(r.op)
  BY <1>2, <1>3 DEF OriginalFound, OriginalKey, PostedUnder
<1>5. PostedUnder' = PostedUnder
  <2>1. \A f \in Refs : MsgKey(r) # <<"REF", f>>
    BY <1>2 DEF Reversals
  <2>2. \A f \in Refs : <<"REF", f>> \in MsgKeys
    BY DEF MsgKeys
  <2> QED
    BY <1>1, <1>2, <2>1, <2>2 DEF PostedUnder
<1>6. r.ref \notin Reversed
  <2> SUFFICES ASSUME hist[<<"REVERSAL", r.ref>>] > 0 PROVE FALSE
    BY DEF Reversed
  <2>1. PICK op \in Reversals : /\ msg[<<"REF", r.ref>>].op = OriginalOp(op)
                                /\ msg[<<op, Stem[r.ref]>>] # None
    BY <1>1, <1>2 DEF ReversalsCounted, ReversalUsed
  <2>2. OriginalOp(op) = OriginalOp(r.op)
    BY <1>2, <1>3, <1>4, <2>1 DEF PostedUnder
  <2>3. op = r.op
    BY <2>2 DEF OriginalOp, Reversals
  <2> QED
    BY <1>2, <2>1, <2>3
<1>7. Reversed' = Reversed \cup {r.ref}
  <2>1. r.op \notin Postings
    BY DEF Reversals, Postings
  <2>2. \A f \in Refs : hist'[<<"REVERSAL", f>>] =
          IF f = r.ref THEN hist[<<"REVERSAL", f>>] + 1 ELSE hist[<<"REVERSAL", f>>]
    BY <1>1, <2>1, Journal
  <2>3. hist'[<<"REVERSAL", r.ref>>] > 0
    BY <1>1, <1>2, <2>2
  <2> QED
    BY <1>2, <2>2, <2>3 DEF Reversed
<1>8. Payout' = Payout
  <2>1. track' = track
    BY DEF Commit, Reversals
  <2> QED
    BY <2>1 DEF Payout
<1>9. /\ Abstract!Allowed(r.op, PostedUnder[r.ref], Abstract!Row, active)
      /\ Wallet' = [a \in Accounts |->
                      [Wallet[a] EXCEPT !.bal = @ + Abstract!Legs(r.op, PostedUnder[r.ref]).bal[a]]]
  BY <1>3, CommitShown
<1>10. PostedUnder[r.ref] # None /\ PostedUnder[r.ref].op = Abstract!OriginalOp(r.op)
  BY <1>3, <1>4, SameKinds
<1>11. r.op \in Abstract!Reversals
  BY SameKinds
<1> QED
  BY <1>2, <1>5, <1>6, <1>7, <1>8, <1>9, <1>10, <1>11
     DEF Abstract!Reverse, Abstract!Moves, Wallet, PostedUnder, Reversed, Payout

\* The refund of a batch: what its legs give a wallet is what the batch's
\* withdrawals from it took.
LEMMA BatchSums ==
  ASSUME LedgerInv, NEW s \in Sessions, NEW a \in Accounts
  PROVE  pend[s].bal[a] =
           Abstract!SumFunction([e \in {x \in done[s] : Payout[x].by.a = a} |->
                                   Payout[e].by.amt + Payout[e].by.fee])
<1> DEFINE back == {x \in done[s] : Payout[x].by.a = a}
           amounts == [e \in back |-> Payout[e].by.amt + Payout[e].by.fee]
<1>1. GateInv /\ RefundsSummed
  BY DEF LedgerInv, FreshInv, FundsInv
<1>2. \A e \in done[s] : Payout[e].by = track[e].by /\ Taken[e] = track[e].by.amt + track[e].by.fee
  BY <1>1, DonePayouts DEF Payout
<1>3. back = DoneFor(s, a)
  BY <1>2 DEF DoneFor
<1>4. IsFiniteSet(DoneFor(s, a))
  BY <1>1, FS_Subset DEF RefundsSummed, DoneFor
<1>5. \A e \in DoneFor(s, a) : amounts[e] = Taken[e]
  BY <1>2, <1>3 DEF DoneFor
<1>6. DOMAIN amounts = DoneFor(s, a)
  BY <1>3
<1> HIDE DEF amounts
<1>7. Abstract!SumFunction(amounts) = SumFunctionOnSet(amounts, DoneFor(s, a))
  BY <1>6, SameSum DEF SumFunction
<1>8. SumFunctionOnSet(amounts, DoneFor(s, a)) = SumFunctionOnSet(Taken, DoneFor(s, a))
  BY <1>4, <1>5, SumSame
<1>9. pend[s].bal[a] = Abstract!SumFunction(amounts)
  BY <1>1, <1>7, <1>8 DEF RefundsSummed
<1> QED
  BY <1>9 DEF amounts

LEMMA BatchRefunds ==
  ASSUME LedgerInv, NEW s \in Sessions, RefundCommit(s), NEW E, E = done[s]
  PROVE  Abstract!RefundAll(E)
<1>1. /\ GateInv /\ RefundsSummed /\ RefundsNamed /\ pend[s] \in LegSet /\ done[s] \subseteq Exts
      /\ hist \in [Effects -> Nat] /\ track \in [Exts -> Payouts \cup {None}]
  BY DEF LedgerInv, FreshInv, FundsInv, GateInv, TypeInv, TypeOK, TablesType, CallsType
<1>2. ASSUME NEW a \in Accounts, rowOwner[a] # s PROVE pend[s].bal[a] = 0
  BY <1>1, <1>2 DEF RefundsNamed, RefundsSummed
<1>3. Wallet' = [a \in Accounts |-> [Wallet[a] EXCEPT !.bal = @ + pend[s].bal[a]]]
  <2>1. acct' = Posted(s, pend[s])
    BY DEF RefundCommit
  <2> QED
    BY <1>1, <1>2, <2>1, PostedMoves
<1>4. Wallet' = [a \in Accounts |->
        [Wallet[a] EXCEPT !.bal = @ +
           Abstract!SumFunction([e \in {x \in done[s] : Payout[x].by.a = a} |->
                                   Payout[e].by.amt + Payout[e].by.fee])]]
  BY <1>3, BatchSums
<1>5. \A e \in done[s] : Payout[e] # None /\ Payout[e].status = "OPEN"
  <2> SUFFICES ASSUME NEW e \in done[s] PROVE Payout[e] # None /\ Payout[e].status = "OPEN"
    OBVIOUS
  <2>1. e \in Exts /\ track[e] # None /\ track[e] \in Payouts /\ track[e].status = "OPEN"
    BY <1>1, DonePayouts
  <2>2. Payout[e] = [status |-> "OPEN", by |-> track[e].by]
    BY <2>1 DEF Payout
  <2> QED
    BY <2>1, <2>2, PayoutsAssumption DEF PayoutsSeen, PayoutStatuses, Payouts
<1>6. Payout' = [e \in Exts |-> IF e \in done[s] THEN [Payout[e] EXCEPT !.status = "REVERSED"]
                               ELSE Payout[e]]
  <2>1. ASSUME NEW e \in done[s]
        PROVE  Payout'[e] = [Payout[e] EXCEPT !.status = "REVERSED"]
    <3>1. e \in Exts /\ track[e] # None /\ track[e] \in Payouts
      BY <1>1, DonePayouts
    <3>2. track'[e] = [track[e] EXCEPT !.status = "REVERSED"]
      BY <3>1 DEF RefundCommit
    <3>3. track'[e] # None /\ track'[e].status = "REVERSED" /\ track'[e].by = track[e].by
      BY <3>1, <3>2, Closing DEF PayoutStatuses, Payouts
    <3> QED
      BY <3>1, <3>3 DEF Payout
  <2>2. ASSUME NEW e \in Exts, e \notin done[s] PROVE Payout'[e] = Payout[e]
    BY <2>2 DEF Payout, RefundCommit
  <2> QED
    BY <1>1, <2>1, <2>2, ZenonT(60) DEF Payout
<1>7. PostedUnder' = PostedUnder /\ active' = active
  BY DEF RefundCommit, PostedUnder
<1>8. Reversed' = Reversed
  <2>1. \A f \in Refs : <<"REVERSAL", f>> \in Effects
    BY DEF Effects
  <2>2. \A f \in Refs : hist'[<<"REVERSAL", f>>] = hist[<<"REVERSAL", f>>]
    BY <2>1 DEF RefundCommit
  <2> QED
    BY <2>2 DEF Reversed
<1> QED
  BY <1>4, <1>5, <1>6, <1>7, <1>8
     DEF Abstract!RefundAll, Wallet, PostedUnder, Reversed, Payout

LEMMA SettleCompletes ==
  ASSUME LedgerInv, NEW e \in Exts, Settle(e)
  PROVE  Abstract!Complete(e)
<1>1. track \in [Exts -> Payouts \cup {None}]
  BY DEF LedgerInv, FreshInv, FundsInv, GateInv, TypeInv, TypeOK, TablesType
<1>2. /\ track[e] # None /\ track[e] \in Payouts /\ track[e].status = "OPEN"
      /\ track' = [track EXCEPT ![e] = [track[e] EXCEPT !.status = "COMPLETED"]]
  BY <1>1 DEF Settle, Open
<1>3. track'[e] # None /\ track'[e].status = "COMPLETED" /\ track'[e].by = track[e].by
  BY <1>1, <1>2, Closing DEF PayoutStatuses, Payouts
<1>4. Payout[e] = [status |-> "OPEN", by |-> track[e].by] /\ Payout[e] # None
  BY <1>2, PayoutsAssumption DEF Payout, PayoutsSeen, PayoutStatuses, Payouts
<1>5. Payout' = [Payout EXCEPT ![e].status = "COMPLETED"]
  <2>1. Payout'[e] = [Payout[e] EXCEPT !.status = "COMPLETED"]
    BY <1>3, <1>4 DEF Payout
  <2>2. \A x \in Exts : x # e => Payout'[x] = Payout[x]
    BY <1>1, <1>2 DEF Payout
  <2> QED
    BY <2>1, <2>2 DEF Payout
<1>6. UNCHANGED <<Wallet, active, PostedUnder, Reversed>>
  BY DEF Settle, Wallet, PostedUnder, Reversed
<1> QED
  BY <1>4, <1>5, <1>6 DEF Abstract!Complete, Wallet, PostedUnder, Reversed, Payout

\* The restraints and the status change what Ledger sees of one wallet.
LEMMA RestraintHolds ==
  ASSUME LedgerInv, NEW h \in Holds, AddRestraint(h)
  PROVE  Abstract!Hold(h)
<1>1. h.acct \in Accounts /\ acct \in [Accounts -> Rows]
  BY HoldsAssumption DEF LedgerInv, FreshInv, FundsInv, GateInv, TypeInv, TypeOK, TablesType
<1>2. \A a \in Accounts : acct'[a].bal = acct[a].bal /\ acct'[a].status = acct[a].status
  BY <1>1 DEF AddRestraint, WalletRow
<1>3. Wallet' = Wallet
  BY <1>2 DEF Wallet
<1>4. /\ h \notin active /\ active' = active \cup {h}
      /\ acct[h.acct].status # "C"
      /\ acct[h.acct].restr + (IF h.debit THEN h.pledge ELSE 0) <= acct[h.acct].bal
      /\ UNCHANGED <<PostedUnder, Reversed, Payout>>
  BY DEF AddRestraint, PostedUnder, Reversed, Payout
<1>5. Wallet[h.acct].status # "C"
  BY <1>1, <1>4 DEF Wallet
<1>6. Abstract!Row[h.acct].restr + (IF h.debit THEN h.pledge ELSE 0) <= Abstract!Row[h.acct].bal
  BY <1>1, <1>4, RowShown
<1> QED
  BY <1>3, <1>4, <1>5, <1>6 DEF Abstract!Hold, Wallet, PostedUnder, Reversed, Payout

LEMMA RestraintReleases ==
  ASSUME LedgerInv, NEW h \in Holds, ReleaseRestraint(h)
  PROVE  Abstract!Release(h)
<1>1. h.acct \in Accounts /\ acct \in [Accounts -> Rows]
  BY HoldsAssumption DEF LedgerInv, FreshInv, FundsInv, GateInv, TypeInv, TypeOK, TablesType
<1>2. \A a \in Accounts : acct'[a].bal = acct[a].bal /\ acct'[a].status = acct[a].status
  BY <1>1 DEF ReleaseRestraint, WalletRow
<1>3. UNCHANGED <<Wallet, PostedUnder, Reversed, Payout>>
  BY <1>2 DEF ReleaseRestraint, Wallet, PostedUnder, Reversed, Payout
<1> QED
  BY <1>3 DEF ReleaseRestraint, Abstract!Release, Wallet, PostedUnder, Reversed, Payout

LEMMA StatusSet ==
  ASSUME LedgerInv, NEW a \in Accounts, NEW new \in Statuses, UpdateStatus(a, new)
  PROVE  Abstract!SetStatus(a, new)
<1>1. acct \in [Accounts -> Rows]
  BY DEF LedgerInv, FreshInv, FundsInv, GateInv, TypeInv, TypeOK, TablesType
<1>2. \A b \in Accounts : /\ acct'[b].bal = acct[b].bal
                          /\ acct'[b].status = IF b = a THEN new ELSE acct[b].status
  BY <1>1 DEF UpdateStatus, WalletRow
<1>3. Wallet' = [Wallet EXCEPT ![a].status = new]
  <2>1. Wallet'[a] = [Wallet[a] EXCEPT !.status = new]
    BY <1>2 DEF Wallet
  <2>2. \A b \in Accounts : b # a => Wallet'[b] = Wallet[b]
    BY <1>2 DEF Wallet
  <2> QED
    BY <2>1, <2>2 DEF Wallet
<1>4. Wallet[a].status # "C" /\ (new = "C" => Wallet[a].bal = 0)
  BY DEF UpdateStatus, Wallet
<1>5. UNCHANGED <<active, PostedUnder, Reversed, Payout>>
  BY DEF UpdateStatus, PostedUnder, Reversed, Payout
<1> QED
  BY <1>3, <1>4, <1>5 DEF Abstract!SetStatus, Wallet, PostedUnder, Reversed, Payout

LEMMA StepShown ==
  ASSUME WithdrawalsRepeatExactly, LedgerInv, [Next]_vars
  PROVE  [Abstract!Next]_(Abstract!vars)
<1>1. ASSUME NEW s \in Sessions, Commit(s) PROVE Abstract!Next
  <2>1. req[s] \in Requests /\ (req[s].op \in Postings \/ req[s].op \in Reversals)
    BY <1>1, Committing, Journal DEF LedgerInv, FreshInv, FundsInv
  <2>2. PICK r \in Requests : r = req[s]
    BY <2>1
  <2>3. Abstract!Post(r) \/ Abstract!Reverse(r)
    BY <1>1, <2>1, <2>2, PostingPosts, ReversalReverses
  <2> QED
    BY <2>3 DEF Abstract!Next
<1>2. ASSUME NEW s \in Sessions, RefundCommit(s) PROVE Abstract!Next
  <2>1. done[s] \in SUBSET Exts
    BY DEF LedgerInv, FreshInv, FundsInv, GateInv, TypeInv, TypeOK, CallsType
  <2>2. PICK E \in SUBSET Exts : E = done[s]
    BY <2>1
  <2>3. Abstract!RefundAll(E)
    BY <1>2, <2>2, BatchRefunds
  <2> QED
    BY <2>3 DEF Abstract!Next
<1>3. ASSUME NEW e \in Exts, Settle(e) PROVE Abstract!Next
  BY <1>3, SettleCompletes DEF Abstract!Next
<1>4. ASSUME NEW h \in Holds, AddRestraint(h) PROVE Abstract!Next
  BY <1>4, RestraintHolds DEF Abstract!Next
<1>5. ASSUME NEW h \in Holds, ReleaseRestraint(h) PROVE Abstract!Next
  BY <1>5, RestraintReleases DEF Abstract!Next
<1>6. ASSUME NEW a \in Accounts, NEW new \in Statuses, UpdateStatus(a, new) PROVE Abstract!Next
  BY <1>6, StatusSet DEF Abstract!Next, Statuses
<1>7. CASE UNCHANGED <<acct, active, msg, track, hist>>
  BY <1>7 DEF Abstract!vars
<1> QED
  BY <1>1, <1>2, <1>3, <1>4, <1>5, <1>6, <1>7, ZenonT(60)
     DEF Next, Step, Call, Skip, Sweep, Claim, Duplicate, WithdrawLookup, WithdrawInsert,
         LoadOriginal, Read, LockRow, LockTrack, AlreadyRefunded, Refund, Reject, Abort,
         vars, tables

\* Serialisability: if withdrawals are repeated only as they came, what the
\* sessions commit - in whatever order they read, wait, fail and retry - could
\* have happened one call at a time, each validated and applied at one instant.
THEOREM LedgerImplemented ==
  ASSUME WithdrawalsRepeatExactly
  PROVE  Spec => ImplementsLedger
<1>1. LedgerInv /\ [Next]_vars => [Abstract!Next]_(Abstract!vars)
  BY StepShown
<1>2. Spec => []LedgerInv
  BY LedgerInit, LedgerStep, PTL DEF Spec
<1> QED
  BY <1>1, <1>2, InitShown, PTL DEF Spec, ImplementsLedger, Abstract!Spec

-----------------------------------------------------------------------------
(* The books.                                                               *)

LEMMA SumOn ==
  ASSUME NEW a \in Accounts, NEW x \in Int
  PROVE  SumFunction(On(a, x)) = x
<1>1. DOMAIN On(a, x) = Accounts /\ On(a, x)[a] = x /\ \A c \in Accounts \ {a} : On(a, x)[c] = 0
  BY DEF On
<1>2. SumFunctionOnSet(On(a, x), Accounts) = On(a, x)[a]
  BY <1>1, AccountsFinite, SumAt
<1> QED
  BY <1>1, <1>2 DEF SumFunction

LEMMA SumOnBoth ==
  ASSUME NEW a \in Accounts, NEW b \in Accounts, a # b, NEW x \in Int, NEW y \in Int
  PROVE  SumFunction(OnBoth(a, x, b, y)) = x + y
<1> DEFINE f == OnBoth(a, x, b, y)
<1>1. /\ DOMAIN f = Accounts
      /\ \A c \in Accounts : f[c] = On(a, x)[c] + On(b, y)[c] /\ On(a, x)[c] \in Int /\ On(b, y)[c] \in Int
  BY DEF OnBoth, On
<1>2. SumFunctionOnSet(f, Accounts)
        = SumFunctionOnSet(On(a, x), Accounts) + SumFunctionOnSet(On(b, y), Accounts)
  BY <1>1, AccountsFinite, SumPlus
<1>3. DOMAIN On(a, x) = Accounts /\ DOMAIN On(b, y) = Accounts
  BY DEF On
<1> HIDE DEF f
<1>4. SumFunction(f) = SumFunction(On(a, x)) + SumFunction(On(b, y))
  BY <1>1, <1>2, <1>3 DEF SumFunction
<1> QED
  BY <1>4, SumOn DEF f

LEMMA CodesFinite == IsFiniteSet(GLCodes)
<1>1. IsFiniteSet({"FEE"})
  BY FS_Singleton
<1>2. IsFiniteSet({"FEE"} \cup {"VAT"})
  BY <1>1, FS_AddElement
<1>3. IsFiniteSet(({"FEE"} \cup {"VAT"}) \cup {"NOSTRO"})
  BY <1>2, FS_AddElement
<1>4. GLCodes = ({"FEE"} \cup {"VAT"}) \cup {"NOSTRO"}
  BY DEF GLCodes
<1> QED
  BY <1>3, <1>4

\* A sum over the three GL accounts, written out.
LEMMA SumCodes ==
  ASSUME NEW f, f["NOSTRO"] \in Int, f["FEE"] \in Int, f["VAT"] \in Int
  PROVE  SumFunctionOnSet(f, GLCodes) = f["NOSTRO"] + f["FEE"] + f["VAT"]
<1>1. /\ GLCodes \ {"NOSTRO"} = {"FEE", "VAT"}
      /\ {"FEE", "VAT"} \ {"FEE"} = {"VAT"}
      /\ {"VAT"} \ {"VAT"} = {}
  BY DEF GLCodes
<1>2. IsFiniteSet({"FEE", "VAT"}) /\ IsFiniteSet({"VAT"})
  BY CodesFinite, FS_Subset DEF GLCodes
<1>3. \A c \in GLCodes : f[c] \in Int
  BY DEF GLCodes
<1>4. SumFunctionOnSet(f, GLCodes) = f["NOSTRO"] + SumFunctionOnSet(f, {"FEE", "VAT"})
  <2>1. "NOSTRO" \in GLCodes
    BY DEF GLCodes
  <2> QED
    BY <1>1, <1>3, <2>1, CodesFinite, SumTakeOut
<1>5. SumFunctionOnSet(f, {"FEE", "VAT"}) = f["FEE"] + SumFunctionOnSet(f, {"VAT"})
  <2>1. "FEE" \in {"FEE", "VAT"} /\ \A c \in {"FEE", "VAT"} : f[c] \in Int
    OBVIOUS
  <2> QED
    BY <1>1, <1>2, <2>1, SumTakeOut
<1>6. SumFunctionOnSet(f, {"VAT"}) = f["VAT"]
  BY <1>2, SumAt
<1> QED
  BY <1>4, <1>5, <1>6

LEMMA SumGL ==
  ASSUME NEW x \in Int, NEW y \in Int, NEW z \in Int
  PROVE  SumFunction(GL(x, y, z)) = x + y + z
<1>1. /\ DOMAIN GL(x, y, z) = GLCodes
      /\ GL(x, y, z)["NOSTRO"] = x /\ GL(x, y, z)["FEE"] = y /\ GL(x, y, z)["VAT"] = z
  BY DEF GL, GLCodes
<1>2. SumFunctionOnSet(GL(x, y, z), GLCodes) = x + y + z
  BY <1>1, SumCodes
<1> QED
  BY <1>1, <1>2 DEF SumFunction

LEMMA NoLegsSum == Mirrored(NoLegs) /\ Sums(NoLegs)
<1>1. SumFunction(NoLegs.liab) = 0
  <2>1. DOMAIN NoLegs.liab = Accounts /\ \A c \in Accounts : NoLegs.liab[c] = 0
    BY DEF NoLegs
  <2> QED
    BY <2>1, AccountsFinite, SumZero DEF SumFunction
<1>2. SumFunction(NoLegs.gl) = 0
  BY SumGL DEF NoLegs
<1>3. \A c \in Accounts : NoLegs.bal[c] = 0 /\ NoLegs.liab[c] = 0
  BY DEF NoLegs
<1>4. Mirrored(NoLegs)
  BY <1>3 DEF Mirrored
<1> HIDE DEF NoLegs
<1>5. Sums(NoLegs)
  BY <1>1, <1>2 DEF Sums
<1> QED
  BY <1>4, <1>5

\* Every batch of legs balances, the ones of a refund because VAT and net
\* amount, rounded one by one, are the fee again.
LEMMA LegsBalance ==
  ASSUME NEW op \in Ops, NEW o \in Requests, op \in {"TRANSFER", "RVTRF"} => o.a # o.b
  PROVE  Mirrored(Legs(op, o)) /\ Sums(Legs(op, o))
<1>1. /\ o.a \in Accounts /\ o.b \in Accounts /\ o.amt \in Nat /\ o.fee \in Nat
      /\ -o.amt \in Int /\ o.amt + o.fee \in Int /\ -(o.amt + o.fee) \in Int
  BY RequestsAssumption
<1>2. /\ Vat(o.fee) \in Int /\ Net(o.fee) \in Int /\ RefundedNet(o.fee) \in Int
      /\ Vat(o.amt) \in Int /\ Net(o.amt) \in Int
  BY <1>1, VatType
<1>3. /\ Net(o.fee) + Vat(o.fee) = o.fee /\ Net(o.amt) + Vat(o.amt) = o.amt
      /\ RefundedNet(o.fee) + Vat(o.fee) = o.fee
  BY <1>1, <1>2, RefundedFeeBalances DEF Net
<1>4. Mirrored(Legs(op, o))
  BY <1>1
     DEF Mirrored, Legs, TopupLegs, TransferLegs, WithdrawLegs, FeeChargeLegs, TopupReversalLegs,
         TransferReversalLegs, FeeChargeReversalLegs, WithdrawReversalLegs, On, OnBoth
<1>5. Sums(Legs(op, o))
  <2>1. CASE op = "TOPUP"
    <3>1. SumFunction(On(o.a, -o.amt)) = -o.amt
      BY <1>1, SumOn
    <3>2. SumFunction(GL(o.amt, 0, 0)) = o.amt + 0 + 0
      <4>1. o.amt \in Int /\ 0 \in Int
        BY <1>1
      <4> QED
        BY <4>1, SumGL
    <3>3. -o.amt + (o.amt + 0 + 0) = 0
      BY <1>1
    <3> QED
      BY <2>1, <3>1, <3>2, <3>3 DEF Sums, Legs, TopupLegs
  <2>2. CASE op = "TRANSFER"
    <3>1. SumFunction(OnBoth(o.a, o.amt + o.fee, o.b, -o.amt)) = o.amt + o.fee + -o.amt
      BY <1>1, <2>2, SumOnBoth
    <3>2. -Net(o.fee) \in Int /\ -Vat(o.fee) \in Int
      BY <1>2
    <3>3. SumFunction(GL(0, -Net(o.fee), -Vat(o.fee))) = 0 + -Net(o.fee) + -Vat(o.fee)
      BY <3>2, SumGL
    <3>4. (o.amt + o.fee + -o.amt) + (0 + -Net(o.fee) + -Vat(o.fee)) = 0
      BY <1>1, <1>2, <1>3
    <3> QED
      BY <2>2, <3>1, <3>3, <3>4 DEF Sums, Legs, TransferLegs
  <2>3. CASE op = "WITHDRAW"
    <3>1. SumFunction(On(o.a, o.amt + o.fee)) = o.amt + o.fee
      BY <1>1, SumOn
    <3>2. -Net(o.fee) \in Int /\ -Vat(o.fee) \in Int
      BY <1>2
    <3>3. SumFunction(GL(-o.amt, -Net(o.fee), -Vat(o.fee))) = -o.amt + -Net(o.fee) + -Vat(o.fee)
      BY <1>1, <3>2, SumGL
    <3>4. (o.amt + o.fee) + (-o.amt + -Net(o.fee) + -Vat(o.fee)) = 0
      BY <1>1, <1>2, <1>3
    <3> QED
      BY <2>3, <3>1, <3>3, <3>4 DEF Sums, Legs, WithdrawLegs
  <2>4. CASE op = "FEE"
    <3>1. SumFunction(On(o.a, o.amt)) = o.amt
      BY <1>1, SumOn
    <3>2. -Net(o.amt) \in Int /\ -Vat(o.amt) \in Int
      BY <1>2
    <3>3. SumFunction(GL(0, -Net(o.amt), -Vat(o.amt))) = 0 + -Net(o.amt) + -Vat(o.amt)
      BY <3>2, SumGL
    <3>4. o.amt + (0 + -Net(o.amt) + -Vat(o.amt)) = 0
      BY <1>1, <1>2, <1>3
    <3> QED
      BY <2>4, <3>1, <3>3, <3>4 DEF Sums, Legs, FeeChargeLegs
  <2>5. CASE op = "RVTPUP"
    <3>1. SumFunction(On(o.a, o.amt)) = o.amt
      BY <1>1, SumOn
    <3>2. SumFunction(GL(-o.amt, 0, 0)) = -o.amt + 0 + 0
      <4>1. -o.amt \in Int /\ 0 \in Int
        BY <1>1
      <4> QED
        BY <4>1, SumGL
    <3>3. o.amt + (-o.amt + 0 + 0) = 0
      BY <1>1
    <3> QED
      BY <2>5, <3>1, <3>2, <3>3 DEF Sums, Legs, TopupReversalLegs
  <2>6. CASE op = "RVTRF"
    <3>1. SumFunction(OnBoth(o.a, -(o.amt + o.fee), o.b, o.amt)) = -(o.amt + o.fee) + o.amt
      BY <1>1, <2>6, SumOnBoth
    <3>2. SumFunction(GL(0, Net(o.fee), Vat(o.fee))) = 0 + Net(o.fee) + Vat(o.fee)
      BY <1>2, SumGL, SMTT(30)
    <3>3. (-(o.amt + o.fee) + o.amt) + (0 + Net(o.fee) + Vat(o.fee)) = 0
      BY <1>1, <1>2, <1>3
    <3> QED
      BY <2>6, <3>1, <3>2, <3>3 DEF Sums, Legs, TransferReversalLegs
  <2>7. CASE op = "RVFC"
    <3>1. SumFunction(On(o.a, -o.amt)) = -o.amt
      BY <1>1, SumOn
    <3>2. SumFunction(GL(0, Net(o.amt), Vat(o.amt))) = 0 + Net(o.amt) + Vat(o.amt)
      BY <1>2, SumGL, SMTT(30)
    <3>3. -o.amt + (0 + Net(o.amt) + Vat(o.amt)) = 0
      BY <1>1, <1>2, <1>3
    <3> QED
      BY <2>7, <3>1, <3>2, <3>3 DEF Sums, Legs, FeeChargeReversalLegs
  <2>8. CASE op = "RVWD"
    <3>1. SumFunction(On(o.a, -(o.amt + o.fee))) = -(o.amt + o.fee)
      BY <1>1, SumOn
    <3>2. SumFunction(GL(o.amt, RefundedNet(o.fee), Vat(o.fee)))
            = o.amt + RefundedNet(o.fee) + Vat(o.fee)
      <4>1. o.amt \in Int
        BY <1>1
      <4> QED
        BY <1>2, <4>1, SumGL
    <3>3. -(o.amt + o.fee) + (o.amt + RefundedNet(o.fee) + Vat(o.fee)) = 0
      BY <1>1, <1>2, <1>3
    <3> QED
      BY <2>8, <3>1, <3>2, <3>3 DEF Sums, Legs, WithdrawReversalLegs
  <2> QED
    BY <2>1, <2>2, <2>3, <2>4, <2>5, <2>6, <2>7, <2>8 DEF Ops, ClaimOps
<1> QED
  BY <1>4, <1>5

\* Adding up two batches, or a batch and the books.
LEMMA SumsAdd ==
  ASSUME NEW x \in [liab : [Accounts -> Int], gl : [GLCodes -> Int]],
         NEW liab \in [Accounts -> Int], NEW gl \in [GLCodes -> Int],
         SumFunction(x.liab) + SumFunction(x.gl) = 0,
         SumFunction(liab) + SumFunction(gl) = 0
  PROVE  SumFunction([a \in Accounts |-> x.liab[a] + liab[a]])
           + SumFunction([g \in GLCodes |-> x.gl[g] + gl[g]]) = 0
<1> DEFINE l == [a \in Accounts |-> x.liab[a] + liab[a]]
           c == [g \in GLCodes |-> x.gl[g] + gl[g]]
<1>1. x.liab \in [Accounts -> Int] /\ x.gl \in [GLCodes -> Int]
  OBVIOUS
<1>2. /\ DOMAIN l = Accounts /\ DOMAIN x.liab = Accounts /\ DOMAIN liab = Accounts
      /\ \A a \in Accounts : x.liab[a] \in Int /\ liab[a] \in Int /\ l[a] = x.liab[a] + liab[a]
  BY <1>1
<1>3. /\ DOMAIN c = GLCodes /\ DOMAIN x.gl = GLCodes /\ DOMAIN gl = GLCodes
      /\ \A g \in GLCodes : x.gl[g] \in Int /\ gl[g] \in Int /\ c[g] = x.gl[g] + gl[g]
  BY <1>1
<1> HIDE DEF l, c
<1>4. SumFunction(l) = SumFunction(x.liab) + SumFunction(liab)
  BY <1>2, AccountsFinite, SumPlus DEF SumFunction
<1>5. SumFunction(c) = SumFunction(x.gl) + SumFunction(gl)
  BY <1>3, CodesFinite, SumPlus DEF SumFunction
<1>6. /\ SumFunction(x.liab) \in Int /\ SumFunction(liab) \in Int
      /\ SumFunction(x.gl) \in Int /\ SumFunction(gl) \in Int
  BY <1>2, <1>3, AccountsFinite, CodesFinite, SumInt DEF SumFunction
<1>7. SumFunction(l) + SumFunction(c) = 0
  BY <1>4, <1>5, <1>6
<1> QED
  BY <1>7 DEF l, c

\* Posting legs that balance, on wallets the session owns, keeps the books.
LEMMA PostedTies ==
  ASSUME GateInv, BooksTie, NEW s \in Sessions, NEW l \in LegSet, Mirrored(l), Sums(l),
         acct' = Posted(s, l), books' = Booked(l),
         \A a \in Accounts : rowOwner[a] # s => l.bal[a] = 0
  PROVE  BooksTie'
<1>1. /\ books \in [liab : [Accounts -> Int], gl : [GLCodes -> Int]]
      /\ l.liab \in [Accounts -> Int] /\ l.gl \in [GLCodes -> Int]
  BY DEF GateInv, TypeInv, TypeOK, TablesType, LegSet
<1>2. ASSUME NEW a \in Accounts PROVE acct'[a].bal = Opening[a] - books'.liab[a]
  <2>1. acct'[a].bal = acct[a].bal + l.bal[a]
    BY PostedMoves
  <2>2. acct[a].bal = Opening[a] - books.liab[a] /\ l.bal[a] = -l.liab[a]
    BY DEF BooksTie, Mirrored
  <2>3. books'.liab[a] = books.liab[a] + l.liab[a]
    BY DEF Booked
  <2>4. Opening[a] \in Int /\ books.liab[a] \in Int /\ l.liab[a] \in Int
    BY <1>1, OpeningAssumption
  <2> QED
    BY <2>1, <2>2, <2>3, <2>4
<1>3. /\ books'.liab = [a \in Accounts |-> books.liab[a] + l.liab[a]]
      /\ books'.gl = [g \in GLCodes |-> books.gl[g] + l.gl[g]]
  BY DEF Booked
<1>4. SumFunction(books'.liab) + SumFunction(books'.gl) = 0
  BY <1>1, <1>3, SumsAdd DEF BooksTie, Sums
<1> QED
  BY <1>2, <1>4 DEF BooksTie

LEMMA BooksInit == Init => BooksInv
<1> SUFFICES ASSUME Init PROVE BooksInv
  OBVIOUS
<1>1. LedgerInv
  BY LedgerInit
<1>2. \A s \in Sessions : Mirrored(pend[s]) /\ Sums(pend[s])
  BY NoLegsSum DEF Init
<1>3. BooksTie
  <2>1. books.liab = NoLegs.liab /\ books.gl = NoLegs.gl
    BY DEF Init
  <2>2. \A a \in Accounts : acct[a].bal = Opening[a] /\ NoLegs.liab[a] = 0 /\ Opening[a] \in Nat
    BY OpeningAssumption DEF Init, WalletRow, NoLegs
  <2> QED
    BY <2>1, <2>2, NoLegsSum DEF BooksTie, Sums
<1> QED
  BY <1>1, <1>2, <1>3 DEF BooksInv

LEMMA BooksStep == BooksInv /\ [Next]_vars => BooksInv'
<1> SUFFICES ASSUME BooksInv, [Next]_vars PROVE BooksInv'
  OBVIOUS
<1>1. /\ LedgerInv /\ GateInv /\ RefundsNamed /\ RefundsSummed
      /\ pend \in [Sessions -> LegSet]
  BY DEF BooksInv, LedgerInv, FreshInv, FundsInv, GateInv, TypeInv, TypeOK, CallsType
<1>2. LedgerInv'
  BY <1>1, LedgerStep
<1>3. \A s \in Sessions : Mirrored(pend'[s]) /\ Sums(pend'[s])
  <2>1. ASSUME NEW s \in Sessions, End(s), NEW t \in Sessions
        PROVE  Mirrored(pend'[t]) /\ Sums(pend'[t])
    <3>1. pend'[t] = pend[t] \/ pend'[t] = NoLegs
      BY <1>1, <2>1 DEF End
    <3> QED
      BY <3>1, NoLegsSum DEF BooksInv
  <2>2. ASSUME NEW s \in Sessions, NEW e \in Exts, Refund(s, e), NEW t \in Sessions
        PROVE  Mirrored(pend'[t]) /\ Sums(pend'[t])
    <3> DEFINE l == Legs("RVWD", track[e].by)
    <3>1. pend' = [pend EXCEPT ![s] = Plus(pend[s], l)] /\ e \in work[s]
      BY <2>2 DEF Refund, IsNext
    <3>2. track[e].by \in Requests
      BY <1>1, <3>1, DonePayouts
    <3>3. l \in LegSet /\ Mirrored(l) /\ Sums(l)
      BY <3>2, LegsType, LegsBalance DEF Ops
    <3>4. pend[s] \in LegSet /\ Mirrored(pend[s]) /\ Sums(pend[s])
      BY <1>1 DEF BooksInv
    <3> HIDE DEF l
    <3>5. Mirrored(Plus(pend[s], l))
      BY <3>3, <3>4 DEF Mirrored, Plus, LegSet
    <3>6. Sums(Plus(pend[s], l))
      <4>1. /\ [liab |-> pend[s].liab, gl |-> pend[s].gl] \in [liab : [Accounts -> Int], gl : [GLCodes -> Int]]
            /\ l.liab \in [Accounts -> Int] /\ l.gl \in [GLCodes -> Int]
        BY <3>3, <3>4 DEF LegSet
      <4>2. SumFunction([a \in Accounts |-> pend[s].liab[a] + l.liab[a]])
              + SumFunction([g \in GLCodes |-> pend[s].gl[g] + l.gl[g]]) = 0
        BY <3>3, <3>4, <4>1, SumsAdd, ZenonT(60) DEF Sums
      <4> QED
        BY <4>2 DEF Sums, Plus
    <3>7. pend'[t] = pend[t] \/ pend'[t] = Plus(pend[s], l)
      BY <1>1, <3>1
    <3> QED
      BY <3>5, <3>6, <3>7 DEF BooksInv
  <2>3. CASE UNCHANGED pend
    BY <2>3 DEF BooksInv
  <2> QED
    BY <2>1, <2>2, <2>3, ZenonT(60)
       DEF Next, Step, Call, Claim, WithdrawLookup, WithdrawInsert, LoadOriginal, Read, Duplicate,
           Commit, RefundCommit, AlreadyRefunded, Reject, Abort, LockRow, LockTrack, Sweep, Skip,
           Settle, AddRestraint, ReleaseRestraint, UpdateStatus, sessions, vars
<1>4. BooksTie'
  <2>1. ASSUME NEW s \in Sessions, Commit(s) PROVE BooksTie'
    <3> DEFINE l == Legs(req[s].op, orig[s])
    <3>1. /\ acct' = Posted(s, l) /\ books' = Booked(l) /\ pc[s] = "rows"
          /\ orig[s] \in Requests /\ req[s] \in Requests /\ req[s].op \in Ops
      BY <1>1, <2>1, RequestsAssumption DEF Commit, GateInv, TypeInv, SessionsOK
    <3>2. req[s].op \in {"TRANSFER", "RVTRF"} => orig[s].op = "TRANSFER"
      <4>1. CASE req[s].op \in Reversals
        <5>1. OriginalFound(req[s]) /\ orig[s] = msg[OriginalKey(req[s])]
          BY <1>1, <3>1, <4>1 DEF LedgerInv, OriginalsStay, GateInv, Loaded
        <5> QED
          BY <4>1, <5>1 DEF OriginalFound, OriginalOp, Reversals
      <4>2. CASE req[s].op \notin Reversals
        BY <1>1, <3>1, <4>2
           DEF LedgerInv, FreshInv, FundsInv, CallsInv, OwnRequest, Reversals
      <4> QED
        BY <4>1, <4>2
    <3>3. req[s].op \in {"TRANSFER", "RVTRF"} => orig[s].a # orig[s].b
      BY <3>1, <3>2, RequestsAssumption
    <3>4. l \in LegSet /\ Mirrored(l) /\ Sums(l)
      BY <3>1, <3>3, LegsType, LegsBalance
    <3>5. \A a \in Accounts : rowOwner[a] # s => l.bal[a] = 0
      BY <1>1, <2>1, LegsOwned
    <3> HIDE DEF l
    <3> QED
      BY <1>1, <3>1, <3>4, <3>5, PostedTies DEF BooksInv
  <2>2. ASSUME NEW s \in Sessions, RefundCommit(s) PROVE BooksTie'
    <3>1. \A a \in Accounts : rowOwner[a] # s => pend[s].bal[a] = 0
      BY <1>1 DEF RefundsNamed, RefundsSummed
    <3>2. acct' = Posted(s, pend[s]) /\ books' = Booked(pend[s]) /\ pend[s] \in LegSet
      BY <1>1, <2>2 DEF RefundCommit
    <3> QED
      BY <1>1, <3>1, <3>2, PostedTies DEF BooksInv
  <2>3. CASE \A s \in Sessions : ~Commit(s) /\ ~RefundCommit(s)
    <3>1. \A a \in Accounts : acct'[a].bal = acct[a].bal
      BY <1>1, <2>3, OthersMoveNothing
    <3>2. books' = books
      BY <2>3, ZenonT(60)
         DEF Next, Step, Call, Skip, Sweep, Claim, Duplicate, WithdrawLookup, WithdrawInsert,
             LoadOriginal, Read, LockRow, LockTrack, AlreadyRefunded, Refund, Reject, Abort,
             Settle, AddRestraint, ReleaseRestraint, UpdateStatus, vars, tables
    <3> QED
      BY <3>1, <3>2 DEF BooksInv, BooksTie
  <2> QED
    BY <2>1, <2>2, <2>3
<1> QED
  BY <1>2, <1>3, <1>4 DEF BooksInv

\* The balance of every wallet is what it opened with less its ledger legs, and
\* the GL legs of all that was ever posted, reversed and refunded sum to zero:
\* reconciliation checks A, B and D find nothing after any interleaving.
THEOREM BooksAlwaysTie == Spec => []BooksTie
<1>1. BooksInv => BooksTie
  BY DEF BooksInv
<1> QED
  BY <1>1, BooksInit, BooksStep, PTL DEF Spec
=============================================================================
