-------------------------------- MODULE Posting --------------------------------
(***************************************************************************)
(* The posting procedures of src/db/export/schema.sql as concurrent        *)
(* READ COMMITTED transactions.                                            *)
(*                                                                         *)
(* A session runs one call at a time, as the transaction runTx opens for   *)
(* it.  Its steps are the statements at which transactions can meet: the   *)
(* claim of the idempotency row, the unlocked read, each row lock, the     *)
(* commit.  A row updated or selected FOR UPDATE stays locked to the end of*)
(* the transaction, and what the transaction wrote becomes visible when it *)
(* commits; so the postings of a session are applied by its commit, to rows*)
(* nobody else can have changed since they were locked.  A rollback - a    *)
(* RAISE, a timeout, a deadlock victim, a lost connection - drops them.    *)
(***************************************************************************)
EXTENDS LedgerOps, Functions

CONSTANTS
  Sessions,     \* database connections of the pool
  Opening,      \* balances the wallets start with
  MaxVersion    \* bound: administrators leave a wallet alone past this VERSION

ASSUME SessionsAssumption == None \notin Sessions
ASSUME OpeningAssumption == Opening \in [Accounts -> Nat]

VARIABLES
  \* the committed tables
  acct,         \* WLT_ACCT
  active,       \* WLT_RESTRAINTS in status A
  msg,          \* WLT_API_MESSAGE: the request that holds a key, or None
  track,        \* WLT_WITHDRAW_TRACK by EXT_PAYOUT_REF, or None
  clock,        \* withdrawals submitted so far; numbers FINAL_DEADLINEs
  hist,         \* how many transactions in WLT_TRAN_HIST have each effect
  books,        \* WLT_GL_BATCH: net movement per GL account (DR positive)
  \* the row locks
  keyOwner, rowOwner, trackOwner,
  \* the sessions
  pc, req, orig,
  snap,         \* VERSIONs the unlocked read saw
  work,         \* payouts the session still has to refund
  done,         \* payouts it has refunded, not yet committed
  pend,         \* their legs
  told          \* history: calls answered with success

tables == <<acct, active, msg, track, clock, hist, books>>
locks == <<keyOwner, rowOwner, trackOwner>>
sessions == <<pc, req, orig, snap, work, done, pend>>
vars == <<tables, locks, sessions, told>>

Statuses == {"A", "B", "C"}
PayoutStatuses == {"OPEN", "COMPLETED", "REVERSED"}   \* OPEN: SUBMITTED, ACKED or DISBURSING
Payouts == [status : PayoutStatuses, by : Requests, due : Nat]

PayoutsSeen == [status : PayoutStatuses, by : Requests]   \* what Ledger keeps of a payout

ASSUME PayoutsAssumption == None \notin Payouts /\ None \notin PayoutsSeen

\* A row of WLT_ACCT: ACTUAL_BAL, TOTAL_RESTRAINED_AMT, CR_BLOCKED, ACCT_STATUS, VERSION.
WalletRow(bal, restr, crBlk, status, ver) ==
  [bal |-> bal, restr |-> restr, crBlk |-> crBlk, status |-> status, ver |-> ver]

NoSnap == [a \in Accounts |-> 0]

Init ==
  /\ acct = [a \in Accounts |-> WalletRow(Opening[a], 0, FALSE, "A", 0)]
  /\ active = {}
  /\ msg = [k \in MsgKeys |-> None]
  /\ track = [e \in Exts |-> None]
  /\ clock = 0
  /\ hist = [e \in Effects |-> 0]
  /\ books = [liab |-> NoLegs.liab, gl |-> NoLegs.gl]
  /\ keyOwner = [k \in MsgKeys |-> None]
  /\ rowOwner = [a \in Accounts |-> None]
  /\ trackOwner = [e \in Exts |-> None]
  /\ pc = [s \in Sessions |-> "idle"]
  /\ req = [s \in Sessions |-> None]
  /\ orig = [s \in Sessions |-> None]
  /\ snap = [s \in Sessions |-> NoSnap]
  /\ work = [s \in Sessions |-> {}]
  /\ done = [s \in Sessions |-> {}]
  /\ pend = [s \in Sessions |-> NoLegs]
  /\ told = {}

-----------------------------------------------------------------------------
(* Beginning and end of a transaction.                                      *)

Go(s, label) == pc' = [pc EXCEPT ![s] = label]

Freed(owner, s) == [x \in DOMAIN owner |-> IF owner[x] = s THEN None ELSE owner[x]]

\* The transaction is over: its locks are free, the session forgets it.
End(s) ==
  /\ Go(s, "idle")
  /\ req' = [req EXCEPT ![s] = None]
  /\ orig' = [orig EXCEPT ![s] = None]
  /\ snap' = [snap EXCEPT ![s] = NoSnap]
  /\ work' = [work EXCEPT ![s] = {}]
  /\ done' = [done EXCEPT ![s] = {}]
  /\ pend' = [pend EXCEPT ![s] = NoLegs]
  /\ keyOwner' = Freed(keyOwner, s)
  /\ rowOwner' = Freed(rowOwner, s)
  /\ trackOwner' = Freed(trackOwner, s)

\* Any call, any number of times: clients, operators and Treasury retry.
Call(s, r) ==
  /\ pc[s] = "idle"
  /\ Go(s, "start")
  /\ req' = [req EXCEPT ![s] = r]
  /\ orig' = [orig EXCEPT ![s] = r]
  /\ UNCHANGED <<tables, locks, snap, work, done, pend, told>>

\* statement_timeout, lock_timeout, deadlock victim, lost connection, crash
Abort(s) == pc[s] # "idle" /\ End(s) /\ UNCHANGED <<tables, told>>

-----------------------------------------------------------------------------
(* Phase 1: the idempotency gate.                                           *)

AfterClaim(op) ==
  IF op \in Reversals THEN "load" ELSE IF op \in CasOps THEN "read" ELSE "rows"

ClaimUnchecked(s) ==       \* mutant: the claim does not tell a new row from an old one
  LET k == MsgKey(req[s]) IN
  /\ pc[s] = "start" /\ req[s].op \in ClaimOps
  /\ keyOwner[k] = None
  /\ keyOwner' = [keyOwner EXCEPT ![k] = s]
  /\ Go(s, AfterClaim(req[s].op))
  /\ UNCHANGED <<tables, rowOwner, trackOwner, req, orig, snap, work, done, pend, told>>

\* INSERT ... ON CONFLICT DO UPDATE: waits for a session that has the key.
Claim(s) ==
  LET k == MsgKey(req[s]) IN
  /\ pc[s] = "start" /\ req[s].op \in ClaimOps
  /\ keyOwner[k] = None /\ msg[k] = None
  /\ keyOwner' = [keyOwner EXCEPT ![k] = s]
  /\ Go(s, AfterClaim(req[s].op))
  /\ UNCHANGED <<tables, rowOwner, trackOwner, req, orig, snap, work, done, pend, told>>

\* The key is there already: the stored answer (DUPLICATE, already reversed).
Duplicate(s) ==
  LET k == MsgKey(req[s]) IN
  /\ pc[s] = "start" /\ req[s].op \in ClaimOps \cup {"WITHDRAW"}
  /\ keyOwner[k] = None /\ msg[k] # None
  /\ told' = told \cup {req[s]}
  /\ End(s) /\ UNCHANGED tables

\* post_withdraw first looks the key up FOR UPDATE - a row somebody is still
\* inserting is not visible and locks nothing ...
WithdrawLookup(s) ==
  /\ pc[s] = "start" /\ req[s].op = "WITHDRAW"
  /\ msg[MsgKey(req[s])] = None
  /\ Go(s, "insert")
  /\ UNCHANGED <<tables, locks, req, orig, snap, work, done, pend, told>>

\* ... and then INSERTs it ON CONFLICT DO NOTHING: it waits for whoever is
\* inserting the key and goes on whether the row is its own or not.
WithdrawInsert(s) ==
  LET k == MsgKey(req[s]) IN
  /\ pc[s] = "insert"
  /\ keyOwner[k] = None
  /\ keyOwner' = IF msg[k] = None THEN [keyOwner EXCEPT ![k] = s] ELSE keyOwner
  /\ Go(s, "read")
  /\ UNCHANGED <<tables, rowOwner, trackOwner, req, orig, snap, work, done, pend, told>>

\* A reversal loads the original and locks its row.
OriginalKey(r) == <<"REF", r.ref>>

OriginalFound(r) ==
  LET o == msg[OriginalKey(r)] IN o # None /\ o.op = OriginalOp(r.op)

LoadOriginal(s) ==
  LET k == OriginalKey(req[s]) IN
  /\ pc[s] = "load" /\ OriginalFound(req[s])
  /\ keyOwner[k] = None
  /\ keyOwner' = [keyOwner EXCEPT ![k] = s]
  /\ orig' = [orig EXCEPT ![s] = msg[k]]
  /\ Go(s, "rows")
  /\ UNCHANGED <<tables, rowOwner, trackOwner, req, snap, work, done, pend, told>>

-----------------------------------------------------------------------------
(* Phases 2 and 4: validation and the rows.                                 *)

\* The unlocked reads of the compare-and-swap procedures.  Whatever changes
\* between them bumps the VERSION of the row, so one step stands for all.
Read(s) ==
  /\ pc[s] = "read"
  /\ Allowed(req[s].op, req[s], acct, active)
  /\ snap' = [snap EXCEPT ![s] = [a \in Accounts |-> IF a \in Wallets(req[s])
                                                     THEN acct[a].ver ELSE 0]]
  /\ Go(s, "rows")
  /\ UNCHANGED <<tables, locks, req, orig, work, done, pend, told>>

Owned(s) == {a \in Accounts : rowOwner[a] = s}
Unlocked(s) == Wallets(orig[s]) \ Owned(s)

SenderFirst(s) ==          \* mutant: the sender's row before the receiver's
  IF orig[s].a \in Unlocked(s) THEN orig[s].a ELSE orig[s].b

\* Rows are taken in INTERNAL_KEY order.
NextRow(s) == CHOOSE a \in Unlocked(s) : \A b \in Unlocked(s) : a <= b

FundsOnly(s, a) ==         \* mutant: the UPDATE compares no VERSION
  req[s].op \in CasOps => FundGuard(orig[s], a, acct)

\* WHERE VERSION = ... AND ACTUAL_BAL - TOTAL_RESTRAINED_AMT >= ...
SwapHolds(s, a) ==
  req[s].op \in CasOps => acct[a].ver = snap[s][a] /\ FundGuard(orig[s], a, acct)

LockRow(s) ==
  /\ pc[s] = "rows" /\ Unlocked(s) # {}
  /\ LET a == NextRow(s) IN
       /\ rowOwner[a] = None
       /\ SwapHolds(s, a)
       /\ rowOwner' = [rowOwner EXCEPT ![a] = s]
  /\ UNCHANGED <<tables, keyOwner, trackOwner, sessions, told>>

PassesUnchecked(s) ==      \* mutant: validation before the rows are locked only
  req[s].op = "WITHDRAW" => track[req[s].ext] = None

\* What is checked once the rows are locked: everything for the procedures
\* that lock first, the unique payout reference for a withdrawal.
Passes(s) ==
  /\ req[s].op \notin CasOps => Allowed(req[s].op, orig[s], acct, active)
  /\ req[s].op = "WITHDRAW" => track[req[s].ext] = None

\* The rows of a session with its postings l applied.
Posted(s, l) ==
  [a \in Accounts |-> LET row == acct[a] IN
     IF a \in Owned(s)
     THEN WalletRow(row.bal + l.bal[a], row.restr, row.crBlk, row.status, row.ver + 1)
     ELSE row]

Booked(l) ==
  [liab |-> [a \in Accounts |-> books.liab[a] + l.liab[a]],
   gl   |-> [g \in GLCodes |-> books.gl[g] + l.gl[g]]]

Commit(s) ==
  LET r == req[s]
      l == Legs(r.op, orig[s]) IN
  /\ pc[s] = "rows" /\ Unlocked(s) = {} /\ Passes(s)
  /\ acct' = Posted(s, l)
  /\ books' = Booked(l)
  /\ hist' = [hist EXCEPT ![Effect(r)] = @ + 1]
  /\ msg' = [msg EXCEPT ![MsgKey(r)] = IF @ = None THEN r ELSE @]
  /\ IF r.op = "WITHDRAW"
     THEN /\ track' = [track EXCEPT ![r.ext] = [status |-> "OPEN", by |-> r, due |-> clock]]
          /\ clock' = clock + 1
     ELSE UNCHANGED <<track, clock>>
  /\ told' = told \cup {r}
  /\ End(s) /\ UNCHANGED active

-----------------------------------------------------------------------------
(* post_withdraw_reversal, and the janitor's batch of them.                 *)

NotCompleted(e) == track[e] # None /\ track[e].status # "COMPLETED"  \* mutant

Open(e) == track[e] # None /\ track[e].status = "OPEN"

WalletFirst(s) ==          \* mutant: the wallet's row before the payout's
  LET e == req[s].ext
      a == track[e].by.a IN
  /\ pc[s] = "start" /\ req[s].op = "RVWD" /\ Open(e)
  /\ \/ /\ rowOwner[a] = None
        /\ rowOwner' = [rowOwner EXCEPT ![a] = s]
        /\ UNCHANGED <<trackOwner, pc, work>>
     \/ /\ rowOwner[a] = s /\ trackOwner[e] = None
        /\ trackOwner' = [trackOwner EXCEPT ![e] = s]
        /\ work' = [work EXCEPT ![s] = {e}]
        /\ Go(s, "refund")
        /\ UNCHANGED rowOwner
  /\ UNCHANGED <<tables, keyOwner, req, orig, snap, done, pend, told>>

\* SELECT ... FOR UPDATE of the payout's row.
LockTrack(s) ==
  LET e == req[s].ext IN
  /\ pc[s] = "start" /\ req[s].op = "RVWD"
  /\ Open(e) /\ trackOwner[e] = None
  /\ trackOwner' = [trackOwner EXCEPT ![e] = s]
  /\ work' = [work EXCEPT ![s] = {e}]
  /\ Go(s, "refund")
  /\ UNCHANGED <<tables, keyOwner, rowOwner, req, orig, snap, done, pend, told>>

AlreadyFinal(s) ==         \* mutant: any terminal state is answered "already reversed"
  LET e == req[s].ext IN
  /\ pc[s] = "start" /\ req[s].op = "RVWD"
  /\ track[e] # None /\ track[e].status # "OPEN" /\ trackOwner[e] = None
  /\ told' = told \cup {req[s]}
  /\ End(s) /\ UNCHANGED tables

AlreadyRefunded(s) ==
  LET e == req[s].ext IN
  /\ pc[s] = "start" /\ req[s].op = "RVWD"
  /\ track[e] # None /\ track[e].status = "REVERSED" /\ trackOwner[e] = None
  /\ told' = told \cup {req[s]}
  /\ End(s) /\ UNCHANGED tables

\* reverse_stuck_withdrawals: the overdue rows - the oldest ones - that nobody
\* has locked (FOR UPDATE SKIP LOCKED).
Stuck == {e \in Exts : Open(e) /\ trackOwner[e] = None}

Oldest(batch) ==
  /\ batch # {}
  /\ \A e \in batch, x \in Stuck \ batch : track[e].due < track[x].due

Sweep(s) ==
  /\ pc[s] = "idle"
  /\ \E batch \in SUBSET Stuck :
       /\ Oldest(batch)
       /\ work' = [work EXCEPT ![s] = batch]
       /\ trackOwner' = [e \in Exts |-> IF e \in batch THEN s ELSE trackOwner[e]]
  /\ Go(s, "refund")
  /\ UNCHANGED <<tables, keyOwner, rowOwner, req, orig, snap, done, pend, told>>

\* The batch goes through its payouts in FINAL_DEADLINE order.
IsNext(s, e) == e \in work[s] /\ \A x \in work[s] : track[e].due <= track[x].due

RefundLast(s, e) ==        \* mutant: the legs of a batch are those of its last row
  LET o == track[e].by IN
  /\ pc[s] = "refund" /\ IsNext(s, e)
  /\ rowOwner[o.a] \in {None, s}
  /\ rowOwner' = [rowOwner EXCEPT ![o.a] = s]
  /\ pend' = [pend EXCEPT ![s] = Legs("RVWD", o)]
  /\ work' = [work EXCEPT ![s] = @ \ {e}]
  /\ done' = [done EXCEPT ![s] = @ \cup {e}]
  /\ UNCHANGED <<tables, keyOwner, trackOwner, pc, req, orig, snap, told>>

\* The unconditional credit of the wallet of the next payout.
Refund(s, e) ==
  LET o == track[e].by IN
  /\ pc[s] = "refund" /\ IsNext(s, e)
  /\ rowOwner[o.a] \in {None, s}
  /\ rowOwner' = [rowOwner EXCEPT ![o.a] = s]
  /\ pend' = [pend EXCEPT ![s] = Plus(@, Legs("RVWD", o))]
  /\ work' = [work EXCEPT ![s] = @ \ {e}]
  /\ done' = [done EXCEPT ![s] = @ \cup {e}]
  /\ UNCHANGED <<tables, keyOwner, trackOwner, pc, req, orig, snap, told>>

\* The subtransaction of one row fails (a lock timeout, chosen as the deadlock
\* victim): WHEN OTHERS counts it and the batch goes on.
Skip(s, e) ==
  /\ pc[s] = "refund" /\ IsNext(s, e) /\ req[s] = None
  /\ rowOwner[track[e].by.a] \notin {None, s}
  /\ work' = [work EXCEPT ![s] = @ \ {e}]
  /\ UNCHANGED <<tables, locks, pc, req, orig, snap, done, pend, told>>

RefundCommit(s) ==
  /\ pc[s] = "refund" /\ work[s] = {}
  /\ acct' = Posted(s, pend[s])
  /\ books' = Booked(pend[s])
  /\ track' = [e \in Exts |-> IF e \in done[s] THEN [track[e] EXCEPT !.status = "REVERSED"]
                              ELSE track[e]]
  /\ hist' = [x \in Effects |-> IF x[1] = "REFUND" /\ x[2] \in done[s]
                                THEN hist[x] + 1 ELSE hist[x]]
  /\ told' = IF req[s] = None THEN told ELSE told \cup {req[s]}
  /\ End(s) /\ UNCHANGED <<active, msg, clock>>

-----------------------------------------------------------------------------
(* A RAISE of the procedure: not found, not allowed, version conflict,      *)
(* insufficient funds, unique violation.                                    *)

Rejected(s) ==
  \/ /\ pc[s] = "start" /\ req[s].op = "RVWD"
     /\ ~Open(req[s].ext) /\ trackOwner[req[s].ext] = None
     /\ track[req[s].ext] # None => track[req[s].ext].status = "COMPLETED"
  \/ pc[s] = "load" /\ ~OriginalFound(req[s])
  \/ pc[s] = "read" /\ ~Allowed(req[s].op, req[s], acct, active)
  \/ /\ pc[s] = "rows" /\ Unlocked(s) # {}
     /\ rowOwner[NextRow(s)] = None /\ ~SwapHolds(s, NextRow(s))
  \/ pc[s] = "rows" /\ Unlocked(s) = {} /\ ~Passes(s)

Reject(s) == Rejected(s) /\ End(s) /\ UNCHANGED <<tables, told>>

-----------------------------------------------------------------------------
(* Single-statement writers of the same rows: one lock, taken and released  *)
(* within one short transaction.                                            *)

\* Treasury's final answer; WithdrawTrack has its steps.
Settle(e) ==
  /\ Open(e) /\ trackOwner[e] = None
  /\ track' = [track EXCEPT ![e].status = "COMPLETED"]
  /\ UNCHANGED <<acct, active, msg, clock, hist, books, locks, sessions, told>>

HoldsOn(a, S) == {h \in S : h.acct = a}

AddRestraint(h) ==
  LET a == h.acct
      row == acct[a]
      reserved == IF h.debit THEN h.pledge ELSE 0 IN
  /\ h \notin active
  /\ rowOwner[a] = None /\ row.ver < MaxVersion
  /\ row.status # "C"
  /\ row.restr + reserved <= row.bal                  \* P0064 and chk_acct_avail
  /\ active' = active \cup {h}
  /\ acct' = [acct EXCEPT ![a] = WalletRow(row.bal, row.restr + reserved,
                                           row.crBlk \/ h.credit, row.status, row.ver + 1)]
  /\ UNCHANGED <<msg, track, clock, hist, books, locks, sessions, told>>

ReleaseAgain(h) ==         \* mutant: takes the pledge off, whether it is in force or not
  LET a == h.acct
      row == acct[a]
      rest == HoldsOn(a, active \ {h}) IN
  /\ rowOwner[a] = None /\ row.ver < MaxVersion
  /\ active' = active \ {h}
  /\ acct' = [acct EXCEPT ![a] = WalletRow(row.bal, row.restr - h.pledge,
                                           \E x \in rest : x.credit, row.status,
                                           row.ver + 1)]
  /\ UNCHANGED <<msg, track, clock, hist, books, locks, sessions, told>>

\* The aggregates are recomputed from the restraints that stay.
ReleaseRestraint(h) ==
  LET a == h.acct
      row == acct[a]
      rest == HoldsOn(a, active \ {h}) IN
  /\ h \in active
  /\ rowOwner[a] = None /\ row.ver < MaxVersion
  /\ active' = active \ {h}
  /\ acct' = [acct EXCEPT ![a] = WalletRow(row.bal, Pledged[rest],
                                           \E x \in rest : x.credit, row.status,
                                           row.ver + 1)]
  /\ UNCHANGED <<msg, track, clock, hist, books, locks, sessions, told>>

UpdateStatus(a, new) ==
  LET row == acct[a] IN
  /\ row.ver < MaxVersion /\ rowOwner[a] = None
  /\ row.status # "C"
  /\ new = "C" => row.bal = 0
  /\ acct' = [acct EXCEPT ![a] = WalletRow(row.bal, row.restr, row.crBlk, new, row.ver + 1)]
  /\ UNCHANGED <<active, msg, track, clock, hist, books, locks, sessions, told>>

-----------------------------------------------------------------------------

\* What a session does of its own accord once it is called.
Step(s) ==
  \/ Claim(s) \/ Duplicate(s) \/ WithdrawLookup(s) \/ WithdrawInsert(s)
  \/ LoadOriginal(s) \/ Read(s) \/ LockRow(s) \/ Commit(s)
  \/ LockTrack(s) \/ AlreadyRefunded(s) \/ RefundCommit(s)
  \/ \E e \in Exts : Refund(s, e)
  \/ Reject(s)

Next ==
  \/ \E s \in Sessions : \/ \E r \in Requests : Call(s, r)
                         \/ \E e \in Exts : Skip(s, e)
                         \/ Sweep(s) \/ Step(s) \/ Abort(s)
  \/ \E e \in Exts : Settle(e)
  \/ \E h \in Holds : AddRestraint(h) \/ ReleaseRestraint(h)
  \/ \E a \in Accounts, new \in Statuses : UpdateStatus(a, new)

Spec == Init /\ [][Next]_vars

-----------------------------------------------------------------------------
(* What must hold.                                                          *)

Rows == [bal : Int, restr : Nat, crBlk : BOOLEAN, status : Statuses, ver : Nat]
PCs == {"idle", "start", "insert", "load", "read", "rows", "refund"}
LegSet == [bal : [Accounts -> Int], liab : [Accounts -> Int], gl : [GLCodes -> Int]]

TablesType ==
  /\ acct \in [Accounts -> Rows]
  /\ active \subseteq Holds
  /\ msg \in [MsgKeys -> Requests \cup {None}]
  /\ track \in [Exts -> Payouts \cup {None}]
  /\ clock \in Nat
  /\ hist \in [Effects -> Nat]
  /\ books \in [liab : [Accounts -> Int], gl : [GLCodes -> Int]]

LocksType ==
  /\ keyOwner \in [MsgKeys -> Sessions \cup {None}]
  /\ rowOwner \in [Accounts -> Sessions \cup {None}]
  /\ trackOwner \in [Exts -> Sessions \cup {None}]

CallsType ==
  /\ pc \in [Sessions -> PCs]
  /\ req \in [Sessions -> Requests \cup {None}]
  /\ orig \in [Sessions -> Requests \cup {None}]
  /\ snap \in [Sessions -> [Accounts -> Nat]]
  /\ work \in [Sessions -> SUBSET Exts]
  /\ done \in [Sessions -> SUBSET Exts]
  /\ pend \in [Sessions -> LegSet]

\* Tables, locks and sessions keep their types.
TypeOK == TablesType /\ LocksType /\ CallsType /\ told \subseteq Requests

\* What the sessions rely on: a call under way has its request, a payout that
\* is being refunded exists and is the session's.
SessionsOK ==
  /\ \A s \in Sessions : pc[s] \notin {"idle", "refund"} =>
       req[s] \in Requests /\ orig[s] \in Requests
  /\ \A s \in Sessions : \A e \in work[s] \cup done[s] :
       trackOwner[e] = s /\ Open(e)

\* No reference is posted twice, no original reversed twice, no payout
\* refunded twice, however often calls are repeated, overlap or are cut off
\* (the idempotency gate of post_* and the track lock of the withdrawal's
\* reversal).
PostedOnce == \A e \in Effects : hist[e] <= 1

\* A call answered with success - posted, DUPLICATE or already reversed -
\* has its own effect in the ledger.
ToldIsPosted == \A r \in told : hist[Effect(r)] >= 1

\* The balance of every wallet is its opening balance plus its ledger legs,
\* and the GL legs of all postings sum to zero (reconciliation checks A, B
\* and D of fn_record_recon_breaks).
BooksTie ==
  /\ \A a \in Accounts : acct[a].bal = Opening[a] - books.liab[a]
  /\ SumFunction(books.liab) + SumFunction(books.gl) = 0

\* What restraints reserve is never spent, and never counted twice: the CHECK
\* constraints of WLT_ACCT are not what stops a posting.
HeldFundsSafe == \A a \in Accounts : /\ acct[a].restr <= acct[a].bal
                                     /\ acct[a].restr = Pledged[HoldsOn(a, active)]

\* The first terminal state of a payout wins: its money is refunded once if
\* it was reversed, never if it was completed or is under way.
SettledXorRefunded ==
  \A e \in Exts : hist[<<"REFUND", e>>] =
    IF track[e] # None /\ track[e].status = "REVERSED" THEN 1 ELSE 0

\* Postings a restraint or a status forbids do not slip in between the check
\* and the commit.  A closed wallet rises only by the refund of a withdrawal
\* and falls only by the claw-back of a transfer, a credit-blocked one rises
\* only by a refund or the reversal of a fee, a wallet under a debit hold falls
\* only by a fee, the reversal of a topup or the claw-back of a transfer.
\* No reversal looks at the purpose of a restraint, though REV-08 wants it
\* stopped by COURT_ORDER and AML_HOLD (docs/specs/finance_transaction.md:617).
Grows(kind) == {x[2] : x \in {y \in Effects : y[1] = kind /\ hist'[y] > hist[y]}}

RefundOf(a) == \E e \in Grows("REFUND") : track[e].by.a = a
ReversalOf(op) == \E f \in Grows("REVERSAL") : msg[<<"REF", f>>].op = op
FeeCharged == \E f \in Grows("POSTING") : msg'[<<"REF", f>>].op = "FEE"

FrozenMoneyStays ==
  [][\A a \in Accounts :
       /\ acct[a].status = "C" /\ acct'[a].bal > acct[a].bal => RefundOf(a)
       /\ acct[a].status = "C" /\ acct'[a].bal < acct[a].bal => ReversalOf("TRANSFER")
       /\ acct[a].crBlk /\ acct'[a].bal > acct[a].bal =>
            RefundOf(a) \/ ReversalOf("FEE")
       /\ DebitHeld(a, active) /\ acct'[a].bal < acct[a].bal =>
            FeeCharged \/ ReversalOf("TOPUP") \/ ReversalOf("TRANSFER")]_vars

-----------------------------------------------------------------------------
(* Deadlock between transactions.                                           *)

\* The session whose lock s needs for its next step, if any.
WaitsFor(s) ==
  CASE pc[s] = "start" /\ req[s].op \in ClaimOps -> keyOwner[MsgKey(req[s])]
    [] pc[s] = "insert" -> keyOwner[MsgKey(req[s])]
    [] pc[s] = "start" /\ req[s].op = "RVWD" -> trackOwner[req[s].ext]
    [] pc[s] = "load" -> keyOwner[OriginalKey(req[s])]
    [] pc[s] = "rows" /\ Unlocked(s) # {} -> rowOwner[NextRow(s)]
    [] pc[s] = "refund" /\ work[s] # {} ->
         rowOwner[track[CHOOSE e \in work[s] : IsNext(s, e)].by.a]
    [] OTHER -> None

\* "This convention is mandatory for every multi-account lock" - rows in INTERNAL_KEY order - so
\* that no set of transactions waits on itself.  The janitor does not keep to it: its batch takes
\* the wallets in the order of the deadlines.  Every circle of waits has such a batch in it, with
\* a wallet it has credited already.
CyclesNeedABatch ==
  \A C \in (SUBSET Sessions) \ {{}} :
    (\A s \in C : WaitsFor(s) \in C) => \E s \in C : pc[s] = "refund" /\ done[s] # {}

-----------------------------------------------------------------------------
(* Serialisability: what is committed could have happened one call at a     *)
(* time.                                                                    *)

Abstract == INSTANCE Ledger WITH
  wallet   <- [a \in Accounts |-> [bal |-> acct[a].bal, status |-> acct[a].status]],
  posted   <- [f \in Refs |-> msg[<<"REF", f>>]],
  reversed <- {f \in Refs : hist[<<"REVERSAL", f>>] > 0},
  payout   <- [e \in Exts |-> IF track[e] = None THEN None
                              ELSE [status |-> track[e].status, by |-> track[e].by]]

\* Every commit is one step of Ledger: its guards hold of the wallets at the
\* instant of the commit, though they were read earlier and unlocked.
ImplementsLedger == Abstract!Spec
=============================================================================
