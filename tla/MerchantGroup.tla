----------------------------- MODULE MerchantGroup -----------------------------
(***************************************************************************)
(* A merchant group: a settlement account and, once it is hot, shards that *)
(* take the deposits.  Withdrawals are paid by the settlement account,     *)
(* which sweeps the shards when it is short.  A customer may transfer to   *)
(* the settlement account.  A fee may be charged to any account of the     *)
(* group, a shard too: post_fee_charge looks at no ACCT_ROLE.              *)
(*                                                                         *)
(* A call is one READ COMMITTED transaction.  The balances here are the    *)
(* committed ones: what a transaction has moved is on rows it has locked,  *)
(* shows when it commits, and is gone when it rolls back.  A lock, the     *)
(* checks behind it and the commit are one step where nothing is waited    *)
(* for in between.                                                         *)
(*                                                                         *)
(* Refusals without effect (limits, reversal window, inactive types, a     *)
(* credit block) are the Abort that may end any call.  Of a transfer and   *)
(* of its reversal only the settlement account's side is here.             *)
(***************************************************************************)
EXTENDS Integers, FiniteSetsExt, Functions

CONSTANTS
  Sessions,    \* database sessions
  Requests,    \* the calls: records with op and what that operation takes
  Tiers,       \* the shard counts a group may have
  Buffer,      \* SHARD_BUFFER: what a periodic sweep leaves on a shard
  Pledge,      \* the amount of a pledge
  Opening,     \* the balance of the settlement account of the cold group
  Watched,     \* the accounts whose status or restraints an operator may change
  None

Group == -1
Settlement == 0
Top == Max(Tiers \cup {0})
Accounts == Settlement .. Top

Keyed == {r \in Requests : r.op \in {"DEPOSIT", "TRANSFER", "WITHDRAW", "CHARGE", "REVERSAL"}}
Refs == {r.ref : r \in Keyed}

\* The reversal of a withdrawal has the key 'RVMWD-' followed by the reference, that of a charge
\* 'RVFC-', that of a transfer 'RVTRF-'; all are cut to 64 characters.  The references here are
\* those that the cut leaves apart.
Undo == [WITHDRAW |-> "RVMWD-", CHARGE |-> "RVFC-", TRANSFER |-> "RVTRF-"]
Prefixes == {"RVMWD-", "RVFC-", "RVTRF-"}
Keys == ({""} \cup Prefixes) \X Refs
Key(r) == <<IF r.op = "REVERSAL" THEN Undo[r.of] ELSE "", r.ref>>

\* WLT_API_MESSAGE: the request and its PROCESS_STATUS.
Messages == [status : {"PENDING", "SUCCESS"}, of : Requests]

ASSUME SessionsAssumption == None \notin Sessions
ASSUME NoneAssumption == None \notin Requests /\ None \notin Messages
ASSUME TiersAssumption ==
  Tiers \subseteq Nat \ {0} /\ \E m \in Tiers \cup {0} : \A n \in Tiers : n <= m
ASSUME AmountsAssumption == Buffer \in Nat /\ Opening \in Nat /\ Pledge \in Nat \ {0}
ASSUME RequestsAssumption ==
  \A r \in Requests :
    \/ r.op \in {"DEPOSIT", "TRANSFER"} /\ r.amt \in Nat \ {0}
    \/ r.op = "CHARGE" /\ r.amt \in Nat \ {0} /\ r.acct \in Accounts
    \/ r.op = "WITHDRAW" /\ r.amt \in Nat \ {0} /\ r.fee \in Nat /\ r.auto \in BOOLEAN
    \/ r.op = "REVERSAL" /\ r.of \in {"WITHDRAW", "CHARGE", "TRANSFER"}
    \/ r.op \in {"ACTIVATE", "RESCALE"} /\ r.tier \in Tiers
    \/ r.op = "SWEEP" /\ r.shard \in 1 .. Top /\ r.trigger \in {"PERIODIC", "URGENT"}

VARIABLES
  tier,        \* SHARD_COUNT of the group
  shards,      \* the shard accounts there are
  bal,         \* ACTUAL_BAL
  pledged,     \* TOTAL_RESTRAINED_AMT: the active DEBIT restraints
  status,      \* ACCT_STATUS
  message,     \* the message under each key, or None
  lock,        \* who holds the row of the group or an account FOR UPDATE
  sharing,     \* who holds the group row FOR KEY SHARE, as the writer of a row that refers to it
  claimant,    \* who holds a key it has not committed
  at,          \* where each session is
  request,     \* what it runs
  target,      \* the account a deposit was routed to
  todo,        \* the shards its cursor has yet to sweep
  swept,       \* the shards it has swept
  charged      \* what charges took from the group since it counted what there is

book == <<tier, shards, bal, pledged, status, message>>
calls == <<lock, sharing, claimant, at, request, target, todo, swept, charged>>
vars == <<book, calls>>

Init ==
  /\ tier = 0 /\ shards = {}
  /\ bal = [i \in Accounts |-> IF i = Settlement THEN Opening ELSE 0]
  /\ pledged = [i \in Accounts |-> 0]
  /\ status = [i \in Accounts |-> "A"]
  /\ message = [k \in Keys |-> None]
  /\ lock = [i \in {Group} \cup Accounts |-> None]
  /\ sharing = {}
  /\ claimant = [k \in Keys |-> None]
  /\ at = [s \in Sessions |-> "idle"]
  /\ request = [s \in Sessions |-> None]
  /\ target = [s \in Sessions |-> Settlement]
  /\ todo = [s \in Sessions |-> {}]
  /\ swept = [s \in Sessions |-> {}]
  /\ charged = [s \in Sessions |-> 0]

Goto(s, place) == at' = [at EXCEPT ![s] = place]

\* The end of the transaction: its locks are released, its claims with them.
Leave(s) ==
  /\ Goto(s, "idle")
  /\ request' = [request EXCEPT ![s] = None]
  /\ target' = [target EXCEPT ![s] = Settlement]
  /\ todo' = [todo EXCEPT ![s] = {}]
  /\ swept' = [swept EXCEPT ![s] = {}]
  /\ lock' = [i \in DOMAIN lock |-> IF lock[i] = s THEN None ELSE lock[i]]
  /\ sharing' = sharing \ {s}
  /\ claimant' = [k \in Keys |-> IF claimant[k] = s THEN None ELSE claimant[k]]

\* Where a call is that goes by what it has counted.
Counting == {"open", "sweep", "log", "debit"}

End(s) == Leave(s) /\ charged' = [charged EXCEPT ![s] = 0]

Rollback(s) == End(s) /\ UNCHANGED book

Record(s, st) == message' = [message EXCEPT ![Key(request[s])] = [status |-> st, of |-> request[s]]]

\* FOR UPDATE: the row is free, and the caller has it from now on.
Take(s, i) == lock[i] = None /\ lock' = [lock EXCEPT ![i] = s]

Active == {i \in shards : status[i] = "A"}
Total(r) == r.amt + r.fee

\* v_wlt_group_balance counts every shard, blocked or not, without what is pledged.
GroupAvailable ==
  SumFunctionOnSet([i \in Accounts |-> bal[i] - pledged[i]], {Settlement} \cup shards)

\* The accounts as the transaction of s has left them: what it swept is on settlement.
SweptSum(s) == SumFunctionOnSet(bal, swept[s])
After(s) == [i \in Accounts |-> IF i = Settlement THEN bal[i] + SweptSum(s)
                                ELSE IF i \in swept[s] THEN 0 ELSE bal[i]]

\* Money moves to or from the settlement account.
Settle(s, amount) == [After(s) EXCEPT ![Settlement] = @ + amount]

-----------------------------------------------------------------------------
(* A call and its key *)

First(r) == CASE r \in Keyed -> "claim"
              [] r.op \in {"ACTIVATE", "RESCALE"} -> "group"
              [] OTHER -> "shard"

Call(s, r) ==
  /\ at[s] = "idle"
  /\ Goto(s, First(r))
  /\ request' = [request EXCEPT ![s] = r]
  /\ UNCHANGED <<book, lock, sharing, claimant, target, todo, swept, charged>>

\* INSERT ... ON CONFLICT waits for whoever has inserted the key and not committed.  A key that
\* is there is answered from the stored response, or refused as in progress.
Claim(s) ==
  LET r == request[s]
      k == Key(r) IN
  /\ at[s] = "claim" /\ claimant[k] = None
  /\ \/ message[k] # None /\ Rollback(s)
     \/ /\ message[k] = None
        /\ claimant' = [claimant EXCEPT ![k] = s]
        /\ Goto(s, CASE r.op = "DEPOSIT" -> "route" [] r.op = "TRANSFER" -> "credit"
                     [] r.op = "WITHDRAW" -> "settle" [] r.op = "CHARGE" -> "charge"
                     [] OTHER -> "original")
        /\ UNCHANGED <<book, lock, sharing, request, target, todo, swept, charged>>

\* A refusal, a timeout, a deadlock that is detected, a caller gone: the transaction rolls back.
Abort(s) == at[s] # "idle" /\ Rollback(s)

-----------------------------------------------------------------------------
(* post_merchant_deposit: to settlement while no shard is active, else to an active shard, *)
(* whichever the reference hashes to.  post_transfer: to settlement, never to a shard; the *)
(* VERSION it updates is the one whose status it read. *)

Route(s) ==
  /\ at[s] = "route"
  /\ \E i \in IF Active = {} THEN {Settlement} ELSE Active :
       target' = [target EXCEPT ![s] = i]
  /\ Goto(s, "credit")
  /\ UNCHANGED <<book, lock, sharing, claimant, request, todo, swept, charged>>

Credit(s) ==
  LET i == target[s] IN
  /\ at[s] = "credit" /\ lock[i] = None
  /\ status[i] = "A"
  /\ bal' = [bal EXCEPT ![i] = @ + request[s].amt]
  /\ Record(s, "SUCCESS")
  /\ End(s)
  /\ UNCHANGED <<tier, shards, pledged, status>>

\* post_fee_charge, of any account.  What post_withdraw takes from an account of the group, whose
\* role it does not look at either, is such a charge; its own key is Posting's subject.
Charge(s) ==
  LET i == request[s].acct
      amount == request[s].amt IN
  /\ at[s] = "charge" /\ i \in {Settlement} \cup shards /\ lock[i] = None
  /\ status[i] = "A"
  /\ bal[i] - pledged[i] >= amount
  /\ bal' = [bal EXCEPT ![i] = @ - amount]
  /\ Record(s, "SUCCESS")
  /\ Leave(s)
  /\ charged' = [t \in Sessions |-> IF at[t] \in Counting THEN charged[t] + amount ELSE charged[t]]
  /\ UNCHANGED <<tier, shards, pledged, status>>

-----------------------------------------------------------------------------
(* post_merchant_withdraw *)

\* mutant: the shards are locked first, as a sweep does
LockShardsFirst(s) ==
  /\ at[s] = "settle"
  /\ IF swept[s] = shards THEN Take(s, Settlement) /\ Goto(s, "check") /\ UNCHANGED swept
     ELSE /\ Take(s, Min(shards \ swept[s]))
          /\ swept' = [swept EXCEPT ![s] = @ \cup {Min(shards \ @)}]
          /\ UNCHANGED at
  /\ UNCHANGED <<book, sharing, claimant, request, target, todo, charged>>

LockSettlement(s) ==
  /\ at[s] = "settle" /\ Take(s, Settlement)
  /\ Goto(s, "check")
  /\ UNCHANGED <<book, sharing, claimant, request, target, todo, swept, charged>>

\* mutant: without the fee
EnoughForAmount(r) == GroupAvailable >= r.amt

\* The group has enough, counted before anything is swept.
Enough(r) == GroupAvailable >= Total(r)

\* A restraint on the settlement account refuses, a group that is short too.  A settlement
\* account that is short sweeps, or answers SETTLEMENT_SWEEP_REQUIRED: a result, not an
\* error, so that the transaction commits with the key claimed.
Check(s) ==
  LET r == request[s] IN
  /\ at[s] = "check" /\ pledged[Settlement] = 0 /\ Enough(r)
  /\ \/ /\ bal[Settlement] >= Total(r)
        /\ Goto(s, "debit")
        /\ UNCHANGED <<book, lock, sharing, claimant, request, target, todo, swept, charged>>
     \/ /\ bal[Settlement] < Total(r) /\ r.auto
        /\ Goto(s, "open")
        /\ UNCHANGED <<book, lock, sharing, claimant, request, target, todo, swept, charged>>
     \/ /\ bal[Settlement] < Total(r) /\ ~r.auto
        /\ Record(s, "PENDING")
        /\ End(s)
        /\ UNCHANGED <<tier, shards, bal, pledged, status>>

\* The cursor: the shards active now, in the order of their index.
Open(s) ==
  /\ at[s] = "open"
  /\ todo' = [todo EXCEPT ![s] = Active]
  /\ Goto(s, "sweep")
  /\ UNCHANGED <<book, lock, sharing, claimant, request, target, swept, charged>>

\* post_sweep_shard URGENT of the next one: all it has.  One with a pledge would fall below it
\* (CHECK actual_bal >= total_restrained_amt), and the whole call fails with it.
SweepNext(s) ==
  LET i == Min(todo[s]) IN
  /\ at[s] = "sweep" /\ todo[s] # {}
  /\ Take(s, i)
  /\ pledged[i] = 0
  /\ todo' = [todo EXCEPT ![s] = @ \ {i}]
  /\ swept' = [swept EXCEPT ![s] = @ \cup {i}]
  /\ Goto(s, "log")
  /\ UNCHANGED <<book, sharing, claimant, request, target, charged>>

\* WLT_SWEEP_LOG refers to the group (fk_sweep_group): its INSERT takes FOR KEY SHARE of the
\* group row, which waits for whoever has it FOR UPDATE, and keeps it.
Loggable(s) == at[s] = "log" /\ lock[Group] \in {None, s}

Log(s) ==
  /\ Loggable(s) /\ request[s].op # "SWEEP"
  /\ sharing' = sharing \cup {s}
  /\ Goto(s, "sweep")
  /\ UNCHANGED <<book, lock, claimant, request, target, todo, swept, charged>>

SweepDone(s) ==
  /\ at[s] = "sweep" /\ todo[s] = {}
  /\ Goto(s, IF request[s].op = "WITHDRAW" THEN "debit" ELSE "add")
  /\ UNCHANGED <<book, lock, sharing, claimant, request, target, todo, swept, charged>>

\* The guarded UPDATE of the settlement account.
Debit(s) ==
  LET r == request[s] IN
  /\ at[s] = "debit"
  /\ After(s)[Settlement] - pledged[Settlement] >= Total(r)
  /\ bal' = Settle(s, -Total(r))
  /\ Record(s, "SUCCESS")
  /\ End(s)
  /\ UNCHANGED <<tier, shards, pledged, status>>

-----------------------------------------------------------------------------
(* The reversals of what was posted; the row of the original stays locked.  A withdrawal goes *)
(* back to the settlement account whatever its status and its restraints, a charge to its *)
(* account unless that is closed; a transfer is clawed back if as much is free, and the *)
(* status is not looked at. *)

Original(r) == <<"", r.ref>>
\* mutant: also one that was only claimed
AnyOriginal(m, op) == m # None /\ m.of.op = op
Reversible(m, op) == m # None /\ m.of.op = op /\ m.status = "SUCCESS"

LoadOriginal(s) ==
  LET o == Original(request[s]) IN
  /\ at[s] = "original" /\ claimant[o] = None
  /\ Reversible(message[o], request[s].of)
  /\ claimant' = [claimant EXCEPT ![o] = s]
  /\ target' = [target EXCEPT ![s] = IF request[s].of = "CHARGE" THEN message[o].of.acct ELSE @]
  /\ Goto(s, "refund")
  /\ UNCHANGED <<book, lock, sharing, request, todo, swept, charged>>

\* What the reversal of o brings its account.
Back(o) == IF o.op = "WITHDRAW" THEN Total(o) ELSE IF o.op = "CHARGE" THEN o.amt ELSE -o.amt

Refund(s) ==
  LET o == message[Original(request[s])].of
      i == target[s] IN
  /\ at[s] = "refund" /\ lock[i] = None
  /\ o.op = "CHARGE" => status[i] # "C"
  /\ o.op = "TRANSFER" => bal[i] - pledged[i] >= o.amt
  /\ bal' = [bal EXCEPT ![i] = @ + Back(o)]
  /\ Record(s, "SUCCESS")
  /\ End(s)
  /\ UNCHANGED <<tier, shards, pledged, status>>

-----------------------------------------------------------------------------
(* activate_hot_wallet, rescale_hot_wallet: the group, then the settlement account, then the *)
(* shards; a group that is hot already is swept before it gets more. *)

LockGroup(s) ==
  LET r == request[s] IN
  /\ at[s] = "group" /\ Take(s, Group) /\ sharing = {}
  /\ IF r.op = "ACTIVATE" THEN tier = 0 /\ shards = {} ELSE tier > 0 /\ r.tier > tier
  /\ Goto(s, "anchor")
  /\ UNCHANGED <<book, sharing, claimant, request, target, todo, swept, charged>>

Anchor(s) ==
  /\ at[s] = "anchor" /\ Take(s, Settlement)
  /\ Goto(s, IF request[s].op = "ACTIVATE" THEN "add" ELSE "open")
  /\ UNCHANGED <<book, sharing, claimant, request, target, todo, swept, charged>>

\* mutant: off by one
NewShardsButOne(r) == tier + 2 .. r.tier
NewShards(r) == tier + 1 .. r.tier

Add(s) ==
  LET r == request[s] IN
  /\ at[s] = "add"
  /\ shards' = shards \cup NewShards(r)
  /\ tier' = r.tier
  /\ bal' = After(s)
  /\ End(s)
  /\ UNCHANGED <<pledged, status, message>>

-----------------------------------------------------------------------------
(* post_sweep_shard called on its own: the shard first, then the settlement account *)

LockShard(s) ==
  LET i == request[s].shard IN
  /\ at[s] = "shard" /\ i \in shards /\ Take(s, i)
  /\ Goto(s, "move")
  /\ UNCHANGED <<book, sharing, claimant, request, target, todo, swept, charged>>

Surplus(r) == Max({bal[r.shard] - (IF r.trigger = "URGENT" THEN 0 ELSE Buffer), 0})

Receive(s) ==
  /\ at[s] = "move" /\ Take(s, Settlement)
  /\ Goto(s, "log")
  /\ UNCHANGED <<book, sharing, claimant, request, target, todo, swept, charged>>

MoveSurplus(s) ==
  LET r == request[s]
      surplus == Surplus(r) IN
  /\ Loggable(s) /\ r.op = "SWEEP"
  /\ surplus > 0 => bal[r.shard] - surplus >= pledged[r.shard]
  /\ bal' = [bal EXCEPT ![r.shard] = @ - surplus, ![Settlement] = @ + surplus]
  /\ End(s)
  /\ UNCHANGED <<tier, shards, pledged, status, message>>

-----------------------------------------------------------------------------
(* What else changes an account of the group, each in a transaction of one row *)

AddRestraint(i) ==
  /\ lock[i] = None /\ status[i] # "C"
  /\ pledged[i] + Pledge <= bal[i]
  /\ pledged' = [pledged EXCEPT ![i] = @ + Pledge]
  /\ UNCHANGED <<tier, shards, bal, status, message, calls>>

ReleaseRestraint(i) ==
  /\ lock[i] = None /\ pledged[i] > 0
  /\ pledged' = [pledged EXCEPT ![i] = @ - Pledge]
  /\ UNCHANGED <<tier, shards, bal, status, message, calls>>

SetStatus(i, new) ==
  /\ lock[i] = None /\ status[i] \notin {"C", new}
  /\ new = "C" => bal[i] = 0
  /\ status' = [status EXCEPT ![i] = new]
  /\ UNCHANGED <<tier, shards, bal, pledged, message, calls>>

-----------------------------------------------------------------------------

Step(s) ==
  \/ Claim(s) \/ Abort(s)
  \/ Route(s) \/ Credit(s) \/ Charge(s)
  \/ LockSettlement(s) \/ Check(s) \/ Open(s) \/ SweepNext(s) \/ Log(s) \/ SweepDone(s) \/ Debit(s)
  \/ LoadOriginal(s) \/ Refund(s)
  \/ LockGroup(s) \/ Anchor(s) \/ Add(s)
  \/ LockShard(s) \/ Receive(s) \/ MoveSurplus(s)

Next ==
  \/ \E s \in Sessions : Step(s) \/ \E r \in Requests : Call(s, r)
  \/ \E i \in Watched \cap ({Settlement} \cup shards) :
       \/ AddRestraint(i) \/ ReleaseRestraint(i)
       \/ \E new \in {"A", "B", "C"} : SetStatus(i, new)

Spec == Init /\ [][Next]_vars

-----------------------------------------------------------------------------

\* Rows, locks and sessions have their types; the group has the shards its count names, 1 to
\* SHARD_COUNT (uk_acct_shard, chk_shard_count), and no account falls below what is pledged on
\* it (the CHECK on WLT_ACCT).
TypeOK ==
  /\ tier \in Tiers \cup {0} /\ shards = 1 .. tier
  /\ bal \in [Accounts -> Nat] /\ pledged \in [Accounts -> Nat]
  /\ \A i \in Accounts : pledged[i] <= bal[i]
  /\ status \in [Accounts -> {"A", "B", "C"}]
  /\ \A k \in Keys : message[k] # None =>
       message[k].status \in {"PENDING", "SUCCESS"} /\ message[k].of \in Keyed
  /\ lock \in [{Group} \cup Accounts -> Sessions \cup {None}]
  /\ sharing \subseteq Sessions /\ claimant \in [Keys -> Sessions \cup {None}]
  /\ charged \in [Sessions -> Nat]
  /\ \A s \in Sessions : /\ target[s] \in {Settlement} \cup shards
                         /\ todo[s] \cup swept[s] \subseteq shards

\* The group behaves as one account: every commit that moves money in or out is one posting or
\* one reversal of MerchantBook, once per reference, however it was routed, swept, repeated or
\* cut off, and while the group grows.
PostedAt(f) ==
  LET m == message[<<"", f>>] IN IF m # None /\ m.status = "SUCCESS" THEN m.of ELSE None
Book == INSTANCE MerchantBook WITH
  total <- SumFunction(bal), pledged <- SumFunction(pledged),
  posted <- [f \in Refs |-> PostedAt(f)],
  reversed <- {f \in Refs : \E p \in Prefixes : message[<<p, f>>] # None}
ImplementsMerchantBook == Book!Spec

\* Who has the lock a session waits for, if its next step takes one.
WaitsFor(s) ==
  (CASE at[s] = "claim" -> {claimant[Key(request[s])]}
     [] at[s] = "original" -> {claimant[Original(request[s])]}
     [] at[s] = "group" -> {lock[Group]} \cup sharing
     [] at[s] \in {"settle", "anchor", "move"} -> {lock[Settlement]}
     [] at[s] \in {"credit", "refund"} -> {lock[target[s]]}
     [] at[s] = "charge" -> {lock[request[s].acct]}
     [] at[s] = "shard" -> {lock[request[s].shard]}
     [] at[s] = "sweep" /\ todo[s] # {} -> {lock[Min(todo[s])]}
     [] at[s] = "log" -> {lock[Group]} \ {s}
     [] OTHER -> {}) \ {None}

SweepsForMore(s) == request[s].op = "RESCALE" /\ at[s] = "anchor"
SweepsForPayout(s) == request[s].op = "WITHDRAW" /\ at[s] = "log"

\* Calls lock in one order (reversal key, key, group, settlement, shards by index) but for two
\* places: post_sweep_shard, called directly, takes the shard before the settlement account, and
\* the row that a withdrawal's own sweep logs refers to the group, which a rescale locks first.
\* So sessions that wait for each other in a circle include a direct sweep, or a rescale that has
\* the group and wants the settlement account together with a withdrawal that has the account and
\* wants the group.
CyclesNeedASweep ==
  \A C \in (SUBSET Sessions) \ {{}} :
    (\A s \in C : WaitsFor(s) \cap C # {}) =>
      \/ \E s \in C : request[s].op = "SWEEP"
      \/ (\E s \in C : SweepsForMore(s)) /\ (\E s \in C : SweepsForPayout(s))

\* What the shards have that s did not sweep: blocked, closed or added since it looked.
LeftOut(s) == SumFunctionOnSet(bal, shards \ swept[s])

\* The group is counted before the sweep and without a lock on the shards.  What a withdrawal
\* still lacks after its sweep ("settlement still short after sweep") is on a shard it left out
\* or was charged to a shard in between; deposits, pledges, blocks, other sweeps and a new tier
\* do not make it short.
SweepSuffices ==
  \A s \in Sessions :
    at[s] = "debit" => After(s)[Settlement] + LeftOut(s) + charged[s] >= Total(request[s])

\* A key that is answered with "already in progress" belongs to a call in progress.
PendingIsInProgress ==
  \A k \in Keys : message[k] # None /\ message[k].status = "PENDING" =>
    \E s \in Sessions : at[s] # "idle" /\ Key(request[s]) = k
=============================================================================
