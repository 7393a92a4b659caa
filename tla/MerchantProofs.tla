----------------------------- MODULE MerchantProofs -----------------------------
(***************************************************************************)
(* A merchant group, for any number of sessions, shards and tiers: its     *)
(* lock order, its money, and that it is one account.                      *)
(***************************************************************************)
EXTENDS MerchantGroup, SumProofs

LEMMA TopBounds == Top \in Nat /\ \A n \in Tiers : n <= Top /\ n \in Nat
<1>1. \E m \in Tiers \cup {0} : \A n \in Tiers \cup {0} : m >= n
  BY TiersAssumption
<1>2. Top \in Tiers \cup {0} /\ \A n \in Tiers \cup {0} : Top >= n
  BY <1>1 DEF Top, Max
<1> QED
  BY <1>2, TiersAssumption

LEMMA MinBounds ==
  ASSUME NEW S \in SUBSET Nat, S # {}
  PROVE  Min(S) \in S /\ \A n \in S : Min(S) <= n
<1> QED
  BY LeastNatural DEF Min

-----------------------------------------------------------------------------
(* The inductive invariant.                                                 *)

KeyedOps == {"DEPOSIT", "TRANSFER", "WITHDRAW", "CHARGE", "REVERSAL"}

Places(op) ==
  CASE op = "DEPOSIT"  -> {"claim", "route", "credit"}
    [] op = "TRANSFER" -> {"claim", "credit"}
    [] op = "CHARGE"   -> {"claim", "charge"}
    [] op = "WITHDRAW" -> {"claim", "settle", "check", "open", "sweep", "log", "debit"}
    [] op = "REVERSAL" -> {"claim", "original", "refund"}
    [] op = "SWEEP"    -> {"shard", "move", "log"}
    [] OTHER           -> {"group", "anchor", "open", "sweep", "log", "add"}

Everywhere ==
  {"idle", "claim", "route", "credit", "charge", "settle", "check", "open", "sweep", "log",
   "debit", "original", "refund", "shard", "move", "group", "anchor", "add"}

Rows == {Group} \cup Accounts
Shards == Accounts \ {Settlement}

LocksType ==
  /\ tier \in Nat /\ shards \subseteq Shards
  /\ lock \in [Rows -> Sessions \cup {None}]
  /\ sharing \subseteq Sessions /\ claimant \in [Keys -> Sessions \cup {None}]
  /\ at \in [Sessions -> Everywhere]
  /\ request \in [Sessions -> Requests \cup {None}]
  /\ target \in [Sessions -> Accounts]
  /\ todo \in [Sessions -> SUBSET Shards]
  /\ swept \in [Sessions -> SUBSET Shards]

\* A call is where its operation can be.
Underway ==
  \A s \in Sessions : at[s] # "idle" => request[s] \in Requests /\ at[s] \in Places(request[s].op)

\* The rows a session has locked by now.
LocksHeld ==
  \A s \in Sessions : \A i \in Rows : lock[i] = s =>
    /\ at[s] \in {"check", "anchor", "open", "sweep", "log", "debit", "add", "move"}
    /\ i = Group => request[s].op \in {"ACTIVATE", "RESCALE"}
    /\ at[s] = "anchor" => i = Group
    /\ at[s] \in {"check", "open"} => i <= Settlement
    /\ at[s] \in {"sweep", "log"} /\ request[s].op # "SWEEP" => i <= Settlement \/ i \in swept[s]

\* The keys it has claimed or, of an original, locked.
ClaimsHeld ==
  \A s \in Sessions : \A k \in Keys : claimant[k] = s =>
    /\ at[s] \notin {"idle", "claim", "group"}
    /\ at[s] = "original" => k[1] \in Prefixes

\* A sweep goes through the shards by index.
SweptInOrder ==
  \A s \in Sessions :
    /\ at[s] \notin {"sweep", "log", "debit", "add"} => swept[s] = {}
    /\ at[s] \in {"sweep", "log"} => \A i \in swept[s], j \in todo[s] : i < j

\* Who has logged a sweep is still sweeping, or about to commit.
SharesHeld == \A s \in sharing : at[s] \in {"sweep", "log", "debit", "add"}

OrderInv == LocksType /\ Underway /\ LocksHeld /\ ClaimsHeld /\ SweptInOrder /\ SharesHeld

-----------------------------------------------------------------------------
(* What waits for whom.                                                     *)

Waiting == {"claim", "original", "group", "settle", "anchor", "refund", "credit", "charge", "sweep"}

\* The place in the lock order of what s waits for: reversal keys, keys, the
\* group, the settlement account, the shards.  A sweep that is being logged is
\* out of this order.
Wanted(s) ==
  CASE at[s] = "claim" -> IF request[s].op = "REVERSAL" THEN -3 ELSE -2
    [] at[s] = "original" -> -2
    [] at[s] = "group" -> Group
    [] at[s] \in {"settle", "anchor"} -> Settlement
    [] at[s] \in {"credit", "refund"} -> target[s]
    [] at[s] = "charge" -> request[s].acct
    [] OTHER -> Min(todo[s])

KeyRank(k) == IF k[1] \in Prefixes THEN -3 ELSE -2

Waits(s) == at[s] \in Waiting /\ (at[s] = "sweep" => todo[s] # {})

LEMMA ChargedThere ==
  ASSUME OrderInv, NEW s \in Sessions, at[s] = "charge"
  PROVE  request[s].acct \in Accounts
<1>1. request[s] \in Requests /\ "charge" \in Places(request[s].op)
  BY DEF OrderInv, Underway
<1> QED
  BY <1>1, RequestsAssumption DEF Places

LEMMA WantedBounds ==
  ASSUME OrderInv, NEW s \in Sessions, Waits(s)
  PROVE  Wanted(s) \in Int /\ Wanted(s) <= Top
<1>1. Top \in Nat /\ Accounts \subseteq Nat /\ \A i \in Accounts : i <= Top
  BY TopBounds DEF Accounts, Settlement
<1>2. target[s] \in Accounts /\ todo[s] \subseteq Nat /\ todo[s] \subseteq Accounts
  BY <1>1 DEF OrderInv, LocksType, Shards
<1>3. todo[s] # {} => Min(todo[s]) \in Accounts
  BY <1>2, MinBounds
<1>4. at[s] = "charge" => request[s].acct \in Accounts
  BY ChargedThere
<1> QED
  BY <1>1, <1>2, <1>3, <1>4 DEF Waits, Waiting, Wanted, Group, Settlement

\* What a waiting session holds comes before what it waits for.
LEMMA HeldBefore ==
  ASSUME OrderInv, NEW s \in Sessions, Waits(s)
  PROVE  /\ \A i \in Rows : lock[i] = s => i < Wanted(s)
         /\ s \in sharing => Group < Wanted(s)
         /\ \A k \in Keys : claimant[k] = s => KeyRank(k) < Wanted(s)
<1>1. Accounts \subseteq Nat
  BY TopBounds DEF Accounts, Settlement
<1>2. target[s] \in Nat /\ todo[s] \subseteq Shards /\ todo[s] \subseteq Nat \ {0}
  BY <1>1 DEF OrderInv, LocksType, Shards, Settlement
<1>3. at[s] = "sweep" => Min(todo[s]) \in todo[s] /\ Min(todo[s]) \in Nat \ {0}
  <2> HAVE at[s] = "sweep"
  <2>1. todo[s] # {} /\ todo[s] \in SUBSET Nat
    BY <1>2 DEF Waits
  <2> QED
    BY <1>2, <2>1, MinBounds
<1>4. ASSUME NEW i \in Rows, lock[i] = s PROVE i < Wanted(s)
  <2>1. CASE at[s] = "anchor"
    BY <1>4, <2>1 DEF OrderInv, LocksHeld, Wanted, Group, Settlement
  <2>2. CASE at[s] = "sweep"
    <3>1. Wanted(s) = Min(todo[s])
      BY <2>2 DEF Wanted
    <3>2. i <= Settlement \/ i \in swept[s]
      <4>1. request[s].op # "SWEEP"
        BY <2>2 DEF OrderInv, Underway, Places
      <4> QED
        BY <1>4, <2>2, <4>1 DEF OrderInv, LocksHeld
    <3>3. i \in Int
      BY <1>1 DEF Rows, Group
    <3> QED
      BY <1>3, <2>2, <3>1, <3>2, <3>3 DEF OrderInv, SweptInOrder, Settlement
  <2> QED
    BY <1>4, <2>1, <2>2 DEF OrderInv, LocksHeld, Waits, Waiting
<1>5. ASSUME NEW k \in Keys, claimant[k] = s PROVE KeyRank(k) < Wanted(s)
  <2>1. CASE at[s] = "original"
    BY <1>5, <2>1 DEF OrderInv, ClaimsHeld, Wanted, KeyRank
  <2>2. CASE at[s] # "original"
    <3>1. at[s] \notin {"claim", "group"}
      BY <1>5 DEF OrderInv, ClaimsHeld
    <3>2. Wanted(s) \in Nat
      <4>1. at[s] = "charge" => request[s].acct \in Nat
        BY <1>1, ChargedThere
      <4> QED
        BY <1>2, <1>3, <2>2, <3>1, <4>1 DEF Waits, Waiting, Wanted, Settlement
    <3> QED
      BY <3>2 DEF KeyRank
  <2> QED
    BY <2>1, <2>2
<1>6. ASSUME s \in sharing PROVE Group < Wanted(s)
  <2>1. at[s] = "sweep"
    BY <1>6 DEF OrderInv, SharesHeld, Waits, Waiting
  <2> QED
    BY <1>3, <2>1 DEF Wanted, Group
<1> QED
  BY <1>4, <1>5, <1>6

LEMMA Undone ==
  ASSUME NEW r \in Requests, r.op = "REVERSAL"
  PROVE  Undo[r.of] \in Prefixes
<1>1. r.of \in {"WITHDRAW", "CHARGE", "TRANSFER"}
  BY RequestsAssumption
<1> QED
  BY <1>1 DEF Undo, Prefixes

LEMMA NoPrefix == "" \notin Prefixes
  BY DEF Prefixes

LEMMA KeyTypes ==
  ASSUME NEW r \in Requests, r.op \in KeyedOps
  PROVE  /\ Key(r) \in Keys /\ Original(r) \in Keys
         /\ KeyRank(Key(r)) = IF r.op = "REVERSAL" THEN -3 ELSE -2
         /\ KeyRank(Original(r)) = -2
         /\ r.op = "REVERSAL" => Key(r)[1] \in Prefixes
<1>1. r.ref \in Refs
  BY DEF Refs, Keyed, KeyedOps
<1>2. CASE r.op = "REVERSAL"
  BY <1>1, <1>2, Undone, NoPrefix DEF Keys, Key, Original, KeyRank
<1>3. CASE r.op # "REVERSAL"
  BY <1>1, <1>3, NoPrefix DEF Keys, Key, Original, KeyRank
<1> QED
  BY <1>2, <1>3

\* Whoever another session waits for, if it waits too, waits for something
\* further down the order; unless one of them sweeps on its own or logs a sweep.
LEMMA WaitsClimb ==
  ASSUME OrderInv, NEW s \in Sessions, request[s].op # "SWEEP", at[s] # "log",
         NEW t \in WaitsFor(s), t \in Sessions, Waits(t)
  PROVE  Waits(s) /\ Wanted(s) < Wanted(t)
<1>1. t # None
  BY SessionsAssumption
<1>2. at[s] # "idle" /\ request[s] \in Requests /\ at[s] \in Places(request[s].op)
  BY DEF OrderInv, Underway, WaitsFor
<1>3. Waits(s)
  BY <1>2 DEF WaitsFor, Places, Waits, Waiting
<1>4. CASE at[s] \in {"claim", "original"}
  <2>1. request[s].op \in KeyedOps
    BY <1>2, <1>4 DEF Places, KeyedOps
  <2>2. at[s] = "original" => request[s].op = "REVERSAL"
    BY <1>2 DEF Places
  <2>3. \E k \in Keys : claimant[k] = t /\ KeyRank(k) = Wanted(s)
    BY <1>2, <1>4, <2>1, <2>2, KeyTypes DEF WaitsFor, Wanted
  <2> QED
    BY <1>3, <2>3, HeldBefore
<1>5. CASE at[s] \notin {"claim", "original"}
  <2>1. Wanted(s) \in Rows /\ (lock[Wanted(s)] = t \/ (t \in sharing /\ Wanted(s) = Group))
    <3>1. Settlement \in Accounts /\ target[s] \in Accounts
      BY TopBounds DEF Accounts, Settlement, OrderInv, LocksType
    <3>2. at[s] = "sweep" => Min(todo[s]) \in Accounts
      <4> HAVE at[s] = "sweep"
      <4>1. todo[s] # {} /\ todo[s] \in SUBSET Accounts /\ Accounts \subseteq Nat
        BY <1>3, TopBounds DEF Waits, OrderInv, LocksType, Shards, Accounts, Settlement
      <4> QED
        BY <4>1, MinBounds
    <3>3. at[s] = "charge" => request[s].acct \in Accounts
      BY ChargedThere
    <3> QED
      BY <1>2, <1>3, <1>5, <3>1, <3>2, <3>3 DEF Waits, Waiting, WaitsFor, Wanted, Rows
  <2> QED
    BY <1>3, <2>1, HeldBefore
<1> QED
  BY <1>4, <1>5

LEMMA NoCircle ==
  ASSUME OrderInv, NEW C \in SUBSET Sessions, C # {},
         \A s \in C : WaitsFor(s) \cap C # {},
         \A s \in C : request[s].op # "SWEEP" /\ at[s] # "log"
  PROVE  FALSE
<1>1. \A s \in C : at[s] \in Waiting
  <2> SUFFICES ASSUME NEW s \in C PROVE at[s] \in Waiting
    OBVIOUS
  <2>1. PICK t \in WaitsFor(s) : t \in C
    OBVIOUS
  <2>2. at[s] # "idle" /\ request[s] \in Requests /\ at[s] \in Places(request[s].op)
    BY <2>1 DEF OrderInv, Underway, WaitsFor
  <2> QED
    BY <2>1, <2>2 DEF WaitsFor, Places, Waiting
<1>2. \A s \in C : Waits(s)
  <2> SUFFICES ASSUME NEW s \in C, at[s] = "sweep" PROVE todo[s] # {}
    BY <1>1 DEF Waits
  <2>1. PICK t \in WaitsFor(s) : t \in C
    OBVIOUS
  <2> QED
    BY <2>1 DEF WaitsFor
<1> DEFINE left == {Top - Wanted(s) : s \in C}
<1>3. \A s \in C : Top - Wanted(s) \in Nat /\ Wanted(s) \in Int
  BY <1>2, WantedBounds, TopBounds
<1>4. left \in SUBSET Nat /\ left # {}
  BY <1>3
<1>5. PICK n \in left : \A m \in left : n <= m
  BY <1>4, LeastNatural
<1>6. PICK s \in C : n = Top - Wanted(s)
  BY <1>5
<1>7. PICK t \in C : Wanted(s) < Wanted(t)
  <2>1. PICK t \in WaitsFor(s) : t \in C
    OBVIOUS
  <2>2. Wanted(s) < Wanted(t)
    BY <1>2, <2>1, WaitsClimb
  <2> QED
    BY <2>1, <2>2
<1>8. n <= Top - Wanted(t)
  BY <1>3, <1>5, <1>6, <1>7
<1> QED
  BY <1>3, <1>6, <1>7, <1>8, TopBounds

-----------------------------------------------------------------------------
(* The invariant is inductive.                                              *)

LEMMA OrderInit == Init => OrderInv
<1> SUFFICES ASSUME Init PROVE OrderInv
  OBVIOUS
<1>1. Settlement \in Accounts
  BY TopBounds DEF Accounts, Settlement
<1>2. LocksType
  BY <1>1 DEF Init, LocksType, Rows, Everywhere
<1>3. Underway
  BY DEF Init, Underway
<1>4. LocksHeld
  BY SessionsAssumption DEF Init, LocksHeld, Rows
<1>5. ClaimsHeld
  BY SessionsAssumption DEF Init, ClaimsHeld
<1>6. SweptInOrder /\ SharesHeld
  BY DEF Init, SweptInOrder, SharesHeld
<1> QED
  BY <1>2, <1>3, <1>4, <1>5, <1>6 DEF OrderInv

LEMMA EndKeepsOrder ==
  ASSUME OrderInv, NEW s \in Sessions, Leave(s), tier' \in Nat, shards' \subseteq Shards
  PROVE  OrderInv'
<1> USE DEF OrderInv, LocksType, Everywhere
<1>1. Settlement \in Accounts
  BY TopBounds DEF Accounts, Settlement
<1>2. LocksType'
  BY <1>1 DEF Leave, Goto, Rows
<1>3. /\ at'[s] = "idle" /\ swept'[s] = {}
      /\ \A i \in Rows : lock'[i] # s /\ (lock'[i] # None => lock'[i] = lock[i])
      /\ \A k \in Keys : claimant'[k] # s /\ (claimant'[k] # None => claimant'[k] = claimant[k])
      /\ \A t \in Sessions : t # s => /\ at'[t] = at[t] /\ request'[t] = request[t]
                                      /\ swept'[t] = swept[t] /\ todo'[t] = todo[t]
  BY SessionsAssumption DEF Leave, Goto, Rows
<1>4. Underway'
  BY <1>3 DEF Underway
<1>5. LocksHeld'
  BY <1>3, SessionsAssumption DEF LocksHeld
<1>6. ClaimsHeld'
  BY <1>3, SessionsAssumption DEF ClaimsHeld
<1>7. SweptInOrder'
  BY <1>3 DEF SweptInOrder
<1>8. SharesHeld'
  BY <1>3 DEF Leave, SharesHeld
<1> QED
  BY <1>2, <1>4, <1>5, <1>6, <1>7, <1>8

\* A step of s that locks and claims nothing and goes to another place.
LEMMA MoveKeepsOrder ==
  ASSUME OrderInv, NEW s \in Sessions, NEW place \in Everywhere,
         at' = [at EXCEPT ![s] = place],
         place \in Places(request[s].op), at[s] # "idle",
         UNCHANGED <<tier, shards, lock, sharing, claimant, request, swept>>,
         target' \in [Sessions -> Accounts],
         todo' \in [Sessions -> SUBSET Shards],
         \A t \in Sessions \ {s} : todo'[t] = todo[t],
         \/ at[s] \in {"check", "open", "sweep"}
            /\ place \in {"open", "sweep", "debit", "add"}
            /\ (place = "open" => at[s] = "check")
            /\ (place = "sweep" => at[s] = "open")
         \/ at[s] = "route" /\ place = "credit"
  PROVE  OrderInv'
<1> USE DEF OrderInv, LocksType, Everywhere
<1>1. LocksType'
  OBVIOUS
<1>2. Underway'
  BY DEF Underway
<1>3. LocksHeld'
  BY DEF LocksHeld
<1>4. ClaimsHeld'
  BY DEF ClaimsHeld
<1>5. SweptInOrder'
  BY DEF SweptInOrder
<1>6. SharesHeld'
  BY DEF SharesHeld
<1> QED
  BY <1>1, <1>2, <1>3, <1>4, <1>5, <1>6

\* The messages are of requests.
Named == \A k \in Keys : message[k] # None => message[k].of \in Requests

LEMMA OrderStep ==
  ASSUME OrderInv, Named, [Next]_vars
  PROVE  OrderInv'
<1> USE DEF OrderInv, LocksType, Everywhere
<1>1. Settlement \in Accounts /\ Settlement \in Rows /\ Group \in Rows /\ Group <= Settlement
  BY TopBounds DEF Accounts, Settlement, Rows, Group
<1>2. Shards \subseteq Rows /\ Shards \subseteq Nat /\ Active \subseteq Shards
  <2>1. Accounts \subseteq Nat
    BY TopBounds DEF Accounts, Settlement
  <2> QED
    BY <2>1 DEF Shards, Rows, Active
<1>3. \A s \in Sessions : at[s] # "idle" => request[s] \in Requests /\ at[s] \in Places(request[s].op)
  BY DEF Underway
<1>4. ASSUME NEW s \in Sessions, Rollback(s) PROVE OrderInv'
  BY <1>4, EndKeepsOrder DEF Rollback, End, book
<1>5. ASSUME NEW s \in Sessions, NEW r \in Requests, Call(s, r) PROVE OrderInv'
  <2>1. /\ at[s] = "idle" /\ at' = [at EXCEPT ![s] = First(r)]
        /\ request' = [request EXCEPT ![s] = r]
        /\ UNCHANGED <<tier, shards, sharing, lock, claimant, target, todo, swept>>
    BY <1>5 DEF Call, Goto, book
  <2>2. First(r) \in Places(r.op) /\ First(r) \in {"claim", "group", "shard"}
    BY RequestsAssumption DEF First, Keyed, Places
  <2>3. LocksType' /\ Underway'
    BY <2>1, <2>2 DEF Underway
  <2>4. LocksHeld' /\ ClaimsHeld' /\ SweptInOrder' /\ SharesHeld'
    BY <2>1, <2>2 DEF LocksHeld, ClaimsHeld, SweptInOrder, SharesHeld
  <2> QED
    BY <2>3, <2>4
<1>6. ASSUME NEW s \in Sessions, Claim(s) PROVE OrderInv'
  <2>1. CASE Rollback(s)
    BY <1>4, <2>1
  <2>2. CASE ~Rollback(s)
    <3> DEFINE r == request[s]
               place == CASE r.op = "DEPOSIT" -> "route" [] r.op = "TRANSFER" -> "credit"
                          [] r.op = "WITHDRAW" -> "settle" [] r.op = "CHARGE" -> "charge"
                          [] OTHER -> "original"
    <3>1. /\ at[s] = "claim" /\ claimant[Key(r)] = None
          /\ claimant' = [claimant EXCEPT ![Key(r)] = s]
          /\ at' = [at EXCEPT ![s] = place]
          /\ UNCHANGED <<tier, shards, sharing, lock, request, target, todo, swept>>
      BY <1>6, <2>2 DEF Claim, Goto, book
    <3>2. r \in Requests /\ r.op \in KeyedOps
      BY <1>3, <3>1 DEF Places, KeyedOps
    <3>3. Key(r) \in Keys /\ (r.op = "REVERSAL" => Key(r)[1] \in Prefixes)
      BY <3>2, KeyTypes
    <3>4. /\ place \in {"route", "credit", "charge", "settle", "original"} /\ place \in Places(r.op)
          /\ place = "original" => r.op = "REVERSAL"
      BY <3>2 DEF Places, KeyedOps
    <3>5. LocksType' /\ Underway'
      BY <3>1, <3>2, <3>3, <3>4 DEF Underway
    <3>6. LocksHeld' /\ SweptInOrder' /\ SharesHeld'
      BY <3>1, <3>4 DEF LocksHeld, SweptInOrder, SharesHeld
    <3>7. ClaimsHeld'
      BY <3>1, <3>3, <3>4, SessionsAssumption DEF ClaimsHeld
    <3> QED
      BY <3>5, <3>6, <3>7
  <2> QED
    BY <2>1, <2>2
<1>7. ASSUME NEW s \in Sessions, LoadOriginal(s) PROVE OrderInv'
  <2> DEFINE o == Original(request[s])
  <2>1. /\ at[s] = "original" /\ claimant[o] = None /\ Reversible(message[o], request[s].of)
        /\ claimant' = [claimant EXCEPT ![o] = s]
        /\ at' = [at EXCEPT ![s] = "refund"]
        /\ target' = [target EXCEPT ![s] = IF request[s].of = "CHARGE" THEN message[o].of.acct ELSE @]
        /\ UNCHANGED <<tier, shards, sharing, lock, request, todo, swept>>
    BY <1>7 DEF LoadOriginal, Goto, book
  <2>2. request[s] \in Requests /\ request[s].op = "REVERSAL"
    BY <1>3, <2>1 DEF Places
  <2>3. o \in Keys
    BY <2>2, KeyTypes DEF KeyedOps
  <2>4. request[s].of = "CHARGE" => message[o].of.acct \in Accounts
    BY <2>1, <2>3, RequestsAssumption DEF Reversible, Named
  <2>5. LocksType'
    BY <2>1, <2>4
  <2>6. Underway'
    BY <2>1, <2>2 DEF Underway, Places
  <2>7. LocksHeld' /\ SweptInOrder' /\ SharesHeld' /\ ClaimsHeld'
    BY <2>1, SessionsAssumption DEF LocksHeld, SweptInOrder, SharesHeld, ClaimsHeld
  <2> QED
    BY <2>5, <2>6, <2>7
<1>8. ASSUME NEW s \in Sessions, Route(s) PROVE OrderInv'
  <2>1. /\ at[s] = "route" /\ at' = [at EXCEPT ![s] = "credit"]
        /\ target' \in [Sessions -> Accounts]
        /\ UNCHANGED <<tier, shards, sharing, lock, claimant, request, todo, swept>>
    BY <1>1, <1>2, <1>8 DEF Route, Goto, book, Shards
  <2>2. "credit" \in Places(request[s].op)
    BY <1>3, <2>1 DEF Places
  <2> QED
    BY <2>1, <2>2, MoveKeepsOrder
<1>9. ASSUME NEW s \in Sessions, Check(s), at'[s] # "idle" PROVE OrderInv'
  <2>1. /\ at[s] = "check"
        /\ \E place \in {"debit", "open"} : at' = [at EXCEPT ![s] = place]
        /\ UNCHANGED <<tier, shards, sharing, lock, claimant, request, target, todo, swept>>
    BY <1>9 DEF Check, End, Leave, Goto, book
  <2>2. "debit" \in Places(request[s].op) /\ "open" \in Places(request[s].op)
    BY <1>3, <2>1 DEF Places
  <2> QED
    BY <2>1, <2>2, MoveKeepsOrder
<1>10. ASSUME NEW s \in Sessions, Open(s) PROVE OrderInv'
  <2>1. /\ at[s] = "open" /\ at' = [at EXCEPT ![s] = "sweep"]
        /\ todo' = [todo EXCEPT ![s] = Active]
        /\ UNCHANGED <<tier, shards, sharing, lock, claimant, request, target, swept>>
    BY <1>10 DEF Open, Goto, book
  <2>2. "sweep" \in Places(request[s].op)
    BY <1>3, <2>1 DEF Places
  <2>3. todo' \in [Sessions -> SUBSET Shards] /\ \A t \in Sessions \ {s} : todo'[t] = todo[t]
    BY <1>2, <2>1
  <2> QED
    BY <2>1, <2>2, <2>3, MoveKeepsOrder
<1>11. ASSUME NEW s \in Sessions, SweepDone(s) PROVE OrderInv'
  <2>1. /\ at[s] = "sweep"
        /\ at' = [at EXCEPT ![s] = IF request[s].op = "WITHDRAW" THEN "debit" ELSE "add"]
        /\ UNCHANGED <<tier, shards, sharing, lock, claimant, request, target, todo, swept>>
    BY <1>11 DEF SweepDone, Goto, book
  <2>2. (IF request[s].op = "WITHDRAW" THEN "debit" ELSE "add") \in Places(request[s].op)
    BY <1>3, <2>1 DEF Places
  <2> QED
    BY <2>1, <2>2, MoveKeepsOrder
\* The steps that lock a row.
<1>12. ASSUME NEW s \in Sessions, LockSettlement(s) PROVE OrderInv'
  <2>1. /\ at[s] = "settle" /\ at' = [at EXCEPT ![s] = "check"]
        /\ lock[Settlement] = None /\ lock' = [lock EXCEPT ![Settlement] = s]
        /\ UNCHANGED <<tier, shards, sharing, claimant, request, target, todo, swept>>
    BY <1>12 DEF LockSettlement, Take, Goto, book
  <2>2. "check" \in Places(request[s].op)
    BY <1>3, <2>1 DEF Places
  <2>3. LocksType' /\ Underway'
    BY <2>1, <2>2 DEF Underway
  <2>4. LocksHeld' /\ ClaimsHeld' /\ SweptInOrder' /\ SharesHeld'
    BY <1>1, <2>1 DEF LocksHeld, ClaimsHeld, SweptInOrder, SharesHeld, Settlement, Group
  <2> QED
    BY <2>3, <2>4
<1>13. ASSUME NEW s \in Sessions, LockGroup(s) PROVE OrderInv'
  <2>1. /\ at[s] = "group" /\ at' = [at EXCEPT ![s] = "anchor"]
        /\ lock[Group] = None /\ lock' = [lock EXCEPT ![Group] = s]
        /\ UNCHANGED <<tier, shards, sharing, claimant, request, target, todo, swept>>
    BY <1>13 DEF LockGroup, Take, Goto, book
  <2>2. "anchor" \in Places(request[s].op) /\ request[s].op \in {"ACTIVATE", "RESCALE"}
    BY <1>3, <2>1, RequestsAssumption DEF Places
  <2>3. LocksType' /\ Underway'
    BY <2>1, <2>2 DEF Underway
  <2>4. LocksHeld' /\ ClaimsHeld' /\ SweptInOrder' /\ SharesHeld'
    BY <1>1, <2>1, <2>2 DEF LocksHeld, ClaimsHeld, SweptInOrder, SharesHeld
  <2> QED
    BY <2>3, <2>4
<1>14. ASSUME NEW s \in Sessions, Anchor(s) PROVE OrderInv'
  <2>1. /\ at[s] = "anchor"
        /\ lock[Settlement] = None /\ lock' = [lock EXCEPT ![Settlement] = s]
        /\ \E place \in {"add", "open"} :
             at' = [at EXCEPT ![s] = place] /\ place \in Places(request[s].op)
        /\ UNCHANGED <<tier, shards, sharing, claimant, request, target, todo, swept>>
    BY <1>3, <1>14 DEF Anchor, Take, Goto, book, Places
  <2>2. LocksType' /\ Underway'
    BY <2>1 DEF Underway
  <2>3. LocksHeld' /\ ClaimsHeld' /\ SweptInOrder' /\ SharesHeld'
    BY <1>1, <2>1 DEF LocksHeld, ClaimsHeld, SweptInOrder, SharesHeld, Settlement, Group
  <2> QED
    BY <2>2, <2>3
<1>15. ASSUME NEW s \in Sessions, LockShard(s) PROVE OrderInv'
  <2> DEFINE i == request[s].shard
  <2>1. /\ at[s] = "shard" /\ at' = [at EXCEPT ![s] = "move"] /\ i \in shards
        /\ lock[i] = None /\ lock' = [lock EXCEPT ![i] = s]
        /\ UNCHANGED <<tier, shards, sharing, claimant, request, target, todo, swept>>
    BY <1>15 DEF LockShard, Take, Goto, book
  <2>2. "move" \in Places(request[s].op)
    BY <1>3, <2>1 DEF Places
  <2>3. LocksType' /\ Underway'
    BY <1>2, <2>1, <2>2 DEF Underway
  <2>4. LocksHeld' /\ ClaimsHeld' /\ SweptInOrder' /\ SharesHeld'
    BY <1>2, <2>1 DEF LocksHeld, ClaimsHeld, SweptInOrder, SharesHeld, Group
  <2> QED
    BY <2>3, <2>4
<1>16. ASSUME NEW s \in Sessions, SweepNext(s) PROVE OrderInv'
  <2> DEFINE i == Min(todo[s])
  <2>1. /\ at[s] = "sweep" /\ todo[s] # {}
        /\ lock[i] = None /\ lock' = [lock EXCEPT ![i] = s]
        /\ todo' = [todo EXCEPT ![s] = todo[s] \ {i}]
        /\ swept' = [swept EXCEPT ![s] = swept[s] \cup {i}]
        /\ at' = [at EXCEPT ![s] = "log"]
        /\ UNCHANGED <<tier, shards, sharing, claimant, request, target>>
    BY <1>16 DEF SweepNext, Take, Goto, book
  <2>2. todo[s] \in SUBSET Shards /\ todo[s] \in SUBSET Nat
    BY <1>2
  <2>3. i \in todo[s] /\ \A j \in todo[s] : i <= j
    BY <2>1, <2>2, MinBounds
  <2>4. "log" \in Places(request[s].op) /\ request[s].op # "SWEEP" /\ i # Group
    BY <1>2, <1>3, <2>1, <2>3 DEF Places, Group
  <2>5. LocksType' /\ Underway'
    BY <2>1, <2>2, <2>3, <2>4 DEF Underway
  <2>6. LocksHeld' /\ ClaimsHeld' /\ SharesHeld'
    BY <1>2, <2>1, <2>2, <2>3, <2>4 DEF LocksHeld, ClaimsHeld, SharesHeld
  <2>7. \A x \in swept'[s], j \in todo'[s] : x < j
    BY <2>1, <2>2, <2>3 DEF SweptInOrder
  <2>8. SweptInOrder'
    BY <2>1, <2>7 DEF SweptInOrder
  <2> QED
    BY <2>5, <2>6, <2>8
<1>20. ASSUME NEW s \in Sessions, Log(s) PROVE OrderInv'
  <2>1. /\ at[s] = "log" /\ request[s].op # "SWEEP" /\ at' = [at EXCEPT ![s] = "sweep"]
        /\ sharing' = sharing \cup {s}
        /\ UNCHANGED <<tier, shards, lock, claimant, request, target, todo, swept>>
    BY <1>20 DEF Log, Loggable, Goto, book
  <2>2. "sweep" \in Places(request[s].op)
    BY <1>3, <2>1 DEF Places
  <2>3. LocksType' /\ Underway'
    BY <2>1, <2>2 DEF Underway
  <2>4. LocksHeld' /\ ClaimsHeld'
    BY <2>1 DEF LocksHeld, ClaimsHeld
  <2>5. SweptInOrder' /\ SharesHeld'
    BY <2>1 DEF SweptInOrder, SharesHeld
  <2> QED
    BY <2>3, <2>4, <2>5
<1>21. ASSUME NEW s \in Sessions, Receive(s) PROVE OrderInv'
  <2>1. /\ at[s] = "move" /\ at' = [at EXCEPT ![s] = "log"]
        /\ lock[Settlement] = None /\ lock' = [lock EXCEPT ![Settlement] = s]
        /\ UNCHANGED <<tier, shards, sharing, claimant, request, target, todo, swept>>
    BY <1>21 DEF Receive, Take, Goto, book
  <2>2. "log" \in Places(request[s].op) /\ request[s].op = "SWEEP"
    BY <1>3, <2>1 DEF Places
  <2>3. LocksType' /\ Underway'
    BY <1>1, <2>1, <2>2 DEF Underway
  <2>4. LocksHeld' /\ ClaimsHeld'
    BY <1>1, <2>1, <2>2 DEF LocksHeld, ClaimsHeld, Settlement, Group
  <2>5. SweptInOrder' /\ SharesHeld'
    BY <2>1 DEF SweptInOrder, SharesHeld
  <2> QED
    BY <2>3, <2>4, <2>5
\* The commits.
<1>17. ASSUME NEW s \in Sessions,
              \/ Credit(s) \/ Charge(s) \/ Debit(s) \/ Refund(s) \/ MoveSurplus(s)
              \/ Check(s) /\ at'[s] = "idle"
       PROVE  OrderInv'
  <2>1. Leave(s) /\ UNCHANGED <<tier, shards>>
    BY <1>17 DEF Credit, Charge, End, Debit, Refund, MoveSurplus, Check, Goto, book
  <2> QED
    BY <2>1, EndKeepsOrder
<1>18. ASSUME NEW s \in Sessions, Add(s) PROVE OrderInv'
  <2>1. request[s] \in Requests /\ request[s].op \in {"ACTIVATE", "RESCALE"}
    BY <1>3, <1>18, RequestsAssumption DEF Add, Places
  <2>2. request[s].tier \in Tiers
    BY <2>1, RequestsAssumption
  <2>3. request[s].tier \in Nat /\ request[s].tier <= Top /\ Top \in Nat
    BY <2>2, TopBounds
  <2>4. NewShards(request[s]) \subseteq Shards
    BY <2>3 DEF NewShards, Shards, Accounts, Settlement
  <2> QED
    BY <1>18, <2>3, <2>4, EndKeepsOrder DEF Add, End
<1>19. CASE UNCHANGED <<tier, shards, sharing, lock, claimant, at, request, target, todo, swept>>
  BY <1>19 DEF Underway, LocksHeld, ClaimsHeld, SweptInOrder, SharesHeld
<1> QED
  BY <1>4, <1>5, <1>6, <1>7, <1>8, <1>9, <1>10, <1>11, <1>12, <1>13, <1>14, <1>15, <1>16, <1>17,
     <1>18, <1>19, <1>20, <1>21
     DEF Next, Step, Abort, AddRestraint, ReleaseRestraint, SetStatus, vars, book, calls

-----------------------------------------------------------------------------
(***************************************************************************)
(* The money of the group.                                                 *)
(***************************************************************************)

(* The inductive invariant.                                                 *)

\* The shards are numbered, and whoever adds some holds the group and has seen
\* how many there are.
GrowsAlone(s) ==
  at[s] \in {"anchor", "open", "sweep", "log", "add"} /\ request[s].op \in {"ACTIVATE", "RESCALE"} =>
    /\ lock[Group] = s
    /\ request[s].op = "ACTIVATE" => tier = 0
    /\ request[s].op = "RESCALE" => request[s].tier > tier

Grown == tier \in Tiers \cup {0} /\ shards = 1 .. tier /\ \A s \in Sessions : GrowsAlone(s)

\* A call works on accounts of the group, and has locked those it sweeps; on
\* the shards it has swept nothing is pledged.  A transfer is clawed back from
\* the settlement account.
HoldsAccounts(s) ==
  /\ target[s] \in {Settlement} \cup shards
  /\ todo[s] \subseteq shards /\ swept[s] \subseteq shards
  /\ at[s] \in {"check", "open", "sweep", "log", "debit", "add"} => lock[Settlement] = s
  /\ at[s] = "move" \/ (at[s] = "log" /\ request[s].op = "SWEEP") =>
       request[s].shard \in shards /\ lock[request[s].shard] = s
  /\ at[s] = "log" /\ request[s].op # "SWEEP" => swept[s] # {}
  /\ \A i \in swept[s] : lock[i] = s /\ pledged[i] = 0
  /\ at[s] \in {"idle", "claim", "original"} => target[s] = Settlement
  /\ at[s] = "refund" /\ request[s].of = "TRANSFER" => target[s] = Settlement

Held == \A s \in Sessions : HoldsAccounts(s)

\* A message is under the key of its request.
Filed ==
  /\ message \in [Keys -> Messages \cup {None}]
  /\ \A k \in Keys : message[k] # None => message[k].of \in Keyed /\ Key(message[k].of) = k

\* A charge was of an account of the group; what is reversed was posted, and is
\* of the kind that the prefix of the reversal's key names.
Placed ==
  /\ \A k \in Keys : message[k] # None /\ message[k].of.op = "CHARGE" =>
       message[k].of.acct \in {Settlement} \cup shards
  /\ \A p \in Prefixes, f \in Refs : message[<<p, f>>] # None =>
       \E op \in {"WITHDRAW", "CHARGE", "TRANSFER"} :
         Undo[op] = p /\ Reversible(message[<<"", f>>], op)

\* A call past its claim holds a new key, and a refund what it reverses.
HoldsKeys(s) ==
  /\ at[s] \notin {"idle", "claim"} /\ request[s].op \in KeyedOps =>
       claimant[Key(request[s])] = s /\ message[Key(request[s])] = None
  /\ at[s] = "refund" =>
       /\ claimant[Original(request[s])] = s
       /\ Reversible(message[Original(request[s])], request[s].of)

Claimed == \A s \in Sessions : HoldsKeys(s)

\* Pledges are a whole number of Pledge, and no account is below them.
Backed ==
  /\ bal \in [Accounts -> Nat] /\ pledged \in [Accounts -> Nat]
  /\ \A i \in Accounts : pledged[i] <= bal[i] /\ \E n \in Nat : pledged[i] = n * Pledge
  /\ status \in [Accounts -> {"A", "B", "C"}]
  /\ charged \in [Sessions -> Nat]

\* From the count to the debit, the group has what a withdrawal takes, but for
\* what was charged since: the settlement account is locked, and nothing else
\* leaves a shard for another account than that one.
Funds == SumFunctionOnSet(bal, {Settlement} \cup shards)
HasEnough(s) ==
  at[s] \in Counting /\ request[s].op = "WITHDRAW" =>
    pledged[Settlement] = 0 /\ Funds + charged[s] >= Total(request[s])

Counted == \A s \in Sessions : HasEnough(s)

GroupInv == OrderInv /\ Grown /\ Held /\ Filed /\ Placed /\ Claimed /\ Backed /\ Counted

\* What the end of a call leaves: its locks and claims are gone, the others stay.
LEMMA EndEffects ==
  ASSUME OrderInv, NEW s \in Sessions, Leave(s)
  PROVE  /\ at'[s] = "idle" /\ target'[s] = Settlement /\ todo'[s] = {} /\ swept'[s] = {}
         /\ \A i \in Rows : lock'[i] = IF lock[i] = s THEN None ELSE lock[i]
         /\ \A k \in Keys : claimant'[k] = IF claimant[k] = s THEN None ELSE claimant[k]
         /\ \A t \in Sessions \ {s} :
              /\ at'[t] = at[t] /\ request'[t] = request[t] /\ target'[t] = target[t]
              /\ todo'[t] = todo[t] /\ swept'[t] = swept[t]
<1> QED
  BY DEF Leave, Goto, OrderInv, LocksType, Rows

LEMMA RowsThere == /\ Settlement \in Accounts /\ Settlement \in Rows /\ Group \in Rows
                   /\ Accounts \subseteq Rows /\ Accounts \subseteq Nat /\ Group \notin Accounts
  BY TopBounds DEF Accounts, Settlement, Rows, Group

LEMMA ShardsThere == ASSUME Grown PROVE shards \subseteq Accounts /\ Settlement \notin shards /\ IsFiniteSet(shards)
<1>1. tier \in Nat /\ tier <= Top
  BY TopBounds, TiersAssumption DEF Grown
<1> QED
  BY <1>1, TopBounds, FS_Interval DEF Grown, Accounts, Settlement

LEMMA AccountsFinite == IsFiniteSet(Accounts)
  BY TopBounds, FS_Interval DEF Accounts, Settlement

LEMMA SweptSums ==
  ASSUME Grown, Held, Backed, NEW s \in Sessions
  PROVE  SweptSum(s) \in Nat /\ After(s) \in [Accounts -> Nat]
<1>1. swept[s] \subseteq Accounts /\ IsFiniteSet(swept[s])
  BY ShardsThere, FS_Subset DEF Held, HoldsAccounts
<1>2. SweptSum(s) \in Int
  BY <1>1, SumInt DEF SweptSum, Backed
<1>3. SweptSum(s) >= 0
  BY <1>1, SumNotNegative DEF SweptSum, Backed
<1>4. SweptSum(s) \in Nat
  BY <1>2, <1>3
<1> QED
  BY <1>4, RowsThere DEF After, Backed

LEMMA SweptCovered ==
  ASSUME GroupInv, NEW s \in Sessions
  PROVE  \A i \in Accounts : pledged[i] <= After(s)[i]
<1>1. After(s) \in [Accounts -> Nat] /\ SweptSum(s) \in Nat
  BY SweptSums DEF GroupInv
<1> QED
  BY <1>1, ShardsThere DEF GroupInv, Held, HoldsAccounts, Backed, After

\* A call in progress: its request, and what its place says of it.
LEMMA Known ==
  ASSUME OrderInv, NEW s \in Sessions, at[s] # "idle"
  PROVE  /\ request[s] \in Requests /\ at[s] \in Places(request[s].op)
         /\ request[s].op \in KeyedOps \cup {"ACTIVATE", "RESCALE", "SWEEP"}
         /\ request[s].op \in KeyedOps \ {"REVERSAL"} => request[s].amt \in Nat \ {0}
         /\ request[s].op = "CHARGE" => request[s].acct \in Accounts
         /\ request[s].op = "WITHDRAW" => request[s].fee \in Nat /\ Total(request[s]) \in Nat
         /\ request[s].op \in {"ACTIVATE", "RESCALE"} => request[s].tier \in Tiers
         /\ request[s].op = "SWEEP" => request[s].shard \in 1 .. Top
<1>1. request[s] \in Requests /\ at[s] \in Places(request[s].op)
  BY DEF OrderInv, Underway
<1> QED
  BY <1>1, RequestsAssumption DEF Total, KeyedOps

\* Nobody else writes a key that is claimed.
LEMMA RecordFrame ==
  ASSUME OrderInv, Filed, Claimed, NEW s \in Sessions, at[s] \notin {"idle", "claim"},
         request[s].op \in KeyedOps, NEW st, Record(s, st)
  PROVE  /\ Key(request[s]) \in Keys /\ claimant[Key(request[s])] = s
         /\ message[Key(request[s])] = None
         /\ message'[Key(request[s])] = [status |-> st, of |-> request[s]]
         /\ \A k \in Keys \ {Key(request[s])} : message'[k] = message[k]
<1>1. Key(request[s]) \in Keys
  BY Known, KeyTypes
<1> QED
  BY <1>1 DEF Record, Claimed, HoldsKeys, Filed

\* What a step of s leaves to another session t, and what t's locks keep from it.
Frame(t) ==
  /\ at'[t] = at[t] /\ request'[t] = request[t] /\ target'[t] = target[t]
  /\ todo'[t] = todo[t] /\ swept'[t] = swept[t]
  /\ \A i \in Rows : lock[i] = t => lock'[i] = t
  /\ \A i \in Accounts : lock[i] = t => pledged'[i] = pledged[i]
  /\ \A k \in Keys : claimant[k] = t => claimant'[k] = t /\ message'[k] = message[k]
  /\ lock[Group] = t => tier' = tier
  /\ shards \subseteq shards'
  /\ lock[Settlement] = t /\ at[t] \in Counting => shards' = shards
  /\ lock[Settlement] = t /\ at[t] \in Counting /\ shards' = shards =>
       Funds' + charged'[t] >= Funds + charged[t]

\* What no account has less of the group has not less of.
LEMMA FundsInt == ASSUME Grown, Backed PROVE Funds \in Int
<1>1. IsFiniteSet({Settlement} \cup shards) /\ {Settlement} \cup shards \subseteq Accounts
  BY ShardsThere, RowsThere, AccountsFinite, FS_Subset
<1>2. \A i \in {Settlement} \cup shards : bal[i] \in Int
  BY <1>1 DEF Backed
<1> QED
  BY <1>1, <1>2, SumInt DEF Funds

LEMMA FundsGrow ==
  ASSUME Grown, Backed, shards' = shards,
         \A i \in Accounts : bal'[i] \in Int /\ bal[i] <= bal'[i]
  PROVE  Funds' \in Int /\ Funds' >= Funds
<1> DEFINE S == {Settlement} \cup shards
<1>1. IsFiniteSet(S) /\ S \subseteq Accounts
  BY ShardsThere, RowsThere, AccountsFinite, FS_Subset
<1>2. \A i \in S : bal[i] \in Int /\ bal'[i] \in Int /\ bal[i] <= bal'[i]
  BY <1>1 DEF Backed
<1>3. PICK new : new = bal'
  OBVIOUS
<1>4. Funds = SumFunctionOnSet(bal, S) /\ Funds' = SumFunctionOnSet(new, S)
  BY <1>3 DEF Funds
<1> HIDE DEF S
<1>5. SumFunctionOnSet(bal, S) <= SumFunctionOnSet(new, S)
  BY <1>1, <1>2, <1>3, SumMonotone
<1>6. SumFunctionOnSet(bal, S) \in Int /\ SumFunctionOnSet(new, S) \in Int
  BY <1>1, <1>2, <1>3, SumInt
<1> QED
  BY <1>4, <1>5, <1>6

LEMMA EndFrame ==
  ASSUME OrderInv, Grown, Backed, NEW s \in Sessions, End(s), NEW t \in Sessions \ {s},
         UNCHANGED <<tier, shards, pledged>>,
         \A k \in Keys : claimant[k] = t => message'[k] = message[k],
         lock[Settlement] = t => \A i \in Accounts : bal'[i] \in Int /\ bal[i] <= bal'[i]
  PROVE  Frame(t)
<1>0. Leave(s) /\ charged'[t] = charged[t] /\ charged[t] \in Int
  BY DEF End, Backed
<1>1. \A i \in Rows : lock[i] = t => lock'[i] = t
  BY <1>0, EndEffects
<1>2. \A k \in Keys : claimant[k] = t => claimant'[k] = t
  BY <1>0, EndEffects
<1>3. lock[Settlement] = t => Funds' + charged'[t] >= Funds + charged[t]
  BY <1>0, FundsInt, FundsGrow
<1> QED
  BY <1>0, <1>1, <1>2, <1>3, EndEffects DEF Frame

LEMMA StepFrame ==
  ASSUME OrderInv, Grown, Held, Filed, Claimed, Backed,
         NEW s \in Sessions, Step(s), NEW t \in Sessions \ {s}
  PROVE  Frame(t)
<1>1. /\ \A i \in Accounts : bal[i] \in Int /\ bal[i] <= bal[i]
      /\ charged[t] \in Int /\ Funds \in Int
  BY FundsInt DEF Backed
<1>2. ASSUME Rollback(s) PROVE Frame(t)
  BY <1>1, <1>2, EndFrame DEF Rollback, book
<1>3. ASSUME NEW st, Record(s, st), at[s] \notin {"idle", "claim"},
             request[s].op \in KeyedOps
      PROVE  \A k \in Keys : claimant[k] = t => message'[k] = message[k]
  <2>1. PICK r : r = request[s]
    OBVIOUS
  <2> QED
    BY <1>3, RecordFrame
<1>4. ASSUME Credit(s) PROVE Frame(t)
  <2>1. request[s].op \in {"DEPOSIT", "TRANSFER"} /\ request[s].amt \in Nat
    BY <1>4, Known DEF Credit, Places, KeyedOps
  <2>2. \A i \in Accounts : bal'[i] \in Int /\ bal[i] <= bal'[i]
    BY <1>1, <1>4, <2>1 DEF Credit, Backed
  <2>3. request[s].op \in KeyedOps
    BY <2>1 DEF KeyedOps
  <2> QED
    BY <1>3, <1>4, <2>2, <2>3, EndFrame DEF Credit
<1>5. ASSUME Debit(s) PROVE Frame(t)
  <2>1. request[s].op \in KeyedOps /\ lock[Settlement] # t
    BY <1>5, Known DEF Debit, Places, Held, HoldsAccounts, KeyedOps
  <2> QED
    BY <1>3, <1>5, <2>1, EndFrame DEF Debit
<1>6. ASSUME Refund(s) PROVE Frame(t)
  <2> DEFINE o == message[Original(request[s])].of
  <2>1. request[s].op = "REVERSAL" /\ request[s].op \in KeyedOps
    BY <1>6, Known DEF Refund, Places, KeyedOps
  <2>2. o \in Requests /\ o.op = request[s].of /\ o.op \in {"WITHDRAW", "CHARGE", "TRANSFER"}
    <3>1. request[s] \in Requests /\ Original(request[s]) \in Keys
      BY <1>6, <2>1, Known, KeyTypes DEF Refund
    <3> QED
      BY <1>6, <2>1, <3>1, RequestsAssumption
         DEF Refund, Claimed, HoldsKeys, Reversible, Filed, Keyed
  <2>3. CASE o.op = "TRANSFER"
    <3>1. lock[Settlement] # t
      BY <1>6, <2>1, <2>2, <2>3, SessionsAssumption, ZenonT(60)
         DEF Refund, Held, HoldsAccounts
    <3> QED
      BY <1>3, <1>6, <2>1, <3>1, EndFrame DEF Refund
  <2>4. CASE o.op # "TRANSFER"
    <3>1. Back(o) \in Nat
      BY <2>2, <2>4, RequestsAssumption DEF Back, Total
    <3>2. bal' = [bal EXCEPT ![target[s]] = @ + Back(o)]
      BY <1>6 DEF Refund
    <3> HIDE DEF o
    <3>3. \A i \in Accounts : bal'[i] \in Int /\ bal[i] <= bal'[i]
      BY <1>1, <3>1, <3>2 DEF Backed
    <3> QED
      BY <1>3, <1>6, <2>1, <3>3, EndFrame DEF Refund
  <2> QED
    BY <2>3, <2>4
<1>7. ASSUME MoveSurplus(s) PROVE Frame(t)
  <2>1. lock[Settlement] # t
    BY <1>7, SessionsAssumption DEF MoveSurplus, Loggable, Held, HoldsAccounts
  <2> QED
    BY <1>7, <2>1, EndFrame DEF MoveSurplus
<1>19. ASSUME Charge(s) PROVE Frame(t)
  <2> DEFINE i == request[s].acct
             S == {Settlement} \cup shards
  <2>1. PICK n \in Nat : n = request[s].amt
    BY <1>19, Known DEF Charge, Places, KeyedOps
  <2>2. request[s].op = "CHARGE" /\ request[s].op \in KeyedOps
    BY <1>19, Known DEF Charge, Places, KeyedOps
  <2>3. /\ i \in S /\ bal' = [bal EXCEPT ![i] = @ - n] /\ Record(s, "SUCCESS") /\ Leave(s)
        /\ charged'[t] = IF at[t] \in Counting THEN charged[t] + n ELSE charged[t]
        /\ UNCHANGED <<tier, shards, pledged>> /\ at[s] = "charge"
    BY <1>19, <2>1 DEF Charge
  <2>4. IsFiniteSet(S) /\ S \subseteq Accounts
    BY ShardsThere, RowsThere, AccountsFinite, FS_Subset
  <2>5. PICK new : new = bal'
    OBVIOUS
  <2>6. Funds' = SumFunctionOnSet(new, S) /\ Funds = SumFunctionOnSet(bal, S)
    BY <2>3, <2>5 DEF Funds
  <2>7. /\ \A j \in S : bal[j] \in Int /\ new[j] \in Int
        /\ \A j \in S \ {i} : new[j] = bal[j]
        /\ new[i] = bal[i] - n
    BY <2>1, <2>3, <2>4, <2>5 DEF Backed
  <2> HIDE DEF i, S
  <2>8. SumFunctionOnSet(new, S) = SumFunctionOnSet(bal, S) - bal[i] + new[i]
    BY <2>3, <2>4, <2>7, SumChange
  <2>9. Funds' = Funds - n
    BY <1>1, <2>3, <2>6, <2>7, <2>8
  <2>10. at[t] \in Counting => Funds' + charged'[t] >= Funds + charged[t]
    BY <1>1, <2>1, <2>3, <2>9
  <2>11. \A k \in Keys : claimant[k] = t => message'[k] = message[k]
    BY <1>3, <2>2, <2>3
  <2> QED
    BY <2>3, <2>10, <2>11, EndEffects DEF Frame
<1>8. ASSUME Add(s) PROVE Frame(t)
  <2>1. at[s] = "add" /\ request[s].op \in {"ACTIVATE", "RESCALE"}
    BY <1>8, Known DEF Add, Places, KeyedOps
  <2>2. lock[Settlement] = s /\ lock[Group] = s
    BY <2>1 DEF Held, HoldsAccounts, Grown, GrowsAlone
  <2> QED
    BY <1>8, <2>2, EndEffects DEF Add, End, Frame
<1>9. ASSUME Check(s), at'[s] = "idle" PROVE Frame(t)
  <2>1. request[s].op \in KeyedOps /\ at[s] = "check"
    BY <1>9, Known DEF Check, Places, KeyedOps
  <2>2. End(s) /\ Record(s, "PENDING") /\ UNCHANGED <<tier, shards, bal, pledged>>
    BY <1>9, <2>1 DEF Check, Goto, OrderInv, LocksType
  <2> QED
    BY <1>1, <1>3, <2>1, <2>2, EndFrame
<1>10. ASSUME /\ UNCHANGED <<book, request, charged>>
              /\ at'[t] = at[t] /\ target'[t] = target[t] /\ todo'[t] = todo[t] /\ swept'[t] = swept[t]
              /\ \A i \in Rows : lock[i] = t => lock'[i] = t
              /\ \A k \in Keys : claimant[k] = t => claimant'[k] = t
       PROVE  Frame(t)
  <2>1. UNCHANGED <<bal, tier, shards, pledged, message, request, charged>>
    BY <1>10 DEF book
  <2>2. Funds' = Funds
    BY <2>1 DEF Funds
  <2> QED
    BY <1>1, <1>10, <2>1, <2>2 DEF Frame
<1>11. ASSUME NEW i \in Rows, Take(s, i) PROVE \A j \in Rows : lock[j] = t => lock'[j] = t
  BY <1>11, SessionsAssumption DEF Take, OrderInv, LocksType
<1>12. ASSUME Claim(s), ~Rollback(s) PROVE Frame(t)
  <2>1. request[s].op \in KeyedOps
    BY <1>12, Known DEF Claim, Places, KeyedOps
  <2>2. Key(request[s]) \in Keys
    BY <1>12, <2>1, Known, KeyTypes DEF Claim
  <2> QED
    BY <1>10, <1>12, <2>2, SessionsAssumption DEF Claim, Goto, OrderInv, LocksType
<1>13. ASSUME LoadOriginal(s) PROVE Frame(t)
  <2>1. request[s].op \in KeyedOps
    BY <1>13, Known DEF LoadOriginal, Places, KeyedOps
  <2>2. Original(request[s]) \in Keys
    BY <1>13, <2>1, Known, KeyTypes DEF LoadOriginal
  <2> QED
    BY <1>10, <1>13, <2>2, SessionsAssumption DEF LoadOriginal, Goto, OrderInv, LocksType
<1>14. ASSUME Check(s), at'[s] # "idle" PROVE Frame(t)
  BY <1>10, <1>14 DEF Check, End, Leave, Goto, OrderInv, LocksType
<1>15. ASSUME Route(s) \/ Open(s) \/ Log(s) \/ SweepDone(s) PROVE Frame(t)
  BY <1>10, <1>15 DEF Route, Open, Log, SweepDone, Goto, OrderInv, LocksType
<1>16. ASSUME LockSettlement(s) \/ LockGroup(s) \/ Anchor(s) \/ Receive(s) PROVE Frame(t)
  <2>1. /\ UNCHANGED <<book, claimant, request, target, todo, swept, charged>>
        /\ at'[t] = at[t]
    BY <1>16 DEF LockSettlement, LockGroup, Anchor, Receive, Goto, OrderInv, LocksType
  <2>2. Take(s, Settlement) \/ Take(s, Group)
    BY <1>16 DEF LockSettlement, LockGroup, Anchor, Receive
  <2> QED
    BY <1>10, <1>11, <2>1, <2>2, RowsThere
<1>17. ASSUME LockShard(s) PROVE Frame(t)
  <2>1. request[s].shard \in Rows
    BY <1>17, ShardsThere, RowsThere DEF LockShard
  <2> QED
    BY <1>10, <1>11, <1>17, <2>1 DEF LockShard, Goto, OrderInv, LocksType
<1>18. ASSUME SweepNext(s) PROVE Frame(t)
  <2>1. todo[s] \in SUBSET Nat /\ todo[s] \in SUBSET Rows /\ todo[s] # {}
    BY <1>18, RowsThere DEF SweepNext, OrderInv, LocksType, Shards
  <2>2. Min(todo[s]) \in Rows
    BY <2>1, MinBounds
  <2> QED
    BY <1>10, <1>11, <1>18, <2>2 DEF SweepNext, Goto, OrderInv, LocksType
<1> QED
  BY <1>2, <1>4, <1>5, <1>6, <1>7, <1>8, <1>9, <1>12, <1>13, <1>14, <1>15, <1>16, <1>17, <1>18, <1>19
     DEF Step, Abort

LEMMA SurplusBounds ==
  ASSUME Backed, NEW s \in Sessions, request[s].shard \in Accounts
  PROVE  LET n == Surplus(request[s]) IN n \in Nat /\ n <= bal[request[s].shard]
<1> DEFINE x == bal[request[s].shard] - (IF request[s].trigger = "URGENT" THEN 0 ELSE Buffer)
<1>1. x \in Int /\ x <= bal[request[s].shard] /\ bal[request[s].shard] \in Nat
  BY AmountsAssumption DEF Backed
<1>2. Surplus(request[s]) = Max({x, 0})
  BY DEF Surplus
<1> HIDE DEF x
<1>3. \E m \in {x, 0} : \A n \in {x, 0} : m >= n
  BY <1>1
<1>4. Max({x, 0}) \in {x, 0} /\ \A n \in {x, 0} : Max({x, 0}) >= n
  BY <1>3 DEF Max
<1> QED
  BY <1>1, <1>2, <1>4

LEMMA FrameKeeps ==
  ASSUME GroupInv, NEW t \in Sessions, Frame(t), Backed'
  PROVE  GrowsAlone(t)' /\ HoldsAccounts(t)' /\ HoldsKeys(t)' /\ HasEnough(t)'
<1>1. GrowsAlone(t)'
  BY RowsThere DEF GroupInv, Grown, GrowsAlone, Frame
<1>2. HoldsAccounts(t)'
  <2>1. HoldsAccounts(t) /\ shards \subseteq Rows /\ shards \subseteq Accounts
    BY ShardsThere, RowsThere DEF GroupInv, Held
  <2> QED
    BY <2>1, RowsThere, ZenonT(60) DEF HoldsAccounts, Frame
<1>3. HoldsKeys(t)'
  <2>1. HoldsKeys(t)
    BY DEF GroupInv, Claimed
  <2>2. at[t] # "idle" /\ request[t].op \in KeyedOps =>
          Key(request[t]) \in Keys /\ Original(request[t]) \in Keys
    BY Known, KeyTypes DEF GroupInv
  <2>3. at[t] = "refund" => request[t].op \in KeyedOps
    BY Known DEF GroupInv, Places, KeyedOps
  <2> QED
    BY <2>1, <2>2, <2>3 DEF HoldsKeys, Frame
<1>4. HasEnough(t)'
  <2> SUFFICES ASSUME at[t] \in Counting, request[t].op = "WITHDRAW"
               PROVE  pledged'[Settlement] = 0 /\ Funds' + charged'[t] >= Total(request[t])
    BY DEF HasEnough, Frame, Total
  <2>1. OrderInv /\ HasEnough(t) /\ at[t] # "idle" /\ lock[Settlement] = t
    BY DEF GroupInv, Held, HoldsAccounts, Counted, Counting
  <2>2. pledged'[Settlement] = 0 /\ shards' = shards
    BY <2>1, RowsThere DEF HasEnough, Frame
  <2>3. Funds \in Int /\ charged[t] \in Int /\ charged'[t] \in Int /\ Total(request[t]) \in Int
    BY <2>1, Known, FundsInt DEF GroupInv, Backed
  <2>4. Funds' \in Int
    <3>1. IsFiniteSet({Settlement} \cup shards) /\ {Settlement} \cup shards \subseteq Accounts
      BY ShardsThere, RowsThere, AccountsFinite, FS_Subset DEF GroupInv
    <3>2. PICK new \in [Accounts -> Nat] : new = bal'
      BY DEF Backed
    <3>3. \A i \in {Settlement} \cup shards : new[i] \in Int
      BY <3>1
    <3>4. Funds' = SumFunctionOnSet(new, {Settlement} \cup shards)
      BY <2>2, <3>2 DEF Funds
    <3> QED
      BY <3>1, <3>3, <3>4, SumInt
  <2>5. Funds' + charged'[t] >= Funds + charged[t] /\ Funds + charged[t] >= Total(request[t])
    BY <2>1, <2>2 DEF HasEnough, Frame
  <2> QED
    BY <2>2, <2>3, <2>4, <2>5
<1> QED
  BY <1>1, <1>2, <1>3, <1>4

\* What a refund is of.
LEMMA RefundOf ==
  ASSUME GroupInv, NEW s \in Sessions, Refund(s)
  PROVE  LET m == message[Original(request[s])]
             o == m.of
         IN  /\ request[s] \in Requests /\ request[s].op = "REVERSAL"
             /\ Original(request[s]) \in Keys /\ m # None /\ m.status = "SUCCESS"
             /\ o \in Requests /\ o.op = request[s].of
             /\ o.op \in {"WITHDRAW", "CHARGE", "TRANSFER"}
<1>1. request[s] \in Requests /\ request[s].op = "REVERSAL" /\ at[s] = "refund"
  BY Known DEF GroupInv, Refund, Places, KeyedOps
<1>2. Original(request[s]) \in Keys
  BY <1>1, KeyTypes DEF KeyedOps
<1> QED
  BY <1>1, <1>2, RequestsAssumption DEF GroupInv, Claimed, HoldsKeys, Reversible, Filed, Keyed

LEMMA BackKnown ==
  ASSUME NEW o \in Requests, o.op \in {"WITHDRAW", "CHARGE", "TRANSFER"}
  PROVE  /\ o.amt \in Nat /\ (o.op = "WITHDRAW" => o.fee \in Nat)
         /\ Back(o) \in Int /\ (o.op # "TRANSFER" => Back(o) >= 0)
<1>1. o.amt \in Nat /\ (o.op = "WITHDRAW" => o.fee \in Nat)
  BY RequestsAssumption
<1> QED
  BY <1>1 DEF Back, Total

\* The balances and pledges stay where they belong.
LEMMA BackedStep ==
  ASSUME GroupInv, NEW s \in Sessions, Step(s)
  PROVE  Backed'
<1>0. charged' \in [Sessions -> Nat]
  <2>1. charged \in [Sessions -> Nat]
    BY DEF GroupInv, Backed
  <2>2. CASE UNCHANGED charged \/ End(s)
    BY <2>1, <2>2 DEF End
  <2>3. CASE Charge(s)
    <3>1. PICK n \in Nat : n = request[s].amt
      BY <2>3, Known DEF Charge, Places, KeyedOps, GroupInv
    <3>2. charged' = [t \in Sessions |-> IF at[t] \in Counting THEN charged[t] + n ELSE charged[t]]
      BY <2>3, <3>1 DEF Charge
    <3> QED
      BY <2>1, <3>2
  <2> QED
    BY <2>2, <2>3
       DEF Step, Claim, Abort, Rollback, Route, Credit, LockSettlement, Check, Open, SweepNext, Log,
           SweepDone, Debit, LoadOriginal, Refund, LockGroup, Anchor, Add, LockShard, Receive,
           MoveSurplus
<1>1. ASSUME UNCHANGED <<bal, pledged, status>> PROVE Backed'
  BY <1>0, <1>1 DEF GroupInv, Backed
<1>2. ASSUME bal' \in [Accounts -> Nat], \A i \in Accounts : pledged[i] <= bal'[i],
             UNCHANGED <<pledged, status>>
      PROVE  Backed'
  BY <1>0, <1>2 DEF GroupInv, Backed
<1>3. After(s) \in [Accounts -> Nat] /\ SweptSum(s) \in Nat
  BY SweptSums DEF GroupInv
<1>4. \A i \in Accounts : pledged[i] <= After(s)[i]
  BY SweptCovered
<1>5. ASSUME Credit(s) PROVE Backed'
  <2>1. request[s].amt \in Nat
    BY <1>5, Known DEF Credit, Places, KeyedOps, GroupInv
  <2>2. bal \in [Accounts -> Nat] /\ \A i \in Accounts : pledged[i] \in Nat /\ pledged[i] <= bal[i]
    BY DEF GroupInv, Backed
  <2>3a. PICK n \in Nat : bal' = [bal EXCEPT ![target[s]] = @ + n]
    BY <1>5, <2>1 DEF Credit
  <2>3b. target[s] \in Accounts
    BY DEF GroupInv, OrderInv, LocksType
  <2>3x. bal' \in [Accounts -> Nat]
    BY <2>2, <2>3a, <2>3b
  <2>3y. \A i \in Accounts : pledged[i] <= bal'[i]
    BY <2>2, <2>3a
  <2>3. bal' \in [Accounts -> Nat] /\ \A i \in Accounts : pledged[i] <= bal'[i]
    BY <2>3x, <2>3y
  <2> QED
    BY <1>2, <1>5, <2>3 DEF Credit
<1>6. ASSUME Debit(s) PROVE Backed'
  <2>1. Total(request[s]) \in Nat
    BY <1>6, Known DEF Debit, Places, GroupInv
  <2>2. /\ bal' = [After(s) EXCEPT ![Settlement] = @ + (-Total(request[s]))]
        /\ After(s)[Settlement] - pledged[Settlement] >= Total(request[s])
        /\ UNCHANGED <<pledged, status>>
    BY <1>6 DEF Debit, Settle
  <2>3. pledged[Settlement] \in Nat /\ After(s)[Settlement] \in Nat
    BY <1>3, RowsThere DEF GroupInv, Backed
  <2>4. PICK after \in [Accounts -> Nat] : after = After(s)
    BY <1>3
  <2>5. \A i \in Accounts : pledged[i] \in Nat /\ pledged[i] <= after[i]
    BY <1>4, <2>4 DEF GroupInv, Backed
  <2>6. PICK n \in Nat : n = Total(request[s])
    BY <2>1
  <2>7. bal' = [after EXCEPT ![Settlement] = @ + (-n)]
    BY <2>2, <2>4, <2>6
  <2>8x. bal' \in [Accounts -> Nat]
    BY <2>2, <2>3, <2>4, <2>6, <2>7, RowsThere
  <2>8y. \A i \in Accounts : pledged[i] <= bal'[i]
    BY <2>2, <2>3, <2>4, <2>5, <2>6, <2>7
  <2>8. bal' \in [Accounts -> Nat] /\ \A i \in Accounts : pledged[i] <= bal'[i]
    BY <2>8x, <2>8y
  <2> QED
    BY <1>2, <2>2, <2>8
<1>7. ASSUME Refund(s) PROVE Backed'
  <2>1. PICK o \in Requests : /\ o = message[Original(request[s])].of
                              /\ o.op \in {"WITHDRAW", "CHARGE", "TRANSFER"}
    BY <1>7, RefundOf
  <2>2. PICK n \in Int : n = Back(o) /\ (o.op # "TRANSFER" => n >= 0)
    BY <2>1, BackKnown
  <2>3. PICK i \in Accounts : i = target[s]
    BY DEF GroupInv, OrderInv, LocksType
  <2>4. bal' = [bal EXCEPT ![i] = @ + n] /\ UNCHANGED <<pledged, status>>
    BY <1>7, <2>1, <2>2, <2>3 DEF Refund
  <2>5. bal \in [Accounts -> Nat] /\ \A j \in Accounts : pledged[j] \in Nat /\ pledged[j] <= bal[j]
    BY DEF GroupInv, Backed
  <2>6. pledged[i] <= bal[i] + n
    <3>1. CASE o.op = "TRANSFER"
      <4>1. bal[i] - pledged[i] >= o.amt /\ n = -o.amt /\ o.amt \in Nat
        BY <1>7, <2>1, <2>2, <2>3, <3>1, RequestsAssumption DEF Refund, Back
      <4> QED
        BY <2>5, <4>1
    <3>2. CASE o.op # "TRANSFER"
      BY <2>2, <2>5, <3>2
    <3> QED
      BY <3>1, <3>2
  <2>7. bal' \in [Accounts -> Nat]
    BY <2>4, <2>5, <2>6
  <2>8. \A j \in Accounts : pledged[j] <= bal'[j]
    BY <2>4, <2>5, <2>6
  <2> QED
    BY <1>2, <2>4, <2>7, <2>8
<1>10. ASSUME Charge(s) PROVE Backed'
  <2>1. PICK n \in Nat, i \in Accounts : n = request[s].amt /\ i = request[s].acct
    BY <1>10, Known DEF Charge, Places, KeyedOps, GroupInv
  <2>2. bal' = [bal EXCEPT ![i] = @ - n] /\ bal[i] - pledged[i] >= n /\ UNCHANGED <<pledged, status>>
    BY <1>10, <2>1 DEF Charge
  <2>3. bal \in [Accounts -> Nat] /\ \A j \in Accounts : pledged[j] \in Nat /\ pledged[j] <= bal[j]
    BY DEF GroupInv, Backed
  <2>4. bal' \in [Accounts -> Nat] /\ \A j \in Accounts : pledged[j] <= bal'[j]
    BY <2>2, <2>3
  <2> QED
    BY <1>2, <2>2, <2>4
<1>8. ASSUME Add(s) PROVE Backed'
  BY <1>2, <1>3, <1>4, <1>8 DEF Add
<1>9. ASSUME MoveSurplus(s) PROVE Backed'
  <2> DEFINE i == request[s].shard
             n == Surplus(request[s])
  <2>1. i \in Accounts /\ i # Settlement /\ Settlement \in Accounts
    BY <1>9, ShardsThere, RowsThere DEF MoveSurplus, Loggable, GroupInv, Held, HoldsAccounts
  <2>2. n \in Nat /\ n <= bal[i]
    BY <2>1, SurplusBounds DEF GroupInv
  <2>3. n > 0 => bal[i] - n >= pledged[i]
    BY <1>9 DEF MoveSurplus
  <2>4. bal' = [bal EXCEPT ![i] = @ - n, ![Settlement] = @ + n] /\ UNCHANGED <<pledged, status>>
    BY <1>9 DEF MoveSurplus
  <2>5. bal \in [Accounts -> Nat] /\ \A j \in Accounts : pledged[j] \in Nat /\ pledged[j] <= bal[j]
    BY DEF GroupInv, Backed
  <2> HIDE DEF i, n
  <2>6. bal' \in [Accounts -> Nat]
    BY <2>1, <2>2, <2>4, <2>5
  <2>7. \A j \in Accounts : pledged[j] <= bal'[j]
    BY <2>1, <2>2, <2>3, <2>4, <2>5
  <2> QED
    BY <1>2, <2>4, <2>6, <2>7
<1> QED
  BY <1>1, <1>5, <1>6, <1>7, <1>8, <1>9, <1>10
     DEF Step, Claim, Abort, Rollback, Route, LockSettlement, Check, Open, SweepNext, Log, SweepDone,
         LoadOriginal, LockGroup, Anchor, LockShard, Receive, book

\* A group grows by the shards after its last.
LEMMA GrownStep ==
  ASSUME GroupInv, NEW s \in Sessions, Step(s)
  PROVE  tier' \in Tiers \cup {0} /\ shards' = 1 .. tier'
<1>1. CASE UNCHANGED <<tier, shards>>
  BY <1>1 DEF GroupInv, Grown
<1>2. CASE Add(s)
  <2>1. /\ request[s].op \in {"ACTIVATE", "RESCALE"} /\ request[s].tier \in Tiers
        /\ at[s] = "add" /\ GrowsAlone(s)
    BY <1>2, Known DEF GroupInv, Grown, Add, Places, KeyedOps
  <2>2a. tier \in Nat /\ request[s].tier \in Nat \ {0}
    <3>1. Tiers \subseteq Nat \ {0} /\ tier \in Tiers \cup {0}
      BY TiersAssumption DEF GroupInv, Grown
    <3>2. tier \in Nat
      BY <3>1
    <3>3. request[s].tier \in Nat \ {0}
      BY <2>1, <3>1, Zenon
    <3> QED
      BY <3>2, <3>3
  <2>2b. tier = 0 \/ request[s].tier > tier
    BY <2>1 DEF GrowsAlone
  <2>2. tier \in Nat /\ request[s].tier \in Nat \ {0} /\ tier < request[s].tier
    BY <2>2a, <2>2b
  <2>3. (1 .. tier) \cup (tier + 1 .. request[s].tier) = 1 .. request[s].tier
    BY <2>2
  <2> QED
    BY <1>2, <2>1, <2>3 DEF Add, NewShards, GroupInv, Grown
<1> QED
  BY <1>1, <1>2
     DEF Step, Claim, Abort, Rollback, Route, Credit, Charge, LockSettlement, Check, Open, SweepNext,
         Log, SweepDone, Debit, LoadOriginal, Refund, LockGroup, Anchor, LockShard, Receive,
         MoveSurplus, book

LEMMA Recorded ==
  ASSUME GroupInv, NEW s \in Sessions, at[s] \notin {"idle", "claim"},
         request[s].op \in KeyedOps,
         NEW st \in {"PENDING", "SUCCESS"}, Record(s, st)
  PROVE  Filed'
<1>1. /\ Key(request[s]) \in Keys
      /\ message' = [message EXCEPT ![Key(request[s])] = [status |-> st, of |-> request[s]]]
      /\ request[s] \in Requests /\ request[s] \in Keyed
  BY RecordFrame, Known DEF GroupInv, Record, Keyed, KeyedOps
<1>2. [status |-> st, of |-> request[s]] \in Messages
  BY <1>1 DEF Messages
<1>3. message' \in [Keys -> Messages \cup {None}]
  BY <1>1, <1>2 DEF GroupInv, Filed
<1>4. \A k \in Keys \ {Key(request[s])} : message'[k] = message[k]
  BY <1>1 DEF GroupInv, Filed
<1>5. message'[Key(request[s])].of = request[s]
  BY <1>1 DEF GroupInv, Filed
<1> QED
  BY <1>1, <1>3, <1>4, <1>5 DEF GroupInv, Filed

\* Nothing is posted or reversed.
LEMMA PlacedStays == ASSUME Filed, Placed, message' = message, shards \subseteq shards' PROVE Filed' /\ Placed'
<1>2. Filed' /\ \A k \in Keys : message'[k] # None /\ message'[k].of.op = "CHARGE" =>
                   message'[k].of.acct \in {Settlement} \cup shards'
  BY DEF Filed, Placed
<1>3. ASSUME NEW p \in Prefixes, NEW f \in Refs, message'[<<p, f>>] # None
      PROVE  \E op \in {"WITHDRAW", "CHARGE", "TRANSFER"} :
               Undo[op] = p /\ Reversible(message'[<<"", f>>], op)
  <2>1. message[<<p, f>>] # None
    BY <1>3
  <2>2. PICK op \in {"WITHDRAW", "CHARGE", "TRANSFER"} :
          Undo[op] = p /\ Reversible(message[<<"", f>>], op)
    BY <2>1 DEF Placed
  <2>3. Reversible(message'[<<"", f>>], op)
    BY <2>2 DEF Reversible
  <2> QED
    BY <2>2, <2>3
<1> QED
  BY <1>2, <1>3 DEF Placed

LEMMA KeysDiffer ==
  ASSUME NEW p, NEW q, NEW f, NEW g
  PROVE  p # q \/ f # g => <<p, f>> # <<q, g>>
<1>1. <<p, f>> = <<q, g>> => p = q /\ f = g
  OBVIOUS
<1> QED
  BY <1>1

LEMMA FiledStep == ASSUME GroupInv, NEW s \in Sessions, Step(s) PROVE Filed' /\ Placed'
<1>0. shards \subseteq shards'
  BY DEF Step, Claim, Abort, Rollback, Route, Credit, Charge, LockSettlement, Check, Open, SweepNext,
         Log, SweepDone, Debit, LoadOriginal, Refund, LockGroup, Anchor, Add, LockShard, Receive,
         MoveSurplus, book
<1>1. CASE message' = message
  BY <1>0, <1>1, PlacedStays DEF GroupInv
<1>2. ASSUME at[s] \notin {"idle", "claim"}, request[s].op \in KeyedOps,
             NEW st \in {"PENDING", "SUCCESS"}, Record(s, st),
             request[s].op = "CHARGE" => request[s].acct \in {Settlement} \cup shards,
             request[s].op = "REVERSAL" =>
               Reversible(message[Original(request[s])], request[s].of)
      PROVE  Filed' /\ Placed'
  <2>1. Filed'
    BY <1>2, Recorded
  <2>2. /\ message'[Key(request[s])].of = request[s]
        /\ \A k \in Keys \ {Key(request[s])} : message'[k] = message[k]
    <3>1. /\ message'[Key(request[s])] = [status |-> st, of |-> request[s]]
          /\ \A k \in Keys \ {Key(request[s])} : message'[k] = message[k]
      BY <1>2, RecordFrame DEF GroupInv
    <3> QED
      BY <3>1
  <2>3. \A k \in Keys : message'[k] # None /\ message'[k].of.op = "CHARGE" =>
          message'[k].of.acct \in {Settlement} \cup shards'
    BY <1>0, <1>2, <2>2 DEF GroupInv, Placed
  <2>4. ASSUME NEW p \in Prefixes, NEW f \in Refs, message'[<<p, f>>] # None
        PROVE  \E op \in {"WITHDRAW", "CHARGE", "TRANSFER"} :
                 Undo[op] = p /\ Reversible(message'[<<"", f>>], op)
    <3> DEFINE r == request[s]
    <3>1. r \in Requests /\ Key(r) \in Keys /\ message[Key(r)] = None
      BY <1>2, RecordFrame, Known DEF GroupInv
    <3>2. <<p, f>> \in Keys /\ <<"", f>> \in Keys
      BY DEF Keys
    <3>3. message[<<p, f>>] # None =>
            \E op \in {"WITHDRAW", "CHARGE", "TRANSFER"} :
              Undo[op] = p /\ Reversible(message[<<"", f>>], op)
      BY DEF GroupInv, Placed
    <3>4. CASE r.op = "REVERSAL"
      <4>1. Key(r) = <<Undo[r.of], r.ref>> /\ Undo[r.of] \in Prefixes
            /\ r.of \in {"WITHDRAW", "CHARGE", "TRANSFER"}
        BY <3>1, <3>4, Undone, RequestsAssumption DEF Key
      <4>2. message'[<<"", f>>] = message[<<"", f>>]
        <5>1. <<"", f>> # Key(r)
          BY <4>1, NoPrefix, KeysDiffer
        <5> QED
          BY <2>2, <3>2, <5>1
      <4>3. CASE <<p, f>> = Key(r)
        <5>1. p = Undo[r.of] /\ f = r.ref
          BY <4>1, <4>3
        <5>2. Reversible(message[<<"", f>>], r.of)
          BY <1>2, <3>4, <5>1 DEF Original
        <5> QED
          BY <4>1, <4>2, <5>1, <5>2
      <4>4. CASE <<p, f>> # Key(r)
        BY <2>2, <2>4, <3>2, <3>3, <4>2, <4>4
      <4> QED
        BY <4>3, <4>4
    <3>5. CASE r.op # "REVERSAL"
      <4>1. Key(r) = <<"", r.ref>>
        BY <3>5 DEF Key
      <4>2. message[<<p, f>>] # None
        <5>1. <<p, f>> # Key(r)
          BY <4>1, NoPrefix, KeysDiffer
        <5> QED
          BY <2>2, <2>4, <3>2, <5>1
      <4>3. message[<<"", f>>] # None
        BY <3>3, <4>2 DEF Reversible
      <4>4. <<"", f>> # Key(r)
        BY <3>1, <4>3
      <4> QED
        BY <2>2, <3>2, <3>3, <4>2, <4>4
    <3> QED
      BY <3>4, <3>5
  <2>5. Placed'
    BY <2>3, <2>4 DEF Placed
  <2> QED
    BY <2>1, <2>5
<1>3. CASE Credit(s) \/ Debit(s) \/ Refund(s)
  <2>1. at[s] \in {"credit", "debit", "refund"} /\ Record(s, "SUCCESS")
    BY <1>3 DEF Credit, Debit, Refund
  <2>2. request[s].op \in KeyedOps \ {"CHARGE"}
    BY <2>1, Known DEF GroupInv, Places, KeyedOps
  <2>3. request[s].op = "REVERSAL" =>
          Reversible(message[Original(request[s])], request[s].of)
    BY <2>1, Known DEF GroupInv, Places, KeyedOps, Claimed, HoldsKeys
  <2> QED
    BY <1>2, <2>1, <2>2, <2>3
<1>4. CASE Charge(s)
  <2>1. at[s] = "charge" /\ Record(s, "SUCCESS") /\ request[s].acct \in {Settlement} \cup shards
    BY <1>4 DEF Charge
  <2>2. request[s].op = "CHARGE" /\ request[s].op \in KeyedOps
    BY <2>1, Known DEF GroupInv, Places, KeyedOps
  <2> QED
    BY <1>2, <2>1, <2>2
<1>5. CASE Check(s) /\ message' # message
  <2>1. at[s] = "check" /\ Record(s, "PENDING")
    BY <1>5 DEF Check, book
  <2>2. request[s].op = "WITHDRAW" /\ request[s].op \in KeyedOps
    BY <2>1, Known DEF GroupInv, Places, KeyedOps
  <2> QED
    BY <1>2, <2>1, <2>2
<1> QED
  BY <1>1, <1>3, <1>4, <1>5
     DEF Step, Claim, Abort, Rollback, Route, LockSettlement, Open, SweepNext, Log,
         SweepDone, LoadOriginal, LockGroup, Anchor, Add, LockShard, Receive, MoveSurplus, book

\* The count of a withdrawal leaves out what is pledged: there is at least as much.
LEMMA EnoughCounted ==
  ASSUME GroupInv, NEW n \in Int, GroupAvailable >= n
  PROVE  Funds >= n
<1> DEFINE S == {Settlement} \cup shards
           free == [i \in Accounts |-> bal[i] - pledged[i]]
<1>1. IsFiniteSet(S) /\ S \subseteq Accounts
  BY ShardsThere, RowsThere, AccountsFinite, FS_Subset DEF GroupInv
<1>2. \A i \in S : free[i] \in Int /\ bal[i] \in Int /\ free[i] <= bal[i]
  BY <1>1 DEF GroupInv, Backed
<1>3. SumFunctionOnSet(free, S) <= SumFunctionOnSet(bal, S)
  BY <1>1, <1>2, SumMonotone
<1>4. SumFunctionOnSet(free, S) \in Int /\ SumFunctionOnSet(bal, S) \in Int
  BY <1>1, <1>2, SumInt
<1> QED
  BY <1>3, <1>4 DEF GroupAvailable, Funds

\* What a step of s makes of its own part of the invariant.
LEMMA OwnEnd ==
  ASSUME GroupInv, NEW s \in Sessions, Leave(s)
  PROVE  GrowsAlone(s)' /\ HoldsAccounts(s)' /\ HoldsKeys(s)' /\ HasEnough(s)'
<1>1. at'[s] = "idle" /\ target'[s] = Settlement /\ todo'[s] = {} /\ swept'[s] = {}
  BY EndEffects DEF GroupInv
<1> QED
  BY <1>1 DEF GrowsAlone, HoldsAccounts, HoldsKeys, HasEnough, Counting

LEMMA OwnStep ==
  ASSUME GroupInv, NEW s \in Sessions, Step(s)
  PROVE  GrowsAlone(s)' /\ HoldsAccounts(s)' /\ HoldsKeys(s)' /\ HasEnough(s)'
<1> DEFINE Own == GrowsAlone(s) /\ HoldsAccounts(s) /\ HoldsKeys(s) /\ HasEnough(s)
<1>1. Own /\ OrderInv /\ LocksType
  BY DEF GroupInv, Grown, Held, Claimed, Counted, OrderInv
<1> USE DEF Counting
<1>2. CASE Leave(s)
  BY <1>2, OwnEnd
<1>3. CASE Claim(s) /\ ~Rollback(s)
  <2>1. /\ at[s] = "claim" /\ claimant' = [claimant EXCEPT ![Key(request[s])] = s]
        /\ message[Key(request[s])] = None
        /\ at'[s] \in {"route", "credit", "charge", "settle", "original"}
        /\ at'[s] = "original" => request[s].op = "REVERSAL"
        /\ UNCHANGED <<book, charged, lock, request, target, todo, swept>>
    BY <1>1, <1>3, Known DEF Claim, Goto, LocksType, Places, KeyedOps
  <2>2. Key(request[s]) \in Keys
    BY <1>1, <2>1, Known, KeyTypes DEF Places, KeyedOps
  <2> QED
    BY <1>1, <2>1, <2>2 DEF GrowsAlone, HoldsAccounts, HoldsKeys, HasEnough, Funds, LocksType, book
<1>4. CASE LoadOriginal(s)
  <2> DEFINE k == Original(request[s])
  <2>1. /\ at[s] = "original" /\ at'[s] = "refund"
        /\ claimant' = [claimant EXCEPT ![k] = s]
        /\ Reversible(message[k], request[s].of)
        /\ target'[s] = IF request[s].of = "CHARGE" THEN message[k].of.acct ELSE target[s]
        /\ UNCHANGED <<book, charged, lock, request, todo, swept>>
    BY <1>1, <1>4 DEF LoadOriginal, Goto, LocksType
  <2>2. Key(request[s]) \in Keys /\ k \in Keys
    BY <1>1, <2>1, Known, KeyTypes DEF Places, KeyedOps
  <2>3. target[s] = Settlement /\ target'[s] \in {Settlement} \cup shards
    BY <1>1, <2>1, <2>2 DEF HoldsAccounts, GroupInv, Placed, Reversible
  <2>4. HoldsAccounts(s)'
    BY <1>1, <2>1, <2>3 DEF HoldsAccounts, book
  <2>5. HoldsKeys(s)'
    BY <1>1, <2>1, <2>2 DEF HoldsKeys, LocksType, book
  <2> QED
    BY <1>1, <2>1, <2>4, <2>5 DEF GrowsAlone, HasEnough
<1>5. CASE Route(s)
  <2>1. /\ at[s] = "route" /\ at'[s] = "credit" /\ target'[s] \in {Settlement} \cup shards
        /\ UNCHANGED <<book, charged, lock, claimant, request, todo, swept>>
    BY <1>1, <1>5 DEF Route, Goto, LocksType, Active
  <2> QED
    BY <1>1, <2>1 DEF GrowsAlone, HoldsAccounts, HoldsKeys, HasEnough, Funds, book
<1>6. CASE LockSettlement(s)
  <2>1. /\ at[s] = "settle" /\ at'[s] = "check" /\ lock' = [lock EXCEPT ![Settlement] = s]
        /\ UNCHANGED <<book, charged, claimant, request, target, todo, swept>>
    BY <1>1, <1>6 DEF LockSettlement, Take, Goto, LocksType
  <2>2. swept[s] = {}
    BY <2>1 DEF GroupInv, OrderInv, SweptInOrder
  <2> QED
    BY <1>1, <2>1, <2>2, RowsThere DEF GrowsAlone, HoldsAccounts, HoldsKeys, HasEnough, Funds, LocksType, book
<1>7. CASE Check(s) /\ ~Leave(s)
  <2>1. /\ at[s] = "check" /\ at'[s] \in {"debit", "open"} /\ pledged[Settlement] = 0 /\ Enough(request[s])
        /\ UNCHANGED <<book, charged, lock, claimant, request, target, todo, swept>>
    BY <1>1, <1>7 DEF Check, End, Goto, LocksType
  <2>2. request[s].op = "WITHDRAW" /\ Total(request[s]) \in Int
    BY <1>1, <2>1, Known DEF Places
  <2>3. Funds + charged[s] >= Total(request[s])
    <3>1. Funds >= Total(request[s])
      BY <2>1, <2>2, EnoughCounted DEF Enough
    <3>2. Funds \in Int /\ charged[s] \in Nat
      BY FundsInt DEF GroupInv, Backed
    <3> QED
      BY <2>2, <3>1, <3>2
  <2>4. HasEnough(s)'
    BY <2>1, <2>3 DEF HasEnough, Funds, book, Total
  <2> QED
    BY <1>1, <2>1, <2>2, <2>4 DEF GrowsAlone, HoldsAccounts, HoldsKeys, book
<1>8. CASE Open(s)
  <2>1. /\ at[s] = "open" /\ at'[s] = "sweep" /\ todo'[s] \subseteq shards
        /\ UNCHANGED <<book, charged, lock, claimant, request, target, swept>>
    BY <1>1, <1>8 DEF Open, Goto, LocksType, Active
  <2>2. HasEnough(s)'
    BY <1>1, <2>1 DEF HasEnough, Funds, book, Total
  <2> QED
    BY <1>1, <2>1, <2>2 DEF GrowsAlone, HoldsAccounts, HoldsKeys, book
<1>9. CASE SweepNext(s)
  <2> DEFINE i == Min(todo[s])
  <2>1. /\ at[s] = "sweep" /\ todo[s] # {} /\ lock' = [lock EXCEPT ![i] = s] /\ pledged[i] = 0
        /\ todo'[s] = todo[s] \ {i} /\ swept'[s] = swept[s] \cup {i} /\ at'[s] = "log"
        /\ UNCHANGED <<book, charged, claimant, request, target>>
    BY <1>1, <1>9 DEF SweepNext, Take, Goto, LocksType
  <2>2. i \in shards /\ i \in Rows
    <3>1. todo[s] \in SUBSET Nat /\ todo[s] \subseteq shards /\ shards \subseteq Rows
      BY <1>1, RowsThere, ShardsThere DEF LocksType, Shards, HoldsAccounts, GroupInv
    <3> QED
      BY <2>1, <3>1, MinBounds
  <2>2a. request[s].op \in {"WITHDRAW", "ACTIVATE", "RESCALE"}
    BY <1>1, <2>1, Known DEF Places, KeyedOps
  <2> HIDE DEF i
  <2>3. HasEnough(s)'
    BY <1>1, <2>1 DEF HasEnough, Funds, book, Total
  <2>4. \A j \in Rows : lock[j] = s => lock'[j] = s
    BY <1>1, <2>1, <2>2 DEF LocksType
  <2>5. GrowsAlone(s)'
    BY <1>1, <2>1, <2>4, RowsThere DEF GrowsAlone, book
  <2>6. HoldsAccounts(s)'
    <3>1. swept[s] \subseteq Rows /\ lock'[i] = s
      BY <1>1, <2>1, <2>2, ShardsThere, RowsThere DEF HoldsAccounts, GroupInv, LocksType
    <3>2. lock'[Settlement] = s
      BY <1>1, <2>1, <2>4, RowsThere DEF HoldsAccounts
    <3>3. \A j \in swept'[s] : lock'[j] = s /\ pledged'[j] = 0
      BY <1>1, <2>1, <2>4, <3>1 DEF HoldsAccounts, book
    <3> QED
      BY <1>1, <2>1, <2>2, <2>2a, <3>2, <3>3 DEF HoldsAccounts, book
  <2>7. HoldsKeys(s)'
    BY <1>1, <2>1 DEF HoldsKeys, book
  <2> QED
    BY <2>3, <2>5, <2>6, <2>7
<1>14. CASE Log(s)
  <2>1. /\ at[s] = "log" /\ at'[s] = "sweep" /\ request[s].op # "SWEEP"
        /\ UNCHANGED <<book, charged, lock, claimant, request, target, todo, swept>>
    BY <1>1, <1>14 DEF Log, Loggable, Goto, LocksType
  <2>2. HasEnough(s)'
    BY <1>1, <2>1 DEF HasEnough, Funds, book, Total
  <2> QED
    BY <1>1, <2>1, <2>2 DEF GrowsAlone, HoldsAccounts, HoldsKeys, book
<1>15. CASE Receive(s)
  <2>1. /\ at[s] = "move" /\ at'[s] = "log" /\ lock' = [lock EXCEPT ![Settlement] = s]
        /\ UNCHANGED <<book, charged, claimant, request, target, todo, swept>>
    BY <1>1, <1>15 DEF Receive, Take, Goto, LocksType
  <2>2. swept[s] = {} /\ request[s].op = "SWEEP" /\ request[s].shard \in Rows
    BY <1>1, <2>1, Known, ShardsThere, RowsThere
       DEF GroupInv, OrderInv, SweptInOrder, Places, KeyedOps, HoldsAccounts
  <2>3. lock'[Settlement] = s /\ lock'[request[s].shard] = s /\ request[s].shard \in shards
    BY <1>1, <2>1, <2>2, RowsThere DEF LocksType, HoldsAccounts
  <2>4. HoldsAccounts(s)'
    BY <1>1, <2>1, <2>2, <2>3 DEF HoldsAccounts, book
  <2>5. HoldsKeys(s)'
    BY <1>1, <2>1, <2>2 DEF HoldsKeys, KeyedOps, book
  <2> QED
    BY <2>1, <2>2, <2>4, <2>5 DEF GrowsAlone, HasEnough
<1>10. CASE SweepDone(s)
  <2>1. /\ at[s] = "sweep" /\ at'[s] = IF request[s].op = "WITHDRAW" THEN "debit" ELSE "add"
        /\ UNCHANGED <<book, charged, lock, claimant, request, target, todo, swept>>
    BY <1>1, <1>10 DEF SweepDone, Goto, LocksType
  <2>2. HasEnough(s)'
    BY <1>1, <2>1 DEF HasEnough, Funds, book, Total
  <2> QED
    BY <1>1, <2>1, <2>2 DEF GrowsAlone, HoldsAccounts, HoldsKeys, book
<1>11. CASE LockGroup(s)
  <2>1. /\ at[s] = "group" /\ at'[s] = "anchor" /\ lock' = [lock EXCEPT ![Group] = s]
        /\ IF request[s].op = "ACTIVATE" THEN tier = 0 ELSE request[s].tier > tier
        /\ UNCHANGED <<book, charged, claimant, request, target, todo, swept>>
    BY <1>1, <1>11 DEF LockGroup, Take, Goto, LocksType
  <2>2. swept[s] = {} /\ request[s].op \in {"ACTIVATE", "RESCALE"}
    BY <1>1, <2>1, Known DEF OrderInv, SweptInOrder, Places, KeyedOps
  <2> QED
    BY <1>1, <2>1, <2>2, RowsThere DEF GrowsAlone, HoldsAccounts, HoldsKeys, HasEnough, Funds, LocksType, book
<1>12. CASE Anchor(s)
  <2>1. /\ at[s] = "anchor" /\ at'[s] \in {"add", "open"} /\ lock' = [lock EXCEPT ![Settlement] = s]
        /\ UNCHANGED <<book, charged, claimant, request, target, todo, swept>>
    BY <1>1, <1>12 DEF Anchor, Take, Goto, LocksType
  <2>2. swept[s] = {} /\ request[s].op \in {"ACTIVATE", "RESCALE"}
    BY <1>1, <2>1, Known DEF OrderInv, SweptInOrder, Places, KeyedOps
  <2> QED
    BY <1>1, <2>1, <2>2, RowsThere DEF GrowsAlone, HoldsAccounts, HoldsKeys, HasEnough, Funds, LocksType, book
<1>13. CASE LockShard(s)
  <2> DEFINE i == request[s].shard
  <2>1. /\ at[s] = "shard" /\ at'[s] = "move" /\ i \in shards /\ lock' = [lock EXCEPT ![i] = s]
        /\ UNCHANGED <<book, charged, claimant, request, target, todo, swept>>
    BY <1>1, <1>13 DEF LockShard, Take, Goto, LocksType
  <2>2. swept[s] = {} /\ request[s].op = "SWEEP" /\ i \in Rows
    BY <1>1, <2>1, Known, ShardsThere, RowsThere DEF GroupInv, OrderInv, SweptInOrder, Places, KeyedOps
  <2> QED
    BY <1>1, <2>1, <2>2 DEF GrowsAlone, HoldsAccounts, HoldsKeys, HasEnough, Funds, LocksType, book
<1> QED
  BY <1>2, <1>3, <1>4, <1>5, <1>6, <1>7, <1>8, <1>9, <1>10, <1>11, <1>12, <1>13, <1>14, <1>15
     DEF Step, Abort, Rollback, End, Credit, Charge, Debit, Refund, Add, MoveSurplus

\* A call that begins has done nothing yet.
LEMMA CallKeeps ==
  ASSUME GroupInv, NEW s \in Sessions, NEW r \in Requests, Call(s, r)
  PROVE  Grown' /\ Held' /\ Filed' /\ Placed' /\ Claimed' /\ Backed' /\ Counted'
<1>1. /\ at[s] = "idle" /\ at' = [at EXCEPT ![s] = First(r)]
      /\ request' = [request EXCEPT ![s] = r]
      /\ UNCHANGED <<book, lock, claimant, target, todo, swept, charged>>
  BY DEF Call, Goto
<1>2. First(r) \in {"claim", "group", "shard"}
  BY RequestsAssumption DEF First
<1>3. Grown'
  BY <1>1, <1>2 DEF GroupInv, OrderInv, LocksType, Grown, GrowsAlone, book
<1>4. Held'
  BY <1>1, <1>2 DEF GroupInv, OrderInv, LocksType, Held, HoldsAccounts, book
<1>5. Filed' /\ Placed' /\ Backed'
  <2>1. Backed'
    BY <1>1 DEF GroupInv, Backed, book
  <2> QED
    BY <1>1, <2>1, PlacedStays DEF GroupInv, book
<1>6. Claimed'
  <2> SUFFICES ASSUME NEW t \in Sessions PROVE HoldsKeys(t)'
    BY DEF Claimed
  <2>1. HoldsKeys(t)
    BY DEF GroupInv, Claimed
  <2>2. CASE t = s
    <3>1. at'[s] \in {"claim", "group", "shard"} /\ request'[s] = r
      BY <1>1, <1>2 DEF GroupInv, OrderInv, LocksType
    <3>2. at'[s] = "claim" \/ r.op \notin KeyedOps
      BY <1>1, RequestsAssumption DEF First, Keyed, KeyedOps, GroupInv, OrderInv, LocksType
    <3> QED
      BY <2>2, <3>1, <3>2 DEF HoldsKeys
  <2>3. CASE t # s
    <3>1. at'[t] = at[t] /\ request'[t] = request[t]
      BY <1>1, <2>3 DEF GroupInv, OrderInv, LocksType
    <3> QED
      BY <1>1, <2>1, <3>1 DEF HoldsKeys, book
  <2> QED
    BY <2>2, <2>3
<1>7. Counted'
  <2> SUFFICES ASSUME NEW t \in Sessions PROVE HasEnough(t)'
    BY DEF Counted
  <2>1. HasEnough(t)
    BY DEF GroupInv, Counted
  <2>2. CASE t = s
    <3>1. at'[s] \in {"claim", "group", "shard"}
      BY <1>1, <1>2 DEF GroupInv, OrderInv, LocksType
    <3> QED
      BY <2>2, <3>1 DEF HasEnough, Counting
  <2>3. CASE t # s
    <3>1. at'[t] = at[t] /\ request'[t] = request[t]
      BY <1>1, <2>3 DEF GroupInv, OrderInv, LocksType
    <3> QED
      BY <1>1, <2>1, <3>1 DEF HasEnough, Funds, book, Total
  <2> QED
    BY <2>2, <2>3
<1> QED
  BY <1>3, <1>4, <1>5, <1>6, <1>7

\* Pledges, releases and status changes touch no account that is locked.
LEMMA WholePledges ==
  ASSUME NEW n \in Nat
  PROVE  /\ n * Pledge + Pledge = (n + 1) * Pledge
         /\ n * Pledge > 0 => \E m \in Nat : n * Pledge - Pledge = m * Pledge /\ m * Pledge \in Nat
<1>1. Pledge \in Nat /\ Pledge > 0
  BY AmountsAssumption
<1>2. \A m \in Nat : m * Pledge \in Nat
  BY <1>1
<1>3. \A m \in Int : m * Pledge + Pledge = (m + 1) * Pledge
  BY <1>1
<1>4. ASSUME n * Pledge > 0 PROVE n # 0
  BY <1>1, <1>4
<1>5. ASSUME n # 0 PROVE n - 1 \in Nat /\ n * Pledge - Pledge = (n - 1) * Pledge
  <2>1. n - 1 \in Nat /\ (n - 1) + 1 = n
    BY <1>5
  <2>2. (n - 1) * Pledge + Pledge = n * Pledge
    BY <1>3, <2>1
  <2> QED
    BY <1>1, <1>2, <2>1, <2>2
<1> QED
  BY <1>2, <1>3, <1>4, <1>5

LEMMA RowKeeps ==
  ASSUME GroupInv, NEW i \in {Settlement} \cup shards,
         \/ AddRestraint(i) \/ ReleaseRestraint(i) \/ \E new \in {"A", "B", "C"} : SetStatus(i, new)
  PROVE  Grown' /\ Held' /\ Filed' /\ Placed' /\ Claimed' /\ Backed' /\ Counted'
<1>1. /\ lock[i] = None /\ i \in Accounts /\ i \in Rows
      /\ UNCHANGED <<tier, shards, bal, message, lock, claimant, at, request, target, todo, swept,
                     charged>>
  BY ShardsThere, RowsThere DEF GroupInv, AddRestraint, ReleaseRestraint, SetStatus, calls
<1>2. \A j \in Accounts \ {i} : pledged'[j] = pledged[j]
  BY DEF GroupInv, Backed, AddRestraint, ReleaseRestraint, SetStatus
<1>3. Grown'
  BY <1>1 DEF GroupInv, Grown, GrowsAlone
<1>4. Held'
  <2>1. \A s \in Sessions : swept[s] \subseteq Accounts /\ i \notin swept[s]
    BY <1>1, ShardsThere, SessionsAssumption DEF GroupInv, Held, HoldsAccounts
  <2> QED
    BY <1>1, <1>2, <2>1 DEF GroupInv, Held, HoldsAccounts
<1>5. Filed' /\ Placed' /\ Claimed'
  <2>1. Claimed'
    BY <1>1 DEF GroupInv, Claimed, HoldsKeys
  <2> QED
    BY <1>1, <2>1, PlacedStays DEF GroupInv
<1>6. Counted'
  <2> SUFFICES ASSUME NEW s \in Sessions, at[s] \in Counting, request[s].op = "WITHDRAW"
               PROVE  pledged'[Settlement] = pledged[Settlement]
    BY <1>1 DEF GroupInv, Counted, HasEnough, Funds, Total
  <2>1. lock[Settlement] = s
    BY DEF GroupInv, Held, HoldsAccounts, Counting
  <2> QED
    BY <1>1, <1>2, <2>1, RowsThere, SessionsAssumption
<1>7. Backed'
  <2>1. bal \in [Accounts -> Nat] /\ pledged \in [Accounts -> Nat] /\ status \in [Accounts -> {"A", "B", "C"}]
        /\ charged' \in [Sessions -> Nat]
        /\ \A j \in Accounts : pledged[j] <= bal[j] /\ \E n \in Nat : pledged[j] = n * Pledge
    BY <1>1 DEF GroupInv, Backed
  <2>2. PICK n \in Nat : pledged[i] = n * Pledge
    BY <1>1, <2>1
  <2>3. Pledge \in Nat
    BY AmountsAssumption
  <2>4. CASE AddRestraint(i)
    <3>1. PICK x \in Nat : x = pledged[i] + Pledge /\ x <= bal[i] /\ \E m \in Nat : x = m * Pledge
      <4>1. pledged[i] + Pledge \in Nat
        BY <1>1, <2>1, <2>3
      <4>2. pledged[i] + Pledge = (n + 1) * Pledge /\ n + 1 \in Nat
        BY <2>2, WholePledges
      <4> QED
        BY <2>4, <4>1, <4>2 DEF AddRestraint
    <3>2. pledged' = [pledged EXCEPT ![i] = x] /\ UNCHANGED <<bal, status>>
      BY <2>4, <3>1 DEF AddRestraint
    <3> QED
      BY <1>1, <2>1, <3>1, <3>2 DEF Backed
  <2>5. CASE ReleaseRestraint(i)
    <3>1. PICK x \in Nat : x = pledged[i] - Pledge /\ x <= pledged[i] /\ \E m \in Nat : x = m * Pledge
      <4>1. pledged[i] > 0
        BY <2>5 DEF ReleaseRestraint
      <4>2. PICK m \in Nat : n * Pledge - Pledge = m * Pledge /\ m * Pledge \in Nat
        BY <2>2, <4>1, WholePledges
      <4>3. pledged[i] - Pledge = m * Pledge /\ pledged[i] - Pledge \in Nat
        BY <2>2, <4>2
      <4>4. pledged[i] - Pledge <= pledged[i]
        BY <1>1, <2>1, <2>3
      <4> QED
        BY <4>3, <4>4
    <3>2. pledged' = [pledged EXCEPT ![i] = x] /\ UNCHANGED <<bal, status>>
      BY <2>5, <3>1 DEF ReleaseRestraint
    <3>3. x <= bal[i]
      BY <1>1, <2>1, <3>1
    <3> QED
      BY <1>1, <2>1, <3>1, <3>2, <3>3 DEF Backed
  <2>6. CASE \E new \in {"A", "B", "C"} : SetStatus(i, new)
    <3>1. status' \in [Accounts -> {"A", "B", "C"}] /\ UNCHANGED <<bal, pledged>>
      BY <2>1, <2>6 DEF SetStatus
    <3> QED
      BY <2>1, <3>1 DEF Backed
  <2> QED
    BY <2>4, <2>5, <2>6
<1> QED
  BY <1>3, <1>4, <1>5, <1>6, <1>7

LEMMA GroupInit == Init => GroupInv
<1> SUFFICES ASSUME Init PROVE GroupInv
  OBVIOUS
<1>1. OrderInv
  BY OrderInit
<1>2. Grown
  <2>1. 1 .. 0 = {}
    OBVIOUS
  <2> QED
    BY <2>1 DEF Init, Grown, GrowsAlone
<1>3. Held /\ Claimed /\ Counted
  BY DEF Init, Held, HoldsAccounts, Claimed, HoldsKeys, Counted, HasEnough, Counting
<1>4. Filed /\ Placed
  BY DEF Init, Filed, Placed, Keys
<1>5. Backed
  <2>1. 0 * Pledge = 0 /\ 0 \in Nat
    BY AmountsAssumption
  <2>2. bal \in [Accounts -> Nat] /\ pledged \in [Accounts -> Nat] /\ status \in [Accounts -> {"A", "B", "C"}]
        /\ charged \in [Sessions -> Nat]
    BY AmountsAssumption DEF Init
  <2>3. \A i \in Accounts : pledged[i] = 0 /\ pledged[i] <= bal[i]
    BY AmountsAssumption DEF Init
  <2> QED
    BY <2>1, <2>2, <2>3 DEF Backed
<1> QED
  BY <1>1, <1>2, <1>3, <1>4, <1>5 DEF GroupInv

LEMMA GroupStep == GroupInv /\ [Next]_vars => GroupInv'
<1> SUFFICES ASSUME GroupInv, [Next]_vars PROVE GroupInv'
  OBVIOUS
<1>1. OrderInv'
  <2>1. Named
    BY DEF GroupInv, Filed, Named, Keyed
  <2> QED
    BY <2>1, OrderStep DEF GroupInv
<1>2. ASSUME NEW s \in Sessions, Step(s) PROVE Grown' /\ Held' /\ Filed' /\ Placed' /\ Claimed' /\ Backed' /\ Counted'
  <2>1. Backed' /\ Filed' /\ Placed' /\ tier' \in Tiers \cup {0} /\ shards' = 1 .. tier'
    BY <1>2, BackedStep, FiledStep, GrownStep
  <2>2. ASSUME NEW t \in Sessions PROVE GrowsAlone(t)' /\ HoldsAccounts(t)' /\ HoldsKeys(t)' /\ HasEnough(t)'
    <3>1. CASE t = s
      <4>1. GrowsAlone(s)' /\ HoldsAccounts(s)' /\ HoldsKeys(s)' /\ HasEnough(s)'
        BY <1>2, OwnStep
      <4> QED
        BY <3>1, <4>1
    <3>2. CASE t # s
      <4>1. Frame(t)
        BY <1>2, <3>2, StepFrame DEF GroupInv
      <4> QED
        BY <2>1, <4>1, FrameKeeps
    <3> QED
      BY <3>1, <3>2
  <2> QED
    BY <2>1, <2>2 DEF Grown, Held, Claimed, Counted
<1>3. ASSUME NEW s \in Sessions, NEW r \in Requests, Call(s, r)
      PROVE  Grown' /\ Held' /\ Filed' /\ Placed' /\ Claimed' /\ Backed' /\ Counted'
  BY <1>3, CallKeeps
<1>4. ASSUME NEW i \in {Settlement} \cup shards,
             \/ AddRestraint(i) \/ ReleaseRestraint(i) \/ \E new \in {"A", "B", "C"} : SetStatus(i, new)
      PROVE  Grown' /\ Held' /\ Filed' /\ Placed' /\ Claimed' /\ Backed' /\ Counted'
  BY <1>4, RowKeeps
<1>5. ASSUME UNCHANGED vars PROVE Grown' /\ Held' /\ Filed' /\ Placed' /\ Claimed' /\ Backed' /\ Counted'
  <2>1. UNCHANGED <<tier, shards, bal, pledged, status, message, lock, claimant, at, request, target, todo, swept,
                   charged>>
    BY <1>5 DEF vars, book, calls
  <2>2. Grown' /\ Held'
    BY <2>1 DEF GroupInv, Grown, GrowsAlone, Held, HoldsAccounts
  <2>3. Filed' /\ Placed' /\ Claimed'
    <3>1. Claimed'
      BY <2>1 DEF GroupInv, Claimed, HoldsKeys
    <3> QED
      BY <2>1, <3>1, PlacedStays DEF GroupInv
  <2>4. Backed' /\ Counted'
    BY <2>1 DEF GroupInv, Backed, Counted, HasEnough, Funds, Total
  <2> QED
    BY <2>2, <2>3, <2>4
<1>6. \/ \E s \in Sessions : Step(s) \/ \E r \in Requests : Call(s, r)
      \/ \E i \in {Settlement} \cup shards :
           AddRestraint(i) \/ ReleaseRestraint(i) \/ \E new \in {"A", "B", "C"} : SetStatus(i, new)
      \/ UNCHANGED vars
  BY DEF Next
<1>7. Grown' /\ Held' /\ Filed' /\ Placed' /\ Claimed' /\ Backed' /\ Counted'
  BY <1>2, <1>3, <1>4, <1>5, <1>6
<1> QED
  BY <1>1, <1>7 DEF GroupInv

\* The group has the shards its count names, calls work on accounts it has, and
\* no account falls below what is pledged on it.
THEOREM GroupTyped == Spec => []TypeOK
<1>1. GroupInv => TypeOK
  <2> SUFFICES ASSUME GroupInv PROVE TypeOK
    OBVIOUS
  <2>1. /\ tier \in Tiers \cup {0} /\ shards = 1 .. tier
        /\ lock \in [{Group} \cup Accounts -> Sessions \cup {None}]
        /\ sharing \subseteq Sessions /\ claimant \in [Keys -> Sessions \cup {None}]
    BY DEF GroupInv, Grown, OrderInv, LocksType, Rows
  <2>2. /\ bal \in [Accounts -> Nat] /\ pledged \in [Accounts -> Nat]
        /\ \A i \in Accounts : pledged[i] <= bal[i]
        /\ status \in [Accounts -> {"A", "B", "C"}]
        /\ charged \in [Sessions -> Nat]
    BY DEF GroupInv, Backed
  <2>3. \A k \in Keys : message[k] # None =>
          message[k].status \in {"PENDING", "SUCCESS"} /\ message[k].of \in Keyed
    BY DEF GroupInv, Filed, Messages
  <2>4. \A s \in Sessions : target[s] \in {Settlement} \cup shards /\ todo[s] \cup swept[s] \subseteq shards
    BY DEF GroupInv, Held, HoldsAccounts
  <2> QED
    BY <2>1, <2>2, <2>3, <2>4 DEF TypeOK
<1> QED
  BY <1>1, GroupInit, GroupStep, PTL DEF Spec

\* What the shards have is on those a withdrawal has swept or on those it left out.
LEMMA SweptAndLeft ==
  ASSUME GroupInv, NEW s \in Sessions
  PROVE  /\ LeftOut(s) \in Int /\ SweptSum(s) \in Int
         /\ Funds = bal[Settlement] + SweptSum(s) + LeftOut(s)
<1> DEFINE L == shards \ swept[s]
           W == swept[s]
<1>1. /\ IsFiniteSet(shards) /\ Settlement \notin shards /\ shards \subseteq Accounts
      /\ W \subseteq shards
  BY ShardsThere DEF GroupInv, Held, HoldsAccounts
<1>2. IsFiniteSet(L) /\ IsFiniteSet(W) /\ L \cup W = shards /\ L \cap W = {}
  BY <1>1, FS_Subset
<1>3. \A i \in shards \cup {Settlement} : bal[i] \in Int
  BY <1>1, RowsThere DEF GroupInv, Backed
<1>4. \A i \in L \cup W : bal[i] \in Int
  BY <1>2, <1>3
<1>5. LeftOut(s) = SumFunctionOnSet(bal, L) /\ SweptSum(s) = SumFunctionOnSet(bal, W)
  BY DEF LeftOut, SweptSum
<1> HIDE DEF L, W
<1>6. SumFunctionOnSet(bal, L \cup W) = SumFunctionOnSet(bal, L) + SumFunctionOnSet(bal, W)
  BY <1>2, <1>4, SumDisjoint
<1>7. SumFunctionOnSet(bal, shards \cup {Settlement}) = bal[Settlement] + SumFunctionOnSet(bal, shards)
  BY <1>1, <1>3, SumAdd
<1>8. Funds = SumFunctionOnSet(bal, shards \cup {Settlement})
  <2>1. {Settlement} \cup shards = shards \cup {Settlement}
    OBVIOUS
  <2> QED
    BY <2>1 DEF Funds
<1>9. SumFunctionOnSet(bal, L) \in Int /\ SumFunctionOnSet(bal, W) \in Int
  BY <1>2, <1>4, SumInt
<1>10. bal[Settlement] \in Int
  BY <1>3
<1>11. SumFunctionOnSet(bal, shards) = SumFunctionOnSet(bal, L) + SumFunctionOnSet(bal, W)
  BY <1>2, <1>6
<1>12. Funds = bal[Settlement] + (SumFunctionOnSet(bal, L) + SumFunctionOnSet(bal, W))
  BY <1>7, <1>8, <1>11
<1>13. SweptSum(s) \in Int /\ LeftOut(s) \in Int
  BY <1>5, <1>9
<1>14. Funds = bal[Settlement] + (LeftOut(s) + SweptSum(s))
  BY <1>5, <1>12
<1> QED
  BY <1>10, <1>13, <1>14

\* What a withdrawal lacks after its sweep is on a shard it left out, or was
\* charged to the group after it was counted, for any number of shards and
\* sessions, although no shard is locked when it is counted: deposits, pledges,
\* sweeps, reversals and a new tier in between do not make it short.
THEOREM SweepAlwaysSuffices == Spec => []SweepSuffices
<1>1. GroupInv => SweepSuffices
  <2> SUFFICES ASSUME GroupInv, NEW s \in Sessions, at[s] = "debit"
               PROVE  After(s)[Settlement] + LeftOut(s) + charged[s] >= Total(request[s])
    BY DEF SweepSuffices
  <2>1. OrderInv /\ HasEnough(s)
    BY DEF GroupInv, Counted
  <2>2. request[s].op = "WITHDRAW" /\ Total(request[s]) \in Int
    BY <2>1, Known DEF Places, KeyedOps
  <2>3. Funds + charged[s] >= Total(request[s])
    BY <2>1, <2>2 DEF HasEnough, Counting
  <2>4. After(s)[Settlement] = bal[Settlement] + SweptSum(s)
    BY RowsThere DEF After
  <2>5. Funds = After(s)[Settlement] + LeftOut(s)
    <3>1. bal[Settlement] \in Int
      BY RowsThere DEF GroupInv, Backed
    <3> QED
      BY <2>4, <3>1, SweptAndLeft
  <2> QED
    BY <2>3, <2>5
<1> QED
  BY <1>1, GroupInit, GroupStep, PTL DEF Spec

\* Deposits, transfers, withdrawals with their sweeps, charges, reversals,
\* activation and rescaling of a merchant group wait for each other in a circle
\* in one way only, for any number of sessions and shards: a rescale that has
\* the group and wants the settlement account, and a withdrawal that has the
\* account and logs its sweep of the group.  Any other circle has a
\* post_sweep_shard that was called on its own in it.
THEOREM OneLockOrder == Spec => []CyclesNeedASweep
<1>1. GroupInv => CyclesNeedASweep
  <2> SUFFICES ASSUME GroupInv, NEW C \in (SUBSET Sessions) \ {{}},
                      \A s \in C : WaitsFor(s) \cap C # {},
                      \A s \in C : request[s].op # "SWEEP"
               PROVE  (\E s \in C : SweepsForMore(s)) /\ (\E s \in C : SweepsForPayout(s))
    BY DEF CyclesNeedASweep
  <2>1. OrderInv /\ C \in SUBSET Sessions /\ C # {}
    BY DEF GroupInv
  <2>2. PICK s \in C : at[s] = "log"
    BY <2>1, NoCircle
  <2>3. PICK t \in C : lock[Group] = t /\ t # s
    BY <2>2 DEF WaitsFor
  <2>4. request[s].op = "WITHDRAW"
    <3>1. request[s].op \in {"WITHDRAW", "ACTIVATE", "RESCALE"}
      BY <2>1, <2>2, Known DEF Places, KeyedOps
    <3>2. request[s].op \in {"ACTIVATE", "RESCALE"} => lock[Group] = s
      BY <2>1, <2>2 DEF GroupInv, Grown, GrowsAlone
    <3> QED
      BY <2>3, <3>1, <3>2
  <2>5. lock[Settlement] = s /\ swept[s] # {} /\ swept[s] \subseteq shards
    BY <2>1, <2>2, <2>4 DEF GroupInv, Held, HoldsAccounts
  <2>6. at[t] = "anchor"
    <3>1. at[t] \in {"check", "anchor", "open", "sweep", "log", "debit", "add", "move"}
      BY <2>1, <2>3, RowsThere DEF OrderInv, LocksHeld
    <3>2. request[t].op \in {"ACTIVATE", "RESCALE"}
      BY <2>1, <2>3, RowsThere DEF OrderInv, LocksHeld
    <3>3. at[t] \in Places(request[t].op)
      BY <2>1, <3>1, Known
    <3>4. at[t] \notin {"open", "sweep", "log", "add"}
      BY <2>1, <2>3, <2>5 DEF GroupInv, Held, HoldsAccounts
    <3> QED
      BY <3>1, <3>2, <3>3, <3>4 DEF Places
  <2>7. request[t].op = "RESCALE"
    <3>1. request[t].op \in {"ACTIVATE", "RESCALE"} /\ (request[t].op = "ACTIVATE" => tier = 0)
      <4>1. request[t].op \in {"ACTIVATE", "RESCALE"}
        BY <2>1, <2>3, RowsThere DEF OrderInv, LocksHeld
      <4> QED
        BY <2>1, <2>6, <4>1 DEF GroupInv, Grown, GrowsAlone
    <3>2. tier = 0 => shards = {}
      BY DEF GroupInv, Grown
    <3> QED
      BY <2>5, <3>1, <3>2
  <2> QED
    BY <2>2, <2>4, <2>6, <2>7 DEF SweepsForMore, SweepsForPayout
<1> QED
  BY <1>1, GroupInit, GroupStep, PTL DEF Spec

-----------------------------------------------------------------------------
(***************************************************************************)
(* The group is one account.                                               *)
(***************************************************************************)

PostedOf == [f \in Refs |-> PostedAt(f)]
ReversedOf == {f \in Refs : \E p \in Prefixes : message[<<p, f>>] # None}

LEMMA SumOfAccounts ==
  ASSUME NEW f, DOMAIN f = Accounts PROVE SumFunction(f) = SumFunctionOnSet(f, Accounts)
  BY SumWhole

LEMMA TotalsKnown ==
  ASSUME Backed
  PROVE  /\ SumFunction(bal) = SumFunctionOnSet(bal, Accounts)
         /\ SumFunction(pledged) = SumFunctionOnSet(pledged, Accounts)
         /\ SumFunction(bal) \in Int /\ SumFunction(pledged) \in Int
         /\ SumFunction(pledged) >= 0 /\ SumFunction(pledged) <= SumFunction(bal)
<1>1. DOMAIN bal = Accounts /\ DOMAIN pledged = Accounts
  BY DEF Backed
<1>2. /\ SumFunction(bal) = SumFunctionOnSet(bal, Accounts)
      /\ SumFunction(pledged) = SumFunctionOnSet(pledged, Accounts)
  BY <1>1, SumOfAccounts
<1>3. \A i \in Accounts : /\ bal[i] \in Int /\ pledged[i] \in Int
                          /\ pledged[i] >= 0 /\ pledged[i] <= bal[i]
  BY DEF Backed
<1>4. SumFunctionOnSet(bal, Accounts) \in Int /\ SumFunctionOnSet(pledged, Accounts) \in Int
  BY <1>3, AccountsFinite, SumInt
<1>5. SumFunctionOnSet(pledged, Accounts) >= 0
  BY <1>3, AccountsFinite, SumNotNegative
<1>6. SumFunctionOnSet(pledged, Accounts) <= SumFunctionOnSet(bal, Accounts)
  BY <1>3, AccountsFinite, SumMonotone
<1> QED
  BY <1>2, <1>4, <1>5, <1>6

\* One account changes by n.
LEMMA TotalMoves ==
  ASSUME NEW f \in [Accounts -> Int], NEW g \in [Accounts -> Int], NEW i \in Accounts, NEW n \in Int,
         g[i] = f[i] + n, \A j \in Accounts \ {i} : g[j] = f[j]
  PROVE  SumFunction(g) = SumFunction(f) + n
<1>1. \A j \in Accounts : f[j] \in Int /\ g[j] \in Int
  OBVIOUS
<1>2. SumFunctionOnSet(g, Accounts) = SumFunctionOnSet(f, Accounts) - f[i] + g[i]
  BY <1>1, AccountsFinite, SumChange
<1>3. SumFunctionOnSet(f, Accounts) \in Int
  BY <1>1, AccountsFinite, SumInt
<1>4. SumFunction(f) = SumFunctionOnSet(f, Accounts) /\ SumFunction(g) = SumFunctionOnSet(g, Accounts)
  BY SumOfAccounts
<1>5. f[i] \in Int
  BY <1>1
<1> QED
  BY <1>2, <1>3, <1>4, <1>5

\* A sum over part of the accounts is one over all of them.
LEMMA SumOfPart ==
  ASSUME NEW f \in [Accounts -> Int], NEW T \in SUBSET Accounts
  PROVE  SumFunctionOnSet(f, T)
           = SumFunctionOnSet([i \in Accounts |-> IF i \in T THEN f[i] ELSE 0], Accounts)
<1> DEFINE part == [i \in Accounts |-> IF i \in T THEN f[i] ELSE 0]
<1>1. IsFiniteSet(T) /\ IsFiniteSet(Accounts \ T) /\ IsFiniteSet(Accounts)
  BY AccountsFinite, FS_Subset
<1>2. SumFunctionOnSet(part, Accounts) = SumFunctionOnSet(part, T) + SumFunctionOnSet(part, Accounts \ T)
  <2>1. T \cup (Accounts \ T) = Accounts /\ T \cap (Accounts \ T) = {} /\ \A i \in Accounts : part[i] \in Int
    OBVIOUS
  <2> HIDE DEF part
  <2> QED
    BY <1>1, <2>1, SumDisjoint
<1>3. SumFunctionOnSet(part, Accounts \ T) = 0
  BY <1>1, SumZero
<1>4. SumFunctionOnSet(part, T) = SumFunctionOnSet(f, T)
  BY <1>1, SumSame
<1>5. SumFunctionOnSet(f, T) \in Int
  BY <1>1, SumInt
<1> QED
  BY <1>2, <1>3, <1>4, <1>5

\* Sweeping moves money within the group.
LEMMA SweepKeepsTotal ==
  ASSUME GroupInv, NEW s \in Sessions
  PROVE  SumFunction(After(s)) = SumFunction(bal)
<1> DEFINE T == swept[s]
           part == [i \in Accounts |-> IF i \in T THEN bal[i] ELSE 0]
           base == [i \in Accounts |-> IF i \in T THEN 0 ELSE bal[i]]
<1>1. T \in SUBSET Accounts /\ Settlement \notin T /\ IsFiniteSet(T)
  BY ShardsThere, FS_Subset DEF GroupInv, Held, HoldsAccounts
<1>2. bal \in [Accounts -> Int] /\ DOMAIN bal = Accounts /\ \A i \in Accounts : bal[i] \in Int
  BY DEF GroupInv, Backed
<1>3. base \in [Accounts -> Int] /\ DOMAIN base = Accounts /\ part \in [Accounts -> Int]
  BY <1>2
<1>4. SweptSum(s) = SumFunctionOnSet(part, Accounts) /\ SweptSum(s) \in Int
  BY <1>1, <1>2, SumOfPart, SweptSums DEF SweptSum, GroupInv
<1>5. After(s) = [base EXCEPT ![Settlement] = @ + SweptSum(s)]
  BY <1>1, <1>2, RowsThere DEF After
<1>6. SumFunctionOnSet(bal, Accounts) = SumFunctionOnSet(part, Accounts) + SumFunctionOnSet(base, Accounts)
  <2>1. \A i \in Accounts : part[i] \in Int /\ base[i] \in Int /\ bal[i] = part[i] + base[i]
    BY <1>2
  <2> HIDE DEF part, base
  <2> QED
    BY <2>1, AccountsFinite, SumPlus
<1>7. SumFunctionOnSet(base, Accounts) \in Int
  BY <1>3, AccountsFinite, SumInt
<1>8. SumFunction(base) = SumFunctionOnSet(base, Accounts) /\ SumFunction(bal) = SumFunctionOnSet(bal, Accounts)
  BY <1>2, <1>3, SumOfAccounts
<1> HIDE DEF base, part
<1>9. PICK n \in Int : n = SweptSum(s)
  BY <1>4
<1>10. SumFunction(After(s)) = SumFunction(base) + n
  <2>1. PICK after \in [Accounts -> Int] : after = After(s)
    BY SweptSums DEF GroupInv
  <2>2. after[Settlement] = base[Settlement] + n /\ \A j \in Accounts \ {Settlement} : after[j] = base[j]
    BY <1>3, <1>5, <1>9, <2>1, RowsThere
  <2>3. PICK b \in [Accounts -> Int] : b = base
    BY <1>3
  <2>4. SumFunction(after) = SumFunction(b) + n
    BY <2>2, <2>3, RowsThere, TotalMoves
  <2> QED
    BY <2>1, <2>3, <2>4
<1> QED
  BY <1>4, <1>6, <1>7, <1>8, <1>9, <1>10
\* What an answer under a key says is posted.
LEMMA PostedIs ==
  ASSUME NEW f
  PROVE  /\ \A r \in Requests : message[<<"", f>>] = [status |-> "SUCCESS", of |-> r] => PostedAt(f) = r
         /\ \A r \in Requests : message[<<"", f>>] = [status |-> "PENDING", of |-> r] => PostedAt(f) = None
         /\ message[<<"", f>>] = None => PostedAt(f) = None
<1>1. PICK m : m = message[<<"", f>>]
  OBVIOUS
<1>2. PostedAt(f) = IF m # None /\ m.status = "SUCCESS" THEN m.of ELSE None
  BY <1>1 DEF PostedAt
<1>3. ASSUME NEW r \in Requests, NEW st \in {"PENDING", "SUCCESS"}, m = [status |-> st, of |-> r]
      PROVE  m # None /\ m.status = st /\ m.of = r
  <2>1. m \in Messages
    BY <1>3 DEF Messages
  <2> QED
    BY <1>3, <2>1, NoneAssumption
<1> QED
  BY <1>1, <1>2, <1>3

LEMMA PostedShown ==
  ASSUME NEW f
  PROVE  /\ \A r \in Requests : message'[<<"", f>>] = [status |-> "SUCCESS", of |-> r] => PostedAt(f)' = r
         /\ \A r \in Requests : message'[<<"", f>>] = [status |-> "PENDING", of |-> r] => PostedAt(f)' = None
         /\ message'[<<"", f>>] = None => PostedAt(f)' = None
<1>1. PICK m : m = message'[<<"", f>>]
  OBVIOUS
<1>2. PostedAt(f)' = IF m # None /\ m.status = "SUCCESS" THEN m.of ELSE None
  BY <1>1 DEF PostedAt
<1>3. ASSUME NEW r \in Requests, NEW st \in {"PENDING", "SUCCESS"}, m = [status |-> st, of |-> r]
      PROVE  m # None /\ m.status = st /\ m.of = r
  <2>1. m \in Messages
    BY <1>3 DEF Messages
  <2> QED
    BY <1>3, <2>1, NoneAssumption
<1> QED
  BY <1>1, <1>2, <1>3

\* What a commit shows: of a request its reference is posted, of a reversal its
\* reference is reversed, of a pending answer nothing.
LEMMA OwnKey ==
  ASSUME GroupInv, NEW s \in Sessions, at[s] \notin {"idle", "claim"},
         NEW r \in Requests, r = request[s], r.op \in KeyedOps \ {"REVERSAL"},
         NEW st \in {"PENDING", "SUCCESS"}, Record(s, st)
  PROVE  /\ r.ref \in Refs /\ message[<<"", r.ref>>] = None
         /\ message'[<<"", r.ref>>] = [status |-> st, of |-> r]
         /\ \A f \in Refs \ {r.ref} : message'[<<"", f>>] = message[<<"", f>>]
         /\ ReversedOf' = ReversedOf
<1>1. Key(r) = <<"", r.ref>> /\ r.ref \in Refs
  BY DEF Key, Refs, Keyed, KeyedOps
<1>2. /\ Key(r) \in Keys /\ message[Key(r)] = None
      /\ message'[Key(r)] = [status |-> st, of |-> r]
      /\ \A k \in Keys \ {Key(r)} : message'[k] = message[k]
  BY RecordFrame DEF GroupInv
<1>3. \A f \in Refs : <<"", f>> \in Keys /\ \A p \in Prefixes : <<p, f>> \in Keys
  BY DEF Keys
<1>4. \A f \in Refs, p \in Prefixes : message'[<<p, f>>] = message[<<p, f>>]
  <2> TAKE f \in Refs, p \in Prefixes
  <2>1. <<p, f>> # Key(r)
    BY <1>1, NoPrefix, KeysDiffer
  <2> QED
    BY <1>2, <1>3, <2>1
<1>5. \A f \in Refs \ {r.ref} : message'[<<"", f>>] = message[<<"", f>>]
  <2> TAKE f \in Refs \ {r.ref}
  <2>1. <<"", f>> # Key(r)
    BY <1>1, KeysDiffer
  <2> QED
    BY <1>2, <1>3, <2>1
<1>6. ReversedOf' = ReversedOf
  BY <1>4 DEF ReversedOf
<1> QED
  BY <1>1, <1>2, <1>5, <1>6

LEMMA PostingShown ==
  ASSUME GroupInv, NEW s \in Sessions, at[s] \notin {"idle", "claim"},
         NEW r \in Requests, r = request[s], r.op \in KeyedOps \ {"REVERSAL"}, Record(s, "SUCCESS")
  PROVE  /\ r.ref \in Refs /\ PostedOf[r.ref] = None
         /\ PostedOf' = [PostedOf EXCEPT ![r.ref] = r] /\ ReversedOf' = ReversedOf
<1>1. /\ r.ref \in Refs /\ message[<<"", r.ref>>] = None
      /\ message'[<<"", r.ref>>] = [status |-> "SUCCESS", of |-> r]
      /\ \A f \in Refs \ {r.ref} : message'[<<"", f>>] = message[<<"", f>>]
      /\ ReversedOf' = ReversedOf
  BY OwnKey
<1>2. PostedAt(r.ref) = None
  BY <1>1, PostedIs
<1>3. PostedAt(r.ref)' = r
  BY <1>1, PostedShown
<1>4. \A f \in Refs \ {r.ref} : PostedAt(f)' = PostedAt(f)
  BY <1>1 DEF PostedAt
<1>5. PostedOf' = [PostedOf EXCEPT ![r.ref] = r]
  BY <1>1, <1>3, <1>4 DEF PostedOf
<1> QED
  BY <1>1, <1>2, <1>5 DEF PostedOf

LEMMA PendingShown ==
  ASSUME GroupInv, NEW s \in Sessions, at[s] = "check", Record(s, "PENDING")
  PROVE  PostedOf' = PostedOf /\ ReversedOf' = ReversedOf
<1>1. PICK r \in Requests : r = request[s] /\ r.op \in KeyedOps \ {"REVERSAL"}
  BY Known DEF GroupInv, Places, KeyedOps
<1>2. /\ r.ref \in Refs /\ message[<<"", r.ref>>] = None
      /\ message'[<<"", r.ref>>] = [status |-> "PENDING", of |-> r]
      /\ \A f \in Refs \ {r.ref} : message'[<<"", f>>] = message[<<"", f>>]
      /\ ReversedOf' = ReversedOf
  BY <1>1, OwnKey
<1>3. PostedAt(r.ref) = None
  BY <1>2, PostedIs
<1>4. PostedAt(r.ref)' = None
  BY <1>2, PostedShown
<1>5. \A f \in Refs : PostedAt(f)' = PostedAt(f)
  BY <1>2, <1>3, <1>4 DEF PostedAt
<1> QED
  BY <1>2, <1>5 DEF PostedOf

LEMMA ReversalShown ==
  ASSUME GroupInv, NEW s \in Sessions, at[s] = "refund",
         NEW r \in Requests, r = request[s], r.op = "REVERSAL", Record(s, "SUCCESS")
  PROVE  /\ r.ref \in Refs /\ r.ref \notin ReversedOf
         /\ PostedOf' = PostedOf /\ ReversedOf' = ReversedOf \cup {r.ref}
<1>1. Key(r) = <<Undo[r.of], r.ref>> /\ r.ref \in Refs /\ Undo[r.of] \in Prefixes
  BY Undone DEF Key, Refs, Keyed
<1>2. /\ Key(r) \in Keys /\ message[Key(r)] = None
      /\ message'[Key(r)] = [status |-> "SUCCESS", of |-> r]
      /\ \A k \in Keys \ {Key(r)} : message'[k] = message[k]
  BY RecordFrame DEF GroupInv, KeyedOps
<1>3. \A f \in Refs : <<"", f>> \in Keys /\ \A p \in Prefixes : <<p, f>> \in Keys
  BY DEF Keys
<1>4. \A f \in Refs : message'[<<"", f>>] = message[<<"", f>>]
  <2> TAKE f \in Refs
  <2>1. <<"", f>> # Key(r)
    BY <1>1, NoPrefix, KeysDiffer, ZenonT(60)
  <2> QED
    BY <1>2, <1>3, <2>1
<1>5. \A f \in Refs \ {r.ref}, p \in Prefixes : message'[<<p, f>>] = message[<<p, f>>]
  <2> TAKE f \in Refs \ {r.ref}, p \in Prefixes
  <2>1. <<p, f>> # Key(r)
    BY <1>1, KeysDiffer
  <2> QED
    BY <1>2, <1>3, <2>1
<1>6. message'[Key(r)] # None
  <2>1. [status |-> "SUCCESS", of |-> r] \in Messages
    BY DEF Messages
  <2> QED
    BY <1>2, <2>1, NoneAssumption
<1>7. r.ref \notin ReversedOf
  <2> SUFFICES ASSUME NEW p \in Prefixes, message[<<p, r.ref>>] # None PROVE FALSE
    BY DEF ReversedOf
  <2>1. PICK op \in {"WITHDRAW", "CHARGE", "TRANSFER"} :
          Undo[op] = p /\ Reversible(message[<<"", r.ref>>], op)
    BY <1>1 DEF GroupInv, Placed
  <2>2. Reversible(message[<<"", r.ref>>], r.of)
    BY DEF GroupInv, Claimed, HoldsKeys, Original
  <2>3. op = r.of
    BY <2>1, <2>2 DEF Reversible
  <2> QED
    BY <1>1, <1>2, <2>1, <2>3
<1>8. \A f \in Refs : PostedAt(f)' = PostedAt(f)
  BY <1>4 DEF PostedAt
<1>9. ReversedOf' = ReversedOf \cup {r.ref}
  <2>1. \A f \in Refs \ {r.ref} : f \in ReversedOf' <=> f \in ReversedOf
    BY <1>5 DEF ReversedOf
  <2>2. r.ref \in ReversedOf'
    BY <1>1, <1>6 DEF ReversedOf
  <2>3. ReversedOf' \subseteq Refs /\ ReversedOf \subseteq Refs
    BY DEF ReversedOf
  <2> QED
    BY <1>1, <2>1, <2>2, <2>3
<1> QED
  BY <1>1, <1>7, <1>8, <1>9 DEF PostedOf

LEMMA BookInit == Init => Book!Init
<1> SUFFICES ASSUME Init PROVE Book!Init
  OBVIOUS
<1>1. GroupInv
  BY GroupInit
<1>2. SumFunction(bal) = Opening
  <2>1. bal[Settlement] = Opening /\ \A i \in Accounts \ {Settlement} : bal[i] = 0
    BY RowsThere DEF Init
  <2>1a. bal[Settlement] \in Int
    BY <2>1, AmountsAssumption
  <2>2. SumFunctionOnSet(bal, Accounts) = bal[Settlement]
    BY <2>1, <2>1a, AccountsFinite, RowsThere, SumAt
  <2> QED
    BY <1>1, <2>1, <2>2, TotalsKnown DEF GroupInv
<1>3. SumFunction(pledged) = 0
  <2>1. \A i \in Accounts : pledged[i] = 0
    BY DEF Init
  <2>2. SumFunctionOnSet(pledged, Accounts) = 0
    BY <2>1, AccountsFinite, SumZero
  <2> QED
    BY <1>1, <2>2, TotalsKnown DEF GroupInv
<1>4. \A f \in Refs : message[<<"", f>>] = None /\ \A p \in Prefixes : message[<<p, f>>] = None
  BY DEF Init, Keys
<1>5. PostedOf = [f \in Refs |-> None] /\ ReversedOf = {}
  BY <1>4 DEF PostedOf, PostedAt, ReversedOf
<1> QED
  BY <1>2, <1>3, <1>5 DEF Book!Init, PostedOf, ReversedOf

\* The settlement account after the sweeps of s, moved by n: the group moves by n.
LEMMA SettleMoves ==
  ASSUME GroupInv, NEW s \in Sessions, NEW n \in Int,
         bal' = [After(s) EXCEPT ![Settlement] = @ + n]
  PROVE  SumFunction(bal)' = SumFunction(bal) + n
<1>1. PICK after \in [Accounts -> Int] : after = After(s)
  BY SweptSums DEF GroupInv
<1>1a. after[Settlement] + n \in Int /\ bal' = [after EXCEPT ![Settlement] = @ + n]
  BY <1>1, RowsThere
<1>2. PICK new \in [Accounts -> Int] : new = bal'
  BY <1>1a, RowsThere
<1>3. new[Settlement] = after[Settlement] + n /\ \A j \in Accounts \ {Settlement} : new[j] = after[j]
  BY <1>1, <1>2, RowsThere
<1>4. SumFunction(new) = SumFunction(after) + n
  BY <1>3, RowsThere, TotalMoves
<1>5. SumFunction(after) = SumFunction(bal)
  BY <1>1, SweepKeepsTotal
<1> QED
  BY <1>2, <1>4, <1>5

LEMMA NothingSwept ==
  ASSUME GroupInv, NEW s \in Sessions, bal' = After(s)
  PROVE  SumFunction(bal)' = SumFunction(bal)
<1>1. PICK after : after = After(s)
  OBVIOUS
<1> QED
  BY <1>1, SweepKeepsTotal

\* One account of the group, moved by n: the group moves by n.
LEMMA AccountMoves ==
  ASSUME GroupInv, NEW i \in Accounts, NEW n \in Int, bal' = [bal EXCEPT ![i] = @ + n]
  PROVE  SumFunction(bal)' = SumFunction(bal) + n
<1>1. PICK old \in [Accounts -> Int] : old = bal
  BY DEF GroupInv, Backed
<1>2. old[i] + n \in Int
  OBVIOUS
<1>3. PICK new \in [Accounts -> Int] : new = bal'
  BY <1>1, <1>2
<1>4. new[i] = old[i] + n /\ \A j \in Accounts \ {i} : new[j] = old[j]
  BY <1>1, <1>3
<1>5. SumFunction(new) = SumFunction(old) + n
  BY <1>4, TotalMoves
<1> QED
  BY <1>1, <1>3, <1>5

\* What is free on one account is free in the group.
LEMMA FreeOfAll ==
  ASSUME NEW after \in [Accounts -> Nat], NEW held \in [Accounts -> Nat],
         \A j \in Accounts : held[j] <= after[j],
         NEW i \in Accounts, NEW n \in Int, after[i] - held[i] >= n
  PROVE  SumFunction(after) - SumFunction(held) >= n
<1> DEFINE free == [j \in Accounts |-> after[j] - held[j]]
           least == [j \in Accounts |-> IF j = i THEN n ELSE 0]
<1>1. \A j \in Accounts : /\ free[j] \in Int /\ least[j] \in Int /\ least[j] <= free[j]
                          /\ after[j] = held[j] + free[j] /\ held[j] \in Int
  OBVIOUS
<1>2. least[i] = n /\ \A j \in Accounts \ {i} : least[j] = 0
  OBVIOUS
<1> HIDE DEF free, least
<1>3. SumFunctionOnSet(least, Accounts) = n
  BY <1>2, AccountsFinite, SumAt
<1>4. SumFunctionOnSet(least, Accounts) <= SumFunctionOnSet(free, Accounts)
  BY <1>1, AccountsFinite, SumMonotone
<1>5. SumFunctionOnSet(after, Accounts) = SumFunctionOnSet(held, Accounts) + SumFunctionOnSet(free, Accounts)
  BY <1>1, AccountsFinite, SumPlus
<1>6. SumFunctionOnSet(held, Accounts) \in Int /\ SumFunctionOnSet(free, Accounts) \in Int
  BY <1>1, AccountsFinite, SumInt
<1>7. SumFunction(after) = SumFunctionOnSet(after, Accounts) /\ SumFunction(held) = SumFunctionOnSet(held, Accounts)
  BY SumOfAccounts
<1> QED
  BY <1>3, <1>4, <1>5, <1>6, <1>7

\* A deposit, and a customer's transfer to the settlement account.
LEMMA CreditShown ==
  ASSUME GroupInv, NEW s \in Sessions, Credit(s)
  PROVE  Book!Next
<1>1. PICK r \in Requests : r = request[s] /\ r.op \in {"DEPOSIT", "TRANSFER"} /\ r.amt \in Nat
  BY Known DEF GroupInv, Credit, Places, KeyedOps
<1>2. at[s] = "credit" /\ Record(s, "SUCCESS") /\ pledged' = pledged
  BY DEF Credit
<1>3. /\ r.ref \in Refs /\ PostedOf[r.ref] = None
      /\ PostedOf' = [PostedOf EXCEPT ![r.ref] = r] /\ ReversedOf' = ReversedOf
  BY <1>1, <1>2, PostingShown DEF KeyedOps
<1>4. SumFunction(bal)' = SumFunction(bal) + r.amt
  <2>1. PICK i \in Accounts, n \in Int : i = target[s] /\ n = r.amt
    BY <1>1 DEF GroupInv, OrderInv, LocksType
  <2>2. bal' = [bal EXCEPT ![i] = @ + n]
    BY <1>1, <2>1 DEF Credit
  <2> QED
    BY <2>1, <2>2, AccountMoves
<1>5. Book!Effect(r) = r.amt
  BY <1>1 DEF Book!Effect, Book!Comes
<1>6. Book!Moves(r.amt)
  <2>1. SumFunction(bal) \in Int /\ SumFunction(bal) >= 0
    BY TotalsKnown DEF GroupInv
  <2> QED
    BY <1>1, <1>4, <2>1 DEF Book!Moves
<1>7. Book!Post(r)
  BY <1>1, <1>2, <1>3, <1>5, <1>6 DEF Book!Post, PostedOf, ReversedOf
<1> QED
  BY <1>1, <1>7 DEF Book!Next

LEMMA WithdrawalShown ==
  ASSUME GroupInv, NEW s \in Sessions, Debit(s)
  PROVE  Book!Next
<1>1. PICK r \in Requests : r = request[s] /\ r.op = "WITHDRAW" /\ r.amt \in Nat \ {0} /\ r.fee \in Nat
  BY Known DEF GroupInv, Debit, Places, KeyedOps
<1>2. at[s] = "debit" /\ Record(s, "SUCCESS") /\ pledged' = pledged
  BY DEF Debit
<1>3. /\ r.ref \in Refs /\ PostedOf[r.ref] = None
      /\ PostedOf' = [PostedOf EXCEPT ![r.ref] = r] /\ ReversedOf' = ReversedOf
  BY <1>1, <1>2, PostingShown DEF KeyedOps
<1>4. PICK n \in Int : n = -(r.amt + r.fee) /\ n < 0
  BY <1>1
<1>5. bal' = [After(s) EXCEPT ![Settlement] = @ + n]
  BY <1>1, <1>4 DEF Debit, Settle, Total
<1>6. SumFunction(bal)' = SumFunction(bal) + n
  BY <1>5, SettleMoves
<1>7. SumFunction(bal) - SumFunction(pledged) >= -n
  <2>1. PICK after \in [Accounts -> Nat] : after = After(s)
    BY SweptSums DEF GroupInv
  <2>2. PICK held \in [Accounts -> Nat] : held = pledged
    BY DEF GroupInv, Backed
  <2>3. \A i \in Accounts : held[i] <= after[i]
    BY <2>1, <2>2, SweptCovered
  <2>4. PICK m \in Int : m = -n /\ after[Settlement] - held[Settlement] >= m
    BY <1>1, <1>4, <2>1, <2>2 DEF Debit, Total
  <2>5. SumFunction(after) - SumFunction(held) >= m
    BY <2>3, <2>4, RowsThere, FreeOfAll
  <2>6. SumFunction(after) = SumFunction(bal)
    BY <2>1, SweepKeepsTotal
  <2> QED
    BY <2>2, <2>4, <2>5, <2>6
<1>8. Book!Moves(n)
  BY <1>4, <1>6, <1>7, TotalsKnown DEF Book!Moves, GroupInv
<1>9. Book!Effect(r) = n
  BY <1>1, <1>4 DEF Book!Effect, Book!Comes
<1>10. Book!Post(r)
  BY <1>1, <1>2, <1>3, <1>8, <1>9 DEF Book!Post, PostedOf, ReversedOf
<1> QED
  BY <1>1, <1>10 DEF Book!Next

LEMMA ChargeShown ==
  ASSUME GroupInv, NEW s \in Sessions, Charge(s)
  PROVE  Book!Next
<1>1. PICK r \in Requests : r = request[s] /\ r.op = "CHARGE" /\ r.amt \in Nat \ {0}
  BY Known DEF GroupInv, Charge, Places, KeyedOps
<1>2. at[s] = "charge" /\ Record(s, "SUCCESS") /\ pledged' = pledged
  BY DEF Charge
<1>3. /\ r.ref \in Refs /\ PostedOf[r.ref] = None
      /\ PostedOf' = [PostedOf EXCEPT ![r.ref] = r] /\ ReversedOf' = ReversedOf
  BY <1>1, <1>2, PostingShown DEF KeyedOps
<1>4. PICK n \in Int : n = -r.amt /\ n < 0
  BY <1>1
<1>5. PICK i \in Accounts : i = r.acct
  BY <1>1, Known DEF GroupInv, Charge
<1>6. bal \in [Accounts -> Nat] /\ pledged \in [Accounts -> Nat] /\ \A j \in Accounts : pledged[j] <= bal[j]
  BY DEF GroupInv, Backed
<1>7. bal' = [bal EXCEPT ![i] = @ + n]
  BY <1>1, <1>4, <1>5, <1>6 DEF Charge
<1>8. SumFunction(bal)' = SumFunction(bal) + n
  BY <1>7, AccountMoves
<1>9. SumFunction(bal) - SumFunction(pledged) >= -n
  <2>1. PICK m \in Int : m = -n /\ bal[i] - pledged[i] >= m
    BY <1>1, <1>4, <1>5 DEF Charge
  <2> QED
    BY <1>6, <2>1, FreeOfAll
<1>10. Book!Moves(n)
  BY <1>4, <1>8, <1>9, TotalsKnown DEF Book!Moves, GroupInv
<1>11. Book!Effect(r) = n
  BY <1>1, <1>4 DEF Book!Effect, Book!Comes
<1>12. Book!Post(r)
  BY <1>1, <1>2, <1>3, <1>10, <1>11 DEF Book!Post, PostedOf, ReversedOf
<1> QED
  BY <1>1, <1>12 DEF Book!Next

LEMMA RefundShown ==
  ASSUME GroupInv, NEW s \in Sessions, Refund(s)
  PROVE  Book!Next
<1>1. PICK r \in Requests : r = request[s] /\ r.op = "REVERSAL"
  BY RefundOf
<1>2. at[s] = "refund" /\ Record(s, "SUCCESS") /\ pledged' = pledged
  BY DEF Refund
<1>3. /\ r.ref \in Refs /\ r.ref \notin ReversedOf
      /\ PostedOf' = PostedOf /\ ReversedOf' = ReversedOf \cup {r.ref}
  BY <1>1, <1>2, ReversalShown
<1>4. PICK o \in Requests : /\ o = message[<<"", r.ref>>].of
                            /\ o.op \in {"WITHDRAW", "CHARGE", "TRANSFER"}
                            /\ PostedOf[r.ref] = o /\ o # None
  <2>1. PICK m : m = message[<<"", r.ref>>]
    OBVIOUS
  <2>2. /\ m # None /\ m.status = "SUCCESS" /\ m.of \in Requests
        /\ m.of.op \in {"WITHDRAW", "CHARGE", "TRANSFER"}
    BY <1>1, <2>1, RefundOf DEF Original
  <2>3. PostedOf[r.ref] = m.of
    BY <1>3, <2>1, <2>2 DEF PostedOf, PostedAt
  <2> QED
    BY <2>1, <2>2, <2>3, NoneAssumption
<1>5. PICK n \in Int : n = Back(o) /\ (o.op # "TRANSFER" => n >= 0)
  BY <1>4, BackKnown
<1>6. PICK i \in Accounts : i = target[s]
  BY DEF GroupInv, OrderInv, LocksType
<1>7. bal' = [bal EXCEPT ![i] = @ + n]
  BY <1>1, <1>4, <1>5, <1>6 DEF Refund, Original
<1>8. SumFunction(bal)' = SumFunction(bal) + n
  BY <1>7, AccountMoves
<1>9. Book!Moves(n)
  <2>1. /\ SumFunction(bal) \in Int /\ SumFunction(pledged) \in Int
        /\ SumFunction(pledged) >= 0 /\ SumFunction(pledged) <= SumFunction(bal)
    BY TotalsKnown DEF GroupInv
  <2>2. CASE o.op # "TRANSFER"
    BY <1>5, <1>8, <2>1, <2>2 DEF Book!Moves
  <2>3. CASE o.op = "TRANSFER"
    <3>1. bal \in [Accounts -> Nat] /\ pledged \in [Accounts -> Nat] /\ \A j \in Accounts : pledged[j] <= bal[j]
      BY DEF GroupInv, Backed
    <3>2. PICK m \in Int : m = -n /\ bal[i] - pledged[i] >= m
      <4>1. n = -o.amt /\ o.amt \in Nat
        BY <1>4, <1>5, <2>3, RequestsAssumption DEF Back
      <4>2. bal[i] - pledged[i] >= o.amt
        BY <1>1, <1>4, <1>6, <2>3 DEF Refund, Original
      <4> QED
        BY <4>1, <4>2
    <3>3. SumFunction(bal) - SumFunction(pledged) >= m
      BY <3>1, <3>2, FreeOfAll
    <3> QED
      BY <1>8, <2>1, <3>2, <3>3 DEF Book!Moves
  <2> QED
    BY <2>2, <2>3
<1>10. -Book!Effect(o) = n
  <2>1. o.amt \in Nat /\ (o.op = "WITHDRAW" => o.fee \in Nat)
    BY <1>4, BackKnown
  <2>2. CASE o.op = "WITHDRAW"
    BY <1>5, <2>1, <2>2 DEF Back, Total, Book!Effect, Book!Comes
  <2>3. CASE o.op = "CHARGE"
    BY <1>5, <2>1, <2>3 DEF Back, Book!Effect, Book!Comes
  <2>4. CASE o.op = "TRANSFER"
    BY <1>5, <2>1, <2>4 DEF Back, Book!Effect, Book!Comes
  <2> QED
    BY <1>4, <2>2, <2>3, <2>4
<1>11. Book!Reverse(r.ref)
  BY <1>2, <1>3, <1>4, <1>9, <1>10 DEF Book!Reverse, PostedOf, ReversedOf
<1> QED
  BY <1>3, <1>11 DEF Book!Next

\* A sweep of its own moves money from a shard to the settlement account.
LEMMA SurplusStays ==
  ASSUME GroupInv, NEW s \in Sessions, MoveSurplus(s)
  PROVE  SumFunction(bal)' = SumFunction(bal)
<1>1. PICK i \in Accounts : i = request[s].shard /\ i # Settlement
  BY ShardsThere DEF GroupInv, Held, HoldsAccounts, MoveSurplus, Loggable
<1>2. PICK n \in Int : n = Surplus(request[s])
  BY <1>1, SurplusBounds DEF GroupInv
<1>3. bal' = [bal EXCEPT ![i] = @ - n, ![Settlement] = @ + n]
  BY <1>1, <1>2 DEF MoveSurplus
<1>4. PICK old \in [Accounts -> Int] : old = bal
  BY DEF GroupInv, Backed
<1>5. PICK mid \in [Accounts -> Int] : mid = [j \in Accounts |-> IF j = i THEN old[j] + (-n) ELSE old[j]]
  <2>1. \A j \in Accounts : old[j] + (-n) \in Int /\ old[j] \in Int
    OBVIOUS
  <2> QED
    BY <2>1
<1>6. PICK new \in [Accounts -> Int] : new = bal'
  BY <1>1, <1>3, <1>4, RowsThere
<1>7. mid[i] = old[i] + (-n) /\ \A j \in Accounts \ {i} : mid[j] = old[j]
  BY <1>5
<1>8. new[Settlement] = mid[Settlement] + n /\ \A j \in Accounts \ {Settlement} : new[j] = mid[j]
  BY <1>1, <1>3, <1>4, <1>5, <1>6, <1>7, RowsThere
<1>9. SumFunction(mid) = SumFunction(old) + (-n)
  BY <1>7, TotalMoves
<1>10. SumFunction(new) = SumFunction(mid) + n
  BY <1>8, RowsThere, TotalMoves
<1>11. SumFunction(old) \in Int
  BY <1>4, TotalsKnown DEF GroupInv
<1> QED
  BY <1>4, <1>6, <1>9, <1>10, <1>11

\* What nobody outside sees.
LEMMA NothingShown ==
  ASSUME SumFunction(bal)' = SumFunction(bal), pledged' = pledged,
         PostedOf' = PostedOf, ReversedOf' = ReversedOf
  PROVE  UNCHANGED Book!vars
  BY DEF Book!vars, PostedOf, ReversedOf

LEMMA PledgeShown ==
  ASSUME GroupInv, Backed', UNCHANGED <<bal, message>>
  PROVE  Book!Next
<1>1. SumFunction(bal)' = SumFunction(bal)
  OBVIOUS
<1>2. SumFunction(pledged)' \in 0 .. SumFunction(bal)
  <2>1. PICK old \in [Accounts -> Nat] : old = bal
    BY DEF GroupInv, Backed
  <2>2. PICK new \in [Accounts -> Nat] : new = pledged'
    BY DEF Backed
  <2>3. \A i \in Accounts : new[i] \in Int /\ old[i] \in Int /\ new[i] >= 0 /\ new[i] <= old[i]
    BY <2>1, <2>2 DEF Backed
  <2>4. SumFunctionOnSet(new, Accounts) \in Int /\ SumFunctionOnSet(old, Accounts) \in Int
    BY <2>3, AccountsFinite, SumInt
  <2>5. SumFunctionOnSet(new, Accounts) >= 0
    BY <2>3, AccountsFinite, SumNotNegative
  <2>6. SumFunctionOnSet(new, Accounts) <= SumFunctionOnSet(old, Accounts)
    BY <2>3, AccountsFinite, SumMonotone
  <2>7. SumFunction(new) = SumFunctionOnSet(new, Accounts) /\ SumFunction(old) = SumFunctionOnSet(old, Accounts)
    BY SumOfAccounts
  <2> QED
    BY <2>1, <2>2, <2>4, <2>5, <2>6, <2>7
<1>3. PostedOf' = PostedOf /\ ReversedOf' = ReversedOf
  BY DEF PostedOf, PostedAt, ReversedOf
<1>4. Book!Restrain
  BY <1>1, <1>2, <1>3 DEF Book!Restrain, PostedOf, ReversedOf
<1> QED
  BY <1>4 DEF Book!Next

LEMMA BookStep ==
  ASSUME GroupInv, GroupInv', [Next]_vars
  PROVE  Book!Next \/ UNCHANGED Book!vars
<1>1. ASSUME UNCHANGED message PROVE PostedOf' = PostedOf /\ ReversedOf' = ReversedOf
  BY <1>1 DEF PostedOf, PostedAt, ReversedOf
<1>2. ASSUME UNCHANGED <<bal, pledged, message>> PROVE UNCHANGED Book!vars
  BY <1>1, <1>2, NothingShown
<1>3. ASSUME NEW s \in Sessions, Add(s) PROVE UNCHANGED Book!vars
  BY <1>1, <1>3, NothingSwept, NothingShown DEF Add
<1>4. ASSUME NEW s \in Sessions, MoveSurplus(s) PROVE UNCHANGED Book!vars
  BY <1>1, <1>4, SurplusStays, NothingShown DEF MoveSurplus
<1>5. ASSUME NEW s \in Sessions, Check(s) PROVE UNCHANGED Book!vars
  <2>1. CASE UNCHANGED <<bal, pledged, message>>
    BY <1>2, <2>1
  <2>2. CASE Record(s, "PENDING") /\ UNCHANGED <<bal, pledged>>
    BY <1>5, <2>2, PendingShown, NothingShown DEF Check
  <2> QED
    BY <1>5, <2>1, <2>2 DEF Check, book
<1>6. ASSUME NEW s \in Sessions, Step(s) PROVE Book!Next \/ UNCHANGED Book!vars
  <2>1. CASE Credit(s)
    BY <2>1, CreditShown
  <2>5. CASE Charge(s)
    BY <2>5, ChargeShown
  <2>2. CASE Debit(s)
    BY <2>2, WithdrawalShown
  <2>3. CASE Refund(s)
    BY <2>3, RefundShown
  <2>4. CASE UNCHANGED book
    BY <1>2, <2>4 DEF book
  <2> QED
    BY <1>3, <1>4, <1>5, <1>6, <2>1, <2>2, <2>3, <2>4, <2>5
       DEF Step, Claim, Abort, Rollback, Route, LockSettlement, Open, SweepNext, Log, SweepDone,
           LoadOriginal, LockGroup, Anchor, LockShard, Receive
<1>7. ASSUME NEW s \in Sessions, NEW r \in Requests, Call(s, r) PROVE UNCHANGED Book!vars
  BY <1>2, <1>7 DEF Call, book
<1>8. ASSUME NEW i \in {Settlement} \cup shards,
             \/ AddRestraint(i) \/ ReleaseRestraint(i) \/ \E new \in {"A", "B", "C"} : SetStatus(i, new)
      PROVE  Book!Next
  <2>1. UNCHANGED <<bal, message>> /\ Backed'
    BY <1>8 DEF AddRestraint, ReleaseRestraint, SetStatus, GroupInv
  <2> QED
    BY <2>1, PledgeShown
<1>9. CASE UNCHANGED vars
  BY <1>2, <1>9 DEF vars, book
<1> QED
  BY <1>6, <1>7, <1>8, <1>9 DEF Next

\* A merchant group is one account, whatever its shards: every commit that moves
\* money in or out is one posting or one reversal of MerchantBook, once per
\* reference, and routing, sweeping and growing are not seen from outside.
THEOREM GroupIsOneAccount == Spec => ImplementsMerchantBook
<1>1. Init => Book!Init
  BY BookInit
<1>2. GroupInv /\ GroupInv' /\ [Next]_vars => [Book!Next]_(Book!vars)
  BY BookStep
<1> QED
  BY <1>1, <1>2, GroupInit, GroupStep, PTL DEF Spec, ImplementsMerchantBook, Book!Spec
=============================================================================
