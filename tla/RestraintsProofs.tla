---------------------------- MODULE RestraintsProofs ----------------------------
(***************************************************************************)
(* Theorems about Restraints, for every set of wallets and holds: what is  *)
(* in force is reserved, and nothing else is.                              *)
(***************************************************************************)
EXTENDS Restraints, SumProofs

(* What holds reserve.                                                      *)

LEMMA ReservedIs == \A H : Reserved(H) = SumFunctionOnSet(Pledge, H)
  BY DEF Reserved, MapThenSumSet, SumFunctionOnSet, FoldFunctionOnSet

LEMMA ReservedNat == ASSUME NEW H \in SUBSET Holds PROVE IsFiniteSet(H) /\ Reserved(H) \in Nat
<1>1. IsFiniteSet(H) /\ \A h \in H : Pledge[h] \in Int /\ Pledge[h] >= 0
  BY HoldsAssumption, FS_Subset
<1>2. SumFunctionOnSet(Pledge, H) \in Int /\ SumFunctionOnSet(Pledge, H) >= 0
  BY <1>1, SumInt, SumNotNegative
<1> QED
  BY <1>1, <1>2, ReservedIs

\* More holds reserve more.
LEMMA ReservedGrows ==
  ASSUME NEW H \in SUBSET Holds, NEW G \in SUBSET H
  PROVE  Reserved(G) <= Reserved(H)
<1>1. H = G \cup (H \ G) /\ G \cap (H \ G) = {} /\ G \in SUBSET Holds /\ H \ G \in SUBSET Holds
  OBVIOUS
<1>2. \A h \in G \cup (H \ G) : Pledge[h] \in Int
  BY HoldsAssumption
<1>3. /\ IsFiniteSet(G) /\ IsFiniteSet(H \ G)
      /\ Reserved(G) \in Nat /\ Reserved(H \ G) \in Nat
  BY <1>1, ReservedNat
<1>4. Reserved(G \cup (H \ G)) = Reserved(G) + Reserved(H \ G)
  BY <1>1, <1>2, <1>3, SumDisjoint, ReservedIs
<1>5. Reserved(H) = Reserved(G) + Reserved(H \ G)
  <2>1. PICK G2 : G2 = G \cup (H \ G)
    OBVIOUS
  <2>2. G2 = H
    BY <1>1, <2>1
  <2> QED
    BY <1>4, <2>1, <2>2
<1> QED
  BY <1>3, <1>5

LEMMA ReservedAdds ==
  ASSUME NEW H \in SUBSET Holds, NEW h \in Holds
  PROVE  /\ Reserved(H \cup {h}) <= Reserved(H) + Pledge[h] /\ Pledge[h] \in Nat
         /\ h \notin H => Reserved(H \cup {h}) = Reserved(H) + Pledge[h]
<1>1. IsFiniteSet(H) /\ Reserved(H) \in Nat /\ Pledge[h] \in Nat
  BY ReservedNat, HoldsAssumption
<1>2. \A x \in H \cup {h} : Pledge[x] \in Int
  BY HoldsAssumption
<1>3. CASE h \in H
  <2>1. H \cup {h} = H
    BY <1>3
  <2> QED
    BY <1>1, <1>3, <2>1
<1>4. CASE h \notin H
  <2>1. Reserved(H \cup {h}) = Pledge[h] + Reserved(H)
    BY <1>1, <1>2, <1>4, SumAdd, ReservedIs
  <2> QED
    BY <1>1, <1>4, <2>1
<1> QED
  BY <1>3, <1>4

LEMMA TotalsType ==
  ASSUME NEW H \in SUBSET Holds, NEW day
  PROVE  /\ Totals(H, day).restr = Reserved({h \in H : InWindow(h, day)})
         /\ Totals(H, day).restr \in Nat /\ Totals(H, day).restr <= Reserved(H)
         /\ Totals(H, day).crBlk = ({h \in H : InWindow(h, day)} \cap Credit # {})
         /\ Totals(H, day) \in [restr : Nat, crBlk : BOOLEAN]
<1> DEFINE live == {h \in H : InWindow(h, day)}
<1>1. live \in SUBSET H /\ live \in SUBSET Holds
  OBVIOUS
<1>2. Reserved(live) \in Nat /\ Reserved(live) <= Reserved(H)
  BY <1>1, ReservedNat, ReservedGrows
<1> QED
  BY <1>2 DEF Totals

-----------------------------------------------------------------------------
(* Types.                                                                   *)

LEMMA CurrentKnown ==
  ASSUME keys \subseteq Accounts, keys # {}
  PROVE  Current \in keys /\ Current \in Accounts
<1>1. keys \in SUBSET Nat
  BY AccountsAssumption
<1>2. \E a \in keys : \A b \in keys : a <= b
  BY <1>1, LeastNatural
<1> QED
  BY <1>2 DEF Current

LEMMA TypeInit == Init => TypeOK
<1> SUFFICES ASSUME Init PROVE TypeOK
  OBVIOUS
<1>1. agg \in [restr : Nat, crBlk : BOOLEAN]
  <2>1. {} \in SUBSET Holds
    OBVIOUS
  <2> QED
    BY <2>1, TotalsType DEF Init
<1>2. 1 \in 1 .. MaxDay
  BY BoundsAssumption
<1>3. start \in [Holds -> Nat] /\ bal \in [Accounts -> Nat] /\ restr \in [Accounts -> Nat]
      /\ \A a \in Accounts : restr[a] <= bal[a]
  BY BoundsAssumption DEF Init
<1> QED
  BY <1>1, <1>2, <1>3, BoundsAssumption DEF Init, TypeOK

\* A call or the job sets the totals of one wallet, within its balance.
LEMMA TotalsSet ==
  ASSUME TypeOK, NEW a \in Accounts, NEW n \in Nat, n <= bal[a], NEW b \in BOOLEAN,
         restr' = [restr EXCEPT ![a] = n], crBlk' = [crBlk EXCEPT ![a] = b], bal' = bal
  PROVE  /\ bal' \in [Accounts -> Nat] /\ restr' \in [Accounts -> Nat]
         /\ \A c \in Accounts : restr'[c] <= bal'[c]
         /\ crBlk' \in [Accounts -> BOOLEAN]
  BY DEF TypeOK

LEMMA TypeStep == TypeOK /\ [Next]_vars => TypeOK'
<1> SUFFICES ASSUME TypeOK, [Next]_vars PROVE TypeOK'
  OBVIOUS
<1> DEFINE Rest == /\ today' \in 1 .. MaxDay
                   /\ status' \in [Holds -> {"NONE", "A", "R", "E"}]
                   /\ start' \in [Holds -> Nat]
                   /\ job' \in {"idle", "due", "next", "sum", "write"}
                   /\ keys' \subseteq Accounts /\ (job' \in {"sum", "write"} => keys' # {})
                   /\ agg' \in [restr : Nat, crBlk : BOOLEAN]
                   /\ crashes' \in 0 .. MaxCrashes
           Sums == /\ bal' \in [Accounts -> Nat] /\ restr' \in [Accounts -> Nat]
                   /\ \A a \in Accounts : restr'[a] <= bal'[a]
                   /\ crBlk' \in [Accounts -> BOOLEAN]
<1>0. Rest /\ Sums => TypeOK'
  BY DEF TypeOK
<1>1. ASSUME UNCHANGED <<bal, totals>> PROVE Sums
  BY <1>1 DEF totals, TypeOK
<1>2. ASSUME NEW h \in Holds, Add(h) PROVE Rest /\ Sums
  <2>1. PICK a \in Accounts : a = AcctOf[h]
    BY HoldsAssumption
  <2>2. Pledge[h] \in Nat /\ Lead[h] \in Nat
    BY HoldsAssumption
  <2>3. PICK n \in Nat : n = restr[a] + Pledge[h] /\ n <= bal[a]
    BY <1>2, <2>1, <2>2 DEF Add, TypeOK
  <2>4. PICK b \in BOOLEAN : b = (crBlk[a] \/ h \in Credit)
    OBVIOUS
  <2>5. restr' = [restr EXCEPT ![a] = n] /\ crBlk' = [crBlk EXCEPT ![a] = b] /\ bal' = bal
    BY <1>2, <2>1, <2>3, <2>4 DEF Add
  <2>6. Sums
    BY <2>3, <2>4, <2>5, TotalsSet
  <2>7. PICK d \in Nat : d = today + Lead[h]
    BY <2>2 DEF TypeOK
  <2>8. /\ status' = [status EXCEPT ![h] = "A"] /\ start' = [start EXCEPT ![h] = d]
        /\ UNCHANGED <<today, job, keys, agg, crashes>>
    BY <1>2, <2>7 DEF Add, jobVars
  <2>9. Rest
    BY <2>8 DEF TypeOK
  <2> QED
    BY <2>6, <2>9
<1>3. ASSUME NEW h \in Holds, Release(h) PROVE Rest /\ Sums
  <2>1. PICK a \in Accounts : a = AcctOf[h]
    BY HoldsAssumption
  <2>2. On(a) \ {h} \in SUBSET Holds
    BY DEF On
  <2>3. PICK new \in [restr : Nat, crBlk : BOOLEAN] : new = Totals(On(a) \ {h}, today)
    BY <2>2, TotalsType
  <2>4. /\ restr' = [restr EXCEPT ![a] = new.restr] /\ crBlk' = [crBlk EXCEPT ![a] = new.crBlk]
        /\ bal' = bal /\ new.restr <= bal[a]
    BY <1>3, <2>1, <2>3 DEF Release
  <2>5. PICK n \in Nat, b \in BOOLEAN : n = new.restr /\ b = new.crBlk
    BY <2>3
  <2>6. Sums
    BY <2>4, <2>5, TotalsSet
  <2>7. /\ status' = [status EXCEPT ![h] = "R"]
        /\ UNCHANGED <<start, today, job, keys, agg, crashes>>
    BY <1>3 DEF Release, jobVars
  <2>8. Rest
    BY <2>7 DEF TypeOK
  <2> QED
    BY <2>6, <2>8
<1>4. ASSUME NEW a \in Accounts, Spend(a) PROVE Rest /\ Sums
  <2>1. bal' = [bal EXCEPT ![a] = restr[a]] /\ UNCHANGED <<today, status, start, restr, crBlk, job, keys, agg, crashes>>
    BY <1>4 DEF Spend, holds, totals, jobVars
  <2> QED
    BY <2>1 DEF TypeOK
<1>5. ASSUME Midnight PROVE Rest /\ Sums
  BY <1>1, <1>5, BoundsAssumption DEF Midnight, holds, TypeOK
<1>6. ASSUME JobStart \/ JobEnd \/ JobExpire PROVE Rest /\ Sums
  BY <1>1, <1>6 DEF JobStart, JobEnd, JobExpire, Expiring, holds, TypeOK
<1>7. ASSUME JobSum PROVE Rest /\ Sums
  <2>1. Current \in Accounts /\ keys # {}
    BY <1>7, CurrentKnown DEF JobSum, TypeOK
  <2>2. On(Current) \ Expirable(Current, biz) \in SUBSET Holds
    BY DEF On
  <2>3. agg' \in [restr : Nat, crBlk : BOOLEAN]
    BY <1>7, <2>2, TotalsType DEF JobSum
  <2> QED
    BY <1>1, <1>7, <2>1, <2>3 DEF JobSum, holds, TypeOK
<1>8. ASSUME JobWrite PROVE Rest /\ Sums
  <2>1. PICK a \in Accounts : a = Current /\ a \in keys
    BY <1>8, CurrentKnown DEF JobWrite, TypeOK
  <2>2. CASE agg.restr <= bal[a]
    <3>1. PICK n \in Nat, b \in BOOLEAN : n = agg.restr /\ b = agg.crBlk
      BY DEF TypeOK
    <3>2. /\ restr' = [restr EXCEPT ![a] = n] /\ crBlk' = [crBlk EXCEPT ![a] = b] /\ bal' = bal
      BY <1>8, <2>1, <2>2, <3>1 DEF JobWrite
    <3>3. Sums
      BY <2>2, <3>1, <3>2, TotalsSet
    <3>4. /\ status' = [h \in Holds |-> IF h \in LockedRows THEN "E" ELSE status[h]]
          /\ keys' = keys \ {Current} /\ job' = "next" /\ UNCHANGED <<today, start, agg, crashes>>
      BY <1>8, <2>1, <2>2 DEF JobWrite
    <3>5. Rest
      BY <3>4 DEF TypeOK
    <3> QED
      BY <3>3, <3>5
  <2>3. CASE ~(agg.restr <= bal[a])
    <3>1. keys' = {} /\ job' = "idle" /\ UNCHANGED <<status, totals, today, start, bal, agg, crashes>>
      BY <1>8, <2>1, <2>3 DEF JobWrite
    <3> QED
      BY <1>1, <3>1 DEF TypeOK
  <2> QED
    BY <2>2, <2>3
<1>9. ASSUME JobCutOff PROVE Rest /\ Sums
  BY <1>1, <1>9, BoundsAssumption DEF JobCutOff, holds, TypeOK
<1>10. ASSUME UNCHANGED vars PROVE Rest /\ Sums
  BY <1>1, <1>10 DEF vars, holds, jobVars, TypeOK
<1> QED
  BY <1>0, <1>2, <1>3, <1>4, <1>5, <1>6, <1>7, <1>8, <1>9, <1>10 DEF Next, Job

\* No wallet is reserved beyond its balance, whatever the calls, the job, its
\* failures and the days do.
THEOREM RestraintsTyped == Spec => []TypeOK
  BY TypeInit, TypeStep, PTL DEF Spec

-----------------------------------------------------------------------------
(* What is in force is reserved, and nothing else, if nobody adds or        *)
(* releases while the nightly job is due or running.                        *)

\* The job writes the totals of the holds as they are.
Fresh ==
  job = "write" => agg = Totals(On(Current) \ Expirable(Current, biz), biz)

\* Holds have begun, and when the job runs they had begun the day before.
Begun ==
  \A h \in Holds : status[h] = "A" => start[h] <= today /\ (job # "idle" => start[h] <= biz)

Live(a) == {h \in On(a) : InWindow(h, today)}

Counts(a) == restr[a] >= Reserved(Live(a)) /\ (Live(a) \cap Credit # {} => crBlk[a])
Backs(a) == restr[a] <= Reserved(On(a)) /\ (crBlk[a] => On(a) \cap Credit # {})

LEMMA CountsAll == InForceCounts <=> \A a \in Accounts : Counts(a)
<1>1. ASSUME NEW a \in Accounts
      PROVE  /\ Totals(On(a), today).restr = Reserved(Live(a))
             /\ Totals(On(a), today).crBlk = (Live(a) \cap Credit # {})
  BY DEF Totals, Live
<1> QED
  BY <1>1 DEF InForceCounts, Counts

LEMMA OnHolds == \A a : On(a) \in SUBSET Holds /\ Live(a) \in SUBSET Holds /\ Live(a) \in SUBSET On(a)
  BY DEF On, Live

LEMMA FreshStep ==
  ASSUME Quiet, TypeOK, Fresh, [Next]_vars
  PROVE  Fresh'
<1>1. CASE JobSum
  <2>1. /\ job' = "write" /\ agg' = Totals(On(Current) \ Expirable(Current, biz), biz)
        /\ UNCHANGED <<today, status, start, keys>>
    BY <1>1 DEF JobSum, holds
  <2>2. Current' = Current
    BY <2>1 DEF Current
  <2>3. \A a : On(a)' = On(a) /\ Expirable(a, biz)' = Expirable(a, biz)
    BY <2>1 DEF On, Expirable, End, biz
  <2>4. \A H, d : Totals(H, d)' = Totals(H', d')
    BY <2>1 DEF Totals, InWindow, End
  <2>5. Totals(On(Current) \ Expirable(Current, biz), biz)' = Totals(On(Current) \ Expirable(Current, biz), biz)
    BY <2>1, <2>2 DEF Totals, InWindow, End, On, Expirable, biz
  <2> QED
    BY <2>1, <2>5 DEF Fresh
<1>2. CASE job' # "write"
  BY <1>2 DEF Fresh
<1>3. CASE (\E a \in Accounts : Spend(a)) \/ UNCHANGED vars
  <2>1. UNCHANGED <<today, status, start, job, keys, agg>>
    BY <1>3 DEF Spend, holds, jobVars, vars
  <2>2. Current' = Current
    BY <2>1 DEF Current
  <2>3. Totals(On(Current) \ Expirable(Current, biz), biz)' = Totals(On(Current) \ Expirable(Current, biz), biz)
    BY <2>1, <2>2 DEF Totals, InWindow, End, On, Expirable, biz
  <2> QED
    BY <2>1, <2>3 DEF Fresh
<1> QED
  BY <1>1, <1>2, <1>3
     DEF Next, Job, Add, Release, ApiOpen, Midnight, JobStart, JobExpire, JobWrite, JobEnd, JobCutOff, jobVars

\* What a step does to the holds and totals of a wallet.
LEMMA AddChanges ==
  ASSUME TypeOK, NEW h \in Holds, Add(h), NEW a \in Accounts
  PROVE  IF a = AcctOf[h]
         THEN /\ On(a)' = On(a) \cup {h} /\ h \notin On(a) /\ Live(a)' \subseteq Live(a) \cup {h}
              /\ restr'[a] = restr[a] + Pledge[h] /\ crBlk'[a] = (crBlk[a] \/ h \in Credit)
         ELSE On(a)' = On(a) /\ Live(a)' = Live(a) /\ restr'[a] = restr[a] /\ crBlk'[a] = crBlk[a]
<1>1. /\ status[h] = "NONE" /\ status' = [status EXCEPT ![h] = "A"]
      /\ \A g \in Holds \ {h} : start'[g] = start[g]
      /\ today' = today
  BY DEF Add, TypeOK
<1>2. On(a)' = IF a = AcctOf[h] THEN On(a) \cup {h} ELSE On(a)
  BY <1>1 DEF On, TypeOK
<1>3. h \notin On(a)
  BY <1>1 DEF On
<1>4. \A g \in Holds \ {h} : InWindow(g, today)' = InWindow(g, today)
  BY <1>1 DEF InWindow, End
<1>5. /\ restr'[a] = IF a = AcctOf[h] THEN restr[a] + Pledge[h] ELSE restr[a]
      /\ crBlk'[a] = IF a = AcctOf[h] THEN crBlk[a] \/ h \in Credit ELSE crBlk[a]
  BY DEF Add, TypeOK
<1> QED
  BY <1>2, <1>3, <1>4, <1>5, OnHolds DEF Live

LEMMA ReleaseChanges ==
  ASSUME TypeOK, NEW h \in Holds, Release(h), NEW a \in Accounts
  PROVE  IF a = AcctOf[h]
         THEN /\ On(a)' = On(a) \ {h} /\ restr'[a] = Reserved(Live(a)')
              /\ crBlk'[a] = (Live(a)' \cap Credit # {})
         ELSE On(a)' = On(a) /\ Live(a)' = Live(a) /\ restr'[a] = restr[a] /\ crBlk'[a] = crBlk[a]
<1>1. status[h] = "A" /\ status' = [status EXCEPT ![h] = "R"] /\ UNCHANGED <<start, today>>
  BY DEF Release
<1>2. On(a)' = IF a = AcctOf[h] THEN On(a) \ {h} ELSE On(a)
  BY <1>1 DEF On, TypeOK
<1>3. \A g \in Holds : InWindow(g, today)' = InWindow(g, today)
  BY <1>1 DEF InWindow, End
<1>4. CASE a # AcctOf[h]
  BY <1>2, <1>3, <1>4, OnHolds DEF Live, Release, TypeOK
<1>5. CASE a = AcctOf[h]
  <2>1. PICK live \in SUBSET Holds : live = {g \in On(a) \ {h} : InWindow(g, today)}
    BY OnHolds
  <2>2. Totals(On(a) \ {h}, today) = [restr |-> Reserved(live), crBlk |-> live \cap Credit # {}]
    BY <2>1 DEF Totals
  <2>3. restr'[a] = Reserved(live) /\ crBlk'[a] = (live \cap Credit # {})
    BY <1>5, <2>2 DEF Release, TypeOK
  <2>4. Live(a)' = live
    BY <1>2, <1>3, <1>5, <2>1, OnHolds DEF Live
  <2> QED
    BY <1>2, <1>5, <2>3, <2>4
<1> QED
  BY <1>4, <1>5

\* The job ends the holds of one wallet whose day is over, and sets its totals.
LEMMA WriteChanges ==
  ASSUME TypeOK, Fresh, JobWrite, agg.restr <= bal[Current], NEW a \in Accounts
  PROVE  IF a = Current
         THEN LET live == {h \in On(a) \ Expirable(a, biz) : InWindow(h, biz)} IN
              /\ On(a)' = On(a) \ Expirable(a, biz)
              /\ restr'[a] = Reserved(live) /\ crBlk'[a] = (live \cap Credit # {})
         ELSE On(a)' = On(a) /\ Live(a)' = Live(a) /\ restr'[a] = restr[a] /\ crBlk'[a] = crBlk[a]
<1>1. /\ status' = [h \in Holds |-> IF h \in LockedRows THEN "E" ELSE status[h]]
      /\ LockedRows = Expirable(Current, biz) /\ UNCHANGED <<today, start>>
      /\ restr' = [restr EXCEPT ![Current] = agg.restr] /\ crBlk' = [crBlk EXCEPT ![Current] = agg.crBlk]
  BY DEF JobWrite, LockedRows, biz
<1>2. Current \in Accounts
  BY CurrentKnown DEF JobWrite, TypeOK
<1>3. Expirable(Current, biz) \subseteq On(Current) /\ \A h \in On(Current) : AcctOf[h] = Current
  BY DEF Expirable, On
<1>4. PICK gone \in SUBSET Holds : gone = Expirable(Current, biz)
  BY <1>3, OnHolds
<1>5. On(a)' = On(a) \ gone
  BY <1>1, <1>4 DEF On
<1>6. CASE a # Current
  <2>1. gone \cap On(a) = {}
    BY <1>3, <1>4, <1>6 DEF On
  <2>2. \A g \in Holds : InWindow(g, today)' = InWindow(g, today)
    BY <1>1 DEF InWindow, End
  <2>3. On(a)' = On(a)
    BY <1>5, <2>1
  <2>4. Live(a)' = Live(a)
    BY <2>2, <2>3, OnHolds DEF Live
  <2>5. restr'[a] = restr[a] /\ crBlk'[a] = crBlk[a]
    BY <1>1, <1>6 DEF TypeOK
  <2> QED
    BY <1>6, <2>3, <2>4, <2>5
<1>7. CASE a = Current
  <2>1. PICK live \in SUBSET Holds : live = {h \in On(a) \ Expirable(a, biz) : InWindow(h, biz)}
    BY OnHolds
  <2>2. agg = [restr |-> Reserved(live), crBlk |-> live \cap Credit # {}]
    BY <1>7, <2>1 DEF Fresh, JobWrite, Totals
  <2>3. restr'[a] = Reserved(live) /\ crBlk'[a] = (live \cap Credit # {})
    BY <1>1, <1>2, <1>7, <2>2 DEF TypeOK
  <2> QED
    BY <1>4, <1>5, <1>7, <2>1, <2>3
<1> QED
  BY <1>6, <1>7

LEMMA Settled ==
  ASSUME TypeOK, [Next]_vars, ~\E h \in Holds : Add(h) \/ Release(h),
         ~(JobWrite /\ agg.restr <= bal[Current])
  PROVE  UNCHANGED <<status, start, restr, crBlk>>
  BY DEF Next, Job, Spend, Midnight, JobStart, JobExpire, JobSum, JobWrite, JobEnd, JobCutOff, holds, totals, vars

\* Nothing stays reserved or blocked without a hold.
LEMMA BacksStep ==
  ASSUME Quiet, TypeOK, Fresh, \A a \in Accounts : Backs(a), [Next]_vars, NEW a \in Accounts
  PROVE  Backs(a)'
<1>1. ASSUME On(a)' = On(a), restr'[a] = restr[a], crBlk'[a] = crBlk[a] PROVE Backs(a)'
  BY <1>1 DEF Backs
<1>2. ASSUME NEW live \in SUBSET (On(a)'), restr'[a] = Reserved(live), crBlk'[a] = (live \cap Credit # {})
      PROVE  Backs(a)'
  <2>1. PICK on \in SUBSET Holds : on = On(a)'
    BY DEF On
  <2>2. Reserved(live) <= Reserved(on)
    BY <1>2, <2>1, ReservedGrows
  <2> QED
    BY <1>2, <2>1, <2>2 DEF Backs
<1>3. ASSUME NEW h \in Holds, Add(h) PROVE Backs(a)'
  <2>1. CASE a # AcctOf[h]
    BY <1>1, <1>3, <2>1, AddChanges
  <2>2. CASE a = AcctOf[h]
    <3>1. /\ On(a)' = On(a) \cup {h} /\ h \notin On(a) /\ On(a) \in SUBSET Holds
          /\ restr'[a] = restr[a] + Pledge[h] /\ crBlk'[a] = (crBlk[a] \/ h \in Credit)
      BY <1>3, <2>2, AddChanges, OnHolds
    <3>2. PICK on \in SUBSET Holds : on = On(a) /\ Reserved(on) \in Nat
      BY <3>1, ReservedNat
    <3>3. Reserved(on \cup {h}) = Reserved(on) + Pledge[h] /\ Pledge[h] \in Nat
      BY <3>1, <3>2, ReservedAdds
    <3>4. restr[a] <= Reserved(on) /\ restr[a] \in Nat
      BY <3>2 DEF Backs, TypeOK
    <3>5. restr'[a] <= Reserved(on \cup {h})
      BY <3>1, <3>2, <3>3, <3>4
    <3>6. On(a)' = on \cup {h}
      BY <3>1, <3>2
    <3>7. crBlk'[a] => (on \cup {h}) \cap Credit # {}
      BY <3>1, <3>2 DEF Backs
    <3> QED
      BY <3>5, <3>6, <3>7 DEF Backs
  <2> QED
    BY <2>1, <2>2
<1>4. ASSUME NEW h \in Holds, Release(h) PROVE Backs(a)'
  <2>1. CASE a # AcctOf[h]
    BY <1>1, <1>4, <2>1, ReleaseChanges
  <2>2. CASE a = AcctOf[h]
    <3>1. Live(a)' \in SUBSET (On(a)')
      BY DEF Live
    <3> QED
      BY <1>2, <1>4, <2>2, <3>1, ReleaseChanges
  <2> QED
    BY <2>1, <2>2
<1>5. ASSUME JobWrite, agg.restr <= bal[Current] PROVE Backs(a)'
  <2>1. CASE a # Current
    BY <1>1, <1>5, <2>1, WriteChanges
  <2>2. CASE a = Current
    <3>1. PICK live : live = {h \in On(a) \ Expirable(a, biz) : InWindow(h, biz)}
      OBVIOUS
    <3>2. /\ On(a)' = On(a) \ Expirable(a, biz)
          /\ restr'[a] = Reserved(live) /\ crBlk'[a] = (live \cap Credit # {})
      BY <1>5, <2>2, <3>1, WriteChanges
    <3> QED
      BY <1>2, <3>1, <3>2
  <2> QED
    BY <2>1, <2>2
<1>6. ASSUME UNCHANGED <<status, start, restr, crBlk>> PROVE Backs(a)'
  BY <1>1, <1>6 DEF On
<1> QED
  BY <1>3, <1>4, <1>5, <1>6, Settled

LEMMA BegunStep ==
  ASSUME Quiet, \A h \in Holds : Lead[h] = 0, TypeOK, Begun, [Next]_vars
  PROVE  Begun'
<1>1. today \in Nat
  BY DEF TypeOK
<1>2. ASSUME NEW h \in Holds, Add(h) PROVE Begun'
  <2>1. /\ job = "idle" /\ job' = job /\ today' = today
        /\ status' = [status EXCEPT ![h] = "A"] /\ start' = [start EXCEPT ![h] = today]
    <3>1. PICK d : d = today + Lead[h]
      OBVIOUS
    <3>2. d = today
      BY <1>1, <3>1
    <3> QED
      BY <1>2, <3>1, <3>2 DEF Add, ApiOpen, jobVars
  <2> QED
    BY <1>1, <2>1 DEF Begun, TypeOK
<1>3. ASSUME UNCHANGED <<start, today>>, \A h \in Holds : status'[h] = "A" => status[h] = "A",
             job = "idle" => job' = "idle"
      PROVE  Begun'
  BY <1>3 DEF Begun, biz
<1>4. ASSUME NEW h \in Holds, Release(h) PROVE Begun'
  <2>1. UNCHANGED <<start, today, job>> /\ status' = [status EXCEPT ![h] = "R"]
    BY <1>4 DEF Release, jobVars
  <2> QED
    BY <1>3, <2>1 DEF TypeOK
<1>5. CASE Midnight
  <2>1. UNCHANGED <<status, start>> /\ today' = today + 1
    BY <1>5 DEF Midnight, holds
  <2>2. \A h \in Holds : start[h] \in Nat /\ (status[h] = "A" => start[h] <= today)
    BY DEF TypeOK, Begun
  <2> QED
    BY <1>1, <2>1, <2>2 DEF Begun, biz
<1>6. CASE JobWrite
  <2>1. UNCHANGED <<start, today>> /\ job = "write" /\ \A h \in Holds : status'[h] = "A" => status[h] = "A"
    BY <1>6 DEF JobWrite, TypeOK
  <2> QED
    BY <1>3, <2>1
<1>7. CASE (\E a \in Accounts : Spend(a)) \/ JobStart \/ JobExpire \/ JobSum \/ JobEnd \/ JobCutOff \/ UNCHANGED vars
  <2>1. UNCHANGED <<status, start, today>> /\ (job = "idle" => job' = "idle")
    BY <1>7 DEF Spend, JobStart, JobExpire, JobSum, JobEnd, JobCutOff, holds, jobVars, vars
  <2> QED
    BY <1>3, <2>1
<1> QED
  BY <1>2, <1>4, <1>5, <1>6, <1>7 DEF Next, Job

\* What is in force is counted.
LEMMA CountsStep ==
  ASSUME Quiet, \A h \in Holds : Lead[h] = 0, TypeOK, TypeOK', Fresh, Begun,
         \A a \in Accounts : Counts(a), [Next]_vars, NEW a \in Accounts
  PROVE  Counts(a)'
<1>1. ASSUME Live(a)' \subseteq Live(a), restr'[a] = restr[a], crBlk'[a] = crBlk[a] PROVE Counts(a)'
  <2>0. PICK live \in SUBSET Holds : live = Live(a)
    BY OnHolds
  <2>1a. PICK left \in SUBSET live : left = Live(a)'
    BY <1>1, <2>0
  <2>1. live = Live(a) /\ left = Live(a)' /\ Reserved(left) \in Nat /\ Reserved(live) \in Nat
    BY <2>0, <2>1a, ReservedNat
  <2>2. Reserved(left) <= Reserved(live)
    BY ReservedGrows
  <2>3. Reserved(live) <= restr[a] /\ restr[a] \in Nat
    BY <2>1 DEF Counts, TypeOK
  <2>4. Reserved(left) <= restr'[a]
    BY <1>1, <2>1, <2>2, <2>3
  <2>5. left \cap Credit # {} => crBlk'[a]
    BY <1>1, <2>1 DEF Counts
  <2> QED
    BY <2>1, <2>4, <2>5, <1>1, <2>3 DEF Counts
<1>2. ASSUME NEW live \in SUBSET Holds, Live(a)' \subseteq live,
             restr'[a] = Reserved(live), crBlk'[a] = (live \cap Credit # {})
      PROVE  Counts(a)'
  <2>1. PICK left \in SUBSET live : left = Live(a)'
    BY <1>2
  <2>2. Reserved(left) <= Reserved(live) /\ Reserved(left) \in Nat /\ Reserved(live) \in Nat
    BY <2>1, ReservedGrows, ReservedNat
  <2> QED
    BY <1>2, <2>1, <2>2 DEF Counts
<1>3. ASSUME NEW h \in Holds, Add(h) PROVE Counts(a)'
  <2>1. CASE a # AcctOf[h]
    BY <1>1, <1>3, <2>1, AddChanges
  <2>2. CASE a = AcctOf[h]
    <3>1. /\ Live(a)' \subseteq Live(a) \cup {h}
          /\ restr'[a] = restr[a] + Pledge[h] /\ crBlk'[a] = (crBlk[a] \/ h \in Credit)
      BY <1>3, <2>2, AddChanges
    <3>2. PICK live \in SUBSET Holds : live = Live(a) /\ Reserved(live) \in Nat
      BY OnHolds, ReservedNat
    <3>3. PICK left \in SUBSET (live \cup {h}) : left = Live(a)'
      BY <3>1, <3>2
    <3>4. /\ Reserved(live \cup {h}) <= Reserved(live) + Pledge[h] /\ Pledge[h] \in Nat
          /\ Reserved(left) <= Reserved(live \cup {h})
          /\ Reserved(left) \in Nat /\ Reserved(live \cup {h}) \in Nat
      <4>1. live \cup {h} \in SUBSET Holds /\ left \in SUBSET Holds
        OBVIOUS
      <4> QED
        BY <4>1, ReservedAdds, ReservedGrows, ReservedNat
    <3>5. Reserved(live) <= restr[a] /\ restr[a] \in Nat
      BY <3>2 DEF Counts, TypeOK
    <3>6. Reserved(left) <= restr'[a] /\ restr'[a] \in Nat
      BY <3>1, <3>2, <3>4, <3>5
    <3>7. left \cap Credit # {} => crBlk'[a]
      BY <3>1, <3>2, <3>3 DEF Counts
    <3> QED
      BY <3>3, <3>4, <3>6, <3>7 DEF Counts
  <2> QED
    BY <2>1, <2>2
<1>4. ASSUME NEW h \in Holds, Release(h) PROVE Counts(a)'
  <2>1. CASE a # AcctOf[h]
    BY <1>1, <1>4, <2>1, ReleaseChanges
  <2>2. CASE a = AcctOf[h]
    <3>1. PICK live \in SUBSET Holds : live = Live(a)'
      BY DEF Live, On
    <3> QED
      BY <1>2, <1>4, <2>2, <3>1, ReleaseChanges
  <2> QED
    BY <2>1, <2>2
<1>5. ASSUME JobWrite, agg.restr <= bal[Current] PROVE Counts(a)'
  <2>1. CASE a # Current
    BY <1>1, <1>5, <2>1, WriteChanges
  <2>2. CASE a = Current
    <3>1. PICK live \in SUBSET Holds : live = {h \in On(a) \ Expirable(a, biz) : InWindow(h, biz)}
      BY OnHolds
    <3>2. /\ On(a)' = On(a) \ Expirable(a, biz)
          /\ restr'[a] = Reserved(live) /\ crBlk'[a] = (live \cap Credit # {})
      BY <1>5, <2>2, <3>1, WriteChanges
    <3>3. ASSUME NEW h \in Live(a)' PROVE h \in live
      <4>1. h \in On(a) \ Expirable(a, biz) /\ InWindow(h, today)' /\ h \in Holds /\ status[h] = "A"
        BY <3>2, <3>3, OnHolds DEF Live, On
      <4>2. UNCHANGED <<today, start>> /\ job # "idle"
        BY <1>5 DEF JobWrite
      <4>3. start[h] <= biz /\ today <= End(h)
        BY <4>1, <4>2 DEF Begun, InWindow, End
      <4>4. today \in Int /\ start[h] \in Int /\ End(h) \in Int
        BY <4>1, HoldsAssumption DEF TypeOK, End
      <4>5. InWindow(h, biz)
        BY <4>3, <4>4 DEF InWindow, biz
      <4> QED
        BY <3>1, <4>1, <4>5
    <3> QED
      BY <1>2, <3>2, <3>3
  <2> QED
    BY <2>1, <2>2
<1>6. CASE UNCHANGED <<status, start, restr, crBlk>> /\ ~Midnight
  <2>1. today' = today
    BY <1>6 DEF Next, Job, Add, Release, Spend, JobStart, JobExpire, JobSum, JobWrite, JobEnd, JobCutOff, vars
  <2>2. Live(a)' = Live(a)
    BY <1>6, <2>1 DEF Live, On, InWindow, End
  <2> QED
    BY <1>1, <1>6, <2>2
<1>7. CASE Midnight
  <2>1. UNCHANGED <<status, start, restr, crBlk>> /\ today' = today + 1
    BY <1>7 DEF Midnight, holds, totals
  <2>2. ASSUME NEW h \in Live(a)' PROVE h \in Live(a)
    <3>1. h \in On(a) /\ h \in Holds /\ status[h] = "A" /\ InWindow(h, today)'
      BY <2>1, <2>2 DEF Live, On
    <3>2. today + 1 <= End(h) /\ start[h] <= today
      BY <2>1, <3>1 DEF InWindow, End, Begun
    <3>3. today \in Int /\ start[h] \in Int /\ End(h) \in Int
      BY <3>1, HoldsAssumption DEF TypeOK, End
    <3> QED
      BY <3>1, <3>2, <3>3 DEF Live, InWindow
  <2> QED
    BY <1>1, <2>1, <2>2
<1> QED
  BY <1>3, <1>4, <1>5, <1>6, <1>7, Settled

LEMMA QuietInit == Init => Fresh /\ Begun /\ \A a \in Accounts : Backs(a) /\ Counts(a)
<1> SUFFICES ASSUME Init PROVE Fresh /\ Begun /\ \A a \in Accounts : Backs(a) /\ Counts(a)
  OBVIOUS
<1>1. \A a \in Accounts : On(a) = {} /\ Live(a) = {}
  BY DEF Init, On, Live
<1>2. Reserved({}) = 0
  BY ReservedIs, SumEmpty
<1>3. \A a \in Accounts : restr[a] = 0 /\ crBlk[a] = FALSE
  BY DEF Init
<1>4. \A a \in Accounts : Backs(a) /\ Counts(a)
  BY <1>1, <1>2, <1>3 DEF Backs, Counts
<1> QED
  BY <1>4 DEF Init, Fresh, Begun

\* Nothing stays reserved or blocked on a wallet without a hold that is still
\* active, for any holds, if the API rests while the nightly job is due or runs.
THEOREM NothingReservedAlone == ASSUME Quiet PROVE Spec => []NothingWithoutHold
<1> DEFINE Inv == TypeOK /\ Fresh /\ \A a \in Accounts : Backs(a)
<1>1. Init => Inv
  BY TypeInit, QuietInit
<1>2. Inv /\ [Next]_vars => Inv'
  BY TypeStep, FreshStep, BacksStep
<1>3. Inv => NothingWithoutHold
  BY DEF NothingWithoutHold, Backs
<1> HIDE DEF Inv
<1> QED
  BY <1>1, <1>2, <1>3, PTL DEF Spec

\* What a hold in force reserves or blocks is reserved and blocked on its
\* wallet, for any holds, if the API rests while the nightly job is due or runs
\* and every hold starts on the day it is placed.  (The run restraints_expiry
\* shows what happens when the API does not rest.)
THEOREM InForceIsReserved ==
  ASSUME Quiet, \A h \in Holds : Lead[h] = 0
  PROVE  Spec => []InForceCounts
<1> DEFINE Inv == TypeOK /\ Fresh /\ Begun /\ \A a \in Accounts : Counts(a)
<1>1. Init => Inv
  BY TypeInit, QuietInit
<1>2. Inv /\ [Next]_vars => Inv'
  <2> SUFFICES ASSUME Inv, [Next]_vars PROVE Inv'
    OBVIOUS
  <2>1. TypeOK' /\ Fresh' /\ Begun'
    BY TypeStep, FreshStep, BegunStep
  <2>2. \A a \in Accounts : Counts(a)'
    BY <2>1, CountsStep
  <2> QED
    BY <2>1, <2>2
<1>3. Inv => InForceCounts
  BY CountsAll
<1> HIDE DEF Inv
<1> QED
  BY <1>1, <1>2, <1>3, PTL DEF Spec
=============================================================================
