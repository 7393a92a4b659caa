------------------------------ MODULE SumProofs ------------------------------
(***************************************************************************)
(* Sums over finite sets: what SumFunctionOnSet and SumFunction of the     *)
(* community modules compute, for every finite set and every function to   *)
(* the integers.  A sum is a recursive function, so its facts are proved   *)
(* by induction over the subsets of a finite set, in the form of a least   *)
(* counterexample.                                                         *)
(***************************************************************************)
EXTENDS Functions, FiniteSetTheorems, TLAPS

LEMMA LeastNatural ==
  ASSUME NEW S \in SUBSET Nat, S # {}
  PROVE  \E m \in S : \A n \in S : m <= n
<1>1. PICK m \in S : \A n \in S : <<n, m>> \notin OpToRel(<, Nat)
  BY NatLessThanWellFounded, WFMin, Zenon
<1>2. \A n \in S : ~(n < m)
  BY <1>1 DEF OpToRel
<1> QED
  BY <1>2

\* Induction over the subsets of a finite set: a family that has every subset
\* all of whose proper subsets it has is the family of all subsets.
LEMMA SubsetInduction ==
  ASSUME NEW S, IsFiniteSet(S), NEW G \in SUBSET (SUBSET S),
         \A s \in SUBSET S : (\A t \in SUBSET s : t # s => t \in G) => s \in G
  PROVE  G = SUBSET S
<1> DEFINE bad == (SUBSET S) \ G
           sizes == {Cardinality(s) : s \in bad}
<1> SUFFICES ASSUME bad # {} PROVE FALSE
  OBVIOUS
<1>1. sizes \in SUBSET Nat /\ sizes # {}
  BY FS_Subset, FS_CardinalityType
<1>2. PICK m \in sizes : \A n \in sizes : m <= n
  BY <1>1, LeastNatural
<1>3. PICK s \in bad : Cardinality(s) = m
  OBVIOUS
<1>4. ASSUME NEW t \in SUBSET s, t # s PROVE t \in G
  <2>1. IsFiniteSet(s) /\ IsFiniteSet(t) /\ t \in SUBSET S
    BY FS_Subset
  <2>2a. Cardinality(t) \in Nat /\ Cardinality(s) \in Nat
    BY <2>1, FS_CardinalityType
  <2>2b. Cardinality(t) <= Cardinality(s) /\ Cardinality(s) # Cardinality(t)
    BY <1>4, <2>1, FS_Subset
  <2>2. t \notin bad
    BY <1>2, <1>3, <2>2a, <2>2b
  <2> QED
    BY <2>1, <2>2
<1> QED
  BY <1>4

-----------------------------------------------------------------------------
(* The recursion of the sum has one solution.                               *)

Pick(s) == CHOOSE x \in s : TRUE

IsSum(it, f, S) ==
  it = [s \in SUBSET S |-> IF s = {} THEN 0 ELSE f[Pick(s)] + it[s \ {Pick(s)}]]

LEMMA Picked == ASSUME NEW s, s # {} PROVE Pick(s) \in s
  BY DEF Pick

LEMMA SumIs ==
  ASSUME NEW f, NEW S
  PROVE  SumFunctionOnSet(f, S) = (CHOOSE it : IsSum(it, f, S))[S]
  BY DEF SumFunctionOnSet, FoldFunctionOnSet, MapThenFoldSet, Pick, IsSum

LEMMA SumStep ==
  ASSUME NEW it, NEW f, NEW S, IsSum(it, f, S), NEW s \in SUBSET S
  PROVE  it[s] = IF s = {} THEN 0 ELSE f[Pick(s)] + it[s \ {Pick(s)}]
<1> HIDE DEF Pick
<1> QED
  BY DEF IsSum

\* Two solutions agree wherever both are defined, for functions that agree there.
LEMMA SumAgrees ==
  ASSUME NEW f, NEW g, NEW S, NEW T, NEW U, U \subseteq S, U \subseteq T, IsFiniteSet(U),
         NEW p, NEW q, IsSum(p, f, S), IsSum(q, g, T),
         \A x \in U : f[x] = g[x]
  PROVE  \A s \in SUBSET U : p[s] = q[s]
<1> DEFINE G == {s \in SUBSET U : p[s] = q[s]}
<1>1. ASSUME NEW s \in SUBSET U, \A t \in SUBSET s : t # s => t \in G PROVE s \in G
  <2>1. CASE s = {}
    BY <2>1, SumStep
  <2>2. CASE s # {}
    <3>1. Pick(s) \in s
      BY <2>2, Picked
    <3>2. s \ {Pick(s)} \in G
      BY <1>1, <3>1
    <3>3. p[s] = f[Pick(s)] + p[s \ {Pick(s)}]
      BY <2>2, SumStep
    <3>4. q[s] = g[Pick(s)] + q[s \ {Pick(s)}]
      BY <2>2, SumStep
    <3> QED
      BY <3>1, <3>2, <3>3, <3>4
  <2> QED
    BY <2>1, <2>2
<1>2. G = SUBSET U
  <2> HIDE DEF G
  <2>1. G \in SUBSET (SUBSET U)
    BY DEF G
  <2> QED
    BY <1>1, <2>1, SubsetInduction
<1> QED
  BY <1>2

LEMMA SumSmaller ==
  ASSUME NEW f, NEW S, NEW U \in SUBSET S, IsFiniteSet(U),
         NEW p, NEW q, IsSum(p, f, S), IsSum(q, f, U)
  PROVE  p[U] = q[U]
<1>1. U \subseteq S /\ U \subseteq U /\ U \in SUBSET U /\ \A x \in U : f[x] = f[x]
  OBVIOUS
<1>2. \A s \in SUBSET U : p[s] = q[s]
  BY <1>1, SumAgrees
<1> QED
  BY <1>1, <1>2

LEMMA SumExists ==
  ASSUME NEW f, NEW S, IsFiniteSet(S)
  PROVE  \E it : IsSum(it, f, S)
<1> DEFINE the(s) == CHOOSE it : IsSum(it, f, s)
           G == {s \in SUBSET S : \E it : IsSum(it, f, s)}
<1>1. ASSUME NEW s \in SUBSET S, \A t \in SUBSET s : t # s => t \in G PROVE s \in G
  <2> DEFINE val(t) == IF t = {} THEN 0 ELSE f[Pick(t)] + the(t \ {Pick(t)})[t \ {Pick(t)}]
             h == [t \in SUBSET s |-> val(t)]
  <2>1. ASSUME NEW t \in SUBSET s, t # s PROVE h[t] = the(t)[t]
    <3>1. IsSum(the(t), f, t)
      BY <1>1, <2>1
    <3>2. the(t)[t] = IF t = {} THEN 0 ELSE f[Pick(t)] + the(t)[t \ {Pick(t)}]
      BY <3>1, SumStep
    <3>3. ASSUME t # {} PROVE the(t)[t \ {Pick(t)}] = the(t \ {Pick(t)})[t \ {Pick(t)}]
      <4> DEFINE u == t \ {Pick(t)}
      <4>1. u \in SUBSET s /\ u # s /\ u \subseteq t
        <5>1. Pick(t) \in t
          BY <3>3, Picked
        <5> HIDE DEF Pick
        <5> QED
          BY <2>1, <5>1
      <4>2. IsSum(the(u), f, u)
        BY <1>1, <4>1
      <4>3. IsFiniteSet(u)
        BY <4>1, FS_Subset
      <4> HIDE DEF u, the
      <4>4. the(t)[u] = the(u)[u]
        BY <3>1, <4>1, <4>2, <4>3, SumSmaller
      <4> QED
        BY <4>4 DEF u
    <3> HIDE DEF the
    <3> QED
      BY <3>2, <3>3
  <2>2. ASSUME NEW t \in SUBSET s PROVE h[t] = IF t = {} THEN 0 ELSE f[Pick(t)] + h[t \ {Pick(t)}]
    <3>1. t # {} => t \ {Pick(t)} \in SUBSET s /\ t \ {Pick(t)} # s
      BY Picked
    <3> HIDE DEF the
    <3> QED
      BY <2>1, <3>1
  <2>3. IsSum(h, f, s)
    <3> HIDE DEF the, val
    <3>1. h = [t \in SUBSET s |-> h[t]]
      OBVIOUS
    <3> HIDE DEF h
    <3> QED
      BY <2>2, <3>1 DEF IsSum
  <2> QED
    BY <2>3
<1>2. G = SUBSET S
  <2> HIDE DEF G
  <2>1. G \in SUBSET (SUBSET S)
    BY DEF G
  <2> QED
    BY <1>1, <2>1, SubsetInduction
<1> QED
  BY <1>2

-----------------------------------------------------------------------------
(* What a sum is.                                                           *)

LEMMA SumBy ==
  ASSUME NEW f, NEW S, IsFiniteSet(S), NEW it, IsSum(it, f, S)
  PROVE  SumFunctionOnSet(f, S) = it[S]
<1> DEFINE the == CHOOSE i : IsSum(i, f, S)
<1>1. IsSum(the, f, S)
  OBVIOUS
<1>2. SumFunctionOnSet(f, S) = the[S]
  BY SumIs
<1>3. S \in SUBSET S
  OBVIOUS
<1> HIDE DEF the
<1>4. the[S] = it[S]
  BY <1>1, <1>3, SumSmaller
<1> QED
  BY <1>2, <1>4

LEMMA SumEmpty == ASSUME NEW f PROVE SumFunctionOnSet(f, {}) = 0
<1>1. IsFiniteSet({})
  BY FS_EmptySet
<1>2. PICK it : IsSum(it, f, {})
  BY <1>1, SumExists
<1>3. it[{}] = 0
  BY <1>2, SumStep
<1> QED
  BY <1>1, <1>2, <1>3, SumBy

\* A sum takes its elements in the order CHOOSE gives them ...
LEMMA SumPick ==
  ASSUME NEW f, NEW S, IsFiniteSet(S), S # {}
  PROVE  SumFunctionOnSet(f, S) = f[Pick(S)] + SumFunctionOnSet(f, S \ {Pick(S)})
<1> DEFINE T == S \ {Pick(S)}
<1>1. IsFiniteSet(T) /\ T \in SUBSET S /\ S \in SUBSET S
  BY FS_Subset
<1>2. PICK it : IsSum(it, f, S)
  BY SumExists
<1>3. PICK rest : IsSum(rest, f, T)
  BY <1>1, SumExists
<1>4. SumFunctionOnSet(f, S) = it[S] /\ SumFunctionOnSet(f, T) = rest[T]
  BY <1>1, <1>2, <1>3, SumBy
<1>5. it[S] = f[Pick(S)] + it[T]
  BY <1>1, <1>2, SumStep
<1> HIDE DEF T
<1>6. it[T] = rest[T]
  BY <1>1, <1>2, <1>3, SumSmaller
<1> QED
  BY <1>4, <1>5, <1>6 DEF T

LEMMA SumInt ==
  ASSUME NEW f, NEW S, IsFiniteSet(S), \A x \in S : f[x] \in Int
  PROVE  SumFunctionOnSet(f, S) \in Int
<1> DEFINE G == {s \in SUBSET S : SumFunctionOnSet(f, s) \in Int}
<1>1. ASSUME NEW s \in SUBSET S, \A t \in SUBSET s : t # s => t \in G PROVE s \in G
  <2>1. CASE s = {}
    BY <2>1, SumEmpty
  <2>2. CASE s # {}
    <3>1. Pick(s) \in s /\ IsFiniteSet(s)
      BY <2>2, Picked, FS_Subset
    <3>2. s \ {Pick(s)} \in G
      BY <1>1, <3>1
    <3>3. SumFunctionOnSet(f, s) = f[Pick(s)] + SumFunctionOnSet(f, s \ {Pick(s)})
      BY <2>2, <3>1, SumPick
    <3> QED
      BY <3>1, <3>2, <3>3
  <2> QED
    BY <2>1, <2>2
<1> HIDE DEF G
<1>2. G = SUBSET S
  <2>1. G \in SUBSET (SUBSET S)
    BY DEF G
  <2> QED
    BY <1>1, <2>1, SubsetInduction
<1>3. S \in G
  BY <1>2
<1> QED
  BY <1>3 DEF G

\* ... and any other order gives the same.
LEMMA SumTakeOut ==
  ASSUME NEW f, NEW S, IsFiniteSet(S), \A x \in S : f[x] \in Int, NEW x \in S
  PROVE  SumFunctionOnSet(f, S) = f[x] + SumFunctionOnSet(f, S \ {x})
<1> DEFINE G == {s \in SUBSET S : \A y \in s :
                   SumFunctionOnSet(f, s) = f[y] + SumFunctionOnSet(f, s \ {y})}
<1>1. ASSUME NEW s \in SUBSET S, \A t \in SUBSET s : t # s => t \in G PROVE s \in G
  <2> SUFFICES ASSUME NEW y \in s
               PROVE  SumFunctionOnSet(f, s) = f[y] + SumFunctionOnSet(f, s \ {y})
    OBVIOUS
  <2>1. PICK p : p = Pick(s)
    OBVIOUS
  <2>2. p \in s /\ IsFiniteSet(s)
    BY <2>1, Picked, FS_Subset
  <2>3. SumFunctionOnSet(f, s) = f[p] + SumFunctionOnSet(f, s \ {p})
    BY <2>1, <2>2, SumPick
  <2>4. CASE p = y
    BY <2>3, <2>4
  <2>5. CASE p # y
    <3> DEFINE rest == (s \ {p}) \ {y}
    <3>1. rest = (s \ {y}) \ {p}
      OBVIOUS
    <3>2. s \ {p} \in G /\ s \ {y} \in G /\ y \in s \ {p} /\ p \in s \ {y}
      BY <1>1, <2>2, <2>5
    <3>3. SumFunctionOnSet(f, s \ {p}) = f[y] + SumFunctionOnSet(f, rest)
      BY <3>2
    <3>4. SumFunctionOnSet(f, s \ {y}) = f[p] + SumFunctionOnSet(f, rest)
      BY <3>1, <3>2
    <3>5. IsFiniteSet(rest) /\ rest \subseteq S
      BY FS_Subset
    <3>6. SumFunctionOnSet(f, rest) \in Int
      BY <3>5, SumInt
    <3> QED
      BY <2>2, <2>3, <3>3, <3>4, <3>6
  <2> QED
    BY <2>4, <2>5
<1> HIDE DEF G
<1>2. G = SUBSET S
  <2>1. G \in SUBSET (SUBSET S)
    BY DEF G
  <2> QED
    BY <1>1, <2>1, SubsetInduction
<1>3. S \in G
  BY <1>2
<1> QED
  BY <1>3 DEF G

-----------------------------------------------------------------------------
(* What a change of the summands does to a sum.                             *)

LEMMA SumSame ==
  ASSUME NEW f, NEW g, NEW S, IsFiniteSet(S), \A x \in S : f[x] = g[x]
  PROVE  SumFunctionOnSet(f, S) = SumFunctionOnSet(g, S)
<1> DEFINE G == {s \in SUBSET S : SumFunctionOnSet(f, s) = SumFunctionOnSet(g, s)}
<1>1. ASSUME NEW s \in SUBSET S, \A t \in SUBSET s : t # s => t \in G PROVE s \in G
  <2>1. CASE s = {}
    BY <2>1, SumEmpty
  <2>2. CASE s # {}
    <3>1. Pick(s) \in s /\ IsFiniteSet(s)
      BY <2>2, Picked, FS_Subset
    <3>2. s \ {Pick(s)} \in G
      BY <1>1, <3>1
    <3>3. SumFunctionOnSet(f, s) = f[Pick(s)] + SumFunctionOnSet(f, s \ {Pick(s)})
      BY <2>2, <3>1, SumPick
    <3>4. SumFunctionOnSet(g, s) = g[Pick(s)] + SumFunctionOnSet(g, s \ {Pick(s)})
      BY <2>2, <3>1, SumPick
    <3> QED
      BY <3>1, <3>2, <3>3, <3>4
  <2> QED
    BY <2>1, <2>2
<1> HIDE DEF G
<1>2. G = SUBSET S
  <2>1. G \in SUBSET (SUBSET S)
    BY DEF G
  <2> QED
    BY <1>1, <2>1, SubsetInduction
<1>3. S \in G
  BY <1>2
<1> QED
  BY <1>3 DEF G

LEMMA SumAdd ==
  ASSUME NEW f, NEW S, IsFiniteSet(S), NEW x, x \notin S, \A y \in S \cup {x} : f[y] \in Int
  PROVE  SumFunctionOnSet(f, S \cup {x}) = f[x] + SumFunctionOnSet(f, S)
<1>1. IsFiniteSet(S \cup {x}) /\ x \in S \cup {x} /\ (S \cup {x}) \ {x} = S
  BY FS_AddElement
<1>2. SumFunctionOnSet(f, S \cup {x}) = f[x] + SumFunctionOnSet(f, (S \cup {x}) \ {x})
  BY <1>1, SumTakeOut
<1> QED
  BY <1>1, <1>2

LEMMA SumPlus ==
  ASSUME NEW f, NEW g, NEW h, NEW S, IsFiniteSet(S),
         \A x \in S : f[x] \in Int /\ g[x] \in Int /\ h[x] = f[x] + g[x]
  PROVE  SumFunctionOnSet(h, S) = SumFunctionOnSet(f, S) + SumFunctionOnSet(g, S)
<1> DEFINE G == {s \in SUBSET S :
                   SumFunctionOnSet(h, s) = SumFunctionOnSet(f, s) + SumFunctionOnSet(g, s)}
<1>1. ASSUME NEW s \in SUBSET S, \A t \in SUBSET s : t # s => t \in G PROVE s \in G
  <2>1. CASE s = {}
    BY <2>1, SumEmpty
  <2>2. CASE s # {}
    <3>1. PICK p \in s : p = Pick(s)
      BY <2>2, Picked
    <3> DEFINE t == s \ {p}
    <3>2. t \in G /\ IsFiniteSet(s) /\ IsFiniteSet(t) /\ t \subseteq S
      BY <1>1, <3>1, FS_Subset
    <3>3. /\ SumFunctionOnSet(f, s) = f[p] + SumFunctionOnSet(f, t)
          /\ SumFunctionOnSet(g, s) = g[p] + SumFunctionOnSet(g, t)
          /\ SumFunctionOnSet(h, s) = h[p] + SumFunctionOnSet(h, t)
      BY <2>2, <3>1, <3>2, SumPick
    <3>4. SumFunctionOnSet(f, t) \in Int /\ SumFunctionOnSet(g, t) \in Int
      BY <3>2, SumInt
    <3>5. SumFunctionOnSet(h, t) = SumFunctionOnSet(f, t) + SumFunctionOnSet(g, t)
      BY <3>2
    <3>6. f[p] \in Int /\ g[p] \in Int /\ h[p] = f[p] + g[p]
      BY <3>1
    <3> HIDE DEF t
    <3> QED
      BY <3>3, <3>4, <3>5, <3>6
  <2> QED
    BY <2>1, <2>2
<1> HIDE DEF G
<1>2. G = SUBSET S
  <2>1. G \in SUBSET (SUBSET S)
    BY DEF G
  <2> QED
    BY <1>1, <2>1, SubsetInduction
<1>3. S \in G
  BY <1>2
<1> QED
  BY <1>3 DEF G

LEMMA SumZero ==
  ASSUME NEW f, NEW S, IsFiniteSet(S), \A x \in S : f[x] = 0
  PROVE  SumFunctionOnSet(f, S) = 0
<1>1. SumFunctionOnSet(f, S) = SumFunctionOnSet(f, S) + SumFunctionOnSet(f, S)
  BY SumPlus
<1>2. PICK n \in Int : n = SumFunctionOnSet(f, S)
  BY SumInt
<1>3. n = n + n
  BY <1>1, <1>2
<1>4. n = 0
  BY <1>3
<1> QED
  BY <1>2, <1>4

\* One summand changes.
LEMMA SumChange ==
  ASSUME NEW f, NEW g, NEW S, IsFiniteSet(S), NEW x \in S,
         \A y \in S : f[y] \in Int /\ g[y] \in Int,
         \A y \in S \ {x} : g[y] = f[y]
  PROVE  SumFunctionOnSet(g, S) = SumFunctionOnSet(f, S) - f[x] + g[x]
<1> DEFINE T == S \ {x}
<1>1. IsFiniteSet(T)
  BY FS_Subset
<1>2. SumFunctionOnSet(f, S) = f[x] + SumFunctionOnSet(f, T)
  BY SumTakeOut
<1>3. SumFunctionOnSet(g, S) = g[x] + SumFunctionOnSet(g, T)
  BY SumTakeOut
<1>4. SumFunctionOnSet(f, T) = SumFunctionOnSet(g, T)
  BY <1>1, SumSame
<1>5. SumFunctionOnSet(f, T) \in Int
  BY <1>1, SumInt
<1> HIDE DEF T
<1> QED
  BY <1>2, <1>3, <1>4, <1>5

\* Only one summand counts.
LEMMA SumAt ==
  ASSUME NEW f, NEW S, IsFiniteSet(S), NEW x \in S, f[x] \in Int, \A y \in S \ {x} : f[y] = 0
  PROVE  SumFunctionOnSet(f, S) = f[x]
<1>1. IsFiniteSet(S \ {x}) /\ \A y \in S : f[y] \in Int
  BY FS_Subset
<1>2. SumFunctionOnSet(f, S) = f[x] + SumFunctionOnSet(f, S \ {x})
  BY <1>1, SumTakeOut
<1>3. SumFunctionOnSet(f, S \ {x}) = 0
  BY <1>1, SumZero
<1> QED
  BY <1>2, <1>3

LEMMA SumMonotone ==
  ASSUME NEW f, NEW g, NEW S, IsFiniteSet(S),
         \A x \in S : f[x] \in Int /\ g[x] \in Int /\ f[x] <= g[x]
  PROVE  SumFunctionOnSet(f, S) <= SumFunctionOnSet(g, S)
<1> DEFINE G == {s \in SUBSET S : SumFunctionOnSet(f, s) <= SumFunctionOnSet(g, s)}
<1>1. ASSUME NEW s \in SUBSET S, \A t \in SUBSET s : t # s => t \in G PROVE s \in G
  <2>1. CASE s = {}
    BY <2>1, SumEmpty
  <2>2. CASE s # {}
    <3>1. PICK p \in s : p = Pick(s)
      BY <2>2, Picked
    <3> DEFINE t == s \ {p}
    <3>2. t \in G /\ IsFiniteSet(s) /\ IsFiniteSet(t) /\ t \subseteq S
      BY <1>1, <3>1, FS_Subset
    <3>3. /\ SumFunctionOnSet(f, s) = f[p] + SumFunctionOnSet(f, t)
          /\ SumFunctionOnSet(g, s) = g[p] + SumFunctionOnSet(g, t)
      BY <2>2, <3>1, <3>2, SumPick
    <3>4. SumFunctionOnSet(f, t) \in Int /\ SumFunctionOnSet(g, t) \in Int
      BY <3>2, SumInt
    <3>5. SumFunctionOnSet(f, t) <= SumFunctionOnSet(g, t)
      BY <3>2
    <3>6. f[p] \in Int /\ g[p] \in Int /\ f[p] <= g[p]
      BY <3>1
    <3> HIDE DEF t
    <3> QED
      BY <3>3, <3>4, <3>5, <3>6
  <2> QED
    BY <2>1, <2>2
<1> HIDE DEF G
<1>2. G = SUBSET S
  <2>1. G \in SUBSET (SUBSET S)
    BY DEF G
  <2> QED
    BY <1>1, <2>1, SubsetInduction
<1>3. S \in G
  BY <1>2
<1> QED
  BY <1>3 DEF G

LEMMA SumNotNegative ==
  ASSUME NEW f, NEW S, IsFiniteSet(S), \A x \in S : f[x] \in Int /\ f[x] >= 0
  PROVE  SumFunctionOnSet(f, S) >= 0
<1> DEFINE zero == [x \in S |-> 0]
<1>1. SumFunctionOnSet(zero, S) = 0
  BY SumZero
<1>2. SumFunctionOnSet(zero, S) <= SumFunctionOnSet(f, S)
  BY SumMonotone
<1> QED
  BY <1>1, <1>2

\* A sum over two sets without an element in common.
LEMMA SumDisjoint ==
  ASSUME NEW f, NEW S, NEW T, IsFiniteSet(S), IsFiniteSet(T), S \cap T = {},
         \A x \in S \cup T : f[x] \in Int
  PROVE  SumFunctionOnSet(f, S \cup T) = SumFunctionOnSet(f, S) + SumFunctionOnSet(f, T)
<1> DEFINE G == {t \in SUBSET T :
                   SumFunctionOnSet(f, S \cup t) = SumFunctionOnSet(f, S) + SumFunctionOnSet(f, t)}
<1>0. SumFunctionOnSet(f, S) \in Int
  BY SumInt
<1>1. ASSUME NEW s \in SUBSET T, \A t \in SUBSET s : t # s => t \in G PROVE s \in G
  <2>1. CASE s = {}
    <3>1. S \cup s = S
      BY <2>1
    <3> QED
      BY <1>0, <2>1, <3>1, SumEmpty
  <2>2. CASE s # {}
    <3>1. PICK p \in s : p = Pick(s)
      BY <2>2, Picked
    <3> DEFINE t == s \ {p}
    <3>2. t \in G /\ IsFiniteSet(t) /\ IsFiniteSet(S \cup t) /\ p \notin t /\ p \notin S \cup t
      BY <1>1, <3>1, FS_Subset, FS_Union
    <3>3. t \cup {p} = s /\ (S \cup t) \cup {p} = S \cup s
      BY <3>1
    <3>4. \A x \in (S \cup t) \cup {p} : f[x] \in Int
      BY <3>1
    <3>5. SumFunctionOnSet(f, t \cup {p}) = f[p] + SumFunctionOnSet(f, t)
      BY <3>2, <3>4, SumAdd
    <3>6. SumFunctionOnSet(f, (S \cup t) \cup {p}) = f[p] + SumFunctionOnSet(f, S \cup t)
      BY <3>2, <3>4, SumAdd
    <3>7. SumFunctionOnSet(f, t) \in Int /\ f[p] \in Int
      BY <3>2, <3>4, SumInt
    <3>8. SumFunctionOnSet(f, S \cup t) = SumFunctionOnSet(f, S) + SumFunctionOnSet(f, t)
      BY <3>2
    <3>9. SumFunctionOnSet(f, s) = f[p] + SumFunctionOnSet(f, t)
      BY <3>3, <3>5
    <3>10. SumFunctionOnSet(f, S \cup s) = f[p] + SumFunctionOnSet(f, S \cup t)
      BY <3>3, <3>6
    <3> HIDE DEF t
    <3>11. SumFunctionOnSet(f, S \cup s) = SumFunctionOnSet(f, S) + SumFunctionOnSet(f, s)
      BY <1>0, <3>7, <3>8, <3>9, <3>10
    <3> QED
      BY <3>11
  <2> QED
    BY <2>1, <2>2
<1> HIDE DEF G
<1>2. G = SUBSET T
  <2>1. G \in SUBSET (SUBSET T)
    BY DEF G
  <2> QED
    BY <1>1, <2>1, SubsetInduction
<1>3. T \in G
  BY <1>2
<1> QED
  BY <1>3 DEF G

\* A sum over a whole function.
LEMMA SumWhole ==
  ASSUME NEW f PROVE SumFunction(f) = SumFunctionOnSet(f, DOMAIN f)
  BY DEF SumFunction

==============================================================================
