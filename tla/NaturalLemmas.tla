---------------------------- MODULE NaturalLemmas ----------------------------
(***************************************************************************)
(* Lemmas about sets of naturals and about iteration, for the proofs that  *)
(* reason by a least or a greatest element: the last change of an entity,  *)
(* the newest record, what a recursive function reaches.  They stand in    *)
(* for induction: a property of all naturals has no least counterexample.  *)
(***************************************************************************)
EXTENDS Integers, FiniteSetTheorems, WellFoundedInduction, TLAPS

\* The naturals up to one of them.
LEMMA IntervalsAreFinite ==
  ASSUME NEW n \in Nat
  PROVE  /\ IsFiniteSet(0 .. n) /\ 0 .. n \in SUBSET Nat
         /\ Cardinality(0 .. n) = n + 1
<1>1. 0 \in Int /\ n \in Int /\ ~ (0 > n) /\ n - 0 + 1 = n + 1
  OBVIOUS
<1>2. IsFiniteSet(0 .. n) /\ Cardinality(0 .. n) = IF 0 > n THEN 0 ELSE n - 0 + 1
  BY <1>1, FS_Interval, ZenonT(60)
<1>3. 0 .. n \in SUBSET Nat
  OBVIOUS
<1> QED BY <1>1, <1>2, <1>3

\* The intervals below the members of the set are finite sets, ordered by inclusion.
LEMMA LeastOf ==
  ASSUME NEW S \in SUBSET Nat, S # {}
  PROVE  \E m \in S : \A n \in S : m <= n
<1> DEFINE Below == {0 .. n - 1 : n \in S}
           R == StrictSubsetOrdering(Nat)
<1>1. IsWellFoundedOn(R, FiniteSubsetsOf(Nat))
  BY FS_StrictSubsetOrderingWellFounded
<1>2. Below \subseteq FiniteSubsetsOf(Nat) /\ Below # {}
  <2>1. \A n \in S : IsFiniteSet(0 .. n - 1) /\ 0 .. n - 1 \in SUBSET Nat
    BY FS_Interval
  <2> QED BY <2>1 DEF FiniteSubsetsOf
<1>3. PICK B \in Below : \A C \in Below : ~ (<<C, B>> \in R)
  <2> HIDE DEF Below, R
  <2> QED BY <1>1, <1>2, WFMin
<1>4. PICK n \in S : B = 0 .. n - 1
  BY <1>3
<1>5. ASSUME NEW k \in S, k < n PROVE FALSE
  <2>1. k \in B /\ k \notin 0 .. k - 1 /\ 0 .. k - 1 \subseteq B
    BY <1>4, <1>5
  <2>2. 0 .. k - 1 \in SUBSET Nat /\ B \in SUBSET Nat
    BY <1>4
  <2>3. <<0 .. k - 1, B>> \in R
    BY <2>1, <2>2 DEF StrictSubsetOrdering
  <2> QED BY <1>3, <2>3
<1> QED BY <1>5

LEMMA GreatestOf ==
  ASSUME NEW b \in Nat, NEW S \in SUBSET (0 .. b), S # {}
  PROVE  \E m \in S : \A n \in S : n <= m
<1> DEFINE T == {b - n : n \in S}
<1>1. T \in SUBSET Nat /\ T # {}
  <2>1. \A n \in S : b - n \in Nat
    OBVIOUS
  <2> QED BY <2>1
<1>2. PICK k \in T : \A n \in T : k <= n
  <2> HIDE DEF T
  <2> QED BY <1>1, LeastOf
<1>3. PICK m \in S : k = b - m
  BY <1>2
<1>4. \A n \in S : b - m <= b - n
  BY <1>2, <1>3
<1> QED BY <1>4

\* A set of naturals that has zero and with each its successor has them all.
LEMMA AllNaturals ==
  ASSUME NEW S, 0 \in S, \A n \in Nat : n \in S => n + 1 \in S
  PROVE  Nat \subseteq S
<1> SUFFICES ASSUME Nat \ S # {} PROVE FALSE
  OBVIOUS
<1>1. PICK m \in Nat \ S : \A n \in Nat \ S : m <= n
  BY LeastOf
<1>2. m # 0 /\ m - 1 \in Nat /\ m - 1 \in S /\ (m - 1) + 1 = m
  BY <1>1
<1> QED BY <1>1, <1>2

-----------------------------------------------------------------------------
\* The results of a step that is applied again and again.
Iterations(T, x, step) ==
  {f \in [Nat -> T] : f[0] = x /\ \A i \in Nat : f[i + 1] = step[i][f[i]]}

LEMMA Iterates ==
  ASSUME NEW T, NEW x \in T, NEW step \in [Nat -> [T -> T]]
  PROVE  Iterations(T, x, step) # {}
<1> DEFINE Upto(n) == {g \in [0 .. n -> T] : g[0] = x /\ \A i \in 0 .. n - 1 : g[i + 1] = step[i][g[i]]}
<1>1. \A n \in Nat : Upto(n) # {}
  <2> DEFINE S == {n \in Nat : Upto(n) # {}}
  <2>1. 0 \in S
    <3>1. [i \in 0 .. 0 |-> x] \in Upto(0)
      OBVIOUS
    <3> QED BY <3>1
  <2>2. ASSUME NEW n \in Nat, n \in S PROVE n + 1 \in S
    <3>1. PICK g \in Upto(n) : TRUE
      BY <2>2
    <3> DEFINE h == [i \in 0 .. n + 1 |-> IF i = n + 1 THEN step[n][g[n]] ELSE g[i]]
    <3>2. n \in 0 .. n /\ g \in [0 .. n -> T] /\ step[n] \in [T -> T] /\ g[n] \in T
      BY <3>1
    <3>3. h \in [0 .. n + 1 -> T] /\ h[0] = x
      BY <3>1, <3>2
    <3>4. ASSUME NEW i \in 0 .. n PROVE h[i + 1] = step[i][h[i]]
      <4>1. CASE i = n
        BY <3>2, <4>1
      <4>2. CASE i # n
        <5>1. i \in 0 .. n - 1 /\ i + 1 \in 0 .. n /\ i + 1 # n + 1
          BY <4>2
        <5>2. h[i + 1] = g[i + 1] /\ h[i] = g[i]
          BY <5>1
        <5> QED BY <3>1, <5>1, <5>2
      <4> QED BY <4>1, <4>2
    <3>5. h \in Upto(n + 1)
      BY <3>3, <3>4
    <3> HIDE DEF h, Upto
    <3> QED BY <3>5
  <2> HIDE DEF S
  <2>3. Nat \subseteq S
    BY <2>1, <2>2, AllNaturals
  <2> QED BY <2>3 DEF S
<1>2. ASSUME NEW m \in Nat, NEW n \in Nat, NEW g \in Upto(m), NEW h \in Upto(n), m <= n
      PROVE  \A i \in 0 .. m : g[i] = h[i]
  <2> DEFINE S == {i \in Nat : i <= m => g[i] = h[i]}
  <2>1. 0 \in S
    OBVIOUS
  <2>2. ASSUME NEW i \in Nat, i \in S PROVE i + 1 \in S
    <3> SUFFICES ASSUME i + 1 <= m PROVE g[i + 1] = h[i + 1]
      OBVIOUS
    <3>1. i \in 0 .. m - 1 /\ i \in 0 .. n - 1 /\ g[i] = h[i]
      BY <1>2, <2>2
    <3> QED BY <3>1
  <2> HIDE DEF S
  <2>3. Nat \subseteq S
    BY <2>1, <2>2, AllNaturals
  <2> QED BY <2>3 DEF S
<1> DEFINE G(n) == CHOOSE g : g \in Upto(n)
           f == [n \in Nat |-> G(n)[n]]
<1>3. \A n \in Nat : G(n) \in Upto(n)
  <2> HIDE DEF Upto
  <2> QED BY <1>1
<1>4. f \in [Nat -> T] /\ f[0] = x
  <2> HIDE DEF G
  <2>1. \A n \in Nat : n \in 0 .. n /\ G(n) \in [0 .. n -> T]
    BY <1>3
  <2>2. G(0)[0] = x
    <3>1. G(0) \in Upto(0)
      <4> HIDE DEF Upto
      <4> QED BY <1>3
    <3> QED BY <3>1
  <2> QED BY <2>1, <2>2
<1>5. ASSUME NEW i \in Nat PROVE f[i + 1] = step[i][f[i]]
  <2>1. G(i) \in Upto(i) /\ G(i + 1) \in Upto(i + 1) /\ i <= i + 1 /\ i + 1 \in Nat
    <3> HIDE DEF G, Upto
    <3> QED BY <1>3
  <2>2. G(i)[i] = G(i + 1)[i]
    <3>1. \A k \in 0 .. i : G(i)[k] = G(i + 1)[k]
      <4> HIDE DEF G, Upto
      <4> QED BY <1>2, <2>1
    <3> HIDE DEF G
    <3> QED BY <3>1
  <2>3. G(i + 1)[i + 1] = step[i][G(i + 1)[i]]
    <3> HIDE DEF G
    <3>1. i \in 0 .. (i + 1) - 1
      OBVIOUS
    <3> QED BY <2>1, <3>1
  <2> HIDE DEF G
  <2> QED BY <2>2, <2>3
<1> HIDE DEF f
<1> QED BY <1>4, <1>5 DEF Iterations

-----------------------------------------------------------------------------
\* A function that is defined at each member of D by its values at members of a lower rank is there.
Ranked(D, T, b, rank, step) ==
  /\ T # {} /\ b \in Nat /\ rank \in [D -> 0 .. b] /\ step \in [D -> [[D -> T] -> T]]
  /\ \A x \in D : \A f, g \in [D -> T] :
       (\A y \in D : rank[y] < rank[x] => f[y] = g[y]) => step[x][f] = step[x][g]

LEMMA RankedRecursion ==
  ASSUME NEW D, NEW T, NEW b, NEW rank, NEW step, Ranked(D, T, b, rank, step)
  PROVE  \E f \in [D -> T] : \A x \in D : f[x] = step[x][f]
<1> USE DEF Ranked
<1> DEFINE Good(n, f) == \A x \in D : rank[x] < n => f[x] = step[x][f]
           S == {n \in Nat : \E f \in [D -> T] : Good(n, f)}
<1>1. 0 \in S
  <2>1. PICK t \in T : TRUE
    OBVIOUS
  <2>2. [x \in D |-> t] \in [D -> T] /\ Good(0, [x \in D |-> t])
    OBVIOUS
  <2> QED BY <2>2
<1>2. ASSUME NEW n \in Nat, n \in S PROVE n + 1 \in S
  <2>1. PICK f \in [D -> T] : Good(n, f)
    BY <1>2
  <2> DEFINE g == [x \in D |-> IF rank[x] < n THEN f[x] ELSE step[x][f]]
  <2>2. g \in [D -> T]
    OBVIOUS
  <2>3. ASSUME NEW x \in D, rank[x] < n + 1 PROVE g[x] = step[x][g]
    <3>1. g[x] = step[x][f]
      BY <2>1
    <3>2. \A y \in D : rank[y] < rank[x] => f[y] = g[y]
      BY <2>3
    <3>3. step[x][f] = step[x][g]
      <4> HIDE DEF g
      <4> QED BY <2>2, <3>2
    <3> QED BY <3>1, <3>3
  <2> HIDE DEF g
  <2>4. Good(n + 1, g)
    BY <2>3
  <2> QED BY <2>2, <2>4
<1> HIDE DEF S
<1>3. b + 1 \in S
  <2>1. Nat \subseteq S
    BY <1>1, <1>2, AllNaturals
  <2> QED BY <2>1
<1>4. PICK f \in [D -> T] : Good(b + 1, f)
  BY <1>3 DEF S
<1> QED BY <1>4
=============================================================================
