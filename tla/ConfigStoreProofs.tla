-------------------------- MODULE ConfigStoreProofs --------------------------
(***************************************************************************)
(* Proofs about the configuration store.  A client computes its release    *)
(* from what it has loaded with five matches, other clients committing in  *)
(* between; still every stored snapshot is whole, and pins for each object *)
(* the revision of exactly what the release makes it depend on.            *)
(*                                                                         *)
(* The argument: nothing that is stored is ever removed, so what a view    *)
(* names stays stored; and a revision is reused only for an equal closure, *)
(* so it does not matter how old the view is that it was found in.         *)
(*                                                                         *)
(* And about the constraints of a configuration: enforcement looks at a    *)
(* few facts and at the boundaries of their intervals, and misses nothing. *)
(*                                                                         *)
(* And about its types: a verdict of compatibility is right about every    *)
(* value, so a recheck that relies on it is exact.                         *)
(***************************************************************************)
EXTENDS ConfigStore, Constraints, Types, NaturalLemmas

ViewFields == {"objects", "validUnder", "schemas", "revisions", "snapshots", "refs", "dependents"}

StoredRevisions == {f.id : f \in revisions}
StoredSnapshots == {f.id : f \in snapshots}

ConfigTypes ==
  /\ commits \in Nat
  /\ pc \in [Client -> PC]
  /\ request = [c \in Client |-> request[c]]
  /\ view = [c \in Client |-> view[c]]
  /\ current = [c \in Client |-> current[c]]
  /\ \A c \in Client : view[c] = [x \in ViewFields |-> view[c][x]]
  /\ firsts \in [RefName -> Nat]

\* Sequence numbers are bounded, so there is a newest record of any set of them.
SeqsBounded == \E b \in Nat : \A r \in revisions \cup snapshots : r.seq \in 0 .. b

\* What a client has loaded is stored.
ViewInv(c) ==
  /\ \A r \in view[c].revisions : \E f \in revisions : f.id = r.id /\ f.seq = r.seq
  /\ \A r \in view[c].snapshots : \E f \in snapshots : f.id = r.id /\ f.seq = r.seq

\* What a client is about to write has been checked.
WriteInv(c) ==
  /\ pc[c] # "idle" /\ request[c].op = "commit" => request[c].release \in Releases
  /\ pc[c] \in {"current", "transact"} =>
       \/ /\ request[c].op = "commit"
          /\ ~ Duplicate(request[c].release) /\ ~ Dangling(request[c].release)
       \/ /\ request[c].op = "setRef"
          /\ request[c].snapshot \in {r.id : r \in view[c].snapshots}
  /\ pc[c] = "transact" /\ request[c].ref # NoRef =>
       current[c] = None \/ current[c].ref = request[c].ref

\* A snapshot pins a revision for each of its objects and for nothing else.
PinsAreOfObjects ==
  \A s \in StoredSnapshots :
    /\ \A b \in s.root.children : b.slot \in Slot
    /\ \A p \in s.revisions : \E b \in s.root.children : SlotOf(p) = b.slot

\* The targets of the refs are of different transactions.
TargetsOrdered ==
  /\ \A f \in targets : DOMAIN f = {"ref", "snapshot", "at"} /\ f.at \in 1 .. commits
  /\ \A f, g \in targets : f.at = g.at => f = g
  /\ IsFiniteSet(targets)

\* The inductive invariant.
ConfigInv ==
  /\ ConfigTypes /\ SeqsBounded
  /\ \A c \in Client : ViewInv(c) /\ WriteInv(c)
  /\ PinsAreOfObjects /\ SnapshotsAreWhole
  /\ TargetsOrdered /\ EachMoveReplacesOne

-----------------------------------------------------------------------------
(* What an object of a release depends on. *)

WellFormed(R) == \A n \in R : n.slot \in Slot /\ n.refs \subseteq Slot
ClosedIn(R, C) == \A n \in R : n.slot \in C => n.refs \subseteq C

LEMMA ReleasesWellFormed == ASSUME NEW R \in Releases PROVE WellFormed(R)
  BY ConfigAssumption DEF WellFormed

\* Deps takes as many steps as there are slots: it has then reached the least set
\* that has the slot and is closed under references.
LEMMA DepsAreReached ==
  ASSUME NEW R, WellFormed(R), NEW s \in Slot
  PROVE  \E D \in SUBSET Slot :
           /\ s \in D /\ ClosedIn(R, D) /\ Deps(R, s) = D \ {s}
           /\ \A C : s \in C /\ ClosedIn(R, C) => D \subseteq C
<1> DEFINE Grow(S) == S \cup UNION {n.refs : n \in {m \in R : m.slot \in S}}
           IsReach(f) == f = [i \in Nat |-> IF i = 0 THEN {s} ELSE Grow(f[i - 1])]
           r == CHOOSE f : IsReach(f)
           N == Cardinality(Slot)
<1>1. Deps(R, s) = r[N] \ {s}
  BY DEF Deps
<1>2. N \in Nat /\ IsFiniteSet(Slot)
  BY ConfigAssumption, FS_CardinalityType
<1>3. \E f : IsReach(f)
  <2> DEFINE T == SUBSET Slot
             step == [i \in Nat |-> [S \in T |-> Grow(S)]]
  <2>1. \A S \in T : Grow(S) \in T
    BY DEF WellFormed
  <2>2. {s} \in T /\ step \in [Nat -> [T -> T]]
    <3> HIDE DEF Grow
    <3> QED BY <2>1
  <2>3. PICK f \in [Nat -> T] : f[0] = {s} /\ \A i \in Nat : f[i + 1] = step[i][f[i]]
    <3> HIDE DEF step, T
    <3>1. Iterations(T, {s}, step) # {}
      BY <2>2, Iterates
    <3> QED BY <3>1 DEF Iterations
  <2>4. ASSUME NEW i \in Nat PROVE f[i] = IF i = 0 THEN {s} ELSE Grow(f[i - 1])
    <3>1. CASE i = 0
      BY <2>3, <3>1
    <3>2. CASE i # 0
      <4>1. i - 1 \in Nat /\ (i - 1) + 1 = i
        BY <3>2
      <4>2. f[i] = step[i - 1][f[i - 1]] /\ f[i - 1] \in T
        BY <2>3, <4>1
      <4> HIDE DEF Grow
      <4> QED BY <3>2, <4>1, <4>2
    <3> QED BY <3>1, <3>2
  <2> HIDE DEF Grow
  <2> QED BY <2>3, <2>4
<1>4. IsReach(r)
  <2> HIDE DEF IsReach
  <2> QED BY <1>3
<1> HIDE DEF r
<1>5. r[0] = {s} /\ \A i \in Nat : r[i + 1] = Grow(r[i])
  <2> HIDE DEF Grow
  <2>1. \A i \in Nat : i + 1 # 0 /\ i + 1 \in Nat /\ (i + 1) - 1 = i
    OBVIOUS
  <2>2. \A i \in Nat : r[i] = IF i = 0 THEN {s} ELSE Grow(r[i - 1])
    BY <1>4
  <2> QED BY <2>1, <2>2
<1>6. ASSUME NEW C, s \in C, ClosedIn(R, C) PROVE \A i \in Nat : s \in r[i] /\ r[i] \subseteq C
  <2> DEFINE S == {i \in Nat : s \in r[i] /\ r[i] \subseteq C}
  <2>1. 0 \in S
    BY <1>5, <1>6
  <2>2. ASSUME NEW i \in Nat, i \in S PROVE i + 1 \in S
    BY <1>5, <1>6, <2>2 DEF ClosedIn
  <2> HIDE DEF S
  <2>3. Nat \subseteq S
    BY <2>1, <2>2, AllNaturals
  <2> QED BY <2>3 DEF S
<1>7. \A i \in Nat : s \in r[i] /\ r[i] \subseteq Slot
  BY <1>6 DEF WellFormed, ClosedIn
<1>8. \A i \in Nat : r[i + 1] = r[i] \/ Cardinality(r[i]) >= i + 1
  <2> DEFINE S == {i \in Nat : r[i + 1] = r[i] \/ Cardinality(r[i]) >= i + 1}
  <2>1. 0 \in S
    <3>1. Cardinality(r[0]) = 1
      BY <1>5, FS_Singleton
    <3> QED BY <3>1
  <2>2. ASSUME NEW i \in Nat, i \in S PROVE i + 1 \in S
    <3>1. CASE r[i + 1] = r[i]
      <4> HIDE DEF Grow
      <4>0. i \in Nat /\ i + 1 \in Nat
        OBVIOUS
      <4>1. r[(i + 1) + 1] = Grow(r[i + 1]) /\ r[i + 1] = Grow(r[i])
        BY <1>5, <4>0
      <4> QED BY <3>1, <4>1
    <3>2. CASE r[i + 1] # r[i]
      <4>1. r[i] \subseteq r[i + 1] /\ r[i + 1] \in SUBSET Slot
        <5>1. r[i + 1] = Grow(r[i]) /\ i + 1 \in Nat
          BY <1>5
        <5>2. r[i + 1] \subseteq Slot
          <6> HIDE DEF Grow
          <6> QED BY <1>7, <5>1
        <5>3. r[i] \subseteq Grow(r[i])
          OBVIOUS
        <5> HIDE DEF Grow
        <5> QED BY <5>1, <5>2, <5>3
      <4>2. IsFiniteSet(r[i + 1]) /\ IsFiniteSet(r[i])
        BY <1>2, <1>7, <4>1, FS_Subset
      <4>3. Cardinality(r[i]) <= Cardinality(r[i + 1])
            /\ Cardinality(r[i]) # Cardinality(r[i + 1])
        BY <3>2, <4>1, <4>2, FS_Subset
      <4>4. Cardinality(r[i]) \in Nat /\ Cardinality(r[i + 1]) \in Nat
        BY <4>2, FS_CardinalityType
      <4>5. Cardinality(r[i]) >= i + 1
        BY <2>2, <3>2
      <4> QED BY <4>3, <4>4, <4>5
    <3> QED BY <3>1, <3>2
  <2> HIDE DEF S
  <2>3. Nat \subseteq S
    BY <2>1, <2>2, AllNaturals
  <2> QED BY <2>3 DEF S
<1>9. r[N + 1] = r[N]
  <2>1. r[N] \in SUBSET Slot
    BY <1>2, <1>7
  <2>2. Cardinality(r[N]) <= N /\ Cardinality(r[N]) \in Nat
    BY <1>2, <2>1, FS_Subset, FS_CardinalityType
  <2> HIDE DEF N
  <2> QED BY <1>2, <1>8, <2>2
<1>10. ClosedIn(R, r[N])
  <2>1. Grow(r[N]) = r[N]
    BY <1>2, <1>5, <1>9
  <2> QED BY <2>1 DEF ClosedIn
<1>11. s \in r[N] /\ r[N] \in SUBSET Slot
  BY <1>2, <1>7
<1> HIDE DEF N
<1> QED BY <1>1, <1>2, <1>6, <1>10, <1>11

\* In a release with no two nodes of one slot and none missing, an object depends on
\* the bodies of what it reaches, whatever order they are listed in.
LEMMA ClosureIsMeaning ==
  ASSUME NEW R, WellFormed(R), ~ Duplicate(R), ~ Dangling(R), NEW s \in Slots(R)
  PROVE  /\ Closure(R, s) = [root |-> Cid(At(R, s)),
                             deps |-> Meaning(Root(R), s) \ {Cid(At(R, s))}]
         /\ \A b \in Root(R).children : b.slot = s <=> b = Cid(At(R, s))
<1>1. \A d \in Slots(R) : At(R, d) \in R /\ At(R, d).slot = d
  BY DEF Slots, At
<1>2. \A n \in R : n = At(R, n.slot)
  BY <1>1 DEF Duplicate, Slots
<1>3. \A n : Cid(n).slot = n.slot /\ Cid(n).refs = n.refs
  BY DEF Cid
<1>4. Root(R).children = {Cid(n) : n \in R} /\ s \in Slot
  BY DEF Root, Slots, WellFormed
<1>5. ASSUME NEW b \in Root(R).children
      PROVE  b.slot \in Slots(R) /\ b = Cid(At(R, b.slot))
  BY <1>2, <1>3, <1>4 DEF Slots
<1>6. PICK D \in SUBSET Slot :
        /\ s \in D /\ ClosedIn(R, D) /\ Deps(R, s) = D \ {s}
        /\ \A C : s \in C /\ ClosedIn(R, C) => D \subseteq C
  BY <1>4, DepsAreReached
<1>7. D \subseteq Slots(R)
  BY <1>6 DEF Dangling
<1>8. ASSUME NEW d \in Slot PROVE d = s \/ Reaches(Root(R), s, d) <=> d \in D
  <2>1. \A t : RefsOf(Root(R), t) = UNION {n.refs : n \in {m \in R : m.slot = t}}
    BY <1>3, <1>4 DEF RefsOf
  <2>2. ASSUME Reaches(Root(R), s, d) PROVE d \in D
    <3>1. RefsOf(Root(R), s) \subseteq D /\ ClosedUnderRefs(Root(R), D)
      BY <1>6, <2>1 DEF ClosedIn, ClosedUnderRefs
    <3> QED BY <2>2, <3>1 DEF Reaches
  <2>3. ASSUME d \in D, d # s, NEW S \in SUBSET Slot,
               RefsOf(Root(R), s) \subseteq S, ClosedUnderRefs(Root(R), S)
        PROVE  d \in S
    <3>1. ClosedIn(R, S \cup {s})
      BY <2>1, <2>3 DEF ClosedIn, ClosedUnderRefs
    <3> QED BY <1>6, <2>3, <3>1
  <2> QED BY <1>6, <2>2, <2>3 DEF Reaches
<1>9. Meaning(Root(R), s) = {b \in Root(R).children : b.slot \in D}
  <2>1. \A b \in Root(R).children : b.slot \in Slot
    BY <1>3, <1>4 DEF WellFormed
  <2> QED BY <1>6, <1>8, <2>1 DEF Meaning
<1>10. \A b \in Root(R).children : b.slot = s <=> b = Cid(At(R, s))
  BY <1>1, <1>3, <1>5
<1>11. {Cid(At(R, d)) : d \in Deps(R, s)} = Meaning(Root(R), s) \ {Cid(At(R, s))}
  <2>1. ASSUME NEW d \in D, d # s
        PROVE  Cid(At(R, d)) \in Meaning(Root(R), s) \ {Cid(At(R, s))}
    <3>1. At(R, d) \in R /\ At(R, d).slot = d
      BY <1>1, <1>7
    <3>2. Cid(At(R, d)) \in Root(R).children /\ Cid(At(R, d)).slot = d
      BY <1>3, <1>4, <3>1
    <3> QED BY <1>9, <1>10, <2>1, <3>2
  <2>2. ASSUME NEW b \in Meaning(Root(R), s), b # Cid(At(R, s))
        PROVE  \E d \in D \ {s} : b = Cid(At(R, d))
    BY <1>5, <1>9, <1>10, <2>2
  <2> QED BY <1>6, <2>1, <2>2
<1> QED BY <1>10, <1>11 DEF Closure

-----------------------------------------------------------------------------
(* What a commit writes. *)

LEMMA NewestExists ==
  ASSUME NEW b \in Nat, NEW S, S # {}, \A r \in S : r.seq \in 0 .. b
  PROVE  Newest(S) \in S
<1> DEFINE Q == {r.seq : r \in S}
<1>1. Q \in SUBSET (0 .. b) /\ Q # {}
  OBVIOUS
<1>2. PICK m \in Q : \A q \in Q : q <= m
  <2> HIDE DEF Q
  <2> QED BY <1>1, GreatestOf
<1>3. PICK r \in S : r.seq = m
  BY <1>2
<1>4. \A q \in S : q.seq <= r.seq
  BY <1>2, <1>3
<1> QED BY <1>3, <1>4 DEF Newest

LEMMA LastSeqExists ==
  ASSUME NEW b \in Nat, NEW v, \A r \in v.revisions \cup v.snapshots : r.seq \in 0 .. b
  PROVE  LastSeq(v) \in 0 .. b
<1> DEFINE Q == {0} \cup {r.seq : r \in v.revisions \cup v.snapshots}
<1>1. Q \in SUBSET (0 .. b) /\ Q # {}
  OBVIOUS
<1>2. \E m \in Q : \A q \in Q : q <= m
  <2> HIDE DEF Q
  <2> QED BY <1>1, GreatestOf
<1>3. LastSeq(v) \in Q
  BY <1>2 DEF LastSeq
<1> QED BY <1>1, <1>3

\* What a view holds is bounded as the store is.
LEMMA ViewsBounded ==
  ASSUME NEW b \in Nat, \A r \in revisions \cup snapshots : r.seq \in 0 .. b,
         NEW c \in Client, ViewInv(c)
  PROVE  \A r \in view[c].revisions \cup view[c].snapshots : r.seq \in 0 .. b
BY DEF ViewInv

\* The revision that a release pins for an object is of exactly its closure, and it
\* is stored already or written with the release.
LEMMA PinIsOfClosure ==
  ASSUME SeqsBounded, NEW c \in Client, ViewInv(c), NEW R, NEW s \in Slots(R)
  PROVE  LET p == Pin(view[c], R, s) IN
         /\ p.closure = Closure(R, s)
         /\ SlotOf(p) = s
         /\ p \in StoredRevisions \cup {r.id : r \in NewRevisions(view[c], R)}
<1> DEFINE v == view[c]
           p == Pin(v, R, s)
<1>1. At(R, s).slot = s
  BY DEF At, Slots
<1>2. Closure(R, s).root.slot = s
  BY <1>1 DEF Closure, Cid
<1>3. CASE Reused(v, R, s)
  <2>1. p = TipId(v, s) /\ TipId(v, s) # None /\ TipId(v, s).closure = Closure(R, s)
    BY <1>3 DEF Reused, Pin
  <2>2. History(v, s) # {} /\ TipId(v, s) = Newest(History(v, s)).id
    BY <2>1 DEF TipId
  <2>3. PICK b \in Nat : \A r \in revisions \cup snapshots : r.seq \in 0 .. b
    BY DEF SeqsBounded
  <2>4. Newest(History(v, s)) \in v.revisions
    <3>1. \A r \in History(v, s) : r.seq \in 0 .. b /\ r \in v.revisions
      BY <2>3, ViewsBounded DEF History
    <3>2. Newest(History(v, s)) \in History(v, s)
      BY <2>2, <3>1, NewestExists
    <3> QED BY <3>1, <3>2
  <2>5. p \in StoredRevisions
    BY <2>1, <2>2, <2>4 DEF ViewInv, StoredRevisions
  <2> QED BY <1>2, <2>1, <2>5 DEF SlotOf
<1>4. CASE ~ Reused(v, R, s)
  <2>1. p = RevisionId(R, s, TipId(v, s))
    BY <1>4 DEF Pin
  <2>2. p.closure = Closure(R, s)
    BY <2>1 DEF RevisionId
  <2>3. s \in Created(v, R)
    BY <1>4 DEF Created
  <2>4. p \in {r.id : r \in NewRevisions(v, R)}
    <3> DEFINE r == [id |-> Pin(v, R, s),
                     seq |-> LastSeq(v) + Cardinality({t \in Created(v, R) : t <= s})]
    <3>1. r \in NewRevisions(v, R)
      BY <2>3 DEF NewRevisions
    <3>2. r.id = p
      OBVIOUS
    <3> HIDE DEF r
    <3> QED BY <3>1, <3>2
  <2> QED BY <1>2, <2>2, <2>4 DEF SlotOf
<1> QED BY <1>3, <1>4

\* The sequence numbers that a commit gives are bounded.
LEMMA NewSeqsBounded ==
  ASSUME NEW b \in Nat, NEW v, \A r \in v.revisions \cup v.snapshots : r.seq \in 0 .. b,
         NEW R, WellFormed(R)
  PROVE  \A r \in NewRevisions(v, R) \cup {NewSnapshot(v, R)} :
           r.seq \in 0 .. b + Cardinality(Slot) + 1
<1> DEFINE N == Cardinality(Slot)
           m == LastSeq(v)
<1>1. N \in Nat /\ m \in Nat /\ m <= b /\ IsFiniteSet(Slot)
  BY ConfigAssumption, FS_CardinalityType, LastSeqExists
<1>2. Created(v, R) \subseteq Slot
  BY DEF Created, Slots, WellFormed
<1>3. \A S \in SUBSET Slot : Cardinality(S) \in Nat /\ Cardinality(S) <= N
  BY <1>1, FS_Subset, FS_CardinalityType
<1>4. ASSUME NEW s \in Created(v, R)
      PROVE  Cardinality({t \in Created(v, R) : t <= s}) \in 0 .. N
  <2>1. {t \in Created(v, R) : t <= s} \in SUBSET Slot
    BY <1>2
  <2> HIDE DEF N
  <2> QED BY <1>1, <1>3, <2>1
<1>5. Cardinality(Created(v, R)) \in 0 .. N
  BY <1>1, <1>2, <1>3
<1> HIDE DEF N, m
<1>6. \A r \in NewRevisions(v, R) : r.seq \in 0 .. b + N + 1
  <2>1. \A r \in NewRevisions(v, R) : \E s \in Created(v, R) :
          r.seq = m + Cardinality({t \in Created(v, R) : t <= s})
    BY DEF NewRevisions, m
  <2>2. \A k \in 0 .. N : m + k \in 0 .. b + N + 1
    BY <1>1
  <2> QED BY <1>4, <2>1, <2>2
<1>7. NewSnapshot(v, R).seq \in 0 .. b + N + 1
  <2>1. NewSnapshot(v, R).seq = m + Cardinality(Created(v, R)) + 1
    BY DEF NewSnapshot, m
  <2> QED BY <1>1, <1>5, <2>1
<1> QED BY <1>6, <1>7 DEF N

Whole(s) ==
  /\ {s.root} \cup s.root.children \subseteq objects
  /\ s.revisions \subseteq StoredRevisions
  /\ s.parent \in StoredSnapshots \cup {None}
  /\ \A b \in s.root.children : \E p \in s.revisions :
       /\ Pins(s, b.slot) = {p}
       /\ p.closure = [root |-> b, deps |-> Meaning(s.root, b.slot) \ {b}]

LEMMA AllWhole ==
  SnapshotsAreWhole <=> /\ \A s \in StoredSnapshots : Whole(s)
                        /\ \A f \in targets : f.snapshot \in StoredSnapshots
BY DEF SnapshotsAreWhole, Whole, StoredSnapshots, StoredRevisions

\* A new snapshot is whole, though the view it was computed from may be torn and old.
LEMMA NewSnapshotIsWhole ==
  ASSUME ConfigInv, NEW c \in Client, NEW R \in Releases, ~ Duplicate(R), ~ Dangling(R)
  PROVE  LET N == NewSnapshot(view[c], R).id IN
         /\ {N.root} \cup N.root.children = NewObjects(R)
         /\ N.revisions \subseteq StoredRevisions \cup {r.id : r \in NewRevisions(view[c], R)}
         /\ N.parent \in StoredSnapshots \cup {None}
         /\ \A b \in N.root.children : b.slot \in Slot
         /\ \A p \in N.revisions : \E b \in N.root.children : SlotOf(p) = b.slot
         /\ \A b \in N.root.children : \E p \in N.revisions :
              /\ Pins(N, b.slot) = {p}
              /\ p.closure = [root |-> b, deps |-> Meaning(N.root, b.slot) \ {b}]
<1> DEFINE v == view[c]
           N == NewSnapshot(v, R).id
<1>1. /\ N.root = Root(R) /\ N.revisions = {Pin(v, R, s) : s \in Slots(R)}
      /\ N.parent = IF v.snapshots = {} THEN None ELSE Newest(v.snapshots).id
  BY DEF NewSnapshot
<1> HIDE DEF N
<1>2. WellFormed(R) /\ SeqsBounded /\ ViewInv(c)
  BY ReleasesWellFormed DEF ConfigInv
<1>3. Root(R).children = {Cid(n) : n \in R} /\ \A n \in R : Cid(n).slot = n.slot
  BY DEF Root, Cid
<1>4. \A s \in Slots(R) :
        /\ Pin(v, R, s).closure = Closure(R, s) /\ SlotOf(Pin(v, R, s)) = s
        /\ Pin(v, R, s) \in StoredRevisions \cup {r.id : r \in NewRevisions(v, R)}
  BY <1>2, PinIsOfClosure
<1>5. N.parent \in StoredSnapshots \cup {None}
  <2> SUFFICES ASSUME v.snapshots # {} PROVE Newest(v.snapshots).id \in StoredSnapshots
    BY <1>1
  <2>1. PICK b \in Nat : \A r \in revisions \cup snapshots : r.seq \in 0 .. b
    BY <1>2 DEF SeqsBounded
  <2>2. \A r \in v.snapshots : r.seq \in 0 .. b
    BY <1>2, <2>1, ViewsBounded
  <2>3. Newest(v.snapshots) \in v.snapshots
    BY <2>2, NewestExists
  <2> QED BY <1>2, <2>3 DEF ViewInv, StoredSnapshots
<1>6. ASSUME NEW b \in N.root.children
      PROVE  \E p \in N.revisions :
               /\ Pins(N, b.slot) = {p}
               /\ p.closure = [root |-> b, deps |-> Meaning(N.root, b.slot) \ {b}]
  <2> DEFINE s == b.slot
             p == Pin(v, R, s)
  <2>1. s \in Slots(R) /\ b \in Root(R).children
    BY <1>1, <1>3, <1>6 DEF Slots
  <2>2. p \in N.revisions /\ Pins(N, s) = {p}
    BY <1>1, <1>4, <2>1 DEF Pins
  <2>3. b = Cid(At(R, s))
        /\ Closure(R, s) = [root |-> Cid(At(R, s)), deps |-> Meaning(Root(R), s) \ {Cid(At(R, s))}]
    BY <1>2, <2>1, ClosureIsMeaning
  <2>4. p.closure = [root |-> b, deps |-> Meaning(N.root, s) \ {b}]
    BY <1>1, <1>4, <2>1, <2>3
  <2> QED BY <2>2, <2>4
<1>7. ASSUME NEW p \in N.revisions PROVE \E b \in N.root.children : SlotOf(p) = b.slot
  <2>1. PICK s \in Slots(R) : p = Pin(v, R, s)
    BY <1>1
  <2>2. PICK n \in R : n.slot = s
    BY DEF Slots
  <2> QED BY <1>1, <1>3, <1>4, <2>1, <2>2
<1>8. \A b \in N.root.children : b.slot \in Slot
  BY <1>1, <1>2, <1>3 DEF WellFormed
<1> QED BY <1>1, <1>3, <1>4, <1>5, <1>6, <1>7, <1>8, SMTT(60) DEF NewObjects, N

-----------------------------------------------------------------------------
(* The steps. *)

LEMMA ConfigInitially == ASSUME Init PROVE ConfigInv
<1>1. ConfigTypes
  BY DEF Init, ConfigTypes, PC, EmptyView, ViewFields
<1>2. SeqsBounded /\ TargetsOrdered
  <2>1. IsFiniteSet(targets)
    BY FS_EmptySet DEF Init
  <2> QED BY <2>1 DEF Init, SeqsBounded, TargetsOrdered
<1>3. \A c \in Client : ViewInv(c) /\ WriteInv(c)
  BY DEF Init, ViewInv, WriteInv, EmptyView
<1>4. PinsAreOfObjects /\ SnapshotsAreWhole
  BY DEF Init, PinsAreOfObjects, SnapshotsAreWhole, StoredSnapshots
<1>5. EachMoveReplacesOne
  BY FS_EmptySet DEF Init, EachMoveReplacesOne, Live
<1> QED BY <1>1, <1>2, <1>3, <1>4, <1>5 DEF ConfigInv

\* Clients that do not move, while what is stored stays stored.
OthersRest(c) ==
  \A d \in Client : d # c =>
    pc'[d] = pc[d] /\ request'[d] = request[d] /\ view'[d] = view[d] /\ current'[d] = current[d]

LEMMA OthersKept ==
  ASSUME NEW c \in Client, OthersRest(c), NEW d \in Client, d # c, ViewInv(d), WriteInv(d),
         revisions \subseteq revisions', snapshots \subseteq snapshots'
  PROVE  ViewInv(d)' /\ WriteInv(d)'
BY DEF OthersRest, ViewInv, WriteInv

\* The steps that write nothing.
LEMMA QuietStep ==
  ASSUME ConfigInv, NEW c \in Client, OthersRest(c), UNCHANGED <<store, firsts>>,
         ConfigTypes', ViewInv(c)', WriteInv(c)'
  PROVE  ConfigInv'
<1>1. SeqsBounded' /\ PinsAreOfObjects' /\ SnapshotsAreWhole' /\ TargetsOrdered' /\ EachMoveReplacesOne'
  BY DEF ConfigInv, store, SeqsBounded, PinsAreOfObjects, StoredSnapshots, SnapshotsAreWhole, Pins,
         TargetsOrdered, EachMoveReplacesOne, Live
<1>2. ASSUME NEW d \in Client PROVE ViewInv(d)' /\ WriteInv(d)'
  BY OthersKept DEF ConfigInv, store
<1> QED BY <1>1, <1>2 DEF ConfigInv

LEMMA BeginKeeps == ASSUME ConfigInv, NEW c \in Client, Begin(c) PROVE ConfigInv'
<1>1. PICK q \in Requests :
        /\ request' = [request EXCEPT ![c] = q]
        /\ Goto(c, IF q.op = "reverseDependencies" THEN "query" ELSE "objects")
  BY DEF Begin
<1>2. /\ request'[c] = q /\ pc'[c] \in {"query", "objects"} /\ OthersRest(c)
      /\ view' = view /\ current' = current /\ UNCHANGED <<store, firsts>>
  BY <1>1 DEF Begin, Goto, ConfigInv, ConfigTypes, OthersRest, history
<1>3. ConfigTypes'
  BY <1>1, <1>2 DEF Goto, ConfigInv, ConfigTypes, PC, store
<1>4. q.op = "commit" => q.release \in Releases
  BY DEF Requests
<1>5. WriteInv(c)'
  BY <1>2, <1>4 DEF WriteInv
<1>6. ViewInv(c)'
  BY <1>2 DEF ViewInv, ConfigInv, store
<1> QED BY <1>2, <1>3, <1>5, <1>6, QuietStep

LEMMA ReturnsClean ==
  ASSUME ConfigInv, NEW c \in Client, Return(c), commits' \in Nat, firsts' \in [RefName -> Nat]
  PROVE  ConfigTypes' /\ OthersRest(c) /\ ViewInv(c)' /\ WriteInv(c)'
<1>1. pc'[c] = "idle" /\ view'[c] = EmptyView /\ OthersRest(c)
  BY DEF Return, Goto, ConfigInv, ConfigTypes, OthersRest
<1>2. ConfigTypes'
  BY DEF Return, Goto, ConfigInv, ConfigTypes, PC, EmptyView, ViewFields
<1>3. ViewInv(c)' /\ WriteInv(c)'
  BY <1>1 DEF ViewInv, WriteInv, EmptyView
<1> QED BY <1>1, <1>2, <1>3

LEMMA FailKeeps == ASSUME ConfigInv, NEW c \in Client, Fail(c) PROVE ConfigInv'
<1>1. UNCHANGED <<store, firsts>> /\ Return(c) /\ commits' \in Nat /\ firsts' \in [RefName -> Nat]
  BY DEF Fail, store, ConfigInv, ConfigTypes
<1> QED BY <1>1, ReturnsClean, QuietStep

LEMMA LoadKeeps ==
  ASSUME ConfigInv, NEW c \in Client,
         \/ Query(c) \/ LoadObjects(c) \/ LoadTypes(c) \/ LoadRevisions(c)
         \/ LoadSnapshots(c) \/ LoadRefs(c)
  PROVE  ConfigInv'
<1>1. /\ UNCHANGED <<store, firsts>> /\ request' = request /\ current' = current
      /\ pc[c] # "idle"
  BY DEF Query, LoadObjects, LoadTypes, LoadRevisions, LoadSnapshots, LoadRefs, history
<1>2. pc' \in [Client -> PC] /\ pc'[c] \notin {"current", "transact"}
      /\ \A d \in Client : d # c => pc'[d] = pc[d]
  BY DEF Query, LoadObjects, LoadTypes, LoadRevisions, LoadSnapshots, LoadRefs, Goto,
         ConfigInv, ConfigTypes, PC
<1>3. view[c] = [x \in ViewFields |-> view[c][x]]
  BY DEF ConfigInv, ConfigTypes
<1>4. PICK V : view' = [view EXCEPT ![c] = V] /\ V = [x \in ViewFields |-> V[x]]
        /\ V.revisions \in {view[c].revisions, Latest(revisions)}
        /\ V.snapshots \in {view[c].snapshots, Latest(snapshots)}
  <2>1. CASE Query(c)
    <3> DEFINE V == [view[c] EXCEPT !.dependents = {r.id : r \in {x \in revisions : request[c].slot \in x.id.deps}}]
    <3>1. view' = [view EXCEPT ![c] = V]
      BY <2>1 DEF Query, ConfigInv, ConfigTypes
    <3>2. /\ V = [x \in ViewFields |-> V[x]]
          /\ V.revisions \in {view[c].revisions, Latest(revisions)}
          /\ V.snapshots \in {view[c].snapshots, Latest(snapshots)}
      BY <1>3 DEF ViewFields
    <3> HIDE DEF V
    <3> QED BY <3>1, <3>2
  <2>2. CASE LoadObjects(c)
    <3> DEFINE V == [view[c] EXCEPT !.objects = objects, !.validUnder = validUnder]
    <3>1. view' = [view EXCEPT ![c] = V]
      BY <2>2 DEF LoadObjects, ConfigInv, ConfigTypes
    <3>2. /\ V = [x \in ViewFields |-> V[x]]
          /\ V.revisions \in {view[c].revisions, Latest(revisions)}
          /\ V.snapshots \in {view[c].snapshots, Latest(snapshots)}
      BY <1>3 DEF ViewFields
    <3> HIDE DEF V
    <3> QED BY <3>1, <3>2
  <2>3. CASE LoadTypes(c)
    <3> DEFINE V == [view[c] EXCEPT !.schemas = schemas]
    <3>1. view' = [view EXCEPT ![c] = V]
      BY <2>3 DEF LoadTypes, ConfigInv, ConfigTypes
    <3>2. /\ V = [x \in ViewFields |-> V[x]]
          /\ V.revisions \in {view[c].revisions, Latest(revisions)}
          /\ V.snapshots \in {view[c].snapshots, Latest(snapshots)}
      BY <1>3 DEF ViewFields
    <3> HIDE DEF V
    <3> QED BY <3>1, <3>2
  <2>4. CASE LoadRevisions(c)
    <3> DEFINE V == [view[c] EXCEPT !.revisions = Latest(revisions)]
    <3>1. view' = [view EXCEPT ![c] = V]
      BY <2>4 DEF LoadRevisions, ConfigInv, ConfigTypes
    <3>2. /\ V = [x \in ViewFields |-> V[x]]
          /\ V.revisions \in {view[c].revisions, Latest(revisions)}
          /\ V.snapshots \in {view[c].snapshots, Latest(snapshots)}
      BY <1>3 DEF ViewFields
    <3> HIDE DEF V
    <3> QED BY <3>1, <3>2
  <2>5. CASE LoadSnapshots(c)
    <3> DEFINE V == [view[c] EXCEPT !.snapshots = Latest(snapshots)]
    <3>1. view' = [view EXCEPT ![c] = V]
      BY <2>5 DEF LoadSnapshots, ConfigInv, ConfigTypes
    <3>2. /\ V = [x \in ViewFields |-> V[x]]
          /\ V.revisions \in {view[c].revisions, Latest(revisions)}
          /\ V.snapshots \in {view[c].snapshots, Latest(snapshots)}
      BY <1>3 DEF ViewFields
    <3> HIDE DEF V
    <3> QED BY <3>1, <3>2
  <2>6. CASE LoadRefs(c)
    <3> DEFINE V == [view[c] EXCEPT !.refs = {<<r, Target(r).snapshot>> : r \in {x \in RefName : Live(x) # {}}}]
    <3>1. view' = [view EXCEPT ![c] = V]
      BY <2>6 DEF LoadRefs, ConfigInv, ConfigTypes
    <3>2. /\ V = [x \in ViewFields |-> V[x]]
          /\ V.revisions \in {view[c].revisions, Latest(revisions)}
          /\ V.snapshots \in {view[c].snapshots, Latest(snapshots)}
      BY <1>3 DEF ViewFields
    <3> HIDE DEF V
    <3> QED BY <3>1, <3>2
  <2> QED BY <2>1, <2>2, <2>3, <2>4, <2>5, <2>6
<1>5. view'[c] = V /\ OthersRest(c)
  BY <1>1, <1>2, <1>4 DEF ConfigInv, ConfigTypes, OthersRest
<1>6. ConfigTypes'
  BY <1>1, <1>2, <1>4 DEF ConfigInv, ConfigTypes, store
<1>7. \A F : \A r \in Latest(F) : \E f \in F : f.id = r.id /\ f.seq = r.seq
  BY DEF Latest
<1>8. ViewInv(c)'
  BY <1>1, <1>4, <1>5, <1>7 DEF ViewInv, ConfigInv, store
<1>9. WriteInv(c)'
  BY <1>1, <1>2 DEF WriteInv, ConfigInv
<1> QED BY <1>1, <1>5, <1>6, <1>8, <1>9, QuietStep

LEMMA ComputeKeeps == ASSUME ConfigInv, NEW c \in Client, Compute(c) PROVE ConfigInv'
<1>1. /\ UNCHANGED <<store, firsts>> /\ request' = request /\ view' = view /\ current' = current
      /\ pc[c] = "act" /\ pc'[c] \in {"current", "transact"} /\ OthersRest(c)
      /\ pc' \in [Client -> PC]
  BY DEF Compute, Goto, ConfigInv, ConfigTypes, PC, OthersRest, history
<1>2. ConfigTypes'
  BY <1>1 DEF ConfigInv, ConfigTypes, store
<1>3. /\ \/ /\ request[c].op = "commit"
            /\ ~ Duplicate(request[c].release) /\ ~ Dangling(request[c].release)
         \/ /\ request[c].op = "setRef"
            /\ request[c].snapshot \in {s.id : s \in view[c].snapshots}
      /\ pc'[c] = "transact" => request[c].ref = NoRef
  BY DEF Compute, Goto, ConfigInv, ConfigTypes
<1>4. WriteInv(c)'
  BY <1>1, <1>3 DEF WriteInv, ConfigInv
<1>5. ViewInv(c)'
  BY <1>1 DEF ViewInv, ConfigInv, store
<1> QED BY <1>1, <1>2, <1>4, <1>5, QuietStep

\* The newest target of a ref.
LEMMA TargetExists ==
  ASSUME TargetsOrdered, commits \in Nat, NEW r
  PROVE  Target(r) = None \/ (Target(r) \in targets /\ Target(r).ref = r)
<1>1. CASE Live(r) = {}
  BY <1>1 DEF Target
<1>2. CASE Live(r) # {}
  <2> DEFINE Q == {f.at : f \in Live(r)}
  <2>1. Q \in SUBSET (0 .. commits) /\ Q # {}
    BY <1>2 DEF TargetsOrdered, Live
  <2>2. PICK m \in Q : \A q \in Q : q <= m
    <3> HIDE DEF Q
    <3> QED BY <2>1, GreatestOf
  <2>3. PICK f \in Live(r) : f.at = m
    BY <2>2
  <2>4. \A g \in Live(r) : g.at <= f.at
    BY <2>2, <2>3
  <2>5. Target(r) \in Live(r)
    BY <1>2, <2>3, <2>4 DEF Target
  <2> QED BY <2>5 DEF Live
<1> QED BY <1>1, <1>2

LEMMA ReadCurrentKeeps == ASSUME ConfigInv, NEW c \in Client, ReadCurrent(c) PROVE ConfigInv'
<1>1. /\ UNCHANGED <<store, firsts>> /\ request' = request /\ view' = view
      /\ current'[c] = Target(request[c].ref)
      /\ pc[c] = "current" /\ pc'[c] = "transact" /\ OthersRest(c)
  BY DEF ReadCurrent, Goto, ConfigInv, ConfigTypes, PC, OthersRest, history
<1>2. ConfigTypes'
  BY <1>1 DEF ReadCurrent, Goto, ConfigInv, ConfigTypes, store, PC
<1>3. current'[c] = None \/ current'[c].ref = request[c].ref
  BY <1>1, TargetExists DEF ConfigInv, ConfigTypes
<1>4. WriteInv(c)'
  BY <1>1, <1>3 DEF WriteInv, ConfigInv
<1>5. ViewInv(c)'
  BY <1>1 DEF ViewInv, ConfigInv, store
<1> QED BY <1>1, <1>2, <1>4, <1>5, QuietStep

\* The move of a ref.  It takes away the target that was read, if that is still
\* there, and adds one of a transaction that no target was of.
LEMMA MoveCounts ==
  ASSUME ConfigInv, NEW c \in Client, pc[c] = "transact", PreconditionHolds(c), MoveRef(c),
         commits' = commits + 1
  PROVE  TargetsOrdered' /\ EachMoveReplacesOne' /\ firsts' \in [RefName -> Nat]
<1>1. CASE Moved(c) = NoRef
  <2>1. targets' = targets /\ firsts' = firsts
    BY <1>1 DEF MoveRef
  <2> QED BY <2>1 DEF ConfigInv, ConfigTypes, TargetsOrdered, EachMoveReplacesOne, Live
<1>2. CASE Moved(c) # NoRef
  <2> DEFINE m == Moved(c)
             new == [ref |-> m, snapshot |-> NewTarget(c), at |-> commits + 1]
             old == current[c]
  <2>1. /\ targets' = (targets \ {old}) \cup {new}
        /\ firsts' = IF old = None THEN [firsts EXCEPT ![m] = @ + 1] ELSE firsts
    BY <1>2 DEF MoveRef
  <2>2. old = None \/ (old \in targets /\ old.ref = m)
    BY <1>2 DEF ConfigInv, WriteInv, PreconditionHolds, Moved
  <2>3. /\ commits \in Nat /\ firsts \in [RefName -> Nat] /\ IsFiniteSet(targets)
        /\ \A f \in targets : DOMAIN f = {"ref", "snapshot", "at"} /\ f.at \in 1 .. commits
        /\ \A f, g \in targets : f.at = g.at => f = g
    BY DEF ConfigInv, ConfigTypes, TargetsOrdered
  <2>4. new.ref = m /\ new.at = commits + 1 /\ DOMAIN new = {"ref", "snapshot", "at"}
    OBVIOUS
  <2> HIDE DEF new, old, m
  <2>5. new \notin targets /\ None \notin targets
    <3>1. DOMAIN None = {"none"}
      BY DEF None
    <3> QED BY <2>3, <2>4, <3>1
  <2>6. TargetsOrdered'
    <3>1. IsFiniteSet(targets')
      BY <2>1, <2>3, FS_RemoveElement, FS_AddElement
    <3>2. \A f \in targets' : DOMAIN f = {"ref", "snapshot", "at"} /\ f.at \in 1 .. commits'
      BY <2>1, <2>3, <2>4
    <3>3. \A f, g \in targets' : f.at = g.at => f = g
      BY <2>1, <2>3, <2>4
    <3> QED BY <3>1, <3>2, <3>3 DEF TargetsOrdered
  <2>7. ASSUME NEW r \in RefName
        PROVE  Cardinality({f \in targets' : f.ref = r}) = firsts'[r]
    <3> DEFINE L == {f \in targets : f.ref = r}
    <3>1. IsFiniteSet(L) /\ Cardinality(L) \in Nat /\ Cardinality(L) = firsts[r]
      <4>1. L \in SUBSET targets
        OBVIOUS
      <4>2. IsFiniteSet(L)
        BY <2>3, <4>1, FS_Subset
      <4> QED BY <4>2, FS_CardinalityType DEF ConfigInv, EachMoveReplacesOne, Live
    <3>2. CASE r # m
      <4>1. {f \in targets' : f.ref = r} = L
        BY <2>1, <2>2, <2>4, <2>5, <3>2
      <4>2. firsts'[r] = firsts[r]
        BY <2>1, <2>3, <3>2
      <4> QED BY <3>1, <4>1, <4>2
    <3>3. CASE r = m /\ old = None
      <4>1. {f \in targets' : f.ref = r} = L \cup {new} /\ new \notin L
        BY <2>1, <2>4, <2>5, <3>3
      <4>2. firsts'[r] = firsts[r] + 1
        BY <2>1, <2>3, <3>3
      <4> HIDE DEF L
      <4> QED BY <3>1, <4>1, <4>2, FS_AddElement, ZenonT(60)
    <3>4. CASE r = m /\ old # None
      <4>1. {f \in targets' : f.ref = r} = (L \ {old}) \cup {new} /\ new \notin L /\ old \in L
        BY <2>1, <2>2, <2>4, <2>5, <3>4
      <4>2. firsts'[r] = firsts[r]
        BY <2>1, <3>4
      <4> DEFINE L2 == {f \in targets' : f.ref = r}
      <4> HIDE DEF L, L2
      <4>3. IsFiniteSet(L \ {old}) /\ Cardinality(L \ {old}) = Cardinality(L) - 1
        BY <3>1, <4>1, FS_RemoveElement
      <4>4. Cardinality((L \ {old}) \cup {new}) = Cardinality(L \ {old}) + 1
        BY <4>1, <4>3, FS_AddElement
      <4>5. L2 = (L \ {old}) \cup {new}
        BY <4>1 DEF L2
      <4>6. Cardinality(L2) = firsts'[r]
        BY <3>1, <4>2, <4>3, <4>4, <4>5
      <4> QED BY <4>6 DEF L2
    <3> QED BY <3>2, <3>3, <3>4
  <2>8. firsts' \in [RefName -> Nat]
    <3>1. CASE old = None
      <4>1. firsts' = [firsts EXCEPT ![m] = @ + 1]
        BY <2>1, <3>1
      <4>2. \A r \in RefName : firsts[r] \in Nat /\ firsts[r] + 1 \in Nat
        BY <2>3
      <4> QED BY <2>3, <4>1, <4>2
    <3>2. CASE old # None
      BY <2>1, <2>3, <3>2
    <3> QED BY <3>1, <3>2
  <2> QED BY <2>6, <2>7, <2>8 DEF EachMoveReplacesOne, Live
<1> QED BY <1>1, <1>2

\* Stored snapshots stay whole while only more is stored.
LEMMA WholeStays ==
  ASSUME NEW s, Whole(s), objects \subseteq objects',
         revisions \subseteq revisions', snapshots \subseteq snapshots'
  PROVE  Whole(s)'
<1>1. StoredRevisions \subseteq StoredRevisions' /\ StoredSnapshots \subseteq StoredSnapshots'
  BY DEF StoredRevisions, StoredSnapshots
<1> QED BY <1>1 DEF Whole, Pins

LEMMA TransactKeeps == ASSUME ConfigInv, NEW c \in Client, Transact(c) PROVE ConfigInv'
<1> DEFINE v == view[c]
           R == request[c].release
           N == NewSnapshot(v, R).id
           K == Cardinality(Slot)
<1>1. /\ pc[c] = "transact" /\ PreconditionHolds(c) /\ MoveRef(c) /\ Return(c)
      /\ commits' = commits + 1 /\ commits \in Nat /\ commits' \in Nat
  BY DEF Transact, ConfigInv, ConfigTypes
<1>2. TargetsOrdered' /\ EachMoveReplacesOne' /\ firsts' \in [RefName -> Nat]
  BY <1>1, MoveCounts
<1>3. ConfigTypes' /\ OthersRest(c) /\ ViewInv(c)' /\ WriteInv(c)'
  BY <1>1, <1>2, ReturnsClean
<1>4. \/ /\ request[c].op = "commit" /\ R \in Releases /\ ~ Duplicate(R) /\ ~ Dangling(R)
         /\ WriteRelease(v, R)
      \/ /\ request[c].op = "setRef" /\ request[c].snapshot \in {r.id : r \in v.snapshots}
         /\ UNCHANGED <<objects, revisions, snapshots>>
  BY <1>1 DEF Transact, ConfigInv, WriteInv
<1>5. objects \subseteq objects' /\ revisions \subseteq revisions' /\ snapshots \subseteq snapshots'
  BY <1>4 DEF WriteRelease
<1>6. \A d \in Client : ViewInv(d)' /\ WriteInv(d)'
  BY <1>3, <1>5, OthersKept DEF ConfigInv
<1>7. ASSUME request[c].op = "commit"
      PROVE  /\ StoredRevisions' = StoredRevisions \cup {r.id : r \in NewRevisions(v, R)}
             /\ StoredSnapshots' = StoredSnapshots \cup {N}
             /\ objects' = objects \cup NewObjects(R)
  <2>1. WriteRelease(v, R)
    BY <1>4, <1>7
  <2> DEFINE added == {[id |-> r.id, seq |-> r.seq, at |-> commits + 1] : r \in NewRevisions(v, R)}
             snapshot == [id |-> N, seq |-> NewSnapshot(v, R).seq, at |-> commits + 1]
  <2>2. /\ revisions' = revisions \cup added /\ snapshots' = snapshots \cup {snapshot}
        /\ objects' = objects \cup NewObjects(R)
    BY <2>1 DEF WriteRelease
  <2>3. {f.id : f \in added} = {r.id : r \in NewRevisions(v, R)} /\ snapshot.id = N
    <3>1. \A f \in added : \E r \in NewRevisions(v, R) : f.id = r.id
      OBVIOUS
    <3>2. ASSUME NEW r \in NewRevisions(v, R) PROVE \E f \in added : f.id = r.id
      <4> DEFINE f == [id |-> r.id, seq |-> r.seq, at |-> commits + 1]
      <4>1. f \in added /\ f.id = r.id
        OBVIOUS
      <4> HIDE DEF f, added
      <4> QED BY <4>1
    <3>3. snapshot.id = N
      OBVIOUS
    <3> HIDE DEF added, snapshot, N
    <3> QED BY <3>1, <3>2, <3>3
  <2> HIDE DEF added, snapshot, N
  <2> QED BY <2>2, <2>3 DEF StoredRevisions, StoredSnapshots
<1>8. request[c].op # "commit" => StoredSnapshots' = StoredSnapshots
  BY <1>4 DEF StoredSnapshots
<1>9. SeqsBounded'
  <2>1. PICK b \in Nat : \A r \in revisions \cup snapshots : r.seq \in 0 .. b
    BY DEF ConfigInv, SeqsBounded
  <2>2. CASE request[c].op = "commit"
    <3>1. K \in Nat
      BY ConfigAssumption, FS_CardinalityType
    <3>2. \A r \in NewRevisions(v, R) \cup {NewSnapshot(v, R)} : r.seq \in 0 .. b + K + 1
      <4>1. \A r \in v.revisions \cup v.snapshots : r.seq \in 0 .. b
        BY <2>1, ViewsBounded DEF ConfigInv
      <4>2. WellFormed(R)
        BY <1>4, <2>2, ReleasesWellFormed
      <4> QED BY <4>1, <4>2, NewSeqsBounded
    <3>3. /\ \A r \in revisions' : r \in revisions \/ \E q \in NewRevisions(v, R) : r.seq = q.seq
          /\ \A r \in snapshots' : r \in snapshots \/ r.seq = NewSnapshot(v, R).seq
      BY <1>4, <2>2 DEF WriteRelease
    <3> HIDE DEF K
    <3>4. b + K + 1 \in Nat /\ 0 .. b \subseteq 0 .. b + K + 1
      BY <3>1
    <3>5. \A r \in revisions' \cup snapshots' : r.seq \in 0 .. b + K + 1
      BY <2>1, <3>2, <3>3, <3>4
    <3> QED BY <3>4, <3>5 DEF SeqsBounded
  <2>3. CASE request[c].op # "commit"
    BY <1>4, <2>1, <2>3 DEF SeqsBounded
  <2> QED BY <2>2, <2>3
<1>10. ASSUME request[c].op = "commit", NEW s, s = N
       PROVE  /\ Whole(s)'
              /\ \A b \in s.root.children : b.slot \in Slot
              /\ \A p \in s.revisions : \E b \in s.root.children : SlotOf(p) = b.slot
  <2>1. R \in Releases /\ ~ Duplicate(R) /\ ~ Dangling(R)
    BY <1>4, <1>10
  <2> HIDE DEF N
  <2>2. /\ {N.root} \cup N.root.children = NewObjects(R)
        /\ N.revisions \subseteq StoredRevisions \cup {r.id : r \in NewRevisions(v, R)}
        /\ N.parent \in StoredSnapshots \cup {None}
        /\ \A b \in N.root.children : b.slot \in Slot
        /\ \A p \in N.revisions : \E b \in N.root.children : SlotOf(p) = b.slot
        /\ \A b \in N.root.children : \E p \in N.revisions :
             /\ Pins(N, b.slot) = {p}
             /\ p.closure = [root |-> b, deps |-> Meaning(N.root, b.slot) \ {b}]
    BY <2>1, NewSnapshotIsWhole DEF N
  <2> QED BY <1>7, <1>10, <2>2 DEF Whole, Pins
<1>11. \A s \in StoredSnapshots' : s \in StoredSnapshots \/ (request[c].op = "commit" /\ s = N)
  BY <1>7, <1>8
<1>12. PinsAreOfObjects'
  <2> SUFFICES ASSUME NEW s \in StoredSnapshots'
               PROVE  /\ \A b \in s.root.children : b.slot \in Slot
                      /\ \A p \in s.revisions : \E b \in s.root.children : SlotOf(p) = b.slot
    BY DEF PinsAreOfObjects
  <2> HIDE DEF N
  <2> QED BY <1>10, <1>11 DEF ConfigInv, PinsAreOfObjects
<1>13. SnapshotsAreWhole'
  <2>1. ASSUME NEW s \in StoredSnapshots' PROVE Whole(s)'
    <3>1. s \in StoredSnapshots => Whole(s)'
      BY <1>5, AllWhole, WholeStays DEF ConfigInv
    <3> HIDE DEF N
    <3> QED BY <1>10, <1>11, <3>1
  <2>2. NewTarget(c) \in StoredSnapshots'
    <3>1. CASE request[c].op = "commit"
      BY <1>7, <3>1 DEF NewTarget
    <3>2. CASE request[c].op # "commit"
      BY <1>4, <1>8, <3>2 DEF NewTarget, ConfigInv, ViewInv, StoredSnapshots
    <3> QED BY <3>1, <3>2
  <2>3. \A f \in targets' : f \in targets \/ f.snapshot = NewTarget(c)
    BY <1>1 DEF MoveRef
  <2>4. StoredSnapshots \subseteq StoredSnapshots' /\ \A f \in targets : f.snapshot \in StoredSnapshots
    BY <1>7, <1>8, AllWhole DEF ConfigInv
  <2>5. \A f \in targets' : f.snapshot \in StoredSnapshots'
    BY <2>2, <2>3, <2>4
  <2> QED BY <2>1, <2>5 DEF SnapshotsAreWhole, Whole, StoredSnapshots, StoredRevisions
<1> QED BY <1>2, <1>3, <1>6, <1>9, <1>12, <1>13 DEF ConfigInv

LEMMA ConfigPreserved == ASSUME ConfigInv, [Next]_configVars PROVE ConfigInv'
<1>1. CASE UNCHANGED configVars
  BY <1>1, SMTT(60) DEF configVars, store, history, ConfigInv, ConfigTypes, SeqsBounded, ViewInv, WriteInv,
              PinsAreOfObjects, StoredSnapshots, SnapshotsAreWhole, Pins, TargetsOrdered,
              EachMoveReplacesOne, Live
<1>2. ASSUME NEW c \in Client, Step(c) PROVE ConfigInv'
  <2>1. CorruptStore(c) \/ Reject(c) \/ Answer(c) \/ Conflict(c) => Fail(c)
    BY DEF CorruptStore, Reject, Answer, Conflict
  <2> QED BY <1>2, <2>1, BeginKeeps, FailKeeps, LoadKeeps, ComputeKeeps, ReadCurrentKeeps,
             TransactKeeps DEF Step
<1> QED BY <1>1, <1>2 DEF Next

LEMMA ConfigInductive == Spec => []ConfigInv
<1> QED BY ConfigInitially, ConfigPreserved, PTL DEF Spec

\* Every stored snapshot can be read whole: its bodies, its revisions and its parent are
\* stored, and it pins for each object one revision, of exactly the bodies that its
\* release gives the object through however many references.
THEOREM StoredSnapshotsAreWhole == Spec => []SnapshotsAreWhole
<1> QED BY ConfigInductive, PTL DEF ConfigInv

\* Two writers that have read the same target of a ref cannot both replace it.
THEOREM MovesReplaceOne == Spec => []EachMoveReplacesOne
<1> QED BY ConfigInductive, PTL DEF ConfigInv

\* Between two stored snapshots every object that came, that went or that depends on
\* other bodies is listed, edited or not.
THEOREM ChangesBetweenAreComplete == Spec => []NoChangeIsSilent
<1>1. ConfigInv => NoChangeIsSilent
  <2> SUFFICES ASSUME ConfigInv, NEW f \in StoredSnapshots, NEW g \in StoredSnapshots
               PROVE  /\ {b.slot : b \in g.root.children} \ {b.slot : b \in f.root.children} = Added(f, g)
                      /\ \A s \in {b.slot : b \in f.root.children} \cap {b.slot : b \in g.root.children} :
                           Meaning(f.root, s) # Meaning(g.root, s)
                             => \E x \in Changed(f, g) : x.slot = s /\ x.closure
    BY DEF NoChangeIsSilent, StoredSnapshots
  <2>1. \A s : (s \in {b.slot : b \in f.root.children} <=> Pins(f, s) # {})
             /\ (s \in {b.slot : b \in g.root.children} <=> Pins(g, s) # {})
    <3>1. ASSUME NEW h \in {f, g}, NEW s
          PROVE  s \in {b.slot : b \in h.root.children} <=> Pins(h, s) # {}
      <4>1. h \in StoredSnapshots /\ Whole(h)
        BY AllWhole DEF ConfigInv
      <4>2. ASSUME NEW b \in h.root.children, b.slot = s PROVE Pins(h, s) # {}
        BY <4>1, <4>2 DEF Whole
      <4>3. ASSUME NEW p \in Pins(h, s) PROVE \E b \in h.root.children : b.slot = s
        BY <4>1, <4>3 DEF ConfigInv, PinsAreOfObjects, Pins
      <4> QED BY <4>2, <4>3
    <3> QED BY <3>1
  <2>2. \A h \in {f, g} : \A b \in h.root.children : b.slot \in Slot
    BY DEF ConfigInv, PinsAreOfObjects
  <2>3. {b.slot : b \in g.root.children} \ {b.slot : b \in f.root.children} = Added(f, g)
    BY <2>1, <2>2 DEF Added
  <2>4. ASSUME NEW b \in f.root.children, NEW d \in g.root.children, b.slot = d.slot,
               Meaning(f.root, b.slot) # Meaning(g.root, b.slot)
        PROVE  \E x \in Changed(f, g) : x.slot = b.slot /\ x.closure
    <3>1. Whole(f) /\ Whole(g)
      BY AllWhole DEF ConfigInv
    <3>2. PICK p \in f.revisions :
            /\ Pins(f, b.slot) = {p}
            /\ p.closure = [root |-> b, deps |-> Meaning(f.root, b.slot) \ {b}]
      BY <3>1 DEF Whole
    <3>3. PICK q \in g.revisions :
            /\ Pins(g, b.slot) = {q}
            /\ q.closure = [root |-> d, deps |-> Meaning(g.root, b.slot) \ {d}]
      BY <2>4, <3>1 DEF Whole
    <3>4. SlotOf(p) = b.slot /\ SlotOf(q) = b.slot
      BY <3>2, <3>3 DEF Pins
    <3>5. b \in Meaning(f.root, b.slot) /\ d \in Meaning(g.root, b.slot)
      BY <2>4 DEF Meaning
    <3>6. p.closure # q.closure
      BY <2>4, <3>2, <3>3, <3>5
    <3> DEFINE x == [slot |-> SlotOf(p), data |-> p.closure.root # q.closure.root,
                     closure |-> p.closure # q.closure, schema |-> p.schema # q.schema]
    <3>7. x \in Changed(f, g)
      <4>1. <<p, q>> \in {y \in f.revisions \X g.revisions : SlotOf(y[1]) = SlotOf(y[2]) /\ y[1] # y[2]}
        BY <3>4, <3>6
      <4> DEFINE y == <<p, q>>
      <4>2. y[1] = p /\ y[2] = q
        OBVIOUS
      <4>3. x = [slot |-> SlotOf(y[1]), data |-> y[1].closure.root # y[2].closure.root,
                 closure |-> y[1].closure # y[2].closure, schema |-> y[1].schema # y[2].schema]
        BY <4>2
      <4> HIDE DEF x, y
      <4>4. y \in {z \in f.revisions \X g.revisions : SlotOf(z[1]) = SlotOf(z[2]) /\ z[1] # z[2]}
        BY <4>1 DEF y
      <4> QED BY <4>3, <4>4 DEF Changed
    <3> QED BY <3>4, <3>6, <3>7
  <2> QED BY <2>3, <2>4
<1> QED BY <1>1, ConfigInductive, PTL
-----------------------------------------------------------------------------
(* What the rules find in a set of visible facts. *)

RuleTags == {"Required", "Cardinality", "Unique", "ReferenceTarget"}

LEMMA NothingViolatesNothing ==
  ASSUME NEW rule, rule.tag \in RuleTags
  PROVE  ViolationsOf({}, rule) = {}
<1>1. TypedFacts({}, rule) = {} /\ SubjectsOf({}) = {} /\ WithAttribute({}, rule) = {}
  BY DEF TypedFacts, OfEntities, SubjectsOf, WithAttribute
<1>2. Counted({}, rule, {}) = {} /\ Shared({}, rule) = {} /\ DanglingTargets({}, {}, rule) = {}
  BY <1>1 DEF Counted, Shared, DanglingTargets
<1> QED BY <1>1, <1>2 DEF ViolationsOf, RuleTags

\* The facts of the subjects of a rule, and those of its target type, are all that
\* the rule looks at.
LEMMA OnlyRelevantFactsCount ==
  ASSUME NEW V, NEW R \in SUBSET V, NEW rule, rule.tag \in RuleTags,
         \A f \in V : f.type = rule.type => f \in R /\ \A g \in V : g.entity = f.entity => g \in R,
         rule.tag = "ReferenceTarget" => \A f \in V : f.type = rule.target => f \in R
  PROVE  ViolationsOf(R, rule) = ViolationsOf(V, rule)
<1>1. SubjectsOf(OfType(R, rule.type)) = SubjectsOf(OfType(V, rule.type))
  BY DEF SubjectsOf, OfType
<1>2. TypedFacts(R, rule) = TypedFacts(V, rule)
  BY <1>1 DEF TypedFacts, OfEntities, SubjectsOf, OfType
<1>3. CASE rule.tag = "ReferenceTarget"
  <2>1. OfType(R, rule.target) = OfType(V, rule.target)
    BY <1>3 DEF OfType
  <2> QED BY <1>2, <1>3, <2>1 DEF ViolationsOf, DanglingTargets
<1>4. CASE rule.tag # "ReferenceTarget"
  BY <1>2, <1>4 DEF ViolationsOf, RuleTags
<1> QED BY <1>3, <1>4

-----------------------------------------------------------------------------
(* Violations do not tell the ids of facts. *)

SameButForId(f, g) ==
  g.entity = f.entity /\ g.attribute = f.attribute /\ g.value = f.value /\ g.type = f.type

\* The facts of B are those of A under other ids.
Renames(m, A, B) == m \in Bijection(A, B) /\ \A f \in A : SameButForId(f, m[f])

LEMMA PartsAreRenamed ==
  ASSUME NEW A, NEW B, NEW m, Renames(m, A, B),
         NEW C \in SUBSET A, NEW D \in SUBSET B, \A f \in A : f \in C <=> m[f] \in D
  PROVE  \E n : Renames(n, C, D)
<1> DEFINE n == [f \in C |-> m[f]]
<1>1. m \in [A -> B] /\ (\A f, g \in A : m[f] = m[g] => f = g) /\ \A g \in B : \E f \in A : m[f] = g
  BY DEF Renames, Bijection, Injection, Surjection, IsInjective
<1>2. n \in [C -> D] /\ (\A f, g \in C : n[f] = n[g] => f = g) /\ \A g \in D : \E f \in C : n[f] = g
  BY <1>1
<1>3. n \in Bijection(C, D)
  <2> HIDE DEF n
  <2> QED BY <1>2 DEF Bijection, Injection, Surjection, IsInjective
<1>4. \A f \in C : SameButForId(f, n[f])
  BY DEF Renames
<1> QED BY <1>3, <1>4 DEF Renames

LEMMA RenamedSizes ==
  ASSUME NEW A, NEW B, NEW m, Renames(m, A, B), IsFiniteSet(A)
  PROVE  Cardinality(B) = Cardinality(A)
BY FS_Bijection DEF Renames, ExistsBijection

LEMMA RenamedSubjects ==
  ASSUME NEW A, NEW B, NEW m, Renames(m, A, B)
  PROVE  SubjectsOf(A) = SubjectsOf(B) /\ {f.value : f \in A} = {f.value : f \in B}
<1>1. m \in [A -> B] /\ \A g \in B : \E f \in A : m[f] = g
  BY DEF Renames, Bijection, Injection, Surjection
<1>2. \A f \in A : m[f] \in B /\ m[f].entity = f.entity /\ m[f].value = f.value
  BY <1>1 DEF Renames, SameButForId
<1> QED BY <1>1, <1>2 DEF SubjectsOf

LEMMA RenamedViolations ==
  ASSUME NEW A, NEW B, NEW m, Renames(m, A, B), IsFiniteSet(A), NEW rule, rule.tag \in RuleTags
  PROVE  ViolationsOf(A, rule) = ViolationsOf(B, rule)
<1>1. ASSUME NEW type PROVE SubjectsOf(OfType(A, type)) = SubjectsOf(OfType(B, type))
  <2>1. \A f \in A : m[f] \in B /\ (f \in OfType(A, type) <=> m[f] \in OfType(B, type))
    BY DEF Renames, SameButForId, OfType, Bijection, Injection
  <2>2. OfType(A, type) \in SUBSET A /\ OfType(B, type) \in SUBSET B
    BY DEF OfType
  <2>3. PICK n : Renames(n, OfType(A, type), OfType(B, type))
    BY <2>1, <2>2, PartsAreRenamed
  <2> QED BY <2>3, RenamedSubjects
<1> DEFINE TA == TypedFacts(A, rule)
           TB == TypedFacts(B, rule)
<1>2. PICK n : Renames(n, TA, TB)
  <2>1. \A f \in A : m[f] \in B /\ (f \in TA <=> m[f] \in TB)
    BY <1>1 DEF Renames, SameButForId, TypedFacts, OfEntities, Bijection, Injection
  <2>2. TA \in SUBSET A /\ TB \in SUBSET B
    BY DEF TypedFacts, OfEntities
  <2> HIDE DEF TA, TB
  <2> QED BY <2>1, <2>2, PartsAreRenamed
<1>3. IsFiniteSet(TA)
  BY FS_Subset DEF TypedFacts, OfEntities
<1> HIDE DEF TA, TB
<1> DEFINE WA == WithAttribute(TA, rule)
           WB == WithAttribute(TB, rule)
<1>4. PICK w : Renames(w, WA, WB)
  <2>1. \A f \in TA : n[f] \in TB /\ (f \in WA <=> n[f] \in WB)
    BY <1>2 DEF Renames, SameButForId, WithAttribute, Bijection, Injection
  <2>2. WA \in SUBSET TA /\ WB \in SUBSET TB
    BY DEF WithAttribute
  <2> HIDE DEF WA, WB
  <2> QED BY <1>2, <2>1, <2>2, PartsAreRenamed
<1>5. IsFiniteSet(WA)
  BY <1>3, FS_Subset DEF WithAttribute
<1>6. SubjectsOf(TA) = SubjectsOf(TB) /\ {f.value : f \in WA} = {f.value : f \in WB}
  <2> HIDE DEF WA, WB
  <2> QED BY <1>2, <1>4, RenamedSubjects
<1>7. ASSUME NEW s PROVE CountOf(TA, rule, s) = CountOf(TB, rule, s)
  <2> DEFINE CA == {f \in WA : f.entity = s}
             CB == {f \in WB : f.entity = s}
  <2> HIDE DEF WA, WB
  <2>1. \A f \in WA : w[f] \in WB /\ (f \in CA <=> w[f] \in CB)
    BY <1>4 DEF Renames, SameButForId, Bijection, Injection
  <2>2. CA \in SUBSET WA /\ CB \in SUBSET WB
    OBVIOUS
  <2>3. IsFiniteSet(CA)
    BY <1>5, <2>2, FS_Subset
  <2>4. Cardinality(CB) = Cardinality(CA)
    <3> HIDE DEF CA, CB
    <3>1. PICK k : Renames(k, CA, CB)
      BY <1>4, <2>1, <2>2, PartsAreRenamed
    <3> QED BY <2>3, <3>1, RenamedSizes
  <2> QED BY <2>4 DEF CountOf, WA, WB
<1>8. ASSUME NEW v PROVE Claimants(TA, rule, v) = Claimants(TB, rule, v)
  <2> DEFINE CA == {f \in WA : f.value = v}
             CB == {f \in WB : f.value = v}
  <2> HIDE DEF WA, WB
  <2>1. \A f \in WA : w[f] \in WB /\ (f \in CA <=> w[f] \in CB)
    BY <1>4 DEF Renames, SameButForId, Bijection, Injection
  <2>2. CA \in SUBSET WA /\ CB \in SUBSET WB
    OBVIOUS
  <2>3. SubjectsOf(CA) = SubjectsOf(CB)
    <3> HIDE DEF CA, CB
    <3>1. PICK k : Renames(k, CA, CB)
      BY <1>4, <2>1, <2>2, PartsAreRenamed
    <3> QED BY <3>1, RenamedSubjects
  <2> QED BY <2>3 DEF Claimants, WA, WB
<1>9. CASE rule.tag \in {"Required", "Cardinality"}
  <2> DEFINE S == SubjectsOf(TA)
  <2>1. Counted(TA, rule, S) = Counted(TB, rule, S)
    <3> HIDE DEF S
    <3>1. CASE rule.tag = "Required"
      <4>1. /\ Counted(TA, rule, S) = {Violation(rule, s, ValueMissing, CountOf(TA, rule, s)) :
                                       s \in {s \in S : CountOf(TA, rule, s) = 0}}
            /\ Counted(TB, rule, S) = {Violation(rule, s, ValueMissing, CountOf(TB, rule, s)) :
                                       s \in {s \in S : CountOf(TB, rule, s) = 0}}
        BY <3>1 DEF Counted
      <4> QED BY <1>7, <4>1
    <3>2. CASE rule.tag = "Cardinality"
      <4>1. /\ Counted(TA, rule, S) = {Violation(rule, s, ValueMissing, CountOf(TA, rule, s)) :
                                       s \in {s \in S : CountOf(TA, rule, s) > rule.max}}
            /\ Counted(TB, rule, S) = {Violation(rule, s, ValueMissing, CountOf(TB, rule, s)) :
                                       s \in {s \in S : CountOf(TB, rule, s) > rule.max}}
        BY <3>2 DEF Counted
      <4> QED BY <1>7, <4>1
    <3> QED BY <1>9, <3>1, <3>2
  <2>2. S = SubjectsOf(TB)
    BY <1>6
  <2> QED BY <1>9, <2>1, <2>2 DEF ViolationsOf, TA, TB
<1>10. CASE rule.tag = "Unique"
  BY <1>6, <1>8, <1>10 DEF ViolationsOf, Shared, TA, TB
<1>11. CASE rule.tag = "ReferenceTarget"
  <2> DEFINE live == SubjectsOf(OfType(A, rule.target))
             Broken(f) == ~(IsReference(f.value) /\ f.value[2] \in live)
  <2>1. live = SubjectsOf(OfType(B, rule.target))
    BY <1>1
  <2> HIDE DEF live
  <2>2. {Violation(rule, f.entity, f.value, 1) : f \in {f \in WA : Broken(f)}}
          = {Violation(rule, f.entity, f.value, 1) : f \in {f \in WB : Broken(f)}}
    <3> HIDE DEF WA, WB
    <3>1. \A f \in WA : w[f] \in WB /\ w[f].entity = f.entity /\ w[f].value = f.value
      BY <1>4 DEF Renames, SameButForId, Bijection, Injection
    <3>2. \A g \in WB : \E f \in WA : w[f] = g
      BY <1>4 DEF Renames, Bijection, Surjection
    <3> QED BY <3>1, <3>2
  <2>3. DanglingTargets(TA, A, rule) = DanglingTargets(TB, B, rule)
    BY <2>1, <2>2 DEF DanglingTargets, live
  <2> QED BY <1>11, <2>3 DEF ViolationsOf, TA, TB
<1> QED BY <1>9, <1>10, <1>11 DEF RuleTags

-----------------------------------------------------------------------------
(* The operations of a transaction, one after another. *)

LEMMA ProjectionsAre ==
  ASSUME NEW standing, NEW ops, Len(ops) \in Nat
  PROVE  /\ Projections(standing, ops)[0] = standing
         /\ \A n \in 1 .. Len(ops) :
              Projections(standing, ops)[n] = ProjectOne(Projections(standing, ops)[n - 1], ops[n], -n)
<1> DEFINE N == Len(ops)
           U == standing \cup {FactFrom(ops[i], -i) : i \in 1 .. N}
           Apply(s, n) == ProjectOne(s, ops[n], -n)
           Is(f) == f = [n \in 0 .. N |-> IF n = 0 THEN standing ELSE Apply(f[n - 1], n)]
           step == [i \in Nat |-> [s \in SUBSET U |-> IF i < N THEN Apply(s, i + 1) ELSE s]]
<1>1. step \in [Nat -> [SUBSET U -> SUBSET U]]
  <2>1. ASSUME NEW i \in Nat, i < N, NEW s \in SUBSET U PROVE Apply(s, i + 1) \in SUBSET U
    <3>1. FactFrom(ops[i + 1], -(i + 1)) \in U
      BY <2>1
    <3> HIDE DEF U
    <3> QED BY <3>1 DEF ProjectOne
  <2> HIDE DEF Apply, N, U
  <2> QED BY <2>1
<1>2. PICK f \in [Nat -> SUBSET U] : f[0] = standing /\ \A i \in Nat : f[i + 1] = step[i][f[i]]
  <2>1. standing \in SUBSET U
    OBVIOUS
  <2> HIDE DEF step, U
  <2>2. Iterations(SUBSET U, standing, step) # {}
    BY <1>1, <2>1, Iterates
  <2> QED BY <2>2 DEF Iterations
<1> HIDE DEF U
<1> DEFINE g == [n \in 0 .. N |-> f[n]]
<1>3. Is(g)
  <2>1. ASSUME NEW n \in 0 .. N PROVE f[n] = IF n = 0 THEN standing ELSE Apply(g[n - 1], n)
    <3>1. CASE n = 0
      BY <1>2, <3>1
    <3>2. CASE n # 0
      <4>1. n - 1 \in Nat /\ n - 1 < N /\ (n - 1) + 1 = n /\ n - 1 \in 0 .. N /\ f[n - 1] \in SUBSET U
        BY <3>2
      <4>2. f[n] = step[n - 1][f[n - 1]]
        BY <1>2, <4>1
      <4>3. step[n - 1][f[n - 1]] = Apply(f[n - 1], n)
        BY <4>1
      <4> QED BY <3>2, <4>1, <4>2, <4>3
    <3> QED BY <3>1, <3>2
  <2> HIDE DEF Apply, N
  <2> QED BY <2>1
<1>4. Is(Projections(standing, ops))
  <2> DEFINE p == CHOOSE h : Is(h)
  <2>1. Is(p)
    <3> HIDE DEF Is, g
    <3> QED BY <1>3
  <2>2. p = Projections(standing, ops)
    BY DEF Projections
  <2> HIDE DEF p, Is
  <2> QED BY <2>1, <2>2
<1> DEFINE p == Projections(standing, ops)
<1> HIDE DEF p
<1>5. p = [n \in 0 .. N |-> IF n = 0 THEN standing ELSE Apply(p[n - 1], n)]
  BY <1>4 DEF p
<1>6. p[0] = standing /\ \A n \in 1 .. N : p[n] = Apply(p[n - 1], n)
  <2>1. 0 \in 0 .. N /\ \A n \in 1 .. N : n \in 0 .. N /\ n # 0
    OBVIOUS
  <2> HIDE DEF Apply, N
  <2> QED BY <1>5, <2>1
<1> QED BY <1>6 DEF p

LEMMA CommitsAre ==
  ASSUME NEW facts, NEW ops, NEW first \in Nat, Len(ops) \in Nat
  PROVE  /\ Commits(facts, ops, first)[0] = facts
         /\ \A n \in 1 .. Len(ops) :
              Commits(facts, ops, first)[n] = CommitOne(Commits(facts, ops, first)[n - 1], ops[n], first + n)
<1> DEFINE N == Len(ops)
           U == facts \cup {FactFrom(ops[i], first + i) : i \in 1 .. N}
           Apply(s, n) == CommitOne(s, ops[n], first + n)
           Is(f) == f = [n \in 0 .. N |-> IF n = 0 THEN facts ELSE Apply(f[n - 1], n)]
           step == [i \in Nat |-> [s \in SUBSET U |-> IF i < N THEN Apply(s, i + 1) ELSE s]]
<1>1. step \in [Nat -> [SUBSET U -> SUBSET U]]
  <2>1. ASSUME NEW i \in Nat, i < N, NEW s \in SUBSET U PROVE Apply(s, i + 1) \in SUBSET U
    <3>1. FactFrom(ops[i + 1], first + (i + 1)) \in U
      BY <2>1
    <3> HIDE DEF U
    <3> QED BY <3>1 DEF CommitOne
  <2> HIDE DEF Apply, N, U
  <2> QED BY <2>1
<1>2. PICK f \in [Nat -> SUBSET U] : f[0] = facts /\ \A i \in Nat : f[i + 1] = step[i][f[i]]
  <2>1. facts \in SUBSET U
    OBVIOUS
  <2> HIDE DEF step, U
  <2>2. Iterations(SUBSET U, facts, step) # {}
    BY <1>1, <2>1, Iterates
  <2> QED BY <2>2 DEF Iterations
<1> HIDE DEF U
<1> DEFINE g == [n \in 0 .. N |-> f[n]]
<1>3. Is(g)
  <2>1. ASSUME NEW n \in 0 .. N PROVE f[n] = IF n = 0 THEN facts ELSE Apply(g[n - 1], n)
    <3>1. CASE n = 0
      BY <1>2, <3>1
    <3>2. CASE n # 0
      <4>1. n - 1 \in Nat /\ n - 1 < N /\ (n - 1) + 1 = n /\ n - 1 \in 0 .. N /\ f[n - 1] \in SUBSET U
        BY <3>2
      <4>2. f[n] = step[n - 1][f[n - 1]]
        BY <1>2, <4>1
      <4>3. step[n - 1][f[n - 1]] = Apply(f[n - 1], n)
        BY <4>1
      <4> QED BY <3>2, <4>1, <4>2, <4>3
    <3> QED BY <3>1, <3>2
  <2> HIDE DEF Apply, N
  <2> QED BY <2>1
<1>4. Is(Commits(facts, ops, first))
  <2> DEFINE p == CHOOSE h : Is(h)
  <2>1. Is(p)
    <3> HIDE DEF Is, g
    <3> QED BY <1>3
  <2>2. p = Commits(facts, ops, first)
    BY DEF Commits
  <2> HIDE DEF p, Is
  <2> QED BY <2>1, <2>2
<1> DEFINE p == Commits(facts, ops, first)
<1> HIDE DEF p
<1>5. p = [n \in 0 .. N |-> IF n = 0 THEN facts ELSE Apply(p[n - 1], n)]
  BY <1>4 DEF p
<1>6. p[0] = facts /\ \A n \in 1 .. N : p[n] = Apply(p[n - 1], n)
  <2>1. 0 \in 0 .. N /\ \A n \in 1 .. N : n \in 0 .. N /\ n # 0
    OBVIOUS
  <2> HIDE DEF Apply, N
  <2> QED BY <1>5, <2>1
<1> QED BY <1>6 DEF p

LEMMA FitsWhateverTheId ==
  ASSUME NEW o, NEW x, NEW y, NEW p, DOMAIN p \subseteq {"entity", "attribute", "value", "type"}
  PROVE  FitsPattern(FactFrom(o, x), p) <=> FitsPattern(FactFrom(o, y), p)
<1>1. ASSUME NEW field \in DOMAIN p PROVE FactFrom(o, x)[field] = FactFrom(o, y)[field]
  BY DEF FactFrom
<1> QED BY <1>1 DEF FitsPattern

LEMMA ScansFit ==
  ASSUME NEW now, NEW p
  PROVE  now \ {f \in Scanned(now, p) : "type" \in DOMAIN p => p.type = f.type}
           = {f \in now : ~FitsPattern(f, p)}
BY DEF Scanned, FitsPattern

\* What is left of the facts, and which assertions are: the same for the store and for
\* the projection of any part of its facts.
Pending(ops, K) == {FactFrom(ops[i], -i) : i \in K}
Written(ops, K, first) == {FactFrom(ops[i], first + i) : i \in K}

Leaves(L, G, ops, first, n, H, K) ==
  /\ \A i \in K : ops[i].op = "assert"
  /\ Projections(L, ops)[n] = (L \cap H) \cup Pending(ops, K)
  /\ Commits(G, ops, first)[n] = H \cup Written(ops, K, first)

\* Operations that a caller of transact can give when the ids up to first are known.
Operations(ops, first) ==
  /\ Len(ops) \in Nat /\ DOMAIN ops = 1 .. Len(ops)
  /\ \A i \in DOMAIN ops : IsOperation(ops[i]) /\ (ops[i].op = "retract" => ops[i].id <= first)

LEMMA OneOperation ==
  ASSUME NEW first \in Nat, NEW ops, Operations(ops, first), NEW G, NEW L \in SUBSET G,
         NEW n \in 1 .. Len(ops),
         NEW H \in SUBSET G, NEW K \in SUBSET (1 .. n - 1), Leaves(L, G, ops, first, n - 1, H, K)
  PROVE  \E J \in SUBSET G, M \in SUBSET (1 .. n) : Leaves(L, G, ops, first, n, J, M)
<1> DEFINE o == ops[n]
           P == Projections(L, ops)[n - 1]
           C == Commits(G, ops, first)[n - 1]
<1>1. Len(ops) \in Nat /\ IsOperation(o) /\ (o.op = "retract" => o.id <= first)
  BY DEF Operations
<1>2. /\ Projections(L, ops)[n] = ProjectOne(P, o, -n)
      /\ Commits(G, ops, first)[n] = CommitOne(C, o, first + n)
  BY <1>1, ProjectionsAre, CommitsAre
<1>3. /\ P = (L \cap H) \cup Pending(ops, K) /\ C = H \cup Written(ops, K, first)
      /\ \A i \in K : ops[i].op = "assert"
  BY DEF Leaves
<1> HIDE DEF P, C
<1>4. \A i \in K : i \in 1 .. n /\ i \in Int
  BY <1>1
<1>5. CASE o.op = "assert"
  <2> DEFINE M == K \cup {n}
  <2>1. M \in SUBSET (1 .. n) /\ \A i \in M : ops[i].op = "assert"
    BY <1>1, <1>3, <1>4, <1>5
  <2>2. Pending(ops, M) = Pending(ops, K) \cup {FactFrom(o, -n)}
    BY DEF Pending
  <2>3. Written(ops, M, first) = Written(ops, K, first) \cup {FactFrom(o, first + n)}
    BY DEF Written
  <2>4. /\ ProjectOne(P, o, -n) = (L \cap H) \cup Pending(ops, M)
        /\ CommitOne(C, o, first + n) = H \cup Written(ops, M, first)
    BY <1>3, <1>5, <2>2, <2>3 DEF ProjectOne, CommitOne
  <2>5. Leaves(L, G, ops, first, n, H, M)
    BY <1>2, <2>1, <2>4 DEF Leaves
  <2> HIDE DEF M
  <2> QED BY <2>1, <2>5
<1>6. CASE o.op = "retract"
  <2> DEFINE J == {f \in H : f.id # o.id}
  <2>1. o.id \in Nat /\ o.id <= first
    BY <1>1, <1>6 DEF IsOperation
  <2>2. \A i \in K : FactFrom(ops[i], -i).id # o.id /\ FactFrom(ops[i], first + i).id # o.id
    BY <1>1, <2>1 DEF FactFrom
  <2>3. /\ {f \in P : f.id # o.id} = (L \cap J) \cup Pending(ops, K)
        /\ {f \in C : f.id # o.id} = J \cup Written(ops, K, first)
    BY <1>3, <2>2 DEF Pending, Written
  <2>4. ProjectOne(P, o, -n) = {f \in P : f.id # o.id} /\ CommitOne(C, o, first + n) = {f \in C : f.id # o.id}
    BY <1>6 DEF ProjectOne, CommitOne
  <2>5. Leaves(L, G, ops, first, n, J, K)
    BY <1>2, <1>3, <2>3, <2>4 DEF Leaves
  <2>6. J \in SUBSET G /\ K \in SUBSET (1 .. n)
    BY <1>4
  <2> HIDE DEF J
  <2> QED BY <2>5, <2>6
<1>7. CASE o.op = "retract-pattern"
  <2> DEFINE p == o.pattern
             J == {f \in H : ~FitsPattern(f, p)}
             M == {i \in K : ~FitsPattern(FactFrom(ops[i], 0), p)}
  <2>1. DOMAIN p \subseteq {"entity", "attribute", "value", "type"}
    BY <1>1, <1>7 DEF IsOperation
  <2>2. \A i \in K : /\ FitsPattern(FactFrom(ops[i], -i), p) <=> FitsPattern(FactFrom(ops[i], 0), p)
                     /\ FitsPattern(FactFrom(ops[i], first + i), p) <=> FitsPattern(FactFrom(ops[i], 0), p)
    <3> HIDE DEF p
    <3> QED BY <2>1, FitsWhateverTheId
  <2> HIDE DEF p
  <2>3. /\ {f \in P : ~FitsPattern(f, p)} = (L \cap J) \cup Pending(ops, M)
        /\ {f \in C : ~FitsPattern(f, p)} = J \cup Written(ops, M, first)
    BY <1>3, <2>2 DEF Pending, Written
  <2>4. /\ ProjectOne(P, o, -n) = {f \in P : ~FitsPattern(f, p)}
        /\ CommitOne(C, o, first + n) = {f \in C : ~FitsPattern(f, p)}
    BY <1>7, ScansFit DEF ProjectOne, CommitOne, p
  <2>5. Leaves(L, G, ops, first, n, J, M)
    BY <1>2, <1>3, <2>3, <2>4 DEF Leaves
  <2>6. J \in SUBSET G /\ M \in SUBSET (1 .. n)
    BY <1>4
  <2> HIDE DEF J, M
  <2> QED BY <2>5, <2>6
<1> QED BY <1>1, <1>5, <1>6, <1>7 DEF IsOperation

LEMMA AllOperations ==
  ASSUME NEW first \in Nat, NEW ops, Operations(ops, first), NEW G, NEW L \in SUBSET G
  PROVE  \E H \in SUBSET G, K \in SUBSET (1 .. Len(ops)) : Leaves(L, G, ops, first, Len(ops), H, K)
<1> DEFINE S == {n \in Nat : n <= Len(ops) =>
                   \E H \in SUBSET G, K \in SUBSET (1 .. n) : Leaves(L, G, ops, first, n, H, K)}
<1>1. Len(ops) \in Nat
  BY DEF Operations
<1>2. 0 \in S
  <2>1. Projections(L, ops)[0] = L /\ Commits(G, ops, first)[0] = G
    BY <1>1, ProjectionsAre, CommitsAre
  <2>2. Leaves(L, G, ops, first, 0, G, {})
    BY <2>1 DEF Leaves, Pending, Written
  <2> QED BY <2>2
<1>3. ASSUME NEW n \in Nat, n \in S PROVE n + 1 \in S
  <2> SUFFICES ASSUME n + 1 <= Len(ops)
               PROVE  \E H \in SUBSET G, K \in SUBSET (1 .. n + 1) : Leaves(L, G, ops, first, n + 1, H, K)
    OBVIOUS
  <2>1. n + 1 \in 1 .. Len(ops) /\ (n + 1) - 1 = n
    BY <1>1
  <2>2. PICK H \in SUBSET G, K \in SUBSET (1 .. n) : Leaves(L, G, ops, first, n, H, K)
    BY <1>1, <1>3
  <2>3. PICK k \in 1 .. Len(ops) : k = n + 1 /\ k - 1 = n
    BY <2>1
  <2>4. K \in SUBSET (1 .. k - 1) /\ Leaves(L, G, ops, first, k - 1, H, K)
    BY <2>2, <2>3
  <2>5. \E J \in SUBSET G, M \in SUBSET (1 .. k) : Leaves(L, G, ops, first, k, J, M)
    BY <2>4, OneOperation
  <2> QED BY <2>3, <2>5
<1>4. Len(ops) \in S
  <2> HIDE DEF S
  <2> QED BY <1>1, <1>2, <1>3, AllNaturals
<1> QED BY <1>1, <1>4
-----------------------------------------------------------------------------
(* The facts that are loaded, projected, tell what all facts would.        *)

Loaded(G, ops, rules) == LoadRelevantFacts(G, rules, ops)

LEMMA LoadedFacts ==
  ASSUME NEW G, NEW ops, NEW rules
  PROVE  /\ Loaded(G, ops, rules) \subseteq G
         /\ \A rule \in rules :
              /\ \A f \in G : f.type = rule.type => f \in Loaded(G, ops, rules)
              /\ \A f, g \in G : f.type = rule.type /\ g.entity = f.entity => g \in Loaded(G, ops, rules)
              /\ \A i \in DOMAIN ops, g \in G :
                   ops[i].op = "assert" /\ ops[i].type = rule.type /\ g.entity = ops[i].entity
                     => g \in Loaded(G, ops, rules)
              /\ rule.tag = "ReferenceTarget" =>
                   \A f \in G : f.type = rule.target => f \in Loaded(G, ops, rules)
<1> DEFINE types == {r.type : r \in rules}
           targetTypes == {r.target : r \in {r \in rules : r.tag = "ReferenceTarget"}}
           typed == {f \in G : f.type \in types}
           asserted == {o \in {ops[i] : i \in DOMAIN ops} : o.op = "assert" /\ o.type \in types}
           sources == SubjectsOf(typed) \cup SubjectsOf(asserted)
<1>1. Loaded(G, ops, rules) = typed \cup OfEntities(G, sources) \cup {f \in G : f.type \in targetTypes}
  BY DEF Loaded, LoadRelevantFacts
<1>2. OfEntities(G, sources) = {f \in G : f.entity \in sources}
  BY DEF OfEntities
<1>3. \A rule \in rules : rule.type \in types /\ (rule.tag = "ReferenceTarget" => rule.target \in targetTypes)
  OBVIOUS
<1>4. \A f \in typed : f.entity \in sources
  BY DEF SubjectsOf
<1>5. \A i \in DOMAIN ops : ops[i].op = "assert" /\ ops[i].type \in types => ops[i].entity \in sources
  BY DEF SubjectsOf
<1> HIDE DEF sources, targetTypes, types, asserted
<1> QED BY <1>1, <1>2, <1>3, <1>4, <1>5

\* What a transaction finds: a graph of known facts, operations on it, and rules.
Finds(G, ops, first, rules) ==
  /\ first \in Nat /\ Operations(ops, first)
  /\ IsFiniteSet(G) /\ \A f \in G : f.id \in 1 .. first
  /\ \A rule \in rules : rule.tag \in RuleTags

\* Part of the graph and some of the assertions.
Remains(G, ops, H, K) ==
  H \in SUBSET G /\ K \in SUBSET (1 .. Len(ops)) /\ \A i \in K : ops[i].op = "assert"

LEMMA LoadedTellAll ==
  ASSUME NEW first, NEW ops, NEW G, NEW rules, Finds(G, ops, first, rules), NEW t,
         NEW H, NEW K, Remains(G, ops, H, K)
  PROVE  EvaluateFacts((Loaded(G, ops, rules) \cap H) \cup Pending(ops, K), rules, t)
           = EvaluateFacts(H \cup Written(ops, K, first), rules, t)
<1> DEFINE L == Loaded(G, ops, rules)
           PA == Pending(ops, K)
           WA == Written(ops, K, first)
           A == AtInstant((L \cap H) \cup PA, t)
           R == AtInstant((L \cap H) \cup WA, t)
           V == AtInstant(H \cup WA, t)
<1>1. Len(ops) \in Nat /\ DOMAIN ops = 1 .. Len(ops) /\ \A i \in K : i \in Int /\ i >= 1 /\ i \in DOMAIN ops
  <2>1. Len(ops) \in Nat /\ DOMAIN ops = 1 .. Len(ops)
    BY DEF Finds, Operations
  <2>2. \A i \in K : i \in 1 .. Len(ops)
    BY DEF Remains
  <2> QED BY <2>1, <2>2
<1>f. /\ first \in Nat /\ IsFiniteSet(G) /\ \A f \in G : f.id \in 1 .. first
      /\ \A rule \in rules : rule.tag \in RuleTags
  BY DEF Finds
<1>a. H \in SUBSET G /\ K \in SUBSET (1 .. Len(ops)) /\ \A i \in K : ops[i].op = "assert"
  BY DEF Remains
<1>2. \A i \in K : LiveAt(FactFrom(ops[i], -i), t) <=> LiveAt(FactFrom(ops[i], first + i), t)
  BY DEF LiveAt, FactFrom
<1>3. IsFiniteSet(A)
  <2>1. IsFiniteSet(L \cap H)
    <3>1. L \cap H \in SUBSET G
      BY <1>a
    <3> QED BY <1>f, <3>1, FS_Subset
  <2>2. IsFiniteSet(K)
    <3>1. IsFiniteSet(1 .. Len(ops))
      BY <1>1, FS_Interval
    <3> QED BY <1>a, <3>1, FS_Subset
  <2>3. IsFiniteSet(PA)
    <3> DEFINE pend == [i \in K |-> FactFrom(ops[i], -i)]
    <3>1. pend \in Surjection(K, PA)
      BY DEF Pending, Surjection
    <3> HIDE DEF pend
    <3> QED BY <2>2, <3>1, FS_Surjection
  <2>4. IsFiniteSet((L \cap H) \cup PA)
    BY <2>1, <2>3, FS_Union
  <2> QED BY <2>4, FS_Subset DEF AtInstant
<1>4. PICK m : Renames(m, A, R)
  <2> DEFINE m == [f \in A |-> IF f \in H THEN f ELSE FactFrom(ops[-f.id], first - f.id)]
  <2>1. ASSUME NEW i \in K
        PROVE  /\ FactFrom(ops[i], -i).id = -i /\ FactFrom(ops[i], first + i).id = first + i
               /\ FactFrom(ops[i], -i) \notin H /\ FactFrom(ops[i], first + i) \notin H
               /\ SameButForId(FactFrom(ops[i], -i), FactFrom(ops[i], first + i))
    <3>1. FactFrom(ops[i], -i).id = -i /\ FactFrom(ops[i], first + i).id = first + i
      BY DEF FactFrom
    <3>2. \A f \in H : f.id \in 1 .. first
      BY <1>a, <1>f
    <3>3. -i \notin 1 .. first /\ first + i \notin 1 .. first
      BY <1>1, <1>f
    <3>4. SameButForId(FactFrom(ops[i], -i), FactFrom(ops[i], first + i))
      BY DEF FactFrom, SameButForId
    <3> QED BY <3>1, <3>2, <3>3, <3>4
  <2>2. ASSUME NEW i \in K PROVE -(-i) = i /\ first - (-i) = first + i
    BY <1>1, <1>f
  <2>3. ASSUME NEW f \in A
        PROVE  \/ f \in H /\ f \in L /\ m[f] = f
               \/ \E i \in K : f = FactFrom(ops[i], -i) /\ m[f] = FactFrom(ops[i], first + i)
    <3>1. CASE f \in H
      <4>1. f \notin PA
        BY <2>1, <3>1 DEF Pending
      <4> QED BY <3>1, <4>1 DEF AtInstant
    <3>2. CASE f \notin H
      <4>1. PICK i \in K : f = FactFrom(ops[i], -i)
        BY <3>2 DEF AtInstant, Pending
      <4>2. m[f] = FactFrom(ops[-f.id], first - f.id) /\ f.id = -i
        BY <2>1, <3>2, <4>1
      <4>3. -f.id = i /\ first - f.id = first + i
        BY <2>2, <4>2
      <4> QED BY <4>1, <4>2, <4>3
    <3> QED BY <3>1, <3>2
  <2>4. \A f \in A : m[f] \in R /\ SameButForId(f, m[f])
    <3> TAKE f \in A
    <3> HIDE DEF m
    <3>1. CASE f \in H /\ f \in L /\ m[f] = f
      BY <3>1 DEF AtInstant, SameButForId
    <3>2. ASSUME NEW i \in K, f = FactFrom(ops[i], -i), m[f] = FactFrom(ops[i], first + i)
          PROVE  m[f] \in R /\ SameButForId(f, m[f])
      <4>1. FactFrom(ops[i], first + i) \in WA
        BY DEF Written
      <4>2. LiveAt(f, t)
        BY DEF AtInstant
      <4> QED BY <1>2, <2>1, <3>2, <4>1, <4>2 DEF AtInstant
    <3> QED BY <2>3, <3>1, <3>2
  <2>5. \A f, g \in A : m[f] = m[g] => f = g
    <3> TAKE f, g \in A
    <3> HAVE m[f] = m[g]
    <3> HIDE DEF m
    <3>1. CASE f \in H /\ m[f] = f /\ g \in H /\ m[g] = g
      BY <3>1
    <3>2. ASSUME NEW i \in K, f = FactFrom(ops[i], -i), m[f] = FactFrom(ops[i], first + i),
                 NEW j \in K, g = FactFrom(ops[j], -j), m[g] = FactFrom(ops[j], first + j)
          PROVE  f = g
      <4>1. first + i = first + j
        BY <2>1, <3>2
      <4>2. i = j
        BY <1>1, <1>f, <4>1
      <4> QED BY <3>2, <4>2
    <3>3. ASSUME NEW h \in H, NEW j \in K, h = FactFrom(ops[j], first + j) PROVE FALSE
      BY <2>1, <3>3
    <3>4. (f \in H /\ m[f] = f) \/ \E i \in K : f = FactFrom(ops[i], -i) /\ m[f] = FactFrom(ops[i], first + i)
      BY <2>3
    <3>5. (g \in H /\ m[g] = g) \/ \E i \in K : g = FactFrom(ops[i], -i) /\ m[g] = FactFrom(ops[i], first + i)
      BY <2>3
    <3> HIDE DEF A
    <3>6. CASE f \in H /\ m[f] = f
      BY <3>1, <3>3, <3>5, <3>6
    <3>7. CASE g \in H /\ m[g] = g
      BY <3>1, <3>3, <3>4, <3>7
    <3> QED BY <3>2, <3>4, <3>5, <3>6, <3>7
  <2>6. \A g \in R : \E f \in A : m[f] = g
    <3> TAKE g \in R
    <3>1. CASE g \in H
      <4>1. g \notin WA
        BY <2>1, <3>1 DEF Written
      <4>2. g \in A
        BY <3>1, <4>1 DEF AtInstant
      <4> QED BY <3>1, <4>2
    <3>2. CASE g \notin H
      <4>1. PICK i \in K : g = FactFrom(ops[i], first + i)
        BY <3>2 DEF AtInstant, Written
      <4>2. LiveAt(g, t)
        BY DEF AtInstant
      <4>3. FactFrom(ops[i], -i) \in A
        BY <1>2, <4>1, <4>2 DEF AtInstant, Pending
      <4>4. m[FactFrom(ops[i], -i)] = FactFrom(ops[i], first + i)
        BY <2>1, <2>2, <4>3
      <4> QED BY <4>1, <4>3, <4>4
    <3> QED BY <3>1, <3>2
  <2>7. m \in [A -> R]
    BY <2>4
  <2> HIDE DEF m, A, R
  <2>8. m \in Bijection(A, R)
    BY <2>5, <2>6, <2>7 DEF Bijection, Injection, Surjection, IsInjective
  <2> QED BY <2>4, <2>8 DEF Renames
<1>5. ASSUME NEW rule \in rules PROVE ViolationsOf(A, rule) = ViolationsOf(R, rule)
  <2> HIDE DEF A, R
  <2> QED BY <1>3, <1>4, <1>f, RenamedViolations
<1>6. ASSUME NEW rule \in rules PROVE ViolationsOf(R, rule) = ViolationsOf(V, rule)
  <2>1. \A f \in V : LiveAt(f, t) /\ (f \in H \/ f \in WA)
    BY DEF AtInstant
  <2>2. \A f \in V : f \in WA \/ f \in L => f \in R
    BY <2>1 DEF AtInstant
  <2>3. \A f \in WA : \E i \in DOMAIN ops :
          ops[i].op = "assert" /\ f.type = ops[i].type /\ f.entity = ops[i].entity
    BY <1>1, <1>a DEF Written, FactFrom
  <2>4. \A f \in V : f.type = rule.type => f \in R /\ \A g \in V : g.entity = f.entity => g \in R
    <3> SUFFICES ASSUME NEW f \in V, f.type = rule.type PROVE f \in R /\ \A g \in V : g.entity = f.entity => g \in R
      OBVIOUS
    <3> HIDE DEF L, R, V, WA
    <3>1. f \in R
      BY <2>1, <2>2, <1>a, LoadedFacts DEF L
    <3>2. ASSUME NEW g \in V, g.entity = f.entity, g \in H PROVE g \in L
      <4>1. CASE f \in H
        BY <3>2, <4>1, <1>a, LoadedFacts DEF L
      <4>2. CASE f \in WA
        <5>1. PICK i \in DOMAIN ops : ops[i].op = "assert" /\ f.type = ops[i].type /\ f.entity = ops[i].entity
          BY <2>3, <4>2
        <5> QED BY <3>2, <5>1, <1>a, LoadedFacts DEF L
      <4> QED BY <2>1, <4>1, <4>2
    <3> QED BY <2>1, <2>2, <3>1, <3>2
  <2>5. rule.tag = "ReferenceTarget" => \A f \in V : f.type = rule.target => f \in R
    <3> HIDE DEF L, R, V, WA
    <3> QED BY <2>1, <2>2, <1>a, LoadedFacts DEF L
  <2>6. R \in SUBSET V
    BY <1>a DEF AtInstant
  <2> HIDE DEF R, V
  <2> QED BY <1>f, <2>4, <2>5, <2>6, OnlyRelevantFactsCount
<1> HIDE DEF A, R, V
<1>7. \A rule \in rules : ViolationsOf(A, rule) = ViolationsOf(V, rule)
  BY <1>5, <1>6
<1> QED BY <1>7 DEF EvaluateFacts, A, V

\* Enforcement compares what it has loaded with its projection; it might as well compare
\* the whole graph before with the whole graph after.
LEMMA LoadedIsEnough ==
  ASSUME NEW first, NEW ops, NEW G, NEW rules, Finds(G, ops, first, rules), NEW t
  PROVE  LET L == Loaded(G, ops, rules) IN
         /\ EvaluateFacts(L, rules, t) = EvaluateFacts(G, rules, t)
         /\ EvaluateFacts(Project(L, ops), rules, t) = EvaluateFacts(AfterOperations(G, ops, first), rules, t)
<1> DEFINE L == Loaded(G, ops, rules)
<1>1. L \in SUBSET G
  BY LoadedFacts
<1>2. EvaluateFacts(L, rules, t) = EvaluateFacts(G, rules, t)
  <2>1. (L \cap G) \cup Pending(ops, {}) = L /\ G \cup Written(ops, {}, first) = G
    BY <1>1 DEF Pending, Written
  <2>2. EvaluateFacts((L \cap G) \cup Pending(ops, {}), rules, t)
          = EvaluateFacts(G \cup Written(ops, {}, first), rules, t)
    <3>1. Remains(G, ops, G, {})
      BY DEF Remains
    <3> QED BY <3>1, LoadedTellAll
  <2> HIDE DEF L
  <2> QED BY <2>1, <2>2
<1>3. PICK H \in SUBSET G, K \in SUBSET (1 .. Len(ops)) : Leaves(L, G, ops, first, Len(ops), H, K)
  <2> HIDE DEF L
  <2> QED BY <1>1, AllOperations DEF Finds
<1>4. /\ Project(L, ops) = (L \cap H) \cup Pending(ops, K)
      /\ AfterOperations(G, ops, first) = H \cup Written(ops, K, first)
      /\ Remains(G, ops, H, K)
  BY <1>3 DEF Leaves, Project, AfterOperations, Remains
<1>5. EvaluateFacts((L \cap H) \cup Pending(ops, K), rules, t)
        = EvaluateFacts(H \cup Written(ops, K, first), rules, t)
  <2>1. EvaluateFacts((Loaded(G, ops, rules) \cap H) \cup Pending(ops, K), rules, t)
          = EvaluateFacts(H \cup Written(ops, K, first), rules, t)
    BY <1>4, LoadedTellAll
  <2> QED BY <2>1
<1> HIDE DEF L
<1>6. EvaluateFacts(Project(L, ops), rules, t) = EvaluateFacts(AfterOperations(G, ops, first), rules, t)
  BY <1>4, <1>5
<1> QED BY <1>2, <1>6 DEF L

-----------------------------------------------------------------------------
(* Between two boundaries nothing changes.                                 *)

WellTimed(facts) == \A f \in facts : f.validFrom \in Instant /\ f.validTo \in Instant \cup {Endless}

LEMMA SomeBoundaryShowsIt ==
  ASSUME NEW F, WellTimed(F), NEW t \in Instant, AtInstant(F, t) # {}
  PROVE  \E b \in Boundaries(F) : \A f \in F : LiveAt(f, b) <=> LiveAt(f, t)
<1> DEFINE S == {x \in Boundaries(F) : x <= t}
<1>1. Instant \subseteq 0 .. 98 /\ t \in 0 .. 98 /\ Boundaries(F) \subseteq Instant
  <2>1. Instant \subseteq 0 .. 98
    BY ConstraintsAssumption DEF ConstraintsAssumption, Endless
  <2>2. Boundaries(F) \subseteq Instant
    BY DEF WellTimed, Boundaries
  <2> QED BY <2>1, <2>2
<1>2. S \in SUBSET (0 .. t)
  <2>1. ASSUME NEW x \in S PROVE x \in 0 .. t
    <3>1. x \in 0 .. 98 /\ x <= t
      BY <1>1
    <3> QED BY <1>1, <3>1
  <2> QED BY <2>1
<1>3. S # {}
  <2>1. PICK f \in F : LiveAt(f, t)
    BY DEF AtInstant
  <2>2. f.validFrom \in S
    BY <2>1 DEF LiveAt, Boundaries
  <2> QED BY <2>2
<1>4. PICK b \in S : \A x \in S : x <= b
  <2> HIDE DEF S
  <2>1. t \in Nat
    BY <1>1
  <2> QED BY <1>2, <1>3, <2>1, GreatestOf
<1>5. ASSUME NEW f \in F PROVE LiveAt(f, b) <=> LiveAt(f, t)
  <2>1. f.validFrom \in 0 .. 98 /\ f.validTo \in 0 .. 99 /\ b \in 0 .. 98 /\ b <= t
    <3>1. f.validFrom \in Instant /\ (f.validTo \in Instant \/ f.validTo = 99) /\ b \in Instant
      BY <1>1 DEF WellTimed, Endless
    <3>2. b \in 0 .. t
      BY <1>2
    <3>3. f.validFrom \in 0 .. 98 /\ b \in 0 .. 98 /\ b <= t
      BY <1>1, <3>1, <3>2
    <3>4. f.validTo \in 0 .. 99
      <4>1. CASE f.validTo \in Instant
        <5>1. f.validTo \in 0 .. 98
          BY <1>1, <4>1
        <5> QED BY <5>1
      <4>2. CASE f.validTo = 99
        BY <4>2
      <4> QED BY <3>1, <4>1, <4>2
    <3> QED BY <3>3, <3>4
  <2>2. f.validFrom <= t => f.validFrom <= b
    BY <1>4 DEF Boundaries
  <2>3. f.validTo # 99 /\ f.validTo <= t => f.validTo <= b
    BY <1>4 DEF Boundaries, Endless
  <2> QED BY <1>1, <2>1, <2>2, <2>3 DEF LiveAt
<1> QED BY <1>5

\* Whatever is violated at an instant is violated at a boundary.
LEMMA BoundariesSuffice ==
  ASSUME NEW standing, NEW projected, WellTimed(standing), WellTimed(projected),
         NEW rules, \A rule \in rules : rule.tag \in RuleTags,
         NEW t \in Instant, EvaluateFacts(projected, rules, t) # {}
  PROVE  \E b \in Boundaries(standing \cup projected) :
           /\ EvaluateFacts(standing, rules, b) = EvaluateFacts(standing, rules, t)
           /\ EvaluateFacts(projected, rules, b) = EvaluateFacts(projected, rules, t)
<1> DEFINE F == standing \cup projected
<1>1. AtInstant(F, t) # {}
  <2> SUFFICES ASSUME AtInstant(F, t) = {} PROVE FALSE
    OBVIOUS
  <2>1. AtInstant(projected, t) = {}
    BY DEF AtInstant
  <2>2. EvaluateFacts(projected, rules, t) = {}
    BY <2>1, NothingViolatesNothing DEF EvaluateFacts
  <2> QED BY <2>2
<1>2. WellTimed(F)
  BY DEF WellTimed
<1>3. PICK b \in Boundaries(F) : \A f \in F : LiveAt(f, b) <=> LiveAt(f, t)
  <2> HIDE DEF F
  <2> QED BY <1>1, <1>2, SomeBoundaryShowsIt
<1>4. AtInstant(standing, b) = AtInstant(standing, t) /\ AtInstant(projected, b) = AtInstant(projected, t)
  BY <1>3 DEF AtInstant
<1> QED BY <1>4 DEF EvaluateFacts

-----------------------------------------------------------------------------
(* The evaluation at a basis.                                              *)

LEMMA SameSubjectsReported ==
  ASSUME NEW V, NEW rule, rule.tag \in RuleTags
  PROVE  {<<v.rule, v.subject>> : v \in ViolationsOf(V, rule)} = {<<rule, s>> : s \in ReportedSubjects(V, rule)}
<1> DEFINE T == TypedFacts(V, rule)
           subjects == SubjectsOf(OfType(V, rule.type))
           W == WithAttribute(T, rule)
<1>v. \A s, x, n : Violation(rule, s, x, n).rule = rule /\ Violation(rule, s, x, n).subject = s
  BY DEF Violation
<1>1. T = OfEntities(V, subjects) /\ SubjectsOf(T) = subjects
  BY DEF TypedFacts, OfEntities, SubjectsOf, OfType
<1>2. CASE rule.tag = "Required"
  <2>1. ViolationsOf(V, rule) = {Violation(rule, s, ValueMissing, CountOf(T, rule, s)) :
                                   s \in {s \in subjects : CountOf(T, rule, s) = 0}}
    BY <1>1, <1>2 DEF ViolationsOf, Counted
  <2>2. ReportedSubjects(V, rule) = {s \in subjects : CountOf(T, rule, s) = 0}
    BY <1>1, <1>2 DEF ReportedSubjects
  <2> HIDE DEF T, subjects
  <2> QED BY <1>v, <2>1, <2>2
<1>3. CASE rule.tag = "Cardinality"
  <2>1. ViolationsOf(V, rule) = {Violation(rule, s, ValueMissing, CountOf(T, rule, s)) :
                                   s \in {s \in subjects : CountOf(T, rule, s) > rule.max}}
    BY <1>1, <1>3 DEF ViolationsOf, Counted
  <2>2. ReportedSubjects(V, rule) = {s \in subjects : CountOf(T, rule, s) > rule.max}
    BY <1>1, <1>3 DEF ReportedSubjects
  <2> HIDE DEF T, subjects
  <2> QED BY <1>v, <2>1, <2>2
<1>4. CASE rule.tag = "Unique"
  <2> DEFINE values == {f.value : f \in W}
             all == {f.value : f \in T}
             Many(v) == Cardinality(Claimants(T, rule, v)) > 1
             pairs == {sv \in SubjectsOf(T) \X values : sv[1] \in Claimants(T, rule, sv[2]) /\ Many(sv[2])}
  <2>1. ViolationsOf(V, rule) = {Violation(rule, sv[1], sv[2], Cardinality(Claimants(T, rule, sv[2]))) : sv \in pairs}
    BY <1>4 DEF ViolationsOf, Shared
  <2>2. ReportedSubjects(V, rule) = UNION {Claimants(T, rule, v) : v \in {v \in all : Many(v)}}
    BY <1>1, <1>4 DEF ReportedSubjects
  <2>3. \A v : \A s \in Claimants(T, rule, v) : s \in SubjectsOf(T) /\ v \in values /\ v \in all
    BY DEF Claimants, SubjectsOf, WithAttribute
  <2> HIDE DEF T, W, values, all, Many
  <2>4. \A sv \in pairs : sv[1] \in ReportedSubjects(V, rule)
    BY <2>2, <2>3
  <2>5. \A s \in ReportedSubjects(V, rule) : \E sv \in pairs : sv[1] = s
    <3> TAKE s \in ReportedSubjects(V, rule)
    <3>1. PICK v \in all : Many(v) /\ s \in Claimants(T, rule, v)
      BY <2>2
    <3>2. <<s, v>> \in pairs
      BY <2>3, <3>1
    <3> QED BY <3>2
  <2> HIDE DEF pairs
  <2> QED BY <1>v, <2>1, <2>4, <2>5
<1>5. CASE rule.tag = "ReferenceTarget"
  <2> DEFINE targetTypes == {f.value[2] : f \in {f \in W : IsReference(f.value)}}
             live == SubjectsOf(OfType(V, rule.target))
             validTargets == {e \in targetTypes : \E f \in V : f.entity = e /\ f.type = rule.target}
             broken == {f \in W : ~(IsReference(f.value) /\ f.value[2] \in live)}
             wrong == {f \in W : IsReference(f.value) => f.value[2] \notin validTargets}
  <2>1. ViolationsOf(V, rule) = {Violation(rule, f.entity, f.value, 1) : f \in broken}
    BY <1>5 DEF ViolationsOf, DanglingTargets
  <2>2. ReportedSubjects(V, rule) = SubjectsOf(wrong)
    BY <1>1, <1>5 DEF ReportedSubjects
  <2>3. broken = wrong
    <3>1. \A e : e \in live <=> \E f \in V : f.entity = e /\ f.type = rule.target
      BY DEF SubjectsOf, OfType
    <3> HIDE DEF live, W
    <3> QED BY <3>1
  <2> HIDE DEF broken, wrong
  <2> QED BY <1>v, <2>1, <2>2, <2>3 DEF SubjectsOf
<1> QED BY <1>2, <1>3, <1>4, <1>5 DEF RuleTags
-----------------------------------------------------------------------------
(* The graph is finite, its ids are known and its intervals are bounded by *)
(* the instants looked at.                                                 *)

GraphInv ==
  /\ nextFactId \in Nat /\ IsFiniteSet(graph)
  /\ \A f \in graph : f.id \in 1 .. nextFactId
  /\ WellTimed(graph)

ConstraintsInv == GraphInv /\ EnforcementIsExact

LEMMA WrittenFacts ==
  ASSUME NEW G, NEW ops, NEW first \in Nat, Operations(ops, first),
         NEW H, NEW K, Remains(G, ops, H, K)
  PROVE  /\ IsFiniteSet(Written(ops, K, first))
         /\ WellTimed(Written(ops, K, first)) /\ WellTimed(Pending(ops, K))
         /\ \A f \in Written(ops, K, first) : f.id \in 1 .. first + Len(ops)
<1>1. Len(ops) \in Nat /\ K \in SUBSET (1 .. Len(ops))
  BY DEF Operations, Remains
<1>2. \A i \in K : i \in 1 .. Len(ops) /\ ops[i].validFrom \in Instant /\ ops[i].validTo \in Instant \cup {Endless}
  BY <1>1 DEF Operations, Remains, IsOperation
<1>3. IsFiniteSet(Written(ops, K, first))
  <2> DEFINE write == [i \in K |-> FactFrom(ops[i], first + i)]
  <2>1. IsFiniteSet(1 .. Len(ops))
    BY <1>1, FS_Interval
  <2>2. IsFiniteSet(K)
    BY <1>1, <2>1, FS_Subset
  <2>3. write \in Surjection(K, Written(ops, K, first))
    BY DEF Written, Surjection
  <2> HIDE DEF write
  <2> QED BY <2>2, <2>3, FS_Surjection
<1>4. WellTimed(Written(ops, K, first)) /\ WellTimed(Pending(ops, K))
  <2>1. ASSUME NEW i \in K, NEW x
        PROVE  FactFrom(ops[i], x).validFrom \in Instant /\ FactFrom(ops[i], x).validTo \in Instant \cup {Endless}
    BY <1>2 DEF FactFrom
  <2> QED BY <2>1 DEF WellTimed, Written, Pending
<1>5. ASSUME NEW f \in Written(ops, K, first) PROVE f.id \in 1 .. first + Len(ops)
  <2>1. PICK i \in K : f = FactFrom(ops[i], first + i)
    BY DEF Written
  <2>2. f.id = first + i /\ i \in 1 .. Len(ops)
    BY <1>2, <2>1 DEF FactFrom
  <2> QED BY <1>1, <2>2
<1> QED BY <1>3, <1>4, <1>5

LEMMA EnforcingKeepsTheGraph ==
  ASSUME GraphInv, NEW ops, Operations(ops, nextFactId)
  PROVE  LET after == AfterOperations(graph, ops, nextFactId) IN
         /\ IsFiniteSet(after) /\ WellTimed(after)
         /\ \A f \in after : f.id \in 1 .. nextFactId + Len(ops)
<1> DEFINE first == nextFactId
<1>1. first \in Nat /\ Len(ops) \in Nat
  BY DEF GraphInv, Operations
<1>2. PICK H \in SUBSET graph, K \in SUBSET (1 .. Len(ops)) : Leaves(graph, graph, ops, first, Len(ops), H, K)
  <2>1. graph \in SUBSET graph
    OBVIOUS
  <2> QED BY <1>1, <2>1, AllOperations
<1>3. Remains(graph, ops, H, K) /\ AfterOperations(graph, ops, first) = H \cup Written(ops, K, first)
  BY <1>2 DEF Leaves, Remains, AfterOperations
<1>4. IsFiniteSet(H) /\ WellTimed(H) /\ \A f \in H : f.id \in 1 .. first + Len(ops)
  <2>1. IsFiniteSet(H) /\ WellTimed(H)
    BY FS_Subset DEF GraphInv, WellTimed
  <2>2. \A f \in H : f.id \in 1 .. first
    BY DEF GraphInv
  <2> QED BY <1>1, <2>1, <2>2
<1>5. /\ IsFiniteSet(Written(ops, K, first)) /\ WellTimed(Written(ops, K, first))
      /\ \A f \in Written(ops, K, first) : f.id \in 1 .. first + Len(ops)
  BY <1>1, <1>3, WrittenFacts
<1>6. IsFiniteSet(H \cup Written(ops, K, first))
  BY <1>4, <1>5, FS_Union
<1> QED BY <1>3, <1>4, <1>5, <1>6 DEF WellTimed

LEMMA EnforcingIsExact ==
  ASSUME GraphInv, NEW ops, Operations(ops, nextFactId),
         NEW rules, \A rule \in rules : rule.tag \in RuleTags,
         NEW e, e.before = graph, e.rules = rules, e.after = AfterOperations(graph, ops, nextFactId)
  PROVE  NewlyViolated(LoadRelevantFacts(graph, rules, ops), ops, rules) = {}
           <=> \A t \in Instant : ~Worsens(e, t)
<1> DEFINE L == Loaded(graph, ops, rules)
           P == Project(L, ops)
           Worse(t) == \E v \in EvaluateFacts(P, rules, t) :
                         \A w \in EvaluateFacts(L, rules, t) : SameViolation(v, w) => v.actual > w.actual
<1>1. Finds(graph, ops, nextFactId, rules)
  BY DEF Finds, GraphInv
<1>2. \A t : Worse(t) <=> Worsens(e, t)
  <2> TAKE t
  <2>1. /\ EvaluateFacts(L, rules, t) = EvaluateFacts(graph, rules, t)
        /\ EvaluateFacts(P, rules, t) = EvaluateFacts(AfterOperations(graph, ops, nextFactId), rules, t)
    BY <1>1, LoadedIsEnough
  <2> HIDE DEF L, P
  <2> QED BY <2>1 DEF Worsens
<1>3. CASE rules = {}
  <2>1. NewlyViolated(L, ops, rules) = {}
    BY <1>3 DEF NewlyViolated
  <2>2. \A t : EvaluateFacts(P, rules, t) = {}
    BY <1>3 DEF EvaluateFacts
  <2> HIDE DEF L, P
  <2>3. \A t \in Instant : ~Worse(t)
    BY <2>2
  <2> QED BY <1>2, <2>1, <2>3 DEF Loaded, L
<1>4. CASE rules # {}
  <2>1. L \in SUBSET graph /\ WellTimed(L)
    BY LoadedFacts DEF GraphInv, WellTimed
  <2>2. WellTimed(P)
    <3>1. nextFactId \in Nat
      BY DEF GraphInv
    <3>2. PICK H \in SUBSET graph, K \in SUBSET (1 .. Len(ops)) :
                 Leaves(L, graph, ops, nextFactId, Len(ops), H, K)
      <4> HIDE DEF L
      <4> QED BY <2>1, <3>1, AllOperations
    <3>3. P = (L \cap H) \cup Pending(ops, K) /\ Remains(graph, ops, H, K)
      BY <3>2 DEF Leaves, Project, Remains
    <3>4. WellTimed(Pending(ops, K))
      BY <3>1, <3>3, WrittenFacts
    <3> HIDE DEF L, P
    <3> QED BY <2>1, <3>3, <3>4 DEF WellTimed
  <2>3. NewlyViolated(L, ops, rules) = {} <=> \A t \in Boundaries(L \cup P) : ~Worse(t)
    <3>1. NewlyViolated(L, ops, rules) =
            UNION {WorseThan(EvaluateFacts(P, rules, t), EvaluateFacts(L, rules, t)) : t \in Boundaries(L \cup P)}
      BY <1>4 DEF NewlyViolated
    <3>2. \A t : Worse(t) <=> WorseThan(EvaluateFacts(P, rules, t), EvaluateFacts(L, rules, t)) # {}
      BY DEF WorseThan
    <3> DEFINE W(t) == WorseThan(EvaluateFacts(P, rules, t), EvaluateFacts(L, rules, t))
               B == Boundaries(L \cup P)
    <3>3. NewlyViolated(L, ops, rules) = UNION {W(t) : t \in B} /\ \A t : Worse(t) <=> W(t) # {}
      BY <3>1, <3>2
    <3> HIDE DEF Worse, W, B
    <3>4. NewlyViolated(L, ops, rules) = {} <=> \A t \in B : ~Worse(t)
      BY <3>3
    <3> QED BY <3>4 DEF B
  <2>4. Boundaries(L \cup P) \subseteq Instant
    <3> HIDE DEF L, P
    <3> QED BY <2>1, <2>2 DEF Boundaries, WellTimed
  <2>5. ASSUME NEW t \in Instant, Worse(t) PROVE \E b \in Boundaries(L \cup P) : Worse(b)
    <3>1. EvaluateFacts(P, rules, t) # {}
      BY <2>5
    <3>2. PICK b \in Boundaries(L \cup P) :
            /\ EvaluateFacts(L, rules, b) = EvaluateFacts(L, rules, t)
            /\ EvaluateFacts(P, rules, b) = EvaluateFacts(P, rules, t)
      <4> HIDE DEF L, P
      <4> QED BY <2>1, <2>2, <3>1, BoundariesSuffice
    <3> HIDE DEF L, P
    <3> QED BY <2>5, <3>2
  <2> HIDE DEF Worse, P
  <2>6. NewlyViolated(L, ops, rules) = {} <=> \A t \in Instant : ~Worse(t)
    <3> HIDE DEF L
    <3> QED BY <2>3, <2>4, <2>5
  <2>7. L = LoadRelevantFacts(graph, rules, ops)
    BY DEF Loaded
  <2> HIDE DEF L
  <2> QED BY <1>2, <2>6, <2>7
<1> QED BY <1>3, <1>4

LEMMA RulesHaveTags ==
  ASSUME NEW rules \in RuleSet \cup {GraphRule}
  PROVE  \A rule \in rules : rule.tag \in RuleTags
BY ConstraintsAssumption DEF ConstraintsAssumption, RuleTags

LEMMA EnforceKeepsInv ==
  ASSUME ConstraintsInv, NEW rules \in RuleSet, NEW ops,
         Len(ops) \in Nat, DOMAIN ops = 1 .. Len(ops), \A i \in DOMAIN ops : IsOperation(ops[i]),
         Enforce(ops, rules)
  PROVE  ConstraintsInv'
<1> DEFINE after == AfterOperations(graph, ops, nextFactId)
           worse == NewlyViolated(LoadRelevantFacts(graph, rules, ops), ops, rules)
           e == [before |-> graph, rules |-> rules, after |-> after, admitted |-> worse = {}]
<1>1. Operations(ops, nextFactId) /\ GraphInv /\ nextFactId \in Nat
  BY DEF Enforce, Operations, ConstraintsInv, GraphInv
<1>2. enforced' = e /\ reported' = NothingReported
  BY DEF Enforce
<1>3. e.before = graph /\ e.rules = rules /\ e.after = after /\ e.admitted = (worse = {})
  OBVIOUS
<1>4. worse = {} <=> \A t \in Instant : ~Worsens(e, t)
  <2> HIDE DEF e
  <2> QED BY <1>1, <1>3, RulesHaveTags, EnforcingIsExact
<1>5. EnforcementIsExact'
  <2> HIDE DEF e, worse
  <2> QED BY <1>2, <1>3, <1>4 DEF EnforcementIsExact, EvaluationsAgree
<1>6. GraphInv'
  <2>1. CASE worse = {}
    <3>1. graph' = after /\ nextFactId' = nextFactId + Len(ops)
      BY <2>1 DEF Enforce
    <3>2. IsFiniteSet(after) /\ WellTimed(after) /\ \A f \in after : f.id \in 1 .. nextFactId + Len(ops)
      BY <1>1, EnforcingKeepsTheGraph
    <3> HIDE DEF after
    <3> QED BY <1>1, <3>1, <3>2 DEF GraphInv, WellTimed
  <2>2. CASE worse # {}
    <3>1. graph' = graph /\ nextFactId' = nextFactId
      BY <2>2 DEF Enforce
    <3> QED BY <1>1, <3>1 DEF GraphInv, WellTimed
  <2> QED BY <2>1, <2>2
<1> QED BY <1>5, <1>6 DEF ConstraintsInv

LEMMA EvaluateKeepsInv ==
  ASSUME ConstraintsInv, NEW t, Evaluate(t) PROVE ConstraintsInv'
<1>1. graph' = graph /\ nextFactId' = nextFactId /\ enforced' = NoneEnforced
  BY DEF Evaluate
<1>2. reported'.validAt = t /\ reported'.violations = EvaluateAtBasis(graph, GraphRule, t)
  BY DEF Evaluate
<1>3. EvaluateAtBasis(graph, GraphRule, t) = {<<v.rule, v.subject>> : v \in EvaluateFacts(graph, GraphRule, t)}
  <2> DEFINE V == AtInstant(graph, t)
  <2>1. ASSUME NEW rule \in GraphRule
        PROVE  {<<v.rule, v.subject>> : v \in ViolationsOf(V, rule)} = {<<rule, s>> : s \in ReportedSubjects(V, rule)}
    BY RulesHaveTags, SameSubjectsReported
  <2> HIDE DEF V
  <2>2. UNION {{<<rule, s>> : s \in ReportedSubjects(V, rule)} : rule \in GraphRule}
          = {<<v.rule, v.subject>> : v \in UNION {ViolationsOf(V, rule) : rule \in GraphRule}}
    BY <2>1
  <2> QED BY <2>2 DEF EvaluateAtBasis, EvaluateFacts, V
<1>4. EnforcementIsExact'
  BY <1>1, <1>2, <1>3 DEF EnforcementIsExact, EvaluationsAgree
<1> QED BY <1>1, <1>4 DEF ConstraintsInv, GraphInv, WellTimed

\* Enforcement admits exactly the transactions that worsen no rule at any instant, and an
\* evaluation at a basis reports the same violations, for any rules, transactions and graph:
\* the facts loaded, their projection and the boundaries miss nothing (newlyViolated).
THEOREM EnforcementIsExactAlways == ConstraintsSpec => []EnforcementIsExact
<1>1. ConstraintsInit => ConstraintsInv
  <2> SUFFICES ASSUME ConstraintsInit PROVE ConstraintsInv
    OBVIOUS
  <2>1. GraphInv
    BY FS_EmptySet DEF ConstraintsInit, GraphInv, WellTimed
  <2> QED BY <2>1 DEF ConstraintsInit, ConstraintsInv, EnforcementIsExact, EvaluationsAgree
<1>2. ConstraintsInv /\ [ConstraintsNext]_graphVars => ConstraintsInv'
  <2> SUFFICES ASSUME ConstraintsInv, [ConstraintsNext]_graphVars PROVE ConstraintsInv'
    OBVIOUS
  <2>1. ASSUME NEW rules \in RuleSet, NEW ops \in Transaction, Enforce(ops, rules) PROVE ConstraintsInv'
    <3>1. Len(ops) \in Nat /\ DOMAIN ops = 1 .. Len(ops) /\ \A i \in DOMAIN ops : IsOperation(ops[i])
      BY ConstraintsAssumption DEF ConstraintsAssumption
    <3> QED BY <2>1, <3>1, EnforceKeepsInv
  <2>2. ASSUME NEW rules \in RuleSet, NEW f \in graph, Enforce(Retraction(f.id), rules) PROVE ConstraintsInv'
    <3> DEFINE ops == Retraction(f.id)
    <3>1. f.id \in Nat
      BY DEF ConstraintsInv, GraphInv
    <3>2. Len(ops) \in Nat /\ DOMAIN ops = 1 .. Len(ops) /\ \A i \in DOMAIN ops : IsOperation(ops[i])
      BY <3>1 DEF Retraction, IsOperation
    <3> HIDE DEF ops
    <3> QED BY <2>2, <3>2, EnforceKeepsInv DEF ops
  <2>3. ASSUME NEW t \in Boundaries(graph), Evaluate(t) PROVE ConstraintsInv'
    BY <2>3, EvaluateKeepsInv
  <2>4. CASE UNCHANGED graphVars
    BY <2>4 DEF graphVars, ConstraintsInv, GraphInv, WellTimed, EnforcementIsExact, EvaluationsAgree, Worsens
  <2> QED BY <2>1, <2>2, <2>3, <2>4 DEF ConstraintsNext
<1>3. ConstraintsInv => EnforcementIsExact
  BY DEF ConstraintsInv
<1> QED BY <1>1, <1>2, <1>3, PTL DEF ConstraintsSpec

-----------------------------------------------------------------------------
(* Types: the store trusts the verdict that one type accepts all that      *)
(* another does, and does not read again the bodies stored under it.       *)
(*                                                                         *)
(* The verdict is a proof: by induction on the heights of both types,      *)
(* every value that the one accepts is accepted by the other.              *)
\* A finite set of integers has a greatest and a least.
LEMMA ExtremesOf ==
  ASSUME NEW S \in SUBSET Int, IsFiniteSet(S), S # {}
  PROVE  /\ Max(S) \in S /\ \A x \in S : Max(S) >= x
         /\ Min(S) \in S /\ \A x \in S : Min(S) <= x
<1> DEFINE Has(T) == (\E m \in T : \A x \in T : m >= x) /\ (\E m \in T : \A x \in T : m <= x)
           N == {n \in Nat : \A T \in SUBSET Int : IsFiniteSet(T) /\ Cardinality(T) = n /\ T # {} => Has(T)}
<1>1. 0 \in N
  BY FS_EmptySet
<1>2. ASSUME NEW n \in Nat, n \in N PROVE n + 1 \in N
  <2> SUFFICES ASSUME NEW T \in SUBSET Int, IsFiniteSet(T), Cardinality(T) = n + 1, T # {} PROVE Has(T)
    OBVIOUS
  <2>1. PICK a \in T : TRUE
    OBVIOUS
  <2> DEFINE R == T \ {a}
  <2>2. IsFiniteSet(R) /\ Cardinality(R) = n /\ R \in SUBSET Int /\ T = R \cup {a}
    <3>1. IsFiniteSet(R) /\ Cardinality(R) = Cardinality(T) - 1
      BY <2>1, FS_RemoveElement
    <3> QED BY <2>1, <3>1
  <2> HIDE DEF R
  <2>3. CASE R = {}
    BY <2>1, <2>2, <2>3
  <2>4. CASE R # {}
    <3>1. Has(R)
      BY <1>2, <2>2, <2>4
    <3>2. PICK m \in R, k \in R : \A x \in R : m >= x /\ k <= x
      BY <3>1
    <3>3. m \in Int /\ k \in Int /\ a \in Int
      BY <2>2
    <3>4. \E g \in T : \A x \in T : g >= x
      <4>1. CASE a >= m
        BY <2>2, <3>2, <3>3, <4>1
      <4>2. CASE ~(a >= m)
        BY <2>2, <3>2, <3>3, <4>2
      <4> QED BY <4>1, <4>2
    <3>5. \E g \in T : \A x \in T : g <= x
      <4>1. CASE a <= k
        BY <2>2, <3>2, <3>3, <4>1
      <4>2. CASE ~(a <= k)
        BY <2>2, <3>2, <3>3, <4>2
      <4> QED BY <4>1, <4>2
    <3> QED BY <3>4, <3>5
  <2> QED BY <2>3, <2>4
<1> HIDE DEF N
<1>3. Cardinality(S) \in N
  BY <1>1, <1>2, AllNaturals, FS_CardinalityType
<1>4. Has(S)
  BY <1>3 DEF N
<1> QED BY <1>4 DEF Max, Min

\* A sequence of constraints of the five kinds, the bounds numbers, with one pattern at most.
Constraining(cs) ==
  /\ Len(cs) \in Nat /\ DOMAIN cs = 1 .. Len(cs)
  /\ \A i \in DOMAIN cs : cs[i][1] \in ConstraintTag /\ (cs[i][1] # "Pattern" => cs[i][2] \in Int)
  /\ \A i, j \in DOMAIN cs : cs[i][1] = "Pattern" /\ cs[j][1] = "Pattern" => cs[i][2] = cs[j][2]

ValuesOf(cs, tag) == {cs[i][2] : i \in {i \in DOMAIN cs : cs[i][1] = tag}}

LEMMA BoundsAre ==
  ASSUME NEW cs, Constraining(cs)
  PROVE  /\ DOMAIN BoundsOf(cs) = {cs[i][1] : i \in DOMAIN cs}
         /\ \A tag \in DOMAIN BoundsOf(cs) :
              /\ tag \in {"MinLength", "Min"} =>
                   /\ BoundsOf(cs)[tag] \in ValuesOf(cs, tag) /\ \A x \in ValuesOf(cs, tag) : BoundsOf(cs)[tag] >= x
              /\ tag \in {"MaxLength", "Max"} =>
                   /\ BoundsOf(cs)[tag] \in ValuesOf(cs, tag) /\ \A x \in ValuesOf(cs, tag) : BoundsOf(cs)[tag] <= x
              /\ tag = "Pattern" => \A x \in ValuesOf(cs, tag) : BoundsOf(cs)[tag] = x
<1>1. DOMAIN BoundsOf(cs) = {cs[i][1] : i \in DOMAIN cs}
  BY DEF BoundsOf
<1> SUFFICES ASSUME NEW tag \in {cs[i][1] : i \in DOMAIN cs}
             PROVE  /\ tag \in {"MinLength", "Min"} =>
                         /\ BoundsOf(cs)[tag] \in ValuesOf(cs, tag)
                         /\ \A x \in ValuesOf(cs, tag) : BoundsOf(cs)[tag] >= x
                    /\ tag \in {"MaxLength", "Max"} =>
                         /\ BoundsOf(cs)[tag] \in ValuesOf(cs, tag)
                         /\ \A x \in ValuesOf(cs, tag) : BoundsOf(cs)[tag] <= x
                    /\ tag = "Pattern" => \A x \in ValuesOf(cs, tag) : BoundsOf(cs)[tag] = x
  BY <1>1
<1> DEFINE I == {i \in DOMAIN cs : cs[i][1] = tag}
<1>2. I # {} /\ IsFiniteSet(I) /\ I \in SUBSET Int
  <2>1. IsFiniteSet(1 .. Len(cs)) /\ I \subseteq 1 .. Len(cs)
    BY FS_Interval DEF Constraining
  <2> QED BY <2>1, FS_Subset
<1>3. IsFiniteSet(ValuesOf(cs, tag)) /\ ValuesOf(cs, tag) # {}
  <2> DEFINE second == [i \in I |-> cs[i][2]]
  <2>1. second \in Surjection(I, ValuesOf(cs, tag))
    BY DEF ValuesOf, Surjection
  <2> HIDE DEF I, second
  <2>2. IsFiniteSet(ValuesOf(cs, tag))
    BY <1>2, <2>1, FS_Surjection
  <2>3. ValuesOf(cs, tag) # {}
    BY <1>2 DEF ValuesOf, I
  <2> QED BY <2>2, <2>3
<1>4. tag # "Pattern" => ValuesOf(cs, tag) \in SUBSET Int
  BY DEF ValuesOf, Constraining
<1>5. BoundsOf(cs)[tag] = CASE tag \in {"MinLength", "Min"} -> Max(ValuesOf(cs, tag))
                            [] tag \in {"MaxLength", "Max"} -> Min(ValuesOf(cs, tag))
                            [] OTHER -> cs[Max(I)][2]
  BY DEF BoundsOf, ValuesOf
<1>6. CASE tag \in {"MinLength", "Min"}
  BY <1>3, <1>4, <1>5, <1>6, ExtremesOf
<1>7. CASE tag \in {"MaxLength", "Max"}
  BY <1>3, <1>4, <1>5, <1>7, ExtremesOf
<1>8. CASE tag = "Pattern"
  <2>1. Max(I) \in I
    BY <1>2, ExtremesOf
  <2>2. BoundsOf(cs)[tag] = cs[Max(I)][2]
    BY <1>5, <1>8
  <2> HIDE DEF I
  <2>3. \A x \in ValuesOf(cs, tag) : \E i \in I : x = cs[i][2]
    BY DEF ValuesOf, I
  <2>4. \A i \in I : cs[i][2] = cs[Max(I)][2]
    <3>1. \A i \in I : i \in DOMAIN cs /\ cs[i][1] = "Pattern"
      BY <1>8 DEF I
    <3> QED BY <2>1, <3>1 DEF Constraining
  <2> QED BY <1>8, <2>2, <2>3, <2>4
<1>9. tag \in ConstraintTag
  BY DEF Constraining
<1> QED BY <1>6, <1>7, <1>8, <1>9 DEF ConstraintTag

\* Bounds that are met by tighter ones are met by every value that meets those.
LEMMA TighterBoundsMeet ==
  ASSUME NEW cs, Constraining(cs), NEW ct, Constraining(ct), NEW v \in TypedValue,
         \A i \in DOMAIN cs : Satisfies(v, cs[i]),
         BoundsSubsume(BoundsOf(cs), BoundsOf(ct)) # "Narrows"
  PROVE  \A i \in DOMAIN ct : Satisfies(v, ct[i])
<1> SUFFICES ASSUME NEW i \in DOMAIN ct PROVE Satisfies(v, ct[i])
  OBVIOUS
<1> DEFINE tag == ct[i][1]
           b == BoundsOf(cs)[tag]
           c == BoundsOf(ct)[tag]
<1>1. tag \in DOMAIN BoundsOf(ct) /\ ct[i][2] \in ValuesOf(ct, tag) /\ tag \in ConstraintTag
  <2>1. tag \in {ct[k][1] : k \in DOMAIN ct} /\ tag \in ConstraintTag
    BY DEF Constraining
  <2>2. i \in {k \in DOMAIN ct : ct[k][1] = tag}
    OBVIOUS
  <2>3. ct[i][2] \in ValuesOf(ct, tag)
    <3> HIDE DEF tag
    <3> QED BY <2>2 DEF ValuesOf
  <2>4. DOMAIN BoundsOf(ct) = {ct[k][1] : k \in DOMAIN ct}
    BY BoundsAre
  <2> QED BY <2>1, <2>3, <2>4
<1>2. MeetsConstraint(BoundsOf(cs), tag, c)
  BY <1>1 DEF BoundsSubsume
<1>3. tag \in DOMAIN BoundsOf(cs)
  BY <1>2 DEF MeetsConstraint
<1>4. tag # "Pattern" => ct[i][2] \in Int /\ c \in Int /\ b \in Int
  <2>1. tag # "Pattern" => ValuesOf(ct, tag) \subseteq Int /\ ValuesOf(cs, tag) \subseteq Int
    BY DEF ValuesOf, Constraining
  <2> QED BY <1>1, <1>3, <2>1, BoundsAre DEF ConstraintTag
<1>5. v[1] \in {"text", "list"} => LengthOf(v) \in Int
  BY TypesAssumption DEF LengthOf
<1>6. v[1] = "number" => v[2] \in Int
  BY TypesAssumption
<1>7. ASSUME NEW x \in ValuesOf(cs, tag) PROVE Satisfies(v, <<tag, x>>)
  <2>1. PICK j \in DOMAIN cs : cs[j][1] = tag /\ x = cs[j][2]
    BY DEF ValuesOf
  <2>2. Satisfies(v, cs[j])
    OBVIOUS
  <2> QED BY <2>1, <2>2 DEF Satisfies
<1>8. CASE tag \in {"MinLength", "Min"}
  <2>1. b \in ValuesOf(cs, tag) /\ c >= ct[i][2]
    BY <1>1, <1>3, <1>8, BoundsAre
  <2>2. b >= c
    BY <1>2, <1>8 DEF MeetsConstraint
  <2>3. Satisfies(v, <<tag, b>>)
    BY <1>7, <2>1
  <2> HIDE DEF b, c
  <2> QED BY <1>4, <1>5, <1>6, <1>8, <2>1, <2>2, <2>3 DEF Satisfies
<1>9. CASE tag \in {"MaxLength", "Max"}
  <2>1. b \in ValuesOf(cs, tag) /\ c <= ct[i][2]
    BY <1>1, <1>3, <1>9, BoundsAre, ZenonT(60)
  <2>2. b <= c
    BY <1>2, <1>9 DEF MeetsConstraint
  <2>3. Satisfies(v, <<tag, b>>)
    BY <1>7, <2>1
  <2> HIDE DEF b, c
  <2> QED BY <1>4, <1>5, <1>6, <1>9, <2>1, <2>2, <2>3 DEF Satisfies
<1>10. CASE tag = "Pattern"
  <2>1. c = ct[i][2]
    BY <1>1, <1>10, BoundsAre
  <2>2. b = c
    BY <1>2, <1>10 DEF MeetsConstraint
  <2>3. PICK j \in DOMAIN cs : cs[j][1] = tag
    <3>1. DOMAIN BoundsOf(cs) = {cs[k][1] : k \in DOMAIN cs}
      BY BoundsAre
    <3> HIDE DEF tag
    <3> QED BY <1>3, <3>1
  <2>4. cs[j][2] \in ValuesOf(cs, tag)
    BY <2>3 DEF ValuesOf
  <2>5. b = cs[j][2]
    BY <1>3, <1>10, <2>4, BoundsAre
  <2>6. Satisfies(v, <<tag, ct[i][2]>>)
    BY <1>7, <2>1, <2>2, <2>4, <2>5
  <2> QED BY <1>10, <2>6 DEF Satisfies
<1> QED BY <1>1, <1>8, <1>9, <1>10 DEF ConstraintTag

-----------------------------------------------------------------------------
(* Acceptance and the verdict are the functions that their lines define.   *)

Typing == TypeExpr \X TypedValue
TypePair == TypeExpr \X TypeExpr

LEMMA PartsAreTypes ==
  ASSUME NEW type \in TypeExpr, NEW part \in PartsOf(type)
  PROVE  part \in TypeExpr /\ TypeHeight[part] < TypeHeight[type]
BY TypesAssumption

LEMMA ByTags ==
  ASSUME NEW type
  PROVE  /\ type.tag = "List" => PartsOf(type) = {type.item}
         /\ type.tag = "Struct" => PartsOf(type) = {type.fields[name].type : name \in DOMAIN type.fields}
         /\ type.tag = "Union" => PartsOf(type) = type.members
         /\ type.tag = "Constrained" => PartsOf(type) = {type.base}
BY DEF PartsOf

LEMMA AcceptanceDepends ==
  ASSUME NEW type \in TypeExpr, NEW v \in TypedValue, NEW f, NEW g,
         \A part \in PartsOf(type), w \in TypedValue : f[<<part, w>>] = g[<<part, w>>]
  PROVE  AcceptsBy(type, v, f) = AcceptsBy(type, v, g)
<1>1. CASE type.tag = "List"
  <2>1. v[1] = "list" => \A i \in DOMAIN v[2] : v[2][i] \in TypedValue
    BY TypesAssumption
  <2> QED BY <1>1, <2>1, ByTags DEF AcceptsBy
<1>2. CASE type.tag = "Struct"
  <2>1. v[1] = "struct" => \A name \in DOMAIN v[2] : v[2][name] \in TypedValue
    BY TypesAssumption
  <2>2. \A name \in DOMAIN type.fields : type.fields[name].type \in PartsOf(type)
    BY <1>2, ByTags
  <2>3. v[1] = "struct" => \A name \in DOMAIN type.fields : name \in DOMAIN v[2] =>
          f[<<type.fields[name].type, v[2][name]>>] = g[<<type.fields[name].type, v[2][name]>>]
    BY <2>1, <2>2
  <2> QED BY <1>2, <2>3 DEF AcceptsBy
<1>3. CASE type.tag = "Union"
  BY <1>3, ByTags DEF AcceptsBy
<1>4. CASE type.tag = "Constrained"
  BY <1>4, ByTags DEF AcceptsBy
<1>5. CASE type.tag \in {"Any", "Prim", "Enum", "Ref"}
  BY <1>5 DEF AcceptsBy
<1> QED BY <1>1, <1>2, <1>3, <1>4, <1>5, TypesAssumption

LEMMA AcceptanceIsBoolean ==
  ASSUME NEW type \in TypeExpr, NEW v \in TypedValue, NEW f
  PROVE  AcceptsBy(type, v, f) \in BOOLEAN
<1>1. CASE type.tag = "List"
  BY <1>1 DEF AcceptsBy
<1>2. CASE type.tag = "Struct"
  BY <1>2 DEF AcceptsBy
<1>3. CASE type.tag = "Union"
  BY <1>3 DEF AcceptsBy
<1>4. CASE type.tag = "Constrained"
  BY <1>4 DEF AcceptsBy
<1>5. CASE type.tag \in {"Any", "Prim", "Enum", "Ref"}
  BY <1>5 DEF AcceptsBy, PrimAccepts
<1> QED BY <1>1, <1>2, <1>3, <1>4, <1>5, TypesAssumption

LEMMA AcceptsUnfolds ==
  \A type \in TypeExpr, v \in TypedValue : Accepts[<<type, v>>] = AcceptsBy(type, v, Accepts)
<1> DEFINE rank == [call \in Typing |-> TypeHeight[call[1]]]
           step == [call \in Typing |-> [f \in [Typing -> BOOLEAN] |-> AcceptsBy(call[1], call[2], f)]]
           Is(f) == f = [call \in Typing |-> AcceptsBy(call[1], call[2], f)]
<1>1. BOOLEAN # {} /\ MaxTypeHeight \in Nat
  BY TypesAssumption
<1>2. rank \in [Typing -> 0 .. MaxTypeHeight]
  BY TypesAssumption DEF Typing
<1>3. step \in [Typing -> [[Typing -> BOOLEAN] -> BOOLEAN]]
  BY AcceptanceIsBoolean DEF Typing
<1>4. ASSUME NEW call \in Typing, NEW f \in [Typing -> BOOLEAN], NEW g \in [Typing -> BOOLEAN],
             \A lower \in Typing : rank[lower] < rank[call] => f[lower] = g[lower]
      PROVE  step[call][f] = step[call][g]
  <2>1. call[1] \in TypeExpr /\ call[2] \in TypedValue
    BY DEF Typing
  <2>2. ASSUME NEW part \in PartsOf(call[1]), NEW w \in TypedValue PROVE f[<<part, w>>] = g[<<part, w>>]
    <3>1. <<part, w>> \in Typing /\ rank[<<part, w>>] < rank[call]
      BY <2>1, PartsAreTypes DEF Typing
    <3> QED BY <1>4, <3>1
  <2>3. AcceptsBy(call[1], call[2], f) = AcceptsBy(call[1], call[2], g)
    BY <2>1, <2>2, AcceptanceDepends
  <2> QED BY <2>3
<1>5. PICK f \in [Typing -> BOOLEAN] : \A call \in Typing : f[call] = step[call][f]
  <2>1. Ranked(Typing, BOOLEAN, MaxTypeHeight, rank, step)
    <3> HIDE DEF rank, step
    <3> QED BY <1>1, <1>2, <1>3, <1>4 DEF Ranked
  <2> HIDE DEF rank, step
  <2> QED BY <2>1, RankedRecursion
<1>6. Is(f)
  <2>1. \A call \in Typing : f[call] = AcceptsBy(call[1], call[2], f)
    BY <1>5
  <2> QED BY <2>1
<1>7. Accepts = CHOOSE g : Is(g)
  BY DEF Accepts, Typing
<1>8. Is(Accepts)
  <2> HIDE DEF Is
  <2> QED BY <1>6, <1>7
<1>9. ASSUME NEW type \in TypeExpr, NEW v \in TypedValue
      PROVE  Accepts[<<type, v>>] = AcceptsBy(type, v, Accepts)
  <2>1. <<type, v>> \in Typing
    BY DEF Typing
  <2>2. \A call \in Typing : Accepts[call] = AcceptsBy(call[1], call[2], Accepts)
    BY <1>8
  <2> QED BY <2>1, <2>2
<1> QED BY <1>9

VerdictOf == {"Identical", "Widens", "Narrows"}

LEMMA BaseIsNoHigher ==
  ASSUME NEW type \in TypeExpr
  PROVE  Base(type) \in TypeExpr /\ TypeHeight[Base(type)] <= TypeHeight[type]
<1>1. \A t \in TypeExpr : TypeHeight[t] \in Int
  BY TypesAssumption
<1>2. CASE type.tag = "Constrained"
  <2>1. type.base \in PartsOf(type)
    BY <1>2, ByTags
  <2>2. type.base \in TypeExpr /\ TypeHeight[type.base] < TypeHeight[type]
    BY <2>1, PartsAreTypes
  <2> QED BY <1>1, <1>2, <2>2 DEF Base
<1>3. CASE type.tag # "Constrained"
  BY <1>1, <1>3 DEF Base
<1> QED BY <1>2, <1>3

\* The pairs that are judged on the way to a verdict are lower.
Lower(a, b, from, to) == TypeHeight[a] + TypeHeight[b] < TypeHeight[from] + TypeHeight[to]

LEMMA JudgedPairs ==
  ASSUME NEW from \in TypeExpr, NEW to \in TypeExpr
  PROVE  LET f == Base(from)
             t == Base(to)
         IN  /\ f \in TypeExpr /\ t \in TypeExpr
             /\ \A m \in PartsOf(f) : m \in TypeExpr /\ Lower(m, t, from, to)
             /\ \A m \in PartsOf(t) : m \in TypeExpr /\ Lower(f, m, from, to)
             /\ \A m \in PartsOf(f), n \in PartsOf(t) : Lower(m, n, from, to)
<1> DEFINE f == Base(from)
           t == Base(to)
<1>1. f \in TypeExpr /\ t \in TypeExpr /\ TypeHeight[f] <= TypeHeight[from] /\ TypeHeight[t] <= TypeHeight[to]
  BY BaseIsNoHigher
<1>2. \A type \in TypeExpr : TypeHeight[type] \in Int
  BY TypesAssumption
<1> HIDE DEF f, t
<1>3. \A m \in PartsOf(f) : m \in TypeExpr /\ TypeHeight[m] < TypeHeight[f]
  BY <1>1, PartsAreTypes
<1>4. \A n \in PartsOf(t) : n \in TypeExpr /\ TypeHeight[n] < TypeHeight[t]
  BY <1>1, PartsAreTypes
<1>5. \A m \in PartsOf(f) : m \in TypeExpr /\ Lower(m, t, from, to)
  BY <1>1, <1>2, <1>3 DEF Lower
<1>6. \A n \in PartsOf(t) : n \in TypeExpr /\ Lower(f, n, from, to)
  BY <1>1, <1>2, <1>4 DEF Lower
<1>7. \A m \in PartsOf(f), n \in PartsOf(t) : Lower(m, n, from, to)
  BY <1>1, <1>2, <1>3, <1>4 DEF Lower
<1> QED BY <1>1, <1>5, <1>6, <1>7 DEF f, t

LEMMA StructureDepends ==
  ASSUME NEW f \in TypeExpr, NEW t \in TypeExpr, NEW g, NEW h,
         \A m \in PartsOf(f), n \in PartsOf(t) : g[<<m, n>>] = h[<<m, n>>]
  PROVE  Structural(f, t, g) = Structural(f, t, h)
<1>1. CASE f.tag = "List" /\ t.tag = "List"
  BY <1>1, ByTags DEF Structural
<1>2. CASE f.tag = "Struct" /\ t.tag = "Struct"
  <2>1. \A name \in DOMAIN f.fields \cap DOMAIN t.fields :
          g[<<f.fields[name].type, t.fields[name].type>>] = h[<<f.fields[name].type, t.fields[name].type>>]
    BY <1>2, ByTags
  <2>2. StructVerdict(f.fields, t.fields, g) = StructVerdict(f.fields, t.fields, h)
    <3>1. {g[<<f.fields[name].type, t.fields[name].type>>] : name \in DOMAIN f.fields \cap DOMAIN t.fields}
            = {h[<<f.fields[name].type, t.fields[name].type>>] : name \in DOMAIN f.fields \cap DOMAIN t.fields}
      BY <2>1, SMTT(60)
    <3> QED BY <3>1 DEF StructVerdict
  <2> QED BY <1>2, <2>2 DEF Structural
<1>3. CASE ~(f.tag = "List" /\ t.tag = "List") /\ ~(f.tag = "Struct" /\ t.tag = "Struct")
  BY <1>3 DEF Structural
<1> QED BY <1>1, <1>2, <1>3

AgreeBelow(from, to, g, h) == \A a, b \in TypeExpr : Lower(a, b, from, to) => g[<<a, b>>] = h[<<a, b>>]

LEMMA VerdictDepends ==
  ASSUME NEW from \in TypeExpr, NEW to \in TypeExpr, NEW g, NEW h, AgreeBelow(from, to, g, h)
  PROVE  SubsumesBy(from, to, g) = SubsumesBy(from, to, h)
<1> DEFINE f == Base(from)
           t == Base(to)
<1>1. f \in TypeExpr /\ t \in TypeExpr
  BY JudgedPairs
<1>2. \A m \in PartsOf(f) : g[<<m, t>>] = h[<<m, t>>]
  BY <1>1, JudgedPairs DEF AgreeBelow
<1>3. \A m \in PartsOf(t) : g[<<f, m>>] = h[<<f, m>>]
  BY <1>1, JudgedPairs DEF AgreeBelow
<1>4. Structural(f, t, g) = Structural(f, t, h)
  <2>1. \A m \in PartsOf(f), n \in PartsOf(t) : g[<<m, n>>] = h[<<m, n>>]
    BY <1>1, JudgedPairs DEF AgreeBelow
  <2> QED BY <1>1, <2>1, StructureDepends
<1>5. f.tag = "Union" => {g[<<m, t>>] : m \in f.members} = {h[<<m, t>>] : m \in f.members}
  BY <1>2, ByTags, ZenonT(60)
<1>6. t.tag = "Union" => \A m \in t.members : g[<<f, m>>] = h[<<f, m>>]
  BY <1>3, ByTags
<1> QED BY <1>4, <1>5, <1>6 DEF SubsumesBy

LEMMA StructureIsJudged ==
  ASSUME NEW f \in TypeExpr, NEW t \in TypeExpr, NEW g \in [TypePair -> VerdictOf]
  PROVE  Structural(f, t, g) \in VerdictOf
<1>1. CASE f.tag = "List" /\ t.tag = "List"
  <2>1. <<f.item, t.item>> \in TypePair
    BY <1>1, ByTags, PartsAreTypes DEF TypePair
  <2> QED BY <1>1, <2>1 DEF Structural
<1>2. CASE ~(f.tag = "List" /\ t.tag = "List")
  <2>1. \A verdicts : Combine(verdicts) \in VerdictOf
    BY DEF Combine, VerdictOf
  <2>2. StructVerdict(f.fields, t.fields, g) \in VerdictOf
    BY <2>1 DEF StructVerdict, VerdictOf
  <2> QED BY <1>2, <2>2 DEF Structural, VerdictOf
<1> QED BY <1>1, <1>2

LEMMA VerdictIsJudged ==
  ASSUME NEW from \in TypeExpr, NEW to \in TypeExpr, NEW g \in [TypePair -> VerdictOf]
  PROVE  SubsumesBy(from, to, g) \in VerdictOf
BY DEF SubsumesBy, Combine, VerdictOf

LEMMA SubsumesUnfolds ==
  \A from, to \in TypeExpr : Subsumes[<<from, to>>] = SubsumesBy(from, to, Subsumes)
<1> DEFINE rank == [pair \in TypePair |-> TypeHeight[pair[1]] + TypeHeight[pair[2]]]
           step == [pair \in TypePair |-> [f \in [TypePair -> VerdictOf] |-> SubsumesBy(pair[1], pair[2], f)]]
           Is(f) == f = [pair \in TypePair |-> SubsumesBy(pair[1], pair[2], f)]
<1>1. VerdictOf # {} /\ MaxTypeHeight + MaxTypeHeight \in Nat
  BY TypesAssumption DEF VerdictOf
<1>2. rank \in [TypePair -> 0 .. MaxTypeHeight + MaxTypeHeight]
  <2>1. \A type \in TypeExpr : TypeHeight[type] \in 0 .. MaxTypeHeight
    BY TypesAssumption
  <2>2. ASSUME NEW pair \in TypePair PROVE TypeHeight[pair[1]] + TypeHeight[pair[2]] \in 0 .. MaxTypeHeight + MaxTypeHeight
    BY <2>1, TypesAssumption DEF TypePair
  <2> QED BY <2>2
<1>3. step \in [TypePair -> [[TypePair -> VerdictOf] -> VerdictOf]]
  BY VerdictIsJudged DEF TypePair
<1>4. ASSUME NEW pair \in TypePair, NEW f \in [TypePair -> VerdictOf], NEW g \in [TypePair -> VerdictOf],
             \A lower \in TypePair : rank[lower] < rank[pair] => f[lower] = g[lower]
      PROVE  step[pair][f] = step[pair][g]
  <2>1. pair[1] \in TypeExpr /\ pair[2] \in TypeExpr
    BY DEF TypePair
  <2>2. ASSUME NEW a \in TypeExpr, NEW b \in TypeExpr, Lower(a, b, pair[1], pair[2]) PROVE f[<<a, b>>] = g[<<a, b>>]
    <3>1. <<a, b>> \in TypePair /\ rank[<<a, b>>] < rank[pair]
      BY <2>1, <2>2 DEF TypePair, Lower
    <3> QED BY <1>4, <3>1
  <2>3. SubsumesBy(pair[1], pair[2], f) = SubsumesBy(pair[1], pair[2], g)
    <3> HIDE DEF rank, step
    <3>1. AgreeBelow(pair[1], pair[2], f, g)
      BY <2>2 DEF AgreeBelow
    <3> QED BY <2>1, <3>1, VerdictDepends
  <2> QED BY <2>3
<1>5. PICK f \in [TypePair -> VerdictOf] : \A pair \in TypePair : f[pair] = step[pair][f]
  <2>1. Ranked(TypePair, VerdictOf, MaxTypeHeight + MaxTypeHeight, rank, step)
    <3> HIDE DEF rank, step
    <3> QED BY <1>1, <1>2, <1>3, <1>4 DEF Ranked
  <2> HIDE DEF rank, step
  <2> QED BY <1>1, <2>1, RankedRecursion
<1>6. Is(f)
  <2>1. \A pair \in TypePair : f[pair] = SubsumesBy(pair[1], pair[2], f)
    BY <1>5
  <2> QED BY <2>1
<1>7. Subsumes = CHOOSE g : Is(g)
  BY DEF Subsumes, TypePair
<1>8. Is(Subsumes)
  <2> HIDE DEF Is
  <2> QED BY <1>6, <1>7
<1>9. ASSUME NEW from \in TypeExpr, NEW to \in TypeExpr
      PROVE  Subsumes[<<from, to>>] = SubsumesBy(from, to, Subsumes)
  <2>1. <<from, to>> \in TypePair
    BY DEF TypePair
  <2>2. \A pair \in TypePair : Subsumes[pair] = SubsumesBy(pair[1], pair[2], Subsumes)
    BY <1>8
  <2> QED BY <2>1, <2>2
<1> QED BY <1>9

-----------------------------------------------------------------------------
(* A verdict that does not narrow is a proof.                              *)

Covers(from, to) == \A v \in TypedValue : Accepts[<<from, v>>] => Accepts[<<to, v>>]

ConstraintsOf(type) == IF type.tag = "Constrained" THEN type.constraints ELSE <<>>

LEMMA AcceptsByBase ==
  ASSUME NEW type \in TypeExpr, NEW v \in TypedValue
  PROVE  Accepts[<<type, v>>] <=>
           /\ Accepts[<<Base(type), v>>]
           /\ \A i \in DOMAIN ConstraintsOf(type) : Satisfies(v, ConstraintsOf(type)[i])
<1>1. CASE type.tag = "Constrained"
  BY <1>1, AcceptsUnfolds DEF AcceptsBy, Base, ConstraintsOf
<1>2. CASE type.tag # "Constrained"
  BY <1>2 DEF Base, ConstraintsOf
<1> QED BY <1>1, <1>2

LEMMA StructureIsProof ==
  ASSUME NEW f \in TypeExpr, NEW t \in TypeExpr,
         \A m \in PartsOf(f), n \in PartsOf(t) : Subsumes[<<m, n>>] # "Narrows" => Covers(m, n),
         Structural(f, t, Subsumes) # "Narrows"
  PROVE  Covers(f, t)
<1> SUFFICES ASSUME NEW v \in TypedValue, Accepts[<<f, v>>] PROVE Accepts[<<t, v>>]
  BY DEF Covers
<1>1. AcceptsBy(f, v, Accepts) /\ (AcceptsBy(t, v, Accepts) => Accepts[<<t, v>>])
  BY AcceptsUnfolds
<1>2. CASE f.tag = "Enum" /\ t.tag = "Prim"
  BY <1>1, <1>2 DEF Structural, AcceptsBy, PrimAccepts
<1>3. CASE f.tag = "Prim" /\ t.tag = "Prim"
  BY <1>1, <1>3 DEF Structural, AcceptsBy, PrimAccepts, PrimSubsumes
<1>4. CASE f.tag = "Enum" /\ t.tag = "Enum"
  BY <1>1, <1>4 DEF Structural, AcceptsBy
<1>5. CASE f.tag = "List" /\ t.tag = "List"
  <2>0. v[1] = "list" /\ \A i \in DOMAIN v[2] : Accepts[<<f.item, v[2][i]>>]
    BY <1>1, <1>5 DEF AcceptsBy
  <2>1. \A i \in DOMAIN v[2] : v[2][i] \in TypedValue
    BY <2>0, TypesAssumption
  <2>2. Covers(f.item, t.item)
    BY <1>5, ByTags DEF Structural
  <2> QED BY <1>1, <1>5, <2>0, <2>1, <2>2 DEF AcceptsBy, Covers
<1>6. CASE f.tag = "Struct" /\ t.tag = "Struct"
  <2>1. /\ v[1] = "struct" /\ DOMAIN v[2] \subseteq DOMAIN f.fields
        /\ \A name \in DOMAIN f.fields : IF name \in DOMAIN v[2] THEN Accepts[<<f.fields[name].type, v[2][name]>>]
                                         ELSE f.fields[name].optional
    BY <1>1, <1>6 DEF AcceptsBy
  <2>2. \A name \in DOMAIN v[2] : v[2][name] \in TypedValue
    BY <2>1, TypesAssumption
  <2>3. StructVerdict(f.fields, t.fields, Subsumes) # "Narrows"
    BY <1>6 DEF Structural
  <2>4. FieldsFit(f.fields, t.fields)
    BY <2>3 DEF StructVerdict
  <2>5. ASSUME NEW name \in DOMAIN f.fields \cap DOMAIN t.fields
        PROVE  Covers(f.fields[name].type, t.fields[name].type)
    <3>1. Subsumes[<<f.fields[name].type, t.fields[name].type>>] # "Narrows"
      BY <2>3, <2>4 DEF StructVerdict, Combine
    <3> QED BY <1>6, <3>1, ByTags, SMTT(60)
  <2>6. ASSUME NEW name \in DOMAIN t.fields
        PROVE  IF name \in DOMAIN v[2] THEN Accepts[<<t.fields[name].type, v[2][name]>>] ELSE t.fields[name].optional
    <3>1. CASE name \in DOMAIN v[2]
      BY <2>1, <2>2, <2>5, <3>1 DEF Covers
    <3>2. CASE name \notin DOMAIN v[2]
      BY <2>1, <2>4, <3>2 DEF FieldsFit
    <3> QED BY <3>1, <3>2
  <2>7. DOMAIN v[2] \subseteq DOMAIN t.fields
    BY <2>1, <2>4 DEF FieldsFit
  <2> QED BY <1>1, <1>6, <2>1, <2>6, <2>7 DEF AcceptsBy
<1>7. \/ f.tag = "Enum" /\ t.tag = "Prim"
      \/ f.tag = t.tag /\ f.tag \in {"Prim", "Enum", "List", "Struct"}
  BY DEF Structural
<1> QED BY <1>2, <1>3, <1>4, <1>5, <1>6, <1>7

LEMMA ConstraintsAre ==
  ASSUME NEW type \in TypeExpr
  PROVE  Constraining(ConstraintsOf(type)) /\ Bounds(type) = BoundsOf(ConstraintsOf(type))
<1>1. CASE type.tag = "Constrained"
  BY <1>1, TypesAssumption, OnePatternAssumption DEF ConstraintsOf, Constraining, Bounds
<1>2. CASE type.tag # "Constrained"
  BY <1>2 DEF ConstraintsOf, Constraining, Bounds
<1> QED BY <1>1, <1>2

LEMMA VerdictsAreProofs ==
  ASSUME NEW from \in TypeExpr, NEW to \in TypeExpr, Subsumes[<<from, to>>] # "Narrows"
  PROVE  Covers(from, to)
<1> DEFINE Sound(a, b) == Subsumes[<<a, b>>] # "Narrows" => Covers(a, b)
           S == {n \in Nat : \A a, b \in TypeExpr : TypeHeight[a] + TypeHeight[b] < n => Sound(a, b)}
<1>1. \A type \in TypeExpr : TypeHeight[type] \in Nat
  BY TypesAssumption
<1>2. 0 \in S
  BY <1>1
<1>3. ASSUME NEW n \in Nat, n \in S PROVE n + 1 \in S
  <2> SUFFICES ASSUME NEW a \in TypeExpr, NEW b \in TypeExpr, TypeHeight[a] + TypeHeight[b] < n + 1,
                      Subsumes[<<a, b>>] # "Narrows"
               PROVE  Covers(a, b)
    OBVIOUS
  <2>1. \A c, d \in TypeExpr : Lower(c, d, a, b) => Sound(c, d)
    BY <1>1, <1>3 DEF Lower
  <2> DEFINE f == Base(a)
             t == Base(b)
             bounds == BoundsSubsume(Bounds(a), Bounds(b))
  <2>2. SubsumesBy(a, b, Subsumes) # "Narrows"
    BY SubsumesUnfolds
  <2>3. f \in TypeExpr /\ t \in TypeExpr
    BY JudgedPairs
  <2>4. CASE a = b
    BY <2>4 DEF Covers
  <2>5. CASE b.tag = "Any"
    BY <2>5, AcceptsUnfolds DEF Covers, AcceptsBy
  <2>6. CASE a # b /\ b.tag # "Any"
    <3>1. bounds # "Narrows"
      BY <2>2, <2>6 DEF SubsumesBy
    <3>2. Covers(f, t)
      <4>1. CASE f.tag = "Union"
        <5>1. \A m \in f.members : Subsumes[<<m, t>>] # "Narrows"
          BY <2>2, <2>6, <3>1, <4>1 DEF SubsumesBy, Combine
        <5>2. \A m \in f.members : m \in TypeExpr /\ Lower(m, t, a, b)
          BY <4>1, ByTags, JudgedPairs
        <5>3. \A m \in f.members : Covers(m, t)
          BY <2>1, <2>3, <5>1, <5>2
        <5>4. \A v \in TypedValue : Accepts[<<f, v>>] => \E m \in f.members : Accepts[<<m, v>>]
          BY <2>3, <4>1, AcceptsUnfolds DEF AcceptsBy
        <5> QED BY <5>3, <5>4 DEF Covers
      <4>2. CASE f.tag # "Union" /\ t.tag = "Union"
        <5>1. PICK m \in t.members : Subsumes[<<f, m>>] # "Narrows"
          BY <2>2, <2>6, <3>1, <4>2 DEF SubsumesBy
        <5>2. m \in TypeExpr /\ Lower(f, m, a, b)
          BY <4>2, ByTags, JudgedPairs
        <5>3. Covers(f, m)
          BY <2>1, <2>3, <5>1, <5>2
        <5>4. \A v \in TypedValue : Accepts[<<m, v>>] => Accepts[<<t, v>>]
          BY <2>3, <4>2, AcceptsUnfolds DEF AcceptsBy
        <5> QED BY <5>3, <5>4 DEF Covers
      <4>3. CASE f.tag # "Union" /\ t.tag # "Union"
        <5>1. Structural(f, t, Subsumes) # "Narrows"
          BY <2>2, <2>6, <3>1, <4>3 DEF SubsumesBy, Combine
        <5>2. \A m \in PartsOf(f), k \in PartsOf(t) : Subsumes[<<m, k>>] # "Narrows" => Covers(m, k)
          BY <2>1, JudgedPairs
        <5> QED BY <2>3, <5>1, <5>2, StructureIsProof
      <4> QED BY <4>1, <4>2, <4>3
    <3>3. ASSUME NEW v \in TypedValue, Accepts[<<a, v>>] PROVE Accepts[<<b, v>>]
      <4>1. Accepts[<<f, v>>] /\ \A i \in DOMAIN ConstraintsOf(a) : Satisfies(v, ConstraintsOf(a)[i])
        BY <3>3, AcceptsByBase
      <4>2. BoundsSubsume(BoundsOf(ConstraintsOf(a)), BoundsOf(ConstraintsOf(b))) # "Narrows"
        BY <3>1, ConstraintsAre
      <4>3. \A i \in DOMAIN ConstraintsOf(b) : Satisfies(v, ConstraintsOf(b)[i])
        BY <4>1, <4>2, ConstraintsAre, TighterBoundsMeet
      <4>4. Accepts[<<t, v>>]
        BY <3>2, <4>1 DEF Covers
      <4> QED BY <4>3, <4>4, AcceptsByBase
    <3> QED BY <3>3 DEF Covers
  <2> QED BY <2>4, <2>5, <2>6
<1> HIDE DEF S
<1>4. TypeHeight[from] + TypeHeight[to] + 1 \in S
  <2>1. Nat \subseteq S
    BY <1>2, <1>3, AllNaturals
  <2> QED BY <1>1, <2>1
<1>5. TypeHeight[from] + TypeHeight[to] < TypeHeight[from] + TypeHeight[to] + 1
  BY <1>1
<1> QED BY <1>4, <1>5 DEF S

-----------------------------------------------------------------------------
(* The recheck. *)

\* A body is stored under types that accept it, and an answer is that of the types now stored.
TypesInv ==
  /\ bodyTypes \in [Body -> SUBSET KnownType]
  /\ \A b \in Body : \A type \in bodyTypes[b] : Accepts[<<type, b>>]
  /\ rechecked.asked => rechecked.type \in KnownType
  /\ RecheckIsExact

LEMMA CompatibleTypesAccept ==
  ASSUME NEW from \in KnownType, NEW to \in CompatibleTypes[from], NEW b \in Body, Accepts[<<from, b>>]
  PROVE  Accepts[<<to, b>>]
<1>1. from \in TypeExpr /\ to \in TypeExpr /\ b \in TypedValue /\ Subsumes[<<from, to>>] # "Narrows"
  BY TypesAssumption DEF CompatibleTypes
<1>2. Covers(from, to)
  BY <1>1, VerdictsAreProofs
<1> QED BY <1>1, <1>2 DEF Covers

LEMMA RechecksAreExact ==
  ASSUME TypesInv, NEW candidate \in KnownType, RecheckType(candidate)
  PROVE  TypesInv'
<1> DEFINE stored == {b \in Body : bodyTypes[b] # {}}
           compatible == {b \in stored : \/ candidate \in bodyTypes[b]
                                         \/ \E t \in bodyTypes[b] : candidate \in CompatibleTypes[t]}
           accepted == AcceptedBy[candidate]
           revalidated == (stored \ compatible) \cap accepted
<1>1. accepted = {b \in Body : Accepts[<<candidate, b>>]}
  BY DEF AcceptedBy
<1>2. compatible \subseteq accepted
  <2> SUFFICES ASSUME NEW b \in compatible PROVE Accepts[<<candidate, b>>]
    BY <1>1
  <2>1. CASE candidate \in bodyTypes[b]
    BY <2>1 DEF TypesInv
  <2>2. CASE \E t \in bodyTypes[b] : candidate \in CompatibleTypes[t]
    BY <2>2, CompatibleTypesAccept DEF TypesInv
  <2> QED BY <2>1, <2>2
<1>3. /\ rechecked'.asked /\ rechecked'.type = candidate
      /\ rechecked'.violations = stored \ (compatible \cup revalidated)
      /\ bodyTypes' = bodyTypes
  BY DEF RecheckType
<1>4. stored \ (compatible \cup revalidated) = stored \ accepted
  <2> HIDE DEF stored, compatible, accepted
  <2> QED BY <1>2
<1>5. stored \ accepted = {b \in Body \ accepted : bodyTypes[b] # {}}
  OBVIOUS
<1>6. RecheckIsExact'
  <2> HIDE DEF stored, compatible
  <2> QED BY <1>3, <1>4, <1>5 DEF RecheckIsExact, AcceptedBy
<1> QED BY <1>3, <1>6 DEF TypesInv

LEMMA TypesStep == TypesInv /\ [TypesNext]_typesVars => TypesInv'
<1> SUFFICES ASSUME TypesInv, [TypesNext]_typesVars PROVE TypesInv'
  OBVIOUS
<1>1. CASE \E type \in KnownType : RecheckType(type)
  BY <1>1, RechecksAreExact
<1>2. ASSUME NEW type \in KnownType, NEW b \in Body, Publish(b, type) PROVE TypesInv'
  <2>1. Accepts[<<type, b>>]
    BY <1>2 DEF Publish, AcceptedBy
  <2>2. bodyTypes' = [bodyTypes EXCEPT ![b] = @ \cup {type}] /\ ~rechecked'.asked
    BY <1>2 DEF Publish, NothingRechecked
  <2> QED BY <2>1, <2>2 DEF TypesInv, RecheckIsExact
<1>3. CASE UNCHANGED typesVars
  BY <1>3 DEF typesVars, TypesInv, RecheckIsExact
<1> QED BY <1>1, <1>2, <1>3 DEF TypesNext

\* A recheck names exactly the stored bodies that the candidate type would refuse: the
\* verdict that one type accepts all that another does is right about every value.
THEOREM RechecksStayExact == TypesSpec => []RecheckIsExact
<1>1. TypesInit => TypesInv
  BY DEF TypesInit, TypesInv, RecheckIsExact, NothingRechecked
<1>2. TypesInv => RecheckIsExact
  BY DEF TypesInv
<1> QED BY <1>1, <1>2, TypesStep, PTL DEF TypesSpec
=============================================================================
