-------------------------- MODULE DatomCacheProofs --------------------------
(***************************************************************************)
(* Theorems about DatomCache: what a cache can hold, what a page pinned on *)
(* a position never misses, and what the synchronous scans of the          *)
(* in-memory backend always see.  And of the pages of a query: all of them *)
(* read one cut.                                                           *)
(***************************************************************************)
EXTENDS DatomCache, QueryPages, TLAPS

\* The initial state satisfies the invariant: no facts and empty caches.
THEOREM InitInv == Init => CacheInv
<1> SUFFICES ASSUME Init PROVE CacheInv
    OBVIOUS
<1> USE CacheAssumption DEF Init, None, Empty, Datom
<1>1. TypeOK
      BY DEF TypeOK
<1>2. FactsBounded /\ CountersBounded /\ CacheHoldsCommitted /\ GotHoldsCommitted
      BY DEF FactsBounded, CountersBounded, CacheHoldsCommitted, GotHoldsCommitted, Was
<1>3. PinnedProgress /\ PinnedPagesComplete
      BY DEF PinnedProgress, PinnedPagesComplete
<1>4. ScansInv
      BY DEF ScansInv, CacheFresh, ReadsObserveCommits, PinnedPagesExact
<1> QED
    BY <1>1, <1>2, <1>3, <1>4 DEF CacheInv
-----------------------------------------------------------------------------
(* Steps of transact *)

\* A step that touches neither facts, caches nor readers keeps the invariant.
LEMMA QuietStep ==
  ASSUME CacheInv, UNCHANGED <<position, facts, cache, mine, returned, readers>>,
         wpc' \in [Writer -> {"idle", "body", "committed", "failed"}]
  PROVE  CacheInv'
<1> USE DEF CacheInv, readers
<1>1. TypeOK'
      BY DEF TypeOK
<1>2. (FactsBounded /\ CountersBounded /\ CacheHoldsCommitted /\ GotHoldsCommitted)'
      BY DEF FactsBounded, CountersBounded, CacheHoldsCommitted, GotHoldsCommitted, Was
<1>3. (PinnedProgress /\ PinnedPagesComplete)'
      BY DEF PinnedProgress, PinnedPagesComplete, Snapshot, AsOf
<1>4. ScansInv'
      BY DEF ScansInv, CacheFresh, ReadsObserveCommits, PinnedPagesExact, Snapshot, AsOf
<1> QED
    BY <1>1, <1>2, <1>3, <1>4

\* What a commit does to one fact.
LEMMA CommittedFact ==
  ASSUME CacheInv, NEW w \in Writer, Commit(w)
  PROVE  /\ position' = position + 1 /\ position \in Nat /\ position' \in 0..MaxPosition
         /\ facts' \in [TripleId -> Datom]
         /\ \A i \in TripleId :
              \/ facts'[i] = facts[i]
              \/ facts[i] # None /\ facts[i].to = 0
                   /\ facts'[i] = [from |-> facts[i].from, to |-> position + 1]
              \/ facts[i] = None /\ facts'[i] = [from |-> position + 1, to |-> 0]
<1> USE DEF CacheInv, TypeOK
<1>1. position \in Nat /\ position' = position + 1 /\ position' \in 0..MaxPosition
      BY CacheAssumption DEF Commit
<1>2. PICK R \in SUBSET Live, A \in SUBSET (TripleId \ Stored) :
        facts' = [i \in TripleId |->
                    IF i \in R THEN [facts[i] EXCEPT !.to = position + 1]
                    ELSE IF i \in A THEN [from |-> position + 1, to |-> 0]
                    ELSE facts[i]]
      BY DEF Commit
<1>3. \A i \in R : facts[i] # None /\ facts[i].to = 0
      BY DEF Live, Stored
<1>4. \A i \in TripleId :
        [facts[i] EXCEPT !.to = position + 1] = [from |-> facts[i].from, to |-> position + 1]
      BY DEF Datom
<1>5. \A i \in A : facts[i] = None
      BY DEF Stored
<1>6. facts' \in [TripleId -> Datom]
  <2>1. \A i \in TripleId : [from |-> facts[i].from, to |-> position + 1] \in Datom
        BY <1>1 DEF Datom
  <2>2. [from |-> position + 1, to |-> 0] \in Datom
        BY <1>1 DEF Datom
  <2>3. facts \in [TripleId -> Datom]
        OBVIOUS
  <2> HIDE DEF CacheInv, TypeOK
  <2>4. \A i \in TripleId : (IF i \in R THEN [facts[i] EXCEPT !.to = position + 1]
                             ELSE IF i \in A THEN [from |-> position + 1, to |-> 0]
                             ELSE facts[i]) \in Datom
        BY <1>4, <2>1, <2>2, <2>3
  <2> QED
      BY <1>2, <2>4
<1> QED
    BY <1>1, <1>2, <1>3, <1>4, <1>5, <1>6

\* The snapshot of a position is repeatable.
LEMMA SnapshotStable ==
  ASSUME CacheInv, NEW w \in Writer, Commit(w), NEW p \in Nat, p <= position
  PROVE  Snapshot(p)' = Snapshot(p)
<1> SUFFICES ASSUME NEW i \in TripleId PROVE AsOf(facts'[i], p) <=> AsOf(facts[i], p)
    BY DEF Snapshot
<1>1. facts[i] \in Datom /\ facts[i].from <= position /\ facts[i].to <= position
      BY DEF CacheInv, TypeOK, FactsBounded
<1>2. position \in Nat
      BY CommittedFact
<1>3. CASE facts'[i] = facts[i]
      BY <1>3
<1>4. CASE /\ facts[i] # None /\ facts[i].to = 0
           /\ facts'[i] = [from |-> facts[i].from, to |-> position + 1]
      BY <1>1, <1>2, <1>4 DEF AsOf, None, Datom
<1>5. CASE facts[i] = None /\ facts'[i] = [from |-> position + 1, to |-> 0]
      BY <1>2, <1>5 DEF AsOf, None
<1> QED
    BY <1>3, <1>4, <1>5, CommittedFact

\* What was committed stays committed.
LEMMA WasStable ==
  ASSUME CacheInv, NEW w \in Writer, Commit(w), NEW i \in TripleId, NEW d \in Datom,
         Was(d, i)
  PROVE  Was(d, i)'
<1>1. facts[i] \in Datom
      BY DEF CacheInv, TypeOK
<1>2. CASE facts'[i] = facts[i]
      BY <1>2 DEF Was
<1>3. CASE /\ facts[i] # None /\ facts[i].to = 0
           /\ facts'[i] = [from |-> facts[i].from, to |-> position + 1]
      BY <1>1, <1>3 DEF Was
<1>4. CASE facts[i] = None
      BY <1>4 DEF Was, None, Datom
<1> QED
    BY <1>2, <1>3, <1>4, CommittedFact

\* A commit keeps the invariant: pinned snapshots stay as they are.
LEMMA CommitStep == ASSUME CacheInv, NEW w \in Writer, Commit(w) PROVE CacheInv'
<1> USE DEF CacheInv
<1>a. UNCHANGED <<cache, returned, readers>>
      BY DEF Commit
<1>b. /\ position' = position + 1 /\ position \in Nat
      /\ facts' \in [TripleId -> Datom]
      BY CommittedFact
<1>1. TypeOK'
  <2>1. position' \in 0..MaxPosition
        BY CommittedFact
  <2>2. mine' \in [Writer -> Nat] /\ wpc' \in [Writer -> {"idle", "body", "committed", "failed"}]
        BY <1>b DEF Commit, TypeOK
  <2> QED
      BY <1>a, <1>b, <2>1, <2>2 DEF TypeOK, readers
<1>2. FactsBounded'
  <2> SUFFICES ASSUME NEW i \in TripleId
               PROVE  /\ facts'[i].from <= position' /\ facts'[i].to <= position'
                      /\ facts'[i].from = 0 => facts'[i].to = 0
      BY DEF FactsBounded
  <2>1. facts[i] \in Datom /\ facts[i].from <= position /\ facts[i].to <= position
        BY DEF TypeOK, FactsBounded
  <2>2. facts[i].from = 0 => facts[i] = None
        BY <2>1 DEF FactsBounded, None, Datom
  <2>3. CASE facts'[i] = facts[i]
        BY <1>b, <2>1, <2>2, <2>3 DEF Datom, None
  <2>4. CASE /\ facts[i] # None /\ facts[i].to = 0
             /\ facts'[i] = [from |-> facts[i].from, to |-> position + 1]
        BY <1>b, <2>1, <2>2, <2>4 DEF Datom
  <2>5. CASE facts'[i] = [from |-> position + 1, to |-> 0]
        BY <1>b, <2>5
  <2> QED
      BY <2>3, <2>4, <2>5, CommittedFact
<1>3. CountersBounded'
  <2>1. \A v \in Writer : mine'[v] = mine[v] \/ mine'[v] = position + 1
        BY DEF Commit, TypeOK
  <2>2. /\ \A s \in Service : returned[s] \in Nat
        /\ \A v \in Writer : mine[v] \in Nat
        /\ \A r \in Reader : pin[r] \in Nat /\ since[r] \in Nat
        BY DEF TypeOK
  <2> QED
      BY <1>a, <1>b, <2>1, <2>2 DEF CountersBounded, readers
<1>4. (CacheHoldsCommitted /\ GotHoldsCommitted)'
  <2>1. \A s \in Service : \A i \in TripleId : cache[s][i] \in Datom
        BY DEF TypeOK
  <2>2. \A r \in Reader : \A i \in TripleId : got[r][i] \in Datom
        BY DEF TypeOK
  <2>3. CacheHoldsCommitted'
        BY <1>a, <2>1, WasStable DEF CacheHoldsCommitted, Was
  <2>4. GotHoldsCommitted'
        BY <1>a, <2>2, WasStable DEF GotHoldsCommitted, Was, readers
  <2> QED
      BY <2>3, <2>4
<1>5. \A r \in Reader : Snapshot(pin[r])' = Snapshot(pin[r])
  <2> SUFFICES ASSUME NEW r \in Reader PROVE Snapshot(pin[r])' = Snapshot(pin[r])
      OBVIOUS
  <2>1. pin[r] \in Nat /\ pin[r] <= position /\ pin'[r] = pin[r]
        BY <1>a DEF TypeOK, CountersBounded, readers
  <2>2. \A p \in Nat : p <= position => Snapshot(p)' = Snapshot(p)
        BY SnapshotStable
  <2> QED
      BY <2>1, <2>2 DEF Snapshot
<1>6. (PinnedProgress /\ PinnedPagesComplete)'
      BY <1>a, <1>5 DEF PinnedProgress, PinnedPagesComplete, readers
<1>7. ScansInv'
  <2> SUFFICES ASSUME OnlyScans
               PROVE  (/\ \A r \in Reader : rpc[r] \in {"idle", "done"}
                       /\ CacheFresh /\ ReadsObserveCommits /\ PinnedPagesExact)'
      BY DEF ScansInv, OnlyScans
  <2> USE DEF ScansInv
  <2>1. CacheFresh'
    <3> SUFFICES ASSUME NEW s \in Service, NEW i \in TripleId,
                        cache[s][i] # None, cache[s][i].to = 0
                 PROVE  facts'[i].to = 0 \/ facts'[i].to > returned[s]
        BY <1>a DEF CacheFresh
    <3>1. returned[s] \in Nat /\ returned[s] <= position
          BY DEF TypeOK, CountersBounded
    <3>2. facts[i].to = 0 \/ facts[i].to > returned[s]
          BY DEF CacheFresh
    <3> QED
        BY <1>b, <3>1, <3>2, CommittedFact
  <2>2. ReadsObserveCommits'
    <3> SUFFICES ASSUME NEW r \in Reader, rpc[r] = "done", pin[r] = 0, NEW i \in seen[r]
                 PROVE  facts'[i].to = 0 \/ facts'[i].to > since[r]
        BY <1>a DEF ReadsObserveCommits, readers
    <3>1. i \in TripleId /\ since[r] \in Nat /\ since[r] <= position
          BY DEF TypeOK, CountersBounded
    <3>2. facts[i].to = 0 \/ facts[i].to > since[r]
          BY DEF ReadsObserveCommits
    <3> QED
        BY <1>b, <3>1, <3>2, CommittedFact
  <2>3. PinnedPagesExact'
        BY <1>a, <1>5 DEF PinnedPagesExact, readers
  <2> QED
      BY <1>a, <2>1, <2>2, <2>3 DEF readers
<1> QED
    BY <1>1, <1>2, <1>3, <1>4, <1>6, <1>7

\* The return of transact keeps it: the cache is empty, so nothing in it is old.
LEMMA ReturnStep == ASSUME CacheInv, NEW w \in Writer, Return(w) PROVE CacheInv'
<1> USE DEF CacheInv
<1>a. UNCHANGED <<position, facts, mine, readers>>
      BY DEF Return
<1>b. Of[w] \in Service
      BY CacheAssumption
<1>c. \A s \in Service : cache'[s] = IF s = Of[w] THEN Empty ELSE cache[s]
      BY <1>b DEF Return, TypeOK
<1>d. \A s \in Service : returned'[s] \in Nat /\ returned'[s] <= position
                         /\ (s # Of[w] => returned'[s] = returned[s])
      BY <1>b DEF Return, TypeOK, CountersBounded
<1>1. TypeOK'
  <2>1. Empty \in [TripleId -> Datom]
        BY DEF Empty, None, Datom
  <2>2. cache' \in [Service -> [TripleId -> Datom]]
        BY <1>b, <2>1 DEF Return, TypeOK
  <2>3. returned' \in [Service -> Nat]
        BY <1>b DEF Return, TypeOK
  <2>4. wpc' \in [Writer -> {"idle", "body", "committed", "failed"}]
        BY DEF Return, TypeOK
  <2> QED
      BY <1>a, <2>2, <2>3, <2>4 DEF TypeOK, readers
<1>2. (FactsBounded /\ CountersBounded)'
      BY <1>a, <1>d DEF FactsBounded, CountersBounded, readers
<1>3. (CacheHoldsCommitted /\ GotHoldsCommitted)'
      BY <1>a, <1>c DEF CacheHoldsCommitted, GotHoldsCommitted, Was, Empty, readers
<1>4. (PinnedProgress /\ PinnedPagesComplete)'
      BY <1>a DEF PinnedProgress, PinnedPagesComplete, Snapshot, AsOf, readers
<1>5. ScansInv'
  <2>1. OnlyScans => CacheFresh'
        BY <1>a, <1>c, <1>d DEF ScansInv, CacheFresh, Empty
  <2> QED
      BY <1>a, <2>1 DEF ScansInv, OnlyScans, ReadsObserveCommits, PinnedPagesExact,
                        Snapshot, AsOf, readers
<1> QED
    BY <1>1, <1>2, <1>3, <1>4, <1>5
-----------------------------------------------------------------------------
(* Steps of a read *)

\* The start of an asynchronous read keeps it.
LEMMA StartStep ==
  ASSUME CacheInv, NEW r \in Reader, NEW ids \in SUBSET TripleId, NEW p \in 0..position,
         NEW step \in {"range", "lookup"}, Start(r, ids, p, step),
         step = "lookup" => p = 0, ~OnlyScans
  PROVE  CacheInv'
<1> USE DEF CacheInv
<1>a. UNCHANGED <<writers, cache>>
      BY DEF Start
<1>b. Of[r] \in Service /\ returned[Of[r]] \in Nat /\ returned[Of[r]] <= position
      BY CacheAssumption DEF TypeOK, CountersBounded
<1>1. TypeOK'
  <2>1. Empty \in [TripleId -> Datom]
        BY DEF Empty, None, Datom
  <2> QED
      BY <1>a, <1>b, <2>1 DEF Start, TypeOK, writers
<1>2. (FactsBounded /\ CountersBounded)'
      BY <1>a, <1>b DEF Start, FactsBounded, CountersBounded, TypeOK, writers
<1>3. (CacheHoldsCommitted /\ GotHoldsCommitted)'
      BY <1>a DEF Start, CacheHoldsCommitted, GotHoldsCommitted, Was, Empty, TypeOK, writers
<1>4. (PinnedProgress /\ PinnedPagesComplete)'
      BY <1>a DEF Start, PinnedProgress, PinnedPagesComplete, Snapshot, AsOf, TypeOK, writers
<1>5. ScansInv'
      BY DEF ScansInv, OnlyScans
<1> QED
    BY <1>1, <1>2, <1>3, <1>4, <1>5

\* The index scan keeps it: every fact of the pinned snapshot has an entry.
LEMMA RangeStep == ASSUME CacheInv, NEW r \in Reader, RangeScan(r) PROVE CacheInv'
<1> USE DEF CacheInv
<1>a. UNCHANGED <<writers, cache, pin, got, since, seen>> /\ rpc[r] = "range"
      BY DEF RangeScan
<1>1. TypeOK'
      BY <1>a DEF RangeScan, TypeOK, Stored, writers
<1>2. (FactsBounded /\ CountersBounded /\ CacheHoldsCommitted /\ GotHoldsCommitted)'
      BY <1>a DEF FactsBounded, CountersBounded, CacheHoldsCommitted, GotHoldsCommitted,
                  Was, writers
<1>3. (PinnedProgress /\ PinnedPagesComplete)'
  <2>1. Snapshot(pin[r]) \subseteq Stored
        BY DEF Snapshot, AsOf, Stored
  <2> QED
      BY <1>a, <2>1 DEF RangeScan, PinnedProgress, PinnedPagesComplete, Snapshot, AsOf, TypeOK, writers
<1>4. ScansInv'
      BY <1>a DEF ScansInv, OnlyScans
<1> QED
    BY <1>1, <1>2, <1>3, <1>4

\* The lookup in the cache keeps it.
LEMMA LookupStep == ASSUME CacheInv, NEW r \in Reader, Lookup(r) PROVE CacheInv'
<1> USE DEF CacheInv
<1>a. UNCHANGED <<writers, cache, want, pin, since, seen>> /\ rpc[r] = "lookup"
      BY DEF Lookup
<1>b. Of[r] \in Service
      BY CacheAssumption
<1>c. \A i \in TripleId : got'[r][i] = cache[Of[r]][i] \/ got'[r][i] = None
      BY DEF Lookup, Cached, TypeOK
<1>d. \A q \in Reader : q # r => got'[q] = got[q] /\ rpc'[q] = rpc[q]
      BY DEF Lookup, TypeOK
<1>1. TypeOK'
  <2>1. got' \in [Reader -> [TripleId -> Datom]]
        BY <1>b DEF Lookup, Cached, TypeOK, None, Datom
  <2> QED
      BY <1>a, <2>1 DEF Lookup, TypeOK, writers
<1>2. (FactsBounded /\ CountersBounded /\ CacheHoldsCommitted)'
      BY <1>a DEF FactsBounded, CountersBounded, CacheHoldsCommitted, Was, writers
<1>3. GotHoldsCommitted'
      BY <1>a, <1>b, <1>c, <1>d DEF GotHoldsCommitted, CacheHoldsCommitted, Was, writers
<1>4. (PinnedProgress /\ PinnedPagesComplete)'
      BY <1>a, <1>d DEF Lookup, PinnedProgress, PinnedPagesComplete, Snapshot, AsOf, TypeOK, writers
<1>5. ScansInv'
      BY <1>a DEF ScansInv, OnlyScans
<1> QED
    BY <1>1, <1>2, <1>3, <1>4, <1>5

\* The fetch keeps it: what the cache misses, the backend has.
LEMMA FetchStep == ASSUME CacheInv, NEW r \in Reader, Fetch(r) PROVE CacheInv'
<1> USE DEF CacheInv
<1>a. UNCHANGED <<writers, cache, pin, since, seen>> /\ rpc[r] = "fetch"
      BY DEF Fetch
<1>b. Missing(r) \subseteq TripleId
      BY DEF Missing, TypeOK
<1>c. \A i \in TripleId : got'[r][i] = IF i \in Missing(r) THEN facts[i] ELSE got[r][i]
      BY DEF Fetch, TypeOK
<1>d. \A q \in Reader : q # r => got'[q] = got[q] /\ rpc'[q] = rpc[q] /\ want'[q] = want[q]
      BY DEF Fetch, TypeOK
<1>1. TypeOK'
  <2>1. got' \in [Reader -> [TripleId -> Datom]]
        BY DEF Fetch, TypeOK
  <2> QED
      BY <1>a, <1>b, <2>1 DEF Fetch, TypeOK, writers
<1>2. (FactsBounded /\ CountersBounded /\ CacheHoldsCommitted)'
      BY <1>a DEF FactsBounded, CountersBounded, CacheHoldsCommitted, Was, writers
<1>3. GotHoldsCommitted'
      BY SMTT(30), <1>a, <1>c, <1>d DEF GotHoldsCommitted, Was, writers, TypeOK
<1>4. (PinnedProgress /\ PinnedPagesComplete)'
  <2>1. pin[r] # 0 => \A i \in Snapshot(pin[r]) : got'[r][i] # None
        BY <1>a, <1>c DEF PinnedProgress, Snapshot, AsOf, Missing
  <2> QED
      BY <1>a, <1>d, <2>1 DEF Fetch, PinnedProgress, PinnedPagesComplete, Snapshot, AsOf,
                              TypeOK, writers
<1>5. ScansInv'
      BY <1>a DEF ScansInv, OnlyScans
<1> QED
    BY <1>1, <1>2, <1>3, <1>4, <1>5

\* The end of a read keeps it: a fact that is too old only shows too much.
LEMMA FillStep == ASSUME CacheInv, NEW r \in Reader, Fill(r) PROVE CacheInv'
<1> USE DEF CacheInv
<1>a. UNCHANGED <<writers, pin, since>> /\ rpc[r] = "fill"
      BY DEF Fill
<1>b. Of[r] \in Service
      BY CacheAssumption
<1>c. \A s \in Service : \A i \in TripleId :
        cache'[s][i] = cache[s][i] \/ cache'[s][i] = got[r][i]
      BY <1>b DEF Fill, TypeOK
<1>d. \A q \in Reader : /\ got'[q] = IF q = r THEN Empty ELSE got[q]
                        /\ want'[q] = IF q = r THEN {} ELSE want[q]
                        /\ rpc'[q] = IF q = r THEN "done" ELSE rpc[q]
                        /\ seen'[q] = IF q = r THEN {i \in TripleId : Visible(got[r][i], pin[r])}
                                               ELSE seen[q]
      BY DEF Fill, TypeOK
<1>1. TypeOK'
  <2>1. Empty \in [TripleId -> Datom]
        BY DEF Empty, None, Datom
  <2>2. cache' \in [Service -> [TripleId -> Datom]]
        BY <1>b DEF Fill, TypeOK
  <2> QED
      BY <1>a, <2>1, <2>2 DEF Fill, TypeOK, writers
<1>2. (FactsBounded /\ CountersBounded)'
      BY <1>a DEF FactsBounded, CountersBounded, writers
<1>3. (CacheHoldsCommitted /\ GotHoldsCommitted)'
  <2>1. \A i \in TripleId : Was(got[r][i], i)
        BY DEF GotHoldsCommitted
  <2>2. CacheHoldsCommitted'
        BY <1>a, <1>c, <2>1 DEF CacheHoldsCommitted, Was, writers
  <2>3. \A i \in TripleId : Empty[i] = None
        BY DEF Empty
  <2>4. ASSUME NEW q \in Reader, NEW i \in TripleId PROVE Was(got[q][i], i)'
    <3>1. facts' = facts
          BY <1>a DEF writers
    <3>2. CASE q = r
          BY <1>d, <2>3, <3>1, <3>2 DEF Was
    <3>3. CASE q # r
      <4>1. got'[q] = got[q] /\ Was(got[q][i], i)
            BY <1>d, <3>3 DEF GotHoldsCommitted
      <4> QED
          BY <3>1, <4>1 DEF Was
    <3> QED
        BY <3>2, <3>3
  <2> QED
      BY <2>2, <2>4 DEF GotHoldsCommitted
<1>4. pin[r] # 0 => Snapshot(pin[r]) \subseteq {i \in TripleId : Visible(got[r][i], pin[r])}
  <2> SUFFICES ASSUME pin[r] # 0, NEW i \in TripleId, AsOf(facts[i], pin[r])
               PROVE  AsOf(got[r][i], pin[r])
      BY DEF Snapshot, Visible
  <2>1. got[r][i] # None /\ Was(got[r][i], i)
        BY <1>a DEF PinnedProgress, Snapshot, GotHoldsCommitted
  <2> QED
      BY <2>1 DEF AsOf, Was, None, Datom
<1>5. (PinnedProgress /\ PinnedPagesComplete)'
  <2>1. pin' = pin /\ \A p : Snapshot(p)' = Snapshot(p)
        BY <1>a DEF Snapshot, AsOf, writers
  <2>2. ASSUME NEW q \in Reader
        PROVE  (pin[q] # 0 =>
                  /\ rpc[q] \in {"lookup", "fetch"} => Snapshot(pin[q]) \subseteq want[q]
                  /\ rpc[q] = "fill" => \A i \in Snapshot(pin[q]) : got[q][i] # None)'
    <3>1. CASE q = r
          BY <1>d, <3>1
    <3>2. CASE q # r
      <4>1. /\ rpc'[q] = rpc[q] /\ want'[q] = want[q] /\ got'[q] = got[q]
            /\ pin' = pin /\ facts' = facts
            BY <1>a, <1>d, <3>2 DEF writers
      <4> QED
          BY <4>1 DEF PinnedProgress, Snapshot, AsOf
    <3> QED
        BY <3>1, <3>2
  <2>3. PinnedPagesComplete'
        BY <1>d, <1>4, <2>1 DEF PinnedPagesComplete
  <2>4. PinnedProgress'
        BY <2>2 DEF PinnedProgress
  <2> QED
      BY <2>3, <2>4
<1>6. ScansInv'
      BY <1>a DEF ScansInv, OnlyScans
<1> QED
    BY <1>1, <1>2, <1>3, <1>5, <1>6

\* A synchronous scan keeps it.
LEMMA ScanStep ==
  ASSUME CacheInv, NEW r \in Reader, NEW p \in 0..position, ScanNow(r, p)
  PROVE  CacheInv'
<1> DEFINE found == [i \in TripleId |-> IF i \in Stored /\ Cached(r, i) = None
                                          THEN facts[i] ELSE Cached(r, i)]
           hits == {i \in Stored : Visible(found[i], p)}
<1> USE DEF CacheInv
<1>a. UNCHANGED <<writers, want, got>> /\ rpc[r] \in {"idle", "done"}
      BY DEF ScanNow
<1>b. Of[r] \in Service /\ returned[Of[r]] \in Nat /\ returned[Of[r]] <= position
      BY CacheAssumption DEF TypeOK, CountersBounded
<1>c. position \in Nat /\ p \in Nat /\ p <= position
      BY CacheAssumption DEF TypeOK
<1>d. /\ cache' = [cache EXCEPT ![Of[r]] = found]
      /\ seen' = [seen EXCEPT ![r] = hits]
      /\ rpc' = [rpc EXCEPT ![r] = "done"]
      /\ pin' = [pin EXCEPT ![r] = p]
      /\ since' = [since EXCEPT ![r] = returned[Of[r]]]
      BY DEF ScanNow
<1>e. \A i \in TripleId : found[i] = facts[i] \/ found[i] = cache[Of[r]][i]
      BY DEF Cached
<1>f. \A i \in Stored : i \in TripleId /\ found[i] # None
      BY DEF Stored
<1>g. found \in [TripleId -> Datom]
  <2>1. cache[Of[r]] \in [TripleId -> Datom] /\ facts \in [TripleId -> Datom]
        BY <1>b DEF TypeOK
  <2> QED
      BY <2>1 DEF Cached
<1>h. \A i \in TripleId : Was(found[i], i)
      BY <1>b, <1>e DEF CacheHoldsCommitted, Was
<1>i. hits \subseteq TripleId
      BY DEF Stored
<1>j. /\ \A s \in Service : cache'[s] = IF s = Of[r] THEN found ELSE cache[s]
      /\ \A q \in Reader : /\ seen'[q] = IF q = r THEN hits ELSE seen[q]
                           /\ rpc'[q] = IF q = r THEN "done" ELSE rpc[q]
                           /\ pin'[q] = IF q = r THEN p ELSE pin[q]
                           /\ since'[q] = IF q = r THEN returned[Of[r]] ELSE since[q]
      BY <1>b, <1>d DEF TypeOK
<1>k. facts' = facts /\ position' = position /\ returned' = returned /\ got' = got
      BY <1>a DEF writers
<1> HIDE DEF found, hits
<1>1. TypeOK'
      BY <1>a, <1>b, <1>c, <1>d, <1>g, <1>i DEF TypeOK, writers
<1>2. (FactsBounded /\ CountersBounded)'
      BY <1>a, <1>b, <1>c, <1>j DEF FactsBounded, CountersBounded, writers
<1>3. (CacheHoldsCommitted /\ GotHoldsCommitted)'
      BY <1>h, <1>j, <1>k DEF CacheHoldsCommitted, GotHoldsCommitted, Was
<1>4. p # 0 => Snapshot(p) \subseteq hits
  <2> SUFFICES ASSUME p # 0, NEW i \in TripleId, AsOf(facts[i], p)
               PROVE  i \in hits
      BY DEF Snapshot
  <2>1. i \in Stored /\ found[i] # None /\ Was(found[i], i)
        BY <1>f, <1>h DEF AsOf, Stored
  <2> QED
      BY <2>1 DEF AsOf, Was, Visible, hits
<1>5. \A n : Snapshot(n)' = Snapshot(n)
      BY <1>k DEF Snapshot, AsOf
<1>6. PinnedProgress'
      BY <1>a, <1>j, <1>k, <1>5 DEF PinnedProgress
<1>7. PinnedPagesComplete'
      BY <1>j, <1>4, <1>5 DEF PinnedPagesComplete
<1>8. ScansInv'
  <2> SUFFICES ASSUME OnlyScans
               PROVE  (/\ \A q \in Reader : rpc[q] \in {"idle", "done"}
                       /\ CacheFresh /\ ReadsObserveCommits /\ PinnedPagesExact)'
      BY DEF ScansInv, OnlyScans
  <2>1. \A i \in TripleId : found[i] # None /\ found[i].to = 0 =>
          facts[i].to = 0 \/ facts[i].to > returned[Of[r]]
        BY <1>b, <1>e DEF ScansInv, CacheFresh
  <2>2. CacheFresh'
        BY <1>j, <1>k, <2>1 DEF ScansInv, CacheFresh
  <2>3. ReadsObserveCommits'
    <3> SUFFICES ASSUME NEW q \in Reader, rpc'[q] = "done", pin'[q] = 0, NEW i \in seen'[q]
                 PROVE  facts[i].to = 0 \/ facts[i].to > since'[q]
        BY <1>k DEF ReadsObserveCommits
    <3>1. CASE q # r
          BY <1>j, <3>1 DEF ScansInv, ReadsObserveCommits
    <3>2. CASE q = r
      <4>1. p = 0 /\ i \in hits
            BY <1>j, <3>2
      <4>2. i \in TripleId /\ found[i] # None /\ found[i].to = 0
            BY <1>f, <4>1 DEF hits, Visible
      <4> QED
          BY <1>j, <2>1, <3>2, <4>2
    <3> QED
        BY <3>1, <3>2
  <2>4. PinnedPagesExact'
    <3> SUFFICES ASSUME NEW q \in Reader, rpc'[q] = "done", pin'[q] # 0, pin'[q] <= since'[q]
                 PROVE  seen'[q] = Snapshot(pin'[q])
        BY <1>5, <1>k DEF PinnedPagesExact, Snapshot, AsOf
    <3>1. CASE q # r
          BY <1>j, <3>1 DEF ScansInv, PinnedPagesExact
    <3>2. CASE q = r
      <4>1. p # 0 /\ p <= returned[Of[r]]
            BY <1>j, <3>2
      <4>2. hits \subseteq Snapshot(p)
        <5> SUFFICES ASSUME NEW i \in hits PROVE AsOf(facts[i], p)
            BY <1>i DEF Snapshot
        <5>1. i \in TripleId /\ AsOf(found[i], p) /\ Was(found[i], i)
              BY <1>f, <1>h, <4>1 DEF hits, Visible
        <5>2. facts[i] \in Datom /\ found[i] \in Datom
              BY <1>g, <5>1 DEF TypeOK
        <5>3. found[i].from = facts[i].from /\ found[i].to \in {0, facts[i].to}
              BY <5>1 DEF Was, AsOf
        <5>4. facts[i] # None
              BY <5>1, <5>2, <5>3 DEF AsOf, None, Datom
        <5>5. found[i].to = 0 => facts[i].to = 0 \/ facts[i].to > p
              BY <1>b, <1>c, <2>1, <4>1, <5>1, <5>2 DEF AsOf, Datom
        <5> QED
            BY <5>1, <5>3, <5>4, <5>5 DEF AsOf
      <4>3. seen'[q] = hits /\ pin'[q] = p
            BY <1>j, <3>2
      <4>4. hits = Snapshot(p)
            BY <1>4, <4>1, <4>2
      <4> QED
          BY <4>3, <4>4
    <3> QED
        BY <3>1, <3>2
  <2> QED
      BY <1>j, <2>2, <2>3, <2>4 DEF ScansInv
<1> QED
    BY <1>1, <1>2, <1>3, <1>6, <1>7, <1>8
-----------------------------------------------------------------------------
(* The theorems *)

\* Every step of a writer or a reader preserves the invariant.
THEOREM NextInv == CacheInv /\ [Next]_vars => CacheInv'
<1> SUFFICES ASSUME CacheInv, [Next]_vars PROVE CacheInv'
    OBVIOUS
<1>1. CASE UNCHANGED vars
      BY <1>1, QuietStep DEF vars, writers, CacheInv, TypeOK
<1>2. ASSUME NEW w \in Writer, Begin(w) \/ Fail(w) PROVE CacheInv'
  <2>1. wpc' \in [Writer -> {"idle", "body", "committed", "failed"}]
        BY <1>2 DEF Begin, Fail, CacheInv, TypeOK
  <2> QED
      BY <1>2, <2>1, QuietStep DEF Begin, Fail
<1>3. ASSUME NEW w \in Writer, Commit(w) PROVE CacheInv'
      BY <1>3, CommitStep
<1>4. ASSUME NEW w \in Writer, Return(w) PROVE CacheInv'
      BY <1>4, ReturnStep
<1>5. position \in Nat
      BY CacheAssumption DEF CacheInv, TypeOK
<1>6. ASSUME NEW r \in Reader, NEW i \in Lookups, Get(r, i) PROVE CacheInv'
  <2>1. {i} \in SUBSET TripleId /\ 0 \in 0..position /\ ~OnlyScans
        BY <1>5, CacheAssumption DEF OnlyScans
  <2> QED
      BY <1>6, <2>1, StartStep DEF Get
<1>7. ASSUME NEW r \in Reader, Match(r) PROVE CacheInv'
  <2>1. {} \in SUBSET TripleId /\ 0 \in 0..position /\ ~OnlyScans
        BY <1>5, <1>7 DEF OnlyScans, Match
  <2> QED
      BY <1>7, <2>1, StartStep DEF Match
<1>8. ASSUME NEW r \in Reader, NEW p \in 1..position, Page(r, p) PROVE CacheInv'
  <2>1. {} \in SUBSET TripleId /\ p \in 0..position /\ ~OnlyScans
        BY <1>5, <1>8 DEF OnlyScans, Page
  <2> QED
      BY <1>8, <2>1, StartStep DEF Page
<1>9. ASSUME NEW r \in Reader, NEW p \in 0..position, ScanNow(r, p) PROVE CacheInv'
      BY <1>9, ScanStep
<1>10. ASSUME NEW r \in Reader, RangeScan(r) \/ Lookup(r) \/ Fetch(r) \/ Fill(r) PROVE CacheInv'
       BY <1>10, RangeStep, LookupStep, FetchStep, FillStep
<1>11. \A p \in 1..position : p \in 0..position
       BY <1>5
<1>12. 0 \in 0..position
       BY <1>5
<1> QED
    BY <1>1, <1>2, <1>3, <1>4, <1>6, <1>7, <1>8, <1>9, <1>10, <1>11, <1>12
       DEF Next, WriterStep, ReaderStep

\* The invariant holds in every reachable state.
THEOREM Invariant == Spec => []CacheInv
    BY InitInv, NextInv, PTL DEF Spec

\* Every variable keeps its type, whatever services, fibers and backend there are.
THEOREM TypeCorrect == Spec => []TypeOK
<1>1. CacheInv => TypeOK
      BY DEF CacheInv
<1> QED
    BY <1>1, Invariant, PTL

\* No cache ever holds a fact or a retraction that was not committed.
THEOREM CachesHoldCommittedFacts == Spec => []CacheHoldsCommitted
<1>1. CacheInv => CacheHoldsCommitted
      BY DEF CacheInv
<1> QED
    BY <1>1, Invariant, PTL

\* A page pinned on a position misses nothing of that recorded snapshot, over
\* either backend, although scans are torn and caches are stale.
THEOREM PinnedPagesMissNothing == Spec => []PinnedPagesComplete
<1>1. CacheInv => PinnedPagesComplete
      BY DEF CacheInv
<1> QED
    BY <1>1, Invariant, PTL

\* As long as every read is a synchronous scan, reads observe every transact of
\* their service that has returned.
THEOREM SynchronousScansObserveCommits ==
  ASSUME ~Asynchronous, Lookups = {}
  PROVE  Spec => []ReadsObserveCommits
<1>1. CacheInv => ReadsObserveCommits
      BY DEF CacheInv, ScansInv, OnlyScans
<1> QED
    BY <1>1, Invariant, PTL

\* There, a page pinned on a position is exactly its recorded snapshot.
THEOREM SynchronousPagesAreExact ==
  ASSUME ~Asynchronous, Lookups = {}
  PROVE  Spec => []PinnedPagesExact
<1>1. CacheInv => PinnedPagesExact
      BY DEF CacheInv, ScansInv, OnlyScans
<1> QED
    BY <1>1, Invariant, PTL

-----------------------------------------------------------------------------
\* Pages of a query.

\* Facts are dated by the commits there were, and pages that are under way have a position.
PagesInv ==
  /\ qpPosition \in 0..QpMaxPosition
  /\ \A f \in qpFacts :
       /\ f = [entity |-> f.entity, attribute |-> f.attribute, value |-> f.value, tx |-> f.tx,
               recorded |-> f.recorded, retracted |-> f.retracted]
       /\ f.recorded \in 0..qpPosition /\ f.retracted \in 1..qpPosition \cup {Never}
  /\ qpBasis = NoBasis \/ qpBasis.position \in 0..qpPosition
  /\ qpAt = "idle" /\ qpBasis # NoBasis => qpCursor # NoCursor

LEMMA NeverIsLater == Never \in Nat /\ \A n \in 0..QpMaxPosition : n < Never /\ n # Never
BY QueryPagesAssumption DEF Never

LEMMA FactsAreNew ==
  ASSUME NEW f, NEW n
  PROVE  /\ FactOf(f, n).recorded = n /\ FactOf(f, n).retracted = Never
         /\ FactOf(f, n) = [entity |-> FactOf(f, n).entity, attribute |-> FactOf(f, n).attribute,
                            value |-> FactOf(f, n).value, tx |-> FactOf(f, n).tx,
                            recorded |-> FactOf(f, n).recorded, retracted |-> FactOf(f, n).retracted]
BY DEF FactOf

LEMMA PagesInitially ==
  ASSUME QpInit
  PROVE  PagesInv
<1>1. qpPosition = 0 /\ qpBasis = NoBasis /\ 0 \in 0..QpMaxPosition /\ 0 \in 0..qpPosition
  BY QueryPagesAssumption DEF QpInit
<1>2. \A g \in qpFacts : \E f : g = FactOf(f, 0)
  BY DEF QpInit
<1>3. ASSUME NEW g \in qpFacts
      PROVE  /\ g = [entity |-> g.entity, attribute |-> g.attribute, value |-> g.value, tx |-> g.tx,
                     recorded |-> g.recorded, retracted |-> g.retracted]
             /\ g.recorded \in 0..qpPosition /\ g.retracted \in 1..qpPosition \cup {Never}
  <2>1. PICK f : g = FactOf(f, 0)
    BY <1>2
  <2> QED BY <1>1, <2>1, FactsAreNew
<1> QED BY <1>1, <1>3 DEF PagesInv

\* The facts after a commit: those before it, one of them closed by it or one more.
LEMMA CommitKeepsPages ==
  ASSUME PagesInv, QpCommit
  PROVE  /\ PagesInv'
         /\ qpBasis # NoBasis => Seen(VisibleAt(qpFacts', qpBasis)) = Seen(VisibleAt(qpFacts, qpBasis))
<1> DEFINE n == qpPosition + 1
           Dated(f, now) ==
             /\ f = [entity |-> f.entity, attribute |-> f.attribute, value |-> f.value, tx |-> f.tx,
                     recorded |-> f.recorded, retracted |-> f.retracted]
             /\ f.recorded \in 0..now /\ f.retracted \in 1..now \cup {Never}
           cut == qpBasis.position
           Has(f) == f.recorded <= cut /\ f.retracted > cut
<1>1. qpPosition \in Nat /\ qpPosition < QpMaxPosition /\ qpPosition' = n /\ n \in 0..QpMaxPosition /\ n \in Nat \ {0}
  BY QueryPagesAssumption DEF PagesInv, QpCommit
<1>2. qpBasis' = qpBasis /\ qpAt' = qpAt /\ qpCursor' = qpCursor
  BY DEF QpCommit
<1>3. \A f \in qpFacts : Dated(f, qpPosition)
  BY DEF PagesInv
<1>4. ASSUME NEW f, Dated(f, qpPosition) PROVE Dated(f, n)
  <2>1. 0..qpPosition \subseteq 0..n /\ 1..qpPosition \subseteq 1..n
    BY <1>1
  <2> QED BY <1>4, <2>1
<1>5. ASSUME qpBasis # NoBasis
      PROVE  cut \in 0..qpPosition /\ \A all : VisibleAt(all, qpBasis) = {f \in all : Has(f)}
  <2>1. cut \in 0..qpPosition
    BY <1>5 DEF PagesInv
  <2>2. cut # Never
    BY <1>1, <2>1, NeverIsLater
  <2> QED BY <2>1, <2>2 DEF VisibleAt
<1>6. CASE \E f \in QpFacts : qpFacts' = qpFacts \cup {FactOf(f, n)}
  <2>1. PICK f \in QpFacts : qpFacts' = qpFacts \cup {FactOf(f, n)}
    BY <1>6
  <2> DEFINE g == FactOf(f, n)
  <2>2. g.recorded = n /\ g.retracted = Never /\ Dated(g, n)
    <3>1. /\ g.recorded = n /\ g.retracted = Never
          /\ g = [entity |-> g.entity, attribute |-> g.attribute, value |-> g.value, tx |-> g.tx,
                  recorded |-> g.recorded, retracted |-> g.retracted]
      BY FactsAreNew
    <3> HIDE DEF g
    <3> QED BY <1>1, <3>1
  <2> HIDE DEF g, Dated
  <2>3. \A x \in qpFacts' : Dated(x, n)
    BY <1>3, <1>4, <2>1, <2>2 DEF g
  <2>4. PagesInv'
    <3>1. qpBasis = NoBasis \/ qpBasis.position \in 0..n
      BY <1>1 DEF PagesInv
    <3>2. PagesInv
      OBVIOUS
    <3> QED BY <1>1, <1>2, <2>3, <3>1, <3>2 DEF PagesInv, Dated
  <2>5. ASSUME qpBasis # NoBasis PROVE VisibleAt(qpFacts', qpBasis) = VisibleAt(qpFacts, qpBasis)
    <3>1. ~ Has(g)
      BY <1>1, <1>5, <2>2, <2>5
    <3> HIDE DEF Has
    <3> QED BY <1>5, <2>1, <2>5, <3>1 DEF g
  <2> QED BY <2>4, <2>5, Zenon
<1>7. CASE \E f \in CurrentFacts(qpFacts) : qpFacts' = (qpFacts \ {f}) \cup {[f EXCEPT !.retracted = n]}
  <2>1. PICK f \in CurrentFacts(qpFacts) : qpFacts' = (qpFacts \ {f}) \cup {[f EXCEPT !.retracted = n]}
    BY <1>7
  <2> DEFINE g == [f EXCEPT !.retracted = n]
  <2>2. f \in qpFacts /\ f.retracted = Never /\ Dated(f, qpPosition)
    BY <1>3, <2>1 DEF CurrentFacts
  <2>3. /\ g = [entity |-> f.entity, attribute |-> f.attribute, value |-> f.value, tx |-> f.tx,
                recorded |-> f.recorded, retracted |-> n]
    BY <2>2
  <2>4. /\ g.entity = f.entity /\ g.attribute = f.attribute /\ g.value = f.value /\ g.tx = f.tx
        /\ g.recorded = f.recorded /\ g.retracted = n
    BY <2>3
  <2>5. Dated(g, n)
    <3>1. f.recorded \in 0..n /\ n \in 1..n
      BY <1>1, <2>2
    <3>2. g = [entity |-> g.entity, attribute |-> g.attribute, value |-> g.value, tx |-> g.tx,
               recorded |-> g.recorded, retracted |-> g.retracted]
      BY <2>3, <2>4
    <3> HIDE DEF g
    <3> QED BY <2>4, <3>1, <3>2
  <2> HIDE DEF g, Dated
  <2>6. \A x \in qpFacts' : Dated(x, n)
    BY <1>3, <1>4, <2>1, <2>5 DEF g
  <2>7. PagesInv'
    <3>1. qpBasis = NoBasis \/ qpBasis.position \in 0..n
      BY <1>1 DEF PagesInv
    <3>2. PagesInv
      OBVIOUS
    <3> QED BY <1>1, <1>2, <2>6, <3>1, <3>2 DEF PagesInv, Dated
  <2>8. ASSUME qpBasis # NoBasis PROVE Seen(VisibleAt(qpFacts', qpBasis)) = Seen(VisibleAt(qpFacts, qpBasis))
    <3>1. Has(g) <=> Has(f)
      <4>1. cut \in 0..qpPosition /\ cut < n /\ cut < Never
        BY <1>1, <1>5, <2>8, NeverIsLater
      <4> QED BY <1>1, <2>2, <2>4, <4>1, NeverIsLater
    <3> HIDE DEF Has
    <3>2. VisibleAt(qpFacts', qpBasis) = {x \in (qpFacts \ {f}) \cup {g} : Has(x)}
          /\ VisibleAt(qpFacts, qpBasis) = {x \in qpFacts : Has(x)}
      BY <1>5, <2>1, <2>8 DEF g
    <3>3. <<g.entity, g.attribute, g.value, g.tx>> = <<f.entity, f.attribute, f.value, f.tx>>
      BY <2>4
    <3> DEFINE What(x) == <<x.entity, x.attribute, x.value, x.tx>>
    <3>4. What(g) = What(f)
      BY <3>3
    <3> HIDE DEF What
    <3>5. {What(x) : x \in {x \in (qpFacts \ {f}) \cup {g} : Has(x)}} = {What(x) : x \in {x \in qpFacts : Has(x)}}
      BY <2>2, <3>1, <3>4
    <3> QED BY <3>2, <3>5 DEF Seen, What
  <2> QED BY <2>7, <2>8
<1> QED BY <1>6, <1>7 DEF QpCommit

LEMMA ReadsKeepPages ==
  ASSUME PagesInv, QpReads
  PROVE  /\ PagesInv' /\ qpFacts' = qpFacts
         /\ qpBasis # NoBasis => qpBasis' = qpBasis
         /\ qpBasis = NoBasis /\ qpBasis' # NoBasis => qpBasis'.position = qpPosition
<1>1. CASE QpPrepare
  <2>1. qpFacts' = qpFacts /\ qpPosition' = qpPosition /\ qpCursor' = qpCursor /\ qpAt' = "reading" /\ qpAt = "idle"
    BY <1>1 DEF QpPrepare
  <2>2. CASE qpCursor = NoCursor
    <3>1. qpBasis' = ResolvedBasis(qpAsked.recordedAt, qpPosition)
      BY <1>1, <2>2 DEF QpPrepare
    <3>2. qpBasis = NoBasis /\ qpBasis'.position = qpPosition /\ qpPosition \in 0..qpPosition
      BY <2>1, <2>2, <3>1, QueryPagesAssumption DEF PagesInv, ResolvedBasis
    <3> QED BY <2>1, <3>2 DEF PagesInv
  <2>3. CASE qpCursor # NoCursor
    <3>1. qpBasis' = qpBasis
      BY <1>1, <2>3 DEF QpPrepare
    <3> QED BY <2>1, <3>1 DEF PagesInv
  <2> QED BY <2>2, <2>3
<1>2. CASE QpKvClause
  <2>1. UNCHANGED <<qpFacts, qpPosition, qpAt, qpBasis, qpCursor>>
    BY <1>2 DEF QpKvClause
  <2> QED BY <2>1 DEF PagesInv
<1>3. ASSUME NEW page, QpFinish(page)
      PROVE  /\ PagesInv' /\ qpFacts' = qpFacts /\ qpBasis' = qpBasis
  <2>1. /\ UNCHANGED <<qpFacts, qpPosition, qpBasis>> /\ qpAt' = IF qpCursor' = NoCursor THEN "done" ELSE "idle"
    BY <1>3 DEF QpFinish
  <2> QED BY <2>1 DEF PagesInv
<1>4. CASE QpKvFinish
  BY <1>3, <1>4 DEF QpKvFinish
<1>5. CASE QpSqlFinish
  BY <1>3, <1>5 DEF QpSqlFinish
<1> QED BY <1>1, <1>2, <1>4, <1>5 DEF QpReads

\* At the last position, what is visible is what is current.
LEMMA LastCutIsCurrent ==
  ASSUME PagesInv, NEW basis, basis.position = qpPosition
  PROVE  VisibleAt(qpFacts, basis) = CurrentFacts(qpFacts)
<1>1. qpPosition # Never /\ qpPosition < Never /\ qpPosition \in Nat /\ Never \in Nat
  BY NeverIsLater, QueryPagesAssumption DEF PagesInv
<1>2. \A f \in qpFacts : (f.recorded <= qpPosition /\ f.retracted > qpPosition) <=> f.retracted = Never
  <2>1. ASSUME NEW f \in qpFacts PROVE (f.recorded <= qpPosition /\ f.retracted > qpPosition) <=> f.retracted = Never
    <3>1. f.recorded \in 0..qpPosition /\ f.retracted \in 1..qpPosition \cup {Never}
      BY DEF PagesInv
    <3> QED BY <1>1, <3>1
  <2> QED BY <2>1
<1> QED BY <1>1, <1>2 DEF VisibleAt, CurrentFacts

LEMMA PagesStep ==
  ASSUME PagesInv, [QpNext]_qpVars
  PROVE  /\ PagesInv'
         /\ qpBasis # NoBasis => qpBasis' = qpBasis /\ Seen(QpVisible') = Seen(QpVisible)
         /\ qpBasis = NoBasis /\ qpBasis' # NoBasis => Seen(QpVisible') = Seen(CurrentFacts(qpFacts))
<1>1. CASE QpCommit
  <2>1. qpBasis' = qpBasis
    BY <1>1 DEF QpCommit
  <2> QED BY <1>1, <2>1, CommitKeepsPages DEF QpVisible
<1>2. CASE QpReads
  <2>1. /\ PagesInv' /\ qpFacts' = qpFacts
        /\ qpBasis # NoBasis => qpBasis' = qpBasis
        /\ qpBasis = NoBasis /\ qpBasis' # NoBasis => qpBasis'.position = qpPosition
    BY <1>2, ReadsKeepPages
  <2>2. ASSUME qpBasis = NoBasis, qpBasis' # NoBasis PROVE VisibleAt(qpFacts, qpBasis') = CurrentFacts(qpFacts)
    BY <2>1, <2>2, LastCutIsCurrent
  <2> QED BY <2>1, <2>2 DEF QpVisible
<1>3. CASE UNCHANGED qpVars
  BY <1>3 DEF qpVars, PagesInv, QpVisible
<1> QED BY <1>1, <1>2, <1>3 DEF QpNext

\* The pages of a query read one cut, for any facts, queries, limits and engines: what was
\* current at the position that the first of them read.  A later commit only adds facts above
\* that position and closes facts above it, so no page sees more or less of it.
THEOREM PagesKeepTheirCut == QpSpec => PagesReadOneCut
<1>1. QpInit => PagesInv
  BY PagesInitially
<1>2. PagesInv /\ [QpNext]_qpVars => PagesInv'
  BY PagesStep
<1>3. PagesInv /\ [QpNext]_qpVars =>
        [/\ qpBasis # NoBasis => qpBasis' = qpBasis /\ Seen(QpVisible') = Seen(QpVisible)
         /\ qpBasis = NoBasis /\ qpBasis' # NoBasis => Seen(QpVisible') = Seen(CurrentFacts(qpFacts))]_qpVars
  BY PagesStep
<1> QED BY <1>1, <1>2, <1>3, PTL DEF QpSpec, PagesReadOneCut
=============================================================================
