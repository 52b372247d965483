----------------------------- MODULE DatomCache -----------------------------
(***************************************************************************)
(* Reads of the key-value engine against commits: every Triples service    *)
(* keeps the facts it has decoded in KvTripleStore.datomCache, and         *)
(* transact drops them all when it returns.                                *)
(*                                                                         *)
(* A commit is one step here (KvTriples shows that it looks like one), but *)
(* the return of transact, which clears the cache of its own service only, *)
(* is a later one.  Over FoundationDB a scan reads the index, looks up the *)
(* cache, fetches the facts it misses and fills the cache in four steps.   *)
(* The in-memory backend has a synchronous scan, which match, entity and   *)
(* the Datalog executor take when they can; entities, history, transaction *)
(* and get have steps, between which a fiber can yield, over either.       *)
(*                                                                         *)
(* One pattern stands for all: every fact matches it.  A fact keeps its    *)
(* recorded interval in commit positions.                                  *)
(***************************************************************************)
EXTENDS Integers, FiniteSets

CONSTANTS
  Service,      \* the Triples services over one backend, each with its cache
  Writer,       \* fibers that call transact
  Reader,       \* fibers that read
  Of,           \* the service of each fiber
  TripleId,
  Lookups,      \* the ids that are read with get
  Synchronous,  \* the backend has getRangeSync and getSync
  Asynchronous, \* scans that yield are made
  MaxPosition

ASSUME CacheAssumption ==
  /\ Of \in [Writer \cup Reader -> Service]
  /\ Writer \cap Reader = {}
  /\ Lookups \subseteq TripleId
  /\ Synchronous \in BOOLEAN /\ Asynchronous \in BOOLEAN
  /\ MaxPosition \in Nat

VARIABLES
  position,   \* the last commit position
  facts,      \* the META records: positions of assertion and of retraction
  cache,      \* datomCache of each service
  wpc,        \* where each writer is in transact
  mine,       \* the position of its last commit
  returned,   \* the last position a transact of the service has returned
  rpc,        \* where each reader is in its read
  want,       \* the ids it reads
  pin,        \* the recorded position it is pinned on, 0 when it reads live
  got,        \* the facts it has found so far
  since,      \* returned when it started
  seen        \* the ids of the facts it returned

writers == <<position, facts, wpc, mine, returned>>
readers == <<rpc, want, pin, got, since, seen>>
vars == <<writers, cache, readers>>

\* from 0: no such fact; to 0: not retracted.
Datom == [from : Nat, to : Nat]
None == [from |-> 0, to |-> 0]

Empty == [i \in TripleId |-> None]

Stored == {i \in TripleId : facts[i] # None}
Live == {i \in Stored : facts[i].to = 0}

\* The fact belongs to the recorded snapshot of position p.
AsOf(d, p) == d # None /\ d.from <= p /\ (d.to = 0 \/ d.to > p)

Snapshot(p) == {i \in TripleId : AsOf(facts[i], p)}

\* Bug: a fact retracted since then and one retracted before are taken alike.
VisibleForever(d, p) == d # None /\ IF p = 0 THEN d.to = 0 ELSE d.from <= p

\* visibleAt, for a basis pinned on a position or for the live facts.
Visible(d, p) == IF p = 0 THEN d # None /\ d.to = 0 ELSE AsOf(d, p)

Init ==
  /\ position = 0
  /\ facts = Empty
  /\ cache = [s \in Service |-> Empty]
  /\ wpc = [w \in Writer |-> "idle"]
  /\ mine = [w \in Writer |-> 0]
  /\ returned = [s \in Service |-> 0]
  /\ rpc = [r \in Reader |-> "idle"]
  /\ want = [r \in Reader |-> {}]
  /\ pin = [r \in Reader |-> 0]
  /\ got = [r \in Reader |-> Empty]
  /\ since = [r \in Reader |-> 0]
  /\ seen = [r \in Reader |-> {}]
-----------------------------------------------------------------------------
(* transact *)

\* Bug: the body writes through the shared store, cache and all.
BeginShared(w) ==
  /\ wpc[w] = "idle"
  /\ wpc' = [wpc EXCEPT ![w] = "body"]
  /\ \E i \in TripleId \ Stored :
       cache' = [cache EXCEPT ![Of[w]][i] = [from |-> position + 1, to |-> 0]]
  /\ UNCHANGED <<position, facts, mine, returned, readers>>

\* The body runs over a transaction-scoped store with a cache of its own.
Begin(w) ==
  /\ wpc[w] = "idle"
  /\ wpc' = [wpc EXCEPT ![w] = "body"]
  /\ UNCHANGED <<position, facts, cache, mine, returned, readers>>

\* Bug: the position counter has no end.
CommitPastTheEnd(w) ==
  /\ wpc[w] = "body"
  /\ position' = position + 1
  /\ mine' = [mine EXCEPT ![w] = position + 1]
  /\ wpc' = [wpc EXCEPT ![w] = "committed"]
  /\ UNCHANGED <<facts, cache, returned, readers>>

\* The transaction commits: it has retracted some facts and asserted others.
Commit(w) ==
  /\ wpc[w] = "body"
  /\ position < MaxPosition
  /\ \E R \in SUBSET Live, A \in SUBSET (TripleId \ Stored) :
       facts' = [i \in TripleId |->
                   IF i \in R THEN [facts[i] EXCEPT !.to = position + 1]
                   ELSE IF i \in A THEN [from |-> position + 1, to |-> 0]
                   ELSE facts[i]]
  /\ position' = position + 1
  /\ mine' = [mine EXCEPT ![w] = position + 1]
  /\ wpc' = [wpc EXCEPT ![w] = "committed"]
  /\ UNCHANGED <<cache, returned, readers>>

Fail(w) ==
  /\ wpc[w] = "body"
  /\ wpc' = [wpc EXCEPT ![w] = "failed"]
  /\ UNCHANGED <<position, facts, cache, mine, returned, readers>>

\* Bug: only a failed transaction clears the cache.
ReturnFailedClearing(w) ==
  /\ wpc[w] \in {"committed", "failed"}
  /\ cache' = IF wpc[w] = "failed" THEN [cache EXCEPT ![Of[w]] = Empty] ELSE cache
  /\ returned' = [returned EXCEPT ![Of[w]] =
                    IF wpc[w] = "committed" /\ mine[w] > @ THEN mine[w] ELSE @]
  /\ wpc' = [wpc EXCEPT ![w] = "idle"]
  /\ UNCHANGED <<position, facts, mine, readers>>

\* Effect.ensuring: however the transaction ended, the cache is cleared.
Return(w) ==
  /\ wpc[w] \in {"committed", "failed"}
  /\ cache' = [cache EXCEPT ![Of[w]] = Empty]
  /\ returned' = [returned EXCEPT ![Of[w]] =
                    IF wpc[w] = "committed" /\ mine[w] > @ THEN mine[w] ELSE @]
  /\ wpc' = [wpc EXCEPT ![w] = "idle"]
  /\ UNCHANGED <<position, facts, mine, readers>>
-----------------------------------------------------------------------------
(* Reads *)

Cached(r, i) == cache[Of[r]][i]

Start(r, ids, p, step) ==
  /\ rpc[r] \in {"idle", "done"}
  /\ rpc' = [rpc EXCEPT ![r] = step]
  /\ want' = [want EXCEPT ![r] = ids]
  /\ pin' = [pin EXCEPT ![r] = p]
  /\ got' = [got EXCEPT ![r] = Empty]
  /\ since' = [since EXCEPT ![r] = returned[Of[r]]]
  /\ seen' = [seen EXCEPT ![r] = {}]
  /\ UNCHANGED <<writers, cache>>

\* get
Get(r, i) == Start(r, {i}, 0, "lookup")

\* match, entity and query of the live facts
Match(r) == Asynchronous /\ Start(r, {}, 0, "range")

\* queryPage: the position is the current one, or the cursor's.
Page(r, p) == Asynchronous /\ Start(r, {}, p, "range")

\* scanCollect with getByIdSync, in one step.
ScanNow(r, p) ==
  /\ Synchronous
  /\ rpc[r] \in {"idle", "done"}
  /\ LET found == [i \in TripleId |-> IF i \in Stored /\ Cached(r, i) = None
                                        THEN facts[i] ELSE Cached(r, i)]
     IN  /\ cache' = [cache EXCEPT ![Of[r]] = found]
         /\ seen' = [seen EXCEPT ![r] = {i \in Stored : Visible(found[i], p)}]
  /\ rpc' = [rpc EXCEPT ![r] = "done"]
  /\ pin' = [pin EXCEPT ![r] = p]
  /\ since' = [since EXCEPT ![r] = returned[Of[r]]]
  /\ UNCHANGED <<writers, want, got>>

\* The index entries, which no retraction removes.
RangeScan(r) ==
  /\ rpc[r] = "range"
  /\ want' = [want EXCEPT ![r] = Stored]
  /\ rpc' = [rpc EXCEPT ![r] = "lookup"]
  /\ UNCHANGED <<writers, cache, pin, got, since, seen>>

Lookup(r) ==
  /\ rpc[r] = "lookup"
  /\ got' = [got EXCEPT ![r] = [i \in TripleId |-> IF i \in want[r] THEN Cached(r, i)
                                                                    ELSE None]]
  /\ rpc' = [rpc EXCEPT ![r] = "fetch"]
  /\ UNCHANGED <<writers, cache, want, pin, since, seen>>

Missing(r) == {i \in want[r] : got[r][i] = None}

\* getMany, one read of the backend; want keeps the ids that it returns.
Fetch(r) ==
  /\ rpc[r] = "fetch"
  /\ got' = [got EXCEPT ![r] = [i \in TripleId |-> IF i \in Missing(r) THEN facts[i]
                                                                       ELSE @[i]]]
  /\ want' = [want EXCEPT ![r] = Missing(r)]
  /\ rpc' = [rpc EXCEPT ![r] = "fill"]
  /\ UNCHANGED <<writers, cache, pin, since, seen>>

\* Bug: only what was fetched is returned.
FillFetchedOnly(r) ==
  /\ rpc[r] = "fill"
  /\ cache' = [cache EXCEPT ![Of[r]] =
                 [i \in TripleId |-> IF i \in want[r] /\ got[r][i] # None THEN got[r][i]
                                                                         ELSE @[i]]]
  /\ seen' = [seen EXCEPT ![r] = {i \in want[r] : Visible(got[r][i], pin[r])}]
  /\ rpc' = [rpc EXCEPT ![r] = "done"]
  /\ want' = [want EXCEPT ![r] = {}]
  /\ got' = [got EXCEPT ![r] = Empty]
  /\ UNCHANGED <<writers, pin, since>>

\* What was fetched goes into the cache, and what was found is filtered.
Fill(r) ==
  /\ rpc[r] = "fill"
  /\ cache' = [cache EXCEPT ![Of[r]] =
                 [i \in TripleId |-> IF i \in want[r] /\ got[r][i] # None THEN got[r][i]
                                                                         ELSE @[i]]]
  /\ seen' = [seen EXCEPT ![r] = {i \in TripleId : Visible(got[r][i], pin[r])}]
  /\ rpc' = [rpc EXCEPT ![r] = "done"]
  /\ want' = [want EXCEPT ![r] = {}]
  /\ got' = [got EXCEPT ![r] = Empty]
  /\ UNCHANGED <<writers, pin, since>>
-----------------------------------------------------------------------------
WriterStep(w) == Begin(w) \/ Commit(w) \/ Fail(w) \/ Return(w)

ReaderStep(r) ==
  \/ \E i \in Lookups : Get(r, i)
  \/ Match(r) \/ ScanNow(r, 0)
  \/ \E p \in 1..position : Page(r, p) \/ ScanNow(r, p)
  \/ RangeScan(r) \/ Lookup(r) \/ Fetch(r) \/ Fill(r)

Next == (\E w \in Writer : WriterStep(w)) \/ (\E r \in Reader : ReaderStep(r))

Spec == Init /\ [][Next]_vars
-----------------------------------------------------------------------------
(* Properties *)

TypeOK ==
  /\ position \in 0..MaxPosition
  /\ facts \in [TripleId -> Datom]
  /\ cache \in [Service -> [TripleId -> Datom]]
  /\ wpc \in [Writer -> {"idle", "body", "committed", "failed"}]
  /\ mine \in [Writer -> Nat]
  /\ returned \in [Service -> Nat]
  /\ rpc \in [Reader -> {"idle", "range", "lookup", "fetch", "fill", "done"}]
  /\ want \in [Reader -> SUBSET TripleId]
  /\ pin \in [Reader -> Nat]
  /\ got \in [Reader -> [TripleId -> Datom]]
  /\ since \in [Reader -> Nat]
  /\ seen \in [Reader -> SUBSET TripleId]

\* d is what the backend holds of fact i, or held before its retraction.
Was(d, i) == d # None => d.from = facts[i].from /\ d.to \in {0, facts[i].to}

\* Nothing enters a cache that was not committed: neither the facts of a body
\* that is still running or failed, nor a retraction that never happened.
CacheHoldsCommitted ==
  \A s \in Service : \A i \in TripleId : Was(cache[s][i], i)

\* What was visible at a position stays in every page pinned on it, however old
\* the facts in the cache are and whatever is committed during the scan.
PinnedPagesComplete ==
  \A r \in Reader : rpc[r] = "done" /\ pin[r] # 0 => Snapshot(pin[r]) \subseteq seen[r]

\* A read that starts when a transact of its service has returned observes its
\* result: no fact is returned that it or an earlier commit has retracted.
\* (docs/operational-primitives.md:16)
ReadsObserveCommits ==
  \A r \in Reader : rpc[r] = "done" /\ pin[r] = 0 =>
    \A i \in seen[r] : facts[i].to = 0 \/ facts[i].to > since[r]

\* A page pinned on a position whose transact has returned is exactly the
\* recorded snapshot of that position.  (docs/operational-primitives.md:91)
PinnedPagesExact ==
  \A r \in Reader : rpc[r] = "done" /\ pin[r] # 0 /\ pin[r] <= since[r] =>
    seen[r] = Snapshot(pin[r])
-----------------------------------------------------------------------------
(* The inductive invariant *)

FactsBounded ==
  \A i \in TripleId :
    /\ facts[i].from <= position /\ facts[i].to <= position
    /\ facts[i].from = 0 => facts[i].to = 0

CountersBounded ==
  /\ \A s \in Service : returned[s] <= position
  /\ \A w \in Writer : mine[w] <= position
  /\ \A r \in Reader : pin[r] <= position /\ since[r] <= position

GotHoldsCommitted == \A r \in Reader : \A i \in TripleId : Was(got[r][i], i)

\* A pinned scan has found, so far, everything it must return.
PinnedProgress ==
  \A r \in Reader : pin[r] # 0 =>
    /\ rpc[r] \in {"lookup", "fetch"} => Snapshot(pin[r]) \subseteq want[r]
    /\ rpc[r] = "fill" => \A i \in Snapshot(pin[r]) : got[r][i] # None

\* No cached fact is older than the last transact that has returned.
CacheFresh ==
  \A s \in Service : \A i \in TripleId :
    cache[s][i] # None /\ cache[s][i].to = 0 => facts[i].to = 0 \/ facts[i].to > returned[s]

\* Every read is a synchronous scan.
OnlyScans == ~Asynchronous /\ Lookups = {}

ScansInv ==
  OnlyScans =>
    /\ \A r \in Reader : rpc[r] \in {"idle", "done"}
    /\ CacheFresh /\ ReadsObserveCommits /\ PinnedPagesExact

CacheInv ==
  /\ TypeOK /\ FactsBounded /\ CountersBounded
  /\ CacheHoldsCommitted /\ GotHoldsCommitted
  /\ PinnedProgress /\ PinnedPagesComplete
  /\ ScansInv
=============================================================================
