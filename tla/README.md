# Triplex, specified

Triplex (`src/packages`) is a bitemporal triple store: facts are asserted and retracted,
never overwritten; each fact has a recorded interval (which commits saw it) and a valid
interval (when it was true), and every commit leaves a causal envelope in an ordered feed.
The store runs over key-value backends (memory, FoundationDB) and SQL ones (SQLite,
PostgreSQL, Cloudflare Durable Objects), and above it live Datalog queries, snapshots, derivations, a
configuration store, entity validation, consumers of the feed and live subscriptions.

This directory holds TLA+ modules that model the store, TLC configurations that check them on
small instances, and proofs that TLAPS checks for every instance. `PROJECT.json` maps each
definition to the lines it models and lists runs, mutants, findings, hazards and theorems.

## 1. Inventory

| Component | State | Operations | Hard parts | What makes it correct |
|---|---|---|---|---|
| KV engine `kv/layers/KvTriplesLive.ts` over `kv/kv/InMemoryKvBackend.ts`, `foundationdb/src/FdbKvBackend.ts` | position counter, command receipts, facts with their indexes, journal facts | `transact`; `assert`, `assertBatch`, `retract`, `retractByPattern` are calls of it | concurrent bodies, conflict and rerun, lost replies, timeouts, bodies that die | each call whole or not at all; envelopes agree with facts; one commit per command id; compare-and-retract; positions and history append-only |
| Envelopes and reserved namespace `store/transactionMetadata.ts`, `systemNamespace.ts` | `_triplex/` facts | write envelope, refuse application writes, silent system writes | silent writes must not hide application facts | the feed covers every application write |
| Hexastore `kv/hexastore/*` | index keys, META records, the decoded-fact cache of a process | assert, retract, scans, lookups, cache fill and clear | keys whose parts are prefixes of one another or hold zero bytes; reads that yield between the index and the facts, and between a fetch and the cache | a scan returns exactly what matches, a cut exactly what was visible; a read sees one committed state, not an older one than a commit it follows |
| SQL engine `store/TriplesLive.ts`, `*Adapter.ts` | tables for facts, position, commands | `transact` in a native or host transaction | row locks, instants read before the lock, nested calls | as for the KV engine; as-of reads repeatable |
| Consumer checkpoints `operational/ConsumerCheckpoint.ts` | one cursor fact for each consumer | `get`, `advance` | racing workers, first write, retries after a lost answer | the cursor never goes back and never passes what was processed |
| Constraints `Constraint.ts`, `config/GraphConstraint.ts` | none | load relevant facts, evaluate at interval boundaries, compare before and after | relevance and boundaries must not miss a violation | a commit never introduces a violation |
| Temporal bases `Temporal.ts`, `visibleAt` | none | live, recorded, valid, pinned visibility | rows without positions | live = visible now |
| Pagination, entity histories `Pagination.ts`, `store/entityTransactionHistory.ts` | cursors | page after page over a changing store | concurrent commits between pages | no row twice, none missing |
| Datalog `datalog/*`, `kv/datalog/*`, `sql/src/SqlQueryExecutor.ts` | none | joins, negation, aggregates, recursive rules | stratification, fixpoint | agrees with the textbook semantics |
| Snapshots `snapshots/*` | snapshot rows | writes that materialize what they touch, backfill, current, as-of, changed since | rows written late, twice, out of order, or not at all | a row is the state at its transaction, and the right row is read |
| Subscriptions `subscriptions/*`, change emission `store/*` | sessions, topic tree, pending changes, timer | connect, subscribe, emit, flush, disconnect | filters, failing sends during a flush | every affected subscriber is told |
| FoundationDB watches `foundationdb/src/FdbSubscriptions.ts` | watch keys | signal, watch, debounce, re-arm | signals between watch and re-arm, crash between commit and signal | a change is eventually noticed |
| Derivations `derivation/*` | run and candidate facts | evaluate, materialize, current, reconcile | read position, evaluate and record in separate steps | a run records what its position implies |
| Configuration store `config/ConfigStore.ts`, `InMemoryConfigStore.ts` | objects, schemas, revisions, snapshots, ref targets | commit, set ref, resolve, recheck, dependents | a load is five reads, releases computed from stale loads, racing moves of a ref | stored snapshots are whole, no change is silent, one target per ref |
| Entity validation `config/EntityValidation.ts` | head, checkpoint, results | revalidate, current | crash between results and head, racing runs | the head names a complete run |
| Database manager `sql/src/DatabaseManagerLayer.ts`, `DatabaseRegistryLayer.ts` | registry rows, storage, cache of open databases | create, first use, get, list, clear, delete, deleteAll, grant, revoke, idle close | two first uses at once, a use or a grant overtaken by a deletion, close of a used database | a closed connection leaves the cache, an access entry names a database |
| Configuration evaluation `config/TypeExpr.ts`, `TypeSubsumption.ts`, `Predicate.ts`, `Evaluate.ts`, `ConfigRuntime.ts`, `Reactor.ts` | cache of answers, registrations | check a body, compare types, evaluate with evidence, preview, react, decide | answers that are reused instead of computed | nothing that spares work changes an answer |
| Content hashes, migrations, CLI, dashboard, test kit | none | | | left out: pure data, formatting, user interface |

Components call each other through one service, `Triples`: reads (`match`, `entity`, `query`,
`transactions`, ...) and `transact`. Everything durable that the upper components keep
(checkpoints, refs, heads, runs) is facts under `_triplex/` written by `transact` with the
system authorization. Their concurrency control is `transact`'s: preconditions and command ids.
That is why `transact` is specified, checked and proved first.

## 2. Modules

| Module | What it is |
|---|---|
| `TripleStore` | The durable state (position, receipts, facts, journal) and the writes of a transaction, as constant operators |
| `TripleLog` | What `transact` promises: a call is one function of the database it finds |
| `KvTriples` | `transact` over both key-value backends, one action for each step the program yields on |
| `KvTriplesInv`, `KvTriplesProofs` | The refinement mapping of `KvTriples` to `TripleLog`, and the inductive invariants of `KvTriples`; theorems and their proofs |
| `SqlTriples`, `SqlTriplesProofs` | `transact` over SQLite and PostgreSQL inside host transactions, one action for each statement; theorems |
| `Hexastore`, `HexastoreProofs` | Index keys and META records byte by byte: encoding, ranges, scans, temporal cuts; theorems about scans and cuts |
| `SqlRows` | The rows of the SQL adapters beside the hexastore, given the same writes: coding, conditions, dependency states |
| `DatomCache`, `DatomCacheProofs` | Readers of several services against commits, through the cache of decoded facts of each; theorems, also one about `QueryPages` |
| `DatalogQueries` | What a query is, when it is valid, and the answer it asks for: the reference the engines are compared with |
| `KvDatalog`, `SqlDatalog` | What the key-value executor and the compiled SQL statement compute |
| `QueryPages` | Queries and pages by both engines over a store that goes on committing |
| `EntityHistory` | The newest-first walk of an entity's transactions while others commit |
| `Constraints` | Enforcement of graph constraints at commit, and their evaluation at a basis |
| `ConsumerCheckpoint` | Workers that read the feed and advance the cursor of their consumer |
| `Snapshots` | Writers that commit and then write the snapshot rows of what they have touched; backfill; snapshot reads |
| `Derivation` | Materializers and readers of derivations against writers; next boundaries; overlays |
| `Subscriptions` | The dependencies of a query, the filters over changes, and the hub that sends them |
| `FdbSubscriptions` | Change watches over FoundationDB: signals, watch loops, debounce |
| `ConfigStore`, `ConfigStoreProofs` | Clients that load the configuration store, compute a release and commit it; theorems, also those about `Constraints` and `Types` |
| `EntityValidation` | Validators that read, write what they found and report, against writers |
| `Types` | What a type accepts, when one accepts all that another does, and the recheck that relies on it |
| `Decisions` | Evaluation with evidence, the cache of answers, previews, the reactor, the facts a decision loads |
| `Databases` | The manager of many databases with its registry and connection cache |
| `FeedClientsProofs` | Theorems about `ConsumerCheckpoint`, `Subscriptions`, `FdbSubscriptions`, `Databases`, `EntityHistory` and `Decisions` |
| `DerivedRecordsProofs` | Theorems about `Derivation`, `EntityValidation` and `Snapshots`, which keep records of what they derived |
| `NaturalLemmas` | What several proofs need of sets of naturals and of iteration |
| `MC...` of one of these | Requests, facts, queries, model values and symmetry for TLC |
| `MCStores`, `MCFeedClients`, `MCStoreClients` | Several components in one run |

`TripleStore` is extended by `TripleLog`, `KvTriples` and `SqlTriples`. The components above the store take a
`transact` as one step, which is what the refinement of `TripleLog` justifies; `DatomCache` keeps of a fact only its
recorded interval. `DatalogQueries` is extended by `KvDatalog` and `SqlDatalog`, and these by `QueryPages`.

The three modules of the last row put components that share nothing beside each other: the first state
chooses a `part`, and only that part's variables move from then on. Each part's behaviours are those it would have in
a run of its own, and the properties of the other parts are about variables that keep their initial values.

### KvTriples and the code

`db` is what the backend has committed. `work[c]` is what the body of call `c` sees: the
snapshot of its first read overlaid with its own writes (`transactionBackend` over the write
buffer of `InMemoryKvBackend` or over a FoundationDB transaction). `asserted` and `retracted`
are the body's `changes`. `pc` is the place in the body:

    idle -> claim -> position -> (enforce) -> ops -> commit -> done

`Reject`/`Begin` are the checks in front (`KvTriplesLive.ts:425-445`), `ClaimCommand` and
`AlreadyCommitted` are `claimKvCommand`, `NextPosition` and `PositionExhausted`
`nextKvCommitPosition`, `EnforceHolds`/`EnforceViolated` the constraint check, `AssertFact`,
`Retract...` the cases of the loop, `WriteJournal` the envelope, `Commit` the end of the
backend's transaction. With `Optimistic = FALSE` the body holds the semaphore `mutex`
from `Begin` to its end and always may commit. With `Optimistic = TRUE` bodies interleave,
and a commit is refused when another came in between (every body reads and writes the
position key, so any two conflict); `CommitConflict` then runs the body again with a new
transaction id, as `tx._exec` does. `LostReplies` adds `CommitUnknown` (error 1021, retried,
committed or not) and `CancelTooLate` (the timer of `withTransactionTimeout` wins the race
against a commit that happened). `Abandon` is an interrupt, a defect or a timeout at any step.

Data is reduced to what decides something here: a fact keeps its entity, which is what
retract patterns and the reserved namespace test; value, type and valid interval do not.
The journal is a set of envelopes rather than the facts that encode them.

### SqlTriples and the code

A host opens a transaction (`sql.withTransaction`), runs transacts in it, each in a savepoint,
and commits or rolls back; a `transact` on its own is the host transaction that holds nothing
else. The body is `TriplesLive.ts:245-450`: `Reject`/`Begin` (checks, ids and clock, before any lock),
`ClaimCommand`/`AlreadyCommitted` (the insert of the receipt waits for whoever has inserted the
same key), `NextPosition` (the upsert of the position row, locked until the transaction ends or the
savepoint is rolled back), then the operations and the envelope (`Finish`). Facts are only written
under that row lock, so there is one uncommitted version of them: `work`, with `save` its last
savepoint. `Fail` is the roll-back to the savepoint. `DeadlockVictim` is PostgreSQL's: a host that
holds the row wants a receipt whose owner wants the row. Locks, savepoints and deadlock detection are
the database's and marked external. SQLite differs in `Open`: one connection, which hosts wait for.
A Durable Object (`CloudflareAdapter.ts:109`) runs the body in one synchronous step, which is
`TripleLog`. `RunAlone` is what `TripleLog` makes of the applied transacts of a host, one after the other. Not modelled: a `COMMIT` whose reply is lost, several processes on one SQLite file.

### DatomCache and the code

Writers are calls of `transact`: `Begin`, then `Commit` or `Fail`, then `Return`, where
`Effect.ensuring` clears the cache of the service (`KvTriplesLive.ts:605-616`). Between commit and return
other fibers run. Readers are the scans of `KvTripleStore`. A yielding one goes through
`RangeScan` (index entries), `Lookup` (cached facts), `Fetch` (the others, from the backend) and `Fill` (into
the cache, and the filter of `visibleAt`); `Get` enters at `Lookup`. `ScanNow` is
`scanCollect`, which does all of it in one step and which `match`, `entity` and Datalog use
over the in-memory backend. `pin` is the recorded position of a page (`queryPage`), 0 for live reads.
`since` records the last position a `transact` of the service had returned when the read began: what
the read must observe. `get`, `entities`, `history` and `transaction` yield over either backend (in memory only
when the fiber has used up its share of the scheduler), so what is said of synchronous scans does not cover them.
Ranges so long that the backend pages them are left out.

### ConsumerCheckpoint and the code

A worker goes round `Get` (the cursor, `expectedPosition`), `ReadPage` (`transactions`, at most
`PageLimit` envelopes, whose last position is `nextPosition`), `Process` (its own effects) and `advance`: `Load`
(the checks and `readLoaded`), then `Initialize` under the command id of the consumer or `Move`
with a `TripleLive` precondition, `InitializeLost`/`MoveLost` and `Winner` when another worker was faster, `Stored` the
last read. `marks` are the live position facts of the checkpoint's entity, so two of them are the corrupt
checkpoint the code checks for. A commit whose reply is lost makes `advance` fail (`Committed`);
the worker repeats it (`Retry`) or starts over. `Crash` is a restart between any two steps. A `transact` is
one step (`TripleLog`) and so is a read, which holds for the memory backend and SQL; over FoundationDB reads
are weaker (`DatomCache`) and this model does not speak of them. Workers pass no command id of their own to `advance`.

### ConfigStore and the code

Every operation of `ConfigStore.ts` first loads the whole store: `LoadObjects` ... `LoadRefs` are the five matches of
`load`, each one step, with the transactions of other clients between them; `CorruptStore` is its refusal of records
that name what was not loaded. `reverseDependencies` asks its index before (`Query`). Then the pure functions of
`InMemoryConfigStore.ts` run on what was loaded (`view`): `Reject` and `Compute` for `commit` and `setRef`, `Answer` for the
operations that only read. A move of a ref reads the live target (`ReadCurrent`, after the computation) and the
transaction (`Transact`, `Conflict`) retracts it under a `TripleLive` precondition, or adds a target when there was none.
A content id is what it is computed from, so a closure or revision id is a record of its inputs. The objects of a
release are typed nodes that refer to each other; child nodes, untyped nodes and labels are left out. A transaction is
one step, as in `ConsumerCheckpoint`.

### Snapshots and the code

A write through a store with the `EntitySnapshots` capability is `Prepare` (what `retract`, `retractByPattern` and
`transact` read before they write), the commit (`Write`, `WriteAfterReads`), `Meta` (`resolveRetractionMeta`: the transaction that
retracted the first fact seen, whoever ran it) and `materialize`, entity after entity: `ReadHistory` takes the history
of the entity up to the position of the transaction, `WriteRow` upserts the row. Other writers commit between any two of
these steps, and `Stop` is a failure or the end of the process. `backfill` is `FindMissing` and `Stamp`, then `materialize` with a
transaction id that the store does not know: such a row has no position and is read by time. `Current`, `AsOf` and `FindChanged` are
the queries of the service and `Later` their order. A transaction asserts at most one fact of an entity, so the position names the
fact, and content is a set of positions. Left out: silent system writes, entity types, valid time, blobs and hashes.

Two kinds of call do not know what they touch: a `transact` whose pattern names no entity (`EntitySnapshotsCapability.ts:230`), and
`retractByPattern`, which takes what its earlier `match` has seen (line 178). Entities whose facts they retract may be left
without a row, and `current` then shows them as they were; the comment at the head of the file ("all touched entities")
does not say so. `ReturnedWritesHaveRows` is about the other calls.

### Hexastore and the code

`hexEntries` and `hexMeta` are what `KvTripleStore` keeps under the prefixes of its indexes and of META: `HexAssert` is
`assert` with its keys of bytes, `HexAssertStr` `assertBatchStr` with its keys of strings, `HexRetract` the rewriting of the META record. Keys are
sequences of bytes built by `EncodeTuple` (tags, escaped zero bytes, flipped signs, a terminator), ordered as the backends
order them, and read back by `DecodeTuple`. `SelectIndex` is the choice of an order, `PrefixRange` its bounds, `ScanCollect`,
`MatchCurrent` and `MatchTemporal` the scans with their filters. The type index has entries only for typed facts. A float has the sign and the flips of the
real one in one byte instead of eight; -0 (`NoNegativeZeroAssumption`, section 5) and NaN are not among the values. `HexIdAt` gives the ids that the store makes, no two of them
alike. The loops that read a text and a tuple are recursive functions of what is read so far (`StringTurn`, `TupleTurn`). A range is read as a set.

`SqlRows` adds the table `sqlTable`: `Insert` and `Retract` write a fact to both. `PackValue` is `queries.ts`, `RowToTriple` the way back
(`TriplesLive.ts`), `RecordedConditions` ... `Rows` the WHERE of a read, `SqliteQuery`, `CloudflareQuery` and `PostgresqlQuery` what the adapters put into
it. `SqlDependencyState` is their two aggregates, `KvDependencyState` the loop of `KvTriplesLive.ts` over all facts of each attribute. `CutsAreExact` compares all of
these with what the history of facts says (`HeldAt`, `ChangedUpTo`, `ChangesNext`), so a backend that reads a boundary otherwise than the
others, or reports an older change, is told apart. A fact is left out where a database cannot hold it (`Stores`), a value where an adapter has no condition
for it (`Compares`).

### Datalog, pages and the code

`AnswerOf` (`DatalogQueries`) is the textbook meaning: a clause is a set of bindings, rules are the least
fixpoint up to `maxDepth`, aggregates range over distinct bindings. `ValidQuery` is `datalog/validation.ts`, and
TLC checks that every query asked is valid. `KvDatalog` follows `executor.ts`: contexts are a sequence, extended clause by
clause by nested scans or, beyond `HashJoinFrom` contexts, by one scan and a join on the encoded key; NOT and OR filter;
rules run in rounds; then aggregates, HAVING, optional fields, order and slice. `SqlDatalog` follows `compiler.ts` and `wrapper.ts`: a row
of the join is the cells of its aliases; `Joins` the equalities the compiler emits at the first place of a variable, `LocalJoin`
those inside NOT EXISTS, `RuleRows` the recursive table, `GroupedRows` GROUP BY, `KeysetHolds` the cursor's
comparison column by column. What SQLite does with NULL, DISTINCT and affinity is modelled from how the statement uses it.

`QueryPages` is the machine around them. `QpCommit` is any transaction; `QpPrepare` takes or reads the pinned position (`preparePagination`),
`QpKvClause` reads one clause, between which commits fall, `QpKvFinish` and the SQL page return rows
and the next cursor. `PagesAreTheAnswerOnce` says that what the pages give, one after another, is the answer at the pinned position; `PagesReadOneCut`, that every
page and every clause of it reads the facts of that position (`Seen`: a fact that is retracted later differs in nothing a clause looks at).

`EntityHistory`: `Take` allocates a position, `Commit` makes the envelope visible, `Rollback` gives it back or leaves a gap (the SQL engines hold the row, so one writer at a time has a position); `Fix`, `QueryEnvelopes` and `Envelopes`
are the three reads of `transactionsForEntity` for each page.

### Constraints and the code

`Enforce` is the block of `transact` between the position and the operations (`KvTriplesLive.ts:462-500`, `TriplesLive.ts` alike): `LoadRelevantFacts` the loader,
`Project` the operations applied to what was loaded, `Boundaries` the ends of valid intervals, `NewlyViolated` the comparison of before and after by
rule and subject. `Evaluate` (`EvaluateAtBasis`) is the reading of the same rules by `config/GraphConstraint.ts` at a basis. Since the body is serialised by its
backend, it is one step.

### Subscriptions, watches and the code

In `Subscriptions`, `ExtractDependencies`, `TopicsFor`, `CandidateTopics` and `CheckInvalidation` are the functions of the same names
(`invalidation.ts`, `TopicTree.ts`), over queries reduced to their patterns. Each call of `SyncHub` is one action, as JavaScript runs it whole; `Flush` is the
debounce timer's callback, in which any send may fail and disconnect its session (`disconnect` removes its subscriptions while the loop
over the pending changes goes on). `owed` is a history variable: who was concerned when a change was emitted.

In `FdbSubscriptions` the writer commits (`CommitEvent`), then signals in another transaction that may fail (`Signal`, `LoseSignal`). A loop for
each key arms, fires, breaks (with a pause) and re-arms; `WatchKeysReturns` is the answer once all loops have armed; `Debounce` and `Read` are the timer and the
subscriber. `missed` records that an event fell where nothing watched: the code does not promise to notice it, and
`EveryChangeIsReadUnlessMissed` says that this is the only way to miss one. `BehindHasAReadToCome` is the safety in it, at every step: as long as a subscriber is behind,
something that leads to a read is there, an unsent signal, a marker that an armed watch has not seen, a watch that fired, the timer or a read that is due.

### Derivation and the code

A materializer takes the position (`ReadSourcePosition`), the run before (`LookForRun`), the rows (`QueryRows`), the boundary and the sources (`ReadBoundary`, `ReadSources`) in
separate reads (`Materialization.ts:420`) and records the run in one transaction (`RecordRun`); `current` is `LoadRuns`, which selects, and `Verdict`, which then compares positions.
Two definitions stand for all (one with a negation); content ids are what they are computed from. `Overlays` are the sets of facts to assert and to retract, which `OverlayEvaluate` applies to what is visible.

### EntityValidation and the code

`StartRun` to `Record` (or `RecordNothing`) are the reads and the one write of `revalidate`: the ref's snapshot, the last position that is no validation's,
the constraints, heads, checkpoint, entity after entity. `AskCheckpoint` to `ReportAnswer` is `currentInvalid`. With `OneAtATime` no run begins while
another is under way. The code does not see to that: see section 5.

### Types, Decisions and the code

`Accepts` is `TypeExpr`'s check of a body, `Subsumes` the verdict of `TypeSubsumption.ts` by constructor, `RecheckType` what the configuration store does with
it: bodies published under a type that the verdict covers are not read again. `Publish` stores a body under a type that accepts it. `Accepts` and `Subsumes` are
recursive functions; `AcceptsBy` and `SubsumesBy` are one call of them, given the answers for the parts. What has no length, or is no number, meets no bound on it.
`Decisions`: `Evaluate` is the three-valued evaluator with the evidence it records (facts present and absent, rules, the next instant at which the clock
matters): `NodeOf` is one call of `go`, given the answers of the calls it makes. `Cached` is reuse, `Impact` a preview, `React` the reactor, `DecisionOf` the load of the facts a rule names. `Submit`, `Release` and `Tick` move the world.
One subject: see section 5.

### Databases and the code

Every call is a fibre; an action is what it does between two awaits of `DatabaseManagerLayer.ts` or of the registry's statements. First use: `BeginUse`, `Find`,
`Build` (opens a connection and makes the storage; may fail), `Cache`. A use of a cached connection is one step, since nothing is awaited between `Ref.get` and the touch.
`Count`, `Open`, `CountRead` serve `get`, `list` and `update`; `clear` is get, delete and create in one fibre (`then`). `Delete` to `Drop`, `CloseAll` to `DropAll` are the deletions, `CleanupCloses` and `CleanupRemoves`
the cleaner, which picks any of the cached names, as idleness depends on time alone. The manager of Durable Objects is left out.

## 3. Runs

| Run | Part and instance | Question |
|---|---|---|
| `kv_memory` | 3 calls, 14 kinds of request, 4 facts, last position 2 | Under the semaphore, with failures at every step: do instants follow positions, does the engine look atomic (`TripleLog`)? |
| `kv_foundation` | 3 calls, 5 kinds, 2 attempts each, replies lost | With concurrency, conflicts and lost replies: do envelopes tell the truth, does a command commit once? |
| `kv_foundation_atomic` | 3 calls, 7 kinds, 3 attempts, no lost reply, fair | Does it look atomic, and does every body end? |
| `kv_unknown_result` | violation | Is a call without a command id committed at most once? |
| `cache_memory` | 2 services, 3 writers, 1 reader, 3 facts, 3 positions | Synchronous scans: are reads fresh, pages exact? |
| `cache_foundation` | 2 services, 2 writers, 2 readers, 2 facts, 2 positions | Do pinned pages miss nothing when scans yield and caches are stale? |
| `cache_late_fill` | violation | Does a read observe the commits its service has returned? |
| `stores` | `sql`: 2 hosts with 2 and 1 transacts, 6 kinds, both databases, fair | Do host transactions commit as if they ran alone, do savepoints leave no trace, does waiting end? |
| | `pages`: 7 facts, about thirty queries and six wrapped ones, both engines, 1 commit while reading | Do both engines give the answer, page by page, of the pinned position, and does each page read that cut? |
| | `hexastore`: 9 facts, 36 patterns, 3 positions, 3 instants, three SQL adapters | Are scans exact whatever the bytes, cuts and dependency states exact over keys and over rows? |
| | `constraints`: 4 rules, 10 transactions and every retraction, 3 facts, 4 instants | Does enforcement admit exactly the transactions that worsen nothing? |
| | `types`: some forty types, 9 bodies, 2 published | Does a recheck name exactly the refused bodies? |
| `sql_closed_before` | violation | Does a retraction never precede its assertion in recorded time? |
| `feed_clients` | `consumer`: 2 workers, 3 application writes, pages of 2, 1 restart, 1 lost reply, fair | Does the cursor pass no unprocessed envelope, are answers true, is every write acknowledged? |
| | `hub`: 2 connections, 2 queries each, 2 changes, sends that fail, fair; and every subscription of two patterns and a rule argument | Do the filters keep what is read, are owed changes sent, is nothing left of who is gone? |
| | `watch`: 2 keys, 2 events, signals lost, watches that break, fair | Is every change read unless nothing watched, and is a read to come whenever one is owed? |
| | `history`: 2 entities, 2 writers, pages of 2, 5 positions | Does a walk see each transaction of its entity once? |
| | `decisions`: 2 accounts, 2 rules of 3 bodies, 2 facts, 3 instants of days of 2, 2 changes, 2 answers kept | Is a reused, previewed or watched answer the one that evaluating would give? |
| | `databases`: 2 clients and the cleaner, 1 name, 1 user, 2 connections | Does every closed connection leave the cache? |
| `store_clients` | `config`: 2 clients, 3 operations in all, 3 objects in a chain, 2 schemas, 5 releases, 1 ref | Are stored snapshots whole whatever their writers had loaded? |
| | `snapshots`: 2 writers, 2 entities, 3 positions, 2 instants, 1 failure, 1 backfill | Are snapshot rows exact however late they are written, do calls that return leave none out, are changes found? |
| | `validation`: 2 subjects, 2 values, 2 snapshots, 2 validators, 4 source positions | Is a report that says it is current exact, are the heads one run? |
| | `derivations`: 2 materializers or readers, 3 requests, 5 kinds of fact, 2 writes, 3 positions | Is a run that is called current exact, does a boundary hide no change, do overlays foretell? |
| `config_stale_writer` | violation | Does a stale writer never overwrite a newer target? |

Some properties are proved and in no run, because a property that is run catches what breaks them: `HistoryAppendOnly` (a fact that is retracted twice also makes the envelope
of its first retraction lie, `JournalMatchesFacts`) and `CommitsWithItsHost` (a trace of a call that was given back is not what `TripleLog` makes of the others, `CommitsAsIfAlone`).

Bounds. Three calls are one more than any property relates, so a third party can interfere
with a racing pair. Four triple ids let every call write and one write twice. `MaxPosition`
is reached in `kv_memory` (the third commit is refused) and out of reach over FoundationDB,
where with three attempts every pattern of conflicts among three calls occurs: a conflict
needs another commit. Requests cover each operation, precondition, authorization and
journal flag, alone and in the orders where one operation sees the effect of an earlier one.

In `consumer` two workers race for the first write and for every move, a third write makes two
pages, and one lost reply and one restart may fall anywhere, together or apart.

In `sql` two transacts of one host are what a savepoint needs to keep something and give
something back, and the second host is the one that waits, deadlocks or comes first. In the cache runs one
service is the other's foreign process; a fact is asserted at one position, retracted at the next
and read at a third; two readers of one cache suffice for one to spoil it for the other.

In `config` three operations let one client commit, and another load before it and commit after it; a chain of three
is the shortest in which an object is changed only through an object it does not name. The releases add, edit and
widen the schema of its last object, or leave out the others; one repeats a slot and one has a dangling reference. Clients
are symmetric. In `snapshots` three positions let two commits overtake the rows of a first; two instants let two commits
share a millisecond and a third follow; batches assert a fact of both entities, patterns match both or name one. No failure falls after the
start of a backfill.

The parts of `stores` are comparisons of an algorithm with its reference, so their bounds are inputs. The queries of `pages` have
each clause, a variable twice in a pattern, joins on transactions, negation, disjunction, rules bound and unbound and on a cycle, every aggregate, HAVING,
optional fields and order; stores of 0, 3 or 5 of the 7 facts (0, 5 or 7 under pages of one row) hold values of several families under one attribute.
`HashJoinFrom` is 1 instead of 100, so both ways of joining are taken. In `hexastore` texts are prefixes of one another, hold a zero byte and go beyond ASCII; numbers
are negative, instants lie before 1970 and between milliseconds; three positions let a fact be asserted, retracted and the cut fall before, between and after. In `constraints` intervals overlap, touch and have no end, entities
change type over time, and one transaction retracts and asserts. In `hub` all queries over the sample are registered
once for the filters, and two of them take part in the interleavings.

In `databases` one name suffices, since calls on different names share only deletions of all, and two clients with the cleaner
are what a first use, a deletion and an idle close need to overtake one another; the proofs speak of any number. In `derivations` two writes fall anywhere between the four reads of a
run and the two of a report. In `validation` four source positions let two writes overtake a run and its report. In `decisions`
a day is two instants, so the clock moves within a day and beyond it.

Fairness. `FairSpec` has weak fairness of each body's steps and nothing else: an Effect fiber
that can run is run. Nothing makes a caller call, a clock tick or a reply get lost. `SqlTriples` adds that
hosts end the transactions they have opened (a host that keeps the position row blocks every
writer) and that the database detects deadlocks. `ConsumerCheckpoint` assumes that workers keep running and try again after a conflict; nothing
makes an application write. `Subscriptions` has weak fairness of the debounce timer, `FdbSubscriptions` of the signals (which may fail), the timer, the read and the loops, but
not of watches that break: the event loop runs what is ready, and nothing forces an error. In a run of several parts the fairness is that of the
part that was chosen. All other modules state safety only. Over FoundationDB a body can be re-run without end only if others commit without end, which finitely
many calls do not.

## 4. Proofs

`KvTriplesProofs` proves, for any calls, requests, backends and bounds, type correctness and
the safety properties of `kv_memory` and `kv_foundation`; `InstantsFollowPositions` (`InstantsAreOrdered`) for
a backend that takes one body at a time, the only one it holds over. `IInv` (module `KvTriplesInv`) is the inductive strengthening: as long as the snapshot of
a body is current (`Current`), its view is exactly the committed database plus what `asserted`,
`retracted`, the receipt and the envelope account for (`Overlay`); the id of the
running attempt is in no fact, receipt or envelope (`AttemptFresh`); and the operations already
passed have settled the preconditions they name (`Settled`). A commit happens only from a
current view, so it adds exactly one attempt's facts, at a position beyond all others.
`Inductive` is `Spec => []IInv`; the theorems on action
properties use it for the step. `InstantsAreOrdered` adds `OrderInv`: no envelope is later than the clock, and none is later than the clock that the body under way
has read, because it read it under the permit. Assumed: `StoreAssumption` and `KvAssumption`, the distinctness
of special values, that transaction ids of different attempts differ and that the clock has an instant.

The module ends with the refinement, `CallsAreAtomic`: while no reply of a commit is lost, `KvTriples` implements `TripleLog`, so `RunsAsIfAtomic` holds for any calls, requests and
bounds over either backend. (With lost replies it is false: `kv_unknown_result`.) A commit maps to the call that `TripleLog` makes of the whole body, every failure to `FailWith`, all else
stutters. `LogInv` carries it, beside `IInv`. `Follows`: a body whose snapshot is current has computed what the call computes on the committed database up to the operation it
has come to, so a commit, which is made from a current snapshot only, publishes the result of the call; a commit of another body makes the snapshot stale, and the claim is void until
the body runs again. `SeesNamed` is for bodies with stale snapshots, which may fail too, as FoundationDB compares what a body has read only when it commits: what a request names is in the view of its
body, with its entity, and dead there only if it is dead in the committed database or the body itself has retracted it. Without this conjunct a conflict could be answered for a fact that is
live. The proof attempt corrected `TripleLog`, whose conflict demanded a fact that is not live: a request that names an expected fact twice, or after a pattern that takes it,
retracts it and then meets its own retraction, so the call fails although the fact is live (`Unsettled`, request `repeat`).

`SqlTriplesProofs` proves type correctness, the three invariants and the refinement of `SqlTriples`, for any hosts, requests, calls and either database
(`StoreAssumption`, `SqlAssumption`). The argument is about who may write while others look. A host that has applied anything holds the
position row, and has it until its transaction ends (`ProgressInv`); a transact that has read no receipt may be overtaken, but the insertion of
the receipt waits for whoever has inserted it and is refused when that host commits, so a receipt under way is in no
other view (`ClaimInv`). Hence each view, the committed database and the savepoint hold receipt and envelope of what is
committed or applied by their host and no trace of the rest, but for the transact that is writing (`PublishInv`), and a commit publishes the view of
its host as it is. A refusal is told from the committed receipts or from the host's own view, and receipts stay (`ReceiptsStay`, `ToldInv`). Instants follow
positions over SQLite, where one host at a time has a transaction open (`TimeInv`).

`HostsCommitAsIfAlone` is `Spec => CommitsAsIfAlone`: a host transaction that commits makes of the database what the calls of `TripleLog` make of it, one for each of its transacts that is
applied, with nothing in between, whatever failed, waited or was rolled back meanwhile. The invariant is `AloneInv`: from the position row on, the view of its holder is what the applied transacts make of
the committed database (`Before`), the savepoint is that same database when there is something before it, and the transact that writes has computed on it what the loop of `TripleLog` computes up to its next operation
(`ComputesFrom`). It holds because only the holder of the row can commit anything new. Since instants are forgotten when a transact ends, `Before` is the set over all choices of them;
`RunsNext` extends a choice by the instant of the transact that finishes. Writing the proof showed that the engines differ: an unauthorized transact that names a fact of the
library which is already retracted fails over key-value stores, whose `getById` returns retracted facts (`KvTripleStore.ts:668`), and goes on over SQL, whose `getById` does not
(`SqliteAdapter.ts:481`, `PostgresqlAdapter.ts:400`). `TripleLog` has the constant `SeesRetracted` for it; with one meaning for both the theorem is false, and TLC has the counterexample as soon as requests retract such a fact.

`DatomCacheProofs` proves type correctness, that caches hold committed facts only
(`CachesHoldCommittedFacts`) and that pinned pages miss nothing (`PinnedPagesMissNothing`), for any
services, fibers and backend; and, when every read is a synchronous scan, that reads observe what
their service has returned and that pages pinned on a returned position are exact. The
inductive invariant is `CacheInv`: every cached or fetched fact is the stored one, perhaps without the
retraction it has got since (`Was`); a pinned scan under way has not lost a fact of its
snapshot (`PinnedProgress`: index entries and facts never go away); and, with synchronous scans, a fact
that is live in a cache has not been retracted at a position that has been returned (`CacheFresh`), because
whoever returns clears and nobody fills what was read before.

`FeedClientsProofs` proves of consumers, for any number of workers, writes, restarts and lost replies, every
safety property of `ConsumerCheckpoint` but `NoWriteForItsOwnSake`. `ConsumerInv` says what a worker may rely on
while others move the checkpoint: its page is all there is between its two positions (`PageInv`), and the position it has
read is live or lies behind the live one (`CursorInv`). `Forward` is the rely condition: a live position stays or
gives way to a later one. Every step is shown to keep the invariant of the worker that takes it, and
`OthersUndisturbed` does the rest.

The same module proves of pages that all of them read one cut (`PagesKeepTheirCut`), for any facts, queries, limits, bounds and either engine (`QueryPagesAssumption`: the number of commits is a natural number).
`PagesInv`: facts are dated by commits there were, and the basis of a query that is under way is at or below the last. So a later commit adds facts, and closes facts, only
beyond the basis (`CommitKeepsPages`), and at the moment when the basis is resolved the cut is what is current (`LastCutIsCurrent`); the cursor carries the basis to the next page (`ReadsKeepPages`).

`DerivedRecordsProofs` proves that every snapshot row with a position is exact (`RowsExact`), for any entities, writers, patterns, batches and
bounds of the right types (`SnapshotAssumption`). `SnapInv` says that the facts still tell the content at every position so far
(`StatesAreFacts`): a commit retracts only at its own position, which is beyond all others (`CommitKeepsThePast`,
`CommitMakesTheNext`); hence what a writer has read is exact whatever was committed since (`JobInv`). The id of a
backfill never becomes a position. The module goes on to what returned writes leave (`ReturnedWritesAreSnapshotted`), to change detection (`NoChangeIsMissed`) and to the
reads `current` and `asOf` (`SnapshotsAgree`). `WritesInv` follows each write from its commit to its return: what it still has to do and the rows it has written make up what
it changed (`WorkInv`), and instants, facts and rows stand in order. What a read chooses is the greatest of a finite set of positions or instants (`GreatestOf`), and the last
change is where it has to be.

`FeedClientsProofs` proves of the database manager `ClosedConnectionsLeave` (`ClosedConnectionsAreDropped`) and that access entries name registered databases
(`AccessEntriesAreNamed`), for any names, clients, users and bound on connections (`DatabasesAssumption`: the cleaner is no client, there is a name, no connection is
the absent one). The second is inductive by itself; the first needs to know who holds a connection: a built one belongs to its
builder alone until it is cached (`Owned`), and a cached one is known under one name, to the cache and to whoever is to close it (`OneName`). So whoever closes a
cached connection is the fibre that goes on to remove that name.

`DerivedRecordsProofs` proves type correctness and the three properties of `Derivation`, for any kinds of fact over its attributes, requests, materializers and bounds
(`DerivationAssumption`). A run reads the position of its sources before it reads them. A write either is `Quiet`, when it leaves
every attribute of a definition alone and so its rows, candidates and boundary, or it has `Overtaken` the definition, whose source position then passes all that was
read before (`WriteIsQuietOrOvertakes`). `DerivationInv` therefore says of each run, stored or under way: if its position is still that of its
sources, what it has read so far is what is there now (`Exact`, `TaskExact`). Boundaries rest on `NothingChangesBeforeTheBoundary`, and on the smallest of
a set of instants being there (`MinOfNaturals`).

The same module proves of entity validation, where no run begins while another is under way (`OneAtATime`, without which both are false: section 5), that the heads are of one run
(`HeadsAreOfOneRun`) and that a report that says it is current is exact (`CurrentReportsAreOfNow`), for any entities, types, snapshots, validators and writers
(`ValidationAssumption`). `RunInv`: as long as the source position that a run has read is the last, its constraints, entities and results are those of now;
`RecordsInv` says so of the run that the checkpoint names. `ReaderInv`: a reader has the checkpoint of now, or one that a run of the same source and snapshot has replaced, unless a source
position has passed since, in which case the last comparison refuses.

`ConfigStoreProofs` proves that stored snapshots are whole (`StoredSnapshotsAreWhole`), that two writers who have read the same target cannot both replace it (`MovesReplaceOne`) and that
no change between two snapshots goes unlisted (`ChangesBetweenAreComplete`), for any clients, slots, bodies and refs and any set of releases (`ConfigAssumption`). Nothing that is stored is removed, so what
a stale view names is still there (`ViewInv`); a revision is reused for an equal closure only, so the age of the view does not matter. The closure of an object is
a recursive function that runs for as many steps as there are slots: `DepsAreReached` shows that it has then reached the least closed set, since a step that adds
nothing is the last that could (`Iterates` unfolds the function, and the sets grow within a finite one).

The same module proves of constraints that enforcement is exact and evaluations agree (`EnforcementIsExactAlways`), for any rules of the four kinds, sets of rules, transactions and graphs
(`ConstraintsAssumption`: intervals are bounded by the instants looked at, a pattern names fields of a fact; `Enforce` guards that ids named were given out). Three lemmas carry it, one for each thing that could miss a violation.
`LoadedTellAll`: every fact of a subject, and of a target type, is loaded or asserted by the transaction itself, and a rule looks at no other (`OnlyRelevantFactsCount`). `OneOperation`: the
projection and the store keep the same facts and the same assertions, operation by operation, though under different ids, which violations do not tell (`RenamedViolations`, by a bijection, since
cardinalities are compared). `BoundariesSuffice`: an instant at which anything is visible sees what the last boundary before it sees.

`FeedClientsProofs` proves of the history of an entity that walks are exact (`WalksAreExact`), for any writers, entities, page sizes and bounds (`HistoryAssumption`). A transaction that is under way
holds the last position alone (`JournalInv`), so nothing commits at or below the position of a walk once it is fixed; `WalkInv` says that the walk has given exactly what is at or above its
boundary (`Given`), each page continuing below it. `NewestAreHighest` says what a page is: the highest positions, by rank, of which there are as many as there are members
(`RanksAreTaken`, by the pigeonhole principle).

`FeedClientsProofs` proves of subscriptions `FiltersKeepWhatIsRead` for any sets of queries of any patterns over the sample of attributes and entities, and `NothingOutlivesItsClients` for any
connections, queries and changes (`SubscriptionAssumption`). The first is about data: a pattern that matches a change leaves its attribute in the
dependencies or makes them dynamic (`ReadPatternsAreDependencies`), and each filter lets both pass. The second is by induction on `Sound`: registry and tree name the same
subscriptions, all of connected clients, which survives the disconnections in the middle of a flush (`DisconnectingKeepsSound`).

The same module proves of FoundationDB watches that no wake-up is lost (`WakeUpsAreNotLost`), for any keys and any number of commits. `WatchInv` says so while the loops run, from the start on, when the first read is due, and adds
what keeps it true: events are numbered by their commits, and no marker and no loop has the number of one that is unsent (`UnsentIsNews`). So a signal changes every marker it writes, and each watch armed on one of
its keys is about to fire. When no watch on them is armed or has fired, no read is due and no timer is set, the event is `missed`: that is the window before a loop has armed its watch again.

`FeedClientsProofs` proves of decisions that nothing which spares work changes an answer (`AnswersStayCurrent`) and that the reactor misses no change (`WatchedAnswersStayCurrent`), for any
predicates, rules, facts, accounts and instants (`ExpressionAssumption`: predicates are finite trees, which `Height` says, and `RuleKey` is finite; rules may call each other in a circle). The evaluator is a
recursive function over predicates and the rules being called. That it is the function its lines define needs a rank that each call lowers, what is left of the rules and then of the
tree (`CallsDescend`, `GoUnfolds`); the theorems are by induction on that rank. `EvaluationsAreHonest`: an evaluation observes keys there may be, each with what it shows.
`AgreeingEvaluations`, the heart of it: an environment that shows the same under those keys gives the same evaluation, whatever else differs, so an observation that is left out would break it.
`EvaluationsReadTheLoaded`: what it observes of facts is named by the rules that a static walk visits. The invariant `DecisionsInv` adds that what is kept was once
computed (`Genuine`) and that whatever a watched answer has seen is there still or among the unreacted changes (`Followed`).

`ConfigStoreProofs` proves of types that a recheck which trusts the verdict finds what reading every body would (`RechecksStayExact`), for any types, bodies, lengths, dates and
patterns (`TypesAssumption`: types are finite trees whose parts are types). `VerdictsAreProofs` is the heart of it, by induction on the heights of the two types: whatever the first accepts the second does, unless the verdict is
`Narrows`. A tighter bound admits fewer values (`TighterBoundsMeet`), and a structure is judged from its parts (`StructureIsProof`). It needs that no type has two patterns that differ
(`OnePatternAssumption`): the code keeps the last of several, and with two the theorem is false (section 5).

`RankedRecursion` of `NaturalLemmas` is what makes recursive functions usable: TLA+ defines one as some function that satisfies its equation, and the lemma says that there is one when each call
lowers a rank. The evaluator, `Accepts` and `Subsumes` are unfolded with it.

`HexastoreProofs` proves that scans are exact (`ScansStayExact`), for any facts and patterns of any texts (sequences of bytes below 255, as UTF-8 is), numbers, instants, booleans, references, JSON and blobs, any
ids and any number of commits (`HexAssumption`: the ids differ; `NoNegativeZeroAssumption`). It begins with what is written byte by byte: an escaped text is read back from wherever it
stands (`TextsAreRead`, since a zero byte that no 255 follows ends it), hence a part, a tuple (`TuplesAreRead`), a key (`KeyIsReadBack`) and a META record with any of its optional fields
(`RecordsAreRead`); both encoders write the same bytes (`WritersAgree`, `BatchesAgree`). Then ranges: a key of a fact that the pattern wants begins as the range does, and goes on with a tag
below the 255 that ends it (`BeginsWithin`), so whichever index `SelectIndex` takes, the range has a key of the fact (`ScanMeets`); the type index has exactly those of its type
(`TypeMeets`), for which a text must not begin as another that has ended. The invariant `HexInv` is that index and records are those of the facts there are: a retraction changes a record that it reads back first, and no
part of a key.

The same module proves that cuts are exact (`CutsStayExact`), under `SqlRowsAssumption` besides: facts are valid for a while, and no text that may be absent is empty there (section 5). `RowsInv` adds to `HexInv`
that the table has one row for each fact, made from it, and that facts are dated by the positions of commits, a retraction after its assertion. A row is read back as its fact (`RowIsRead`), so what each adapter selects are the
facts that meet its conditions (`QueriesAre`); at every basis of a cut the conditions of `queries.ts`, `visibleAt` and the two halves of `dependencyStateFromDatoms` say the same of a fact (`BasesAgree`). For dependency
states, `SourcesAgree` compares greatest positions (`SameLatest`), and `NextsAgree` shows that the first end of an interval after an instant is where what holds changes first: a fact that the cut has becomes valid or stops being so at its ends
and nowhere else (`ValidityChanges`). That the search for the next change may stop at the last end of all needs finitely many facts (`Bounded`).

Only model-checked are, first, the answers to queries: `KvAnswersExactly`, `SqlAnswersExactly` and `PagesAreTheAnswerOnce`. They compare two executors that fold over clauses, contexts, rules and rows with a reference that
does not, so a proof would be an induction over the data of a query; and they hold of the queries given to the run, among which there are none on which the executors differ (section 5),
so that a theorem for all queries would first need these to be told apart. Second, liveness: that every body returns, every write is acknowledged, owed changes are sent and every change that was not missed is read.

## 5. What the runs found

- `kv_unknown_result`: without a command id, a commit whose reply FoundationDB loses is applied
  twice, at two positions (`docs/operational-primitives.md:13` promises one).
- `cache_late_fill`: over FoundationDB a fetch that a commit overtakes fills the cache after the
  commit has cleared it; the retracted fact is live for the whole process until its next write. Pages pinned after the
  retraction show it too (`PinnedPagesExact` fails the same way).
- `sql_closed_before`: over PostgreSQL the clock is read before the position row is waited for, so
  a retraction can carry an earlier instant than the assertion; no `recordedAt` basis shows such a fact.
- `config_stale_writer`: `commit` computes a release from `load` and reads the target it compares against afterwards; a writer
  whose load another commit has overtaken replaces that commit's target without a conflict
  (`docs/configuration.md:102` promises that it cannot). Two writers that find the ref unset both write a target.

### Read from the code, with no run of their own

These were met while modelling. A model that contained them would only show what the lines say, so the properties
name the condition under which they hold, or the inputs leave the case out.

- `queryPage` with a past `recordedAt` pins the current position and ignores the instant (`docs/operational-primitives.md:96-100` says otherwise); pages are
  asked with the current basis or a valid instant (`QpPast`). A basis of `recordedAt` or `validAt` alone, repeated with a cursor, is refused as a mismatch.
- The SQLite and Durable Object adapters have no condition for the value of a blob, and no adapter has one for JSON (`SqliteAdapter.ts:587-605`): `match` and a retracting
  pattern with such a value select every value of that type, where the hexastore compares them (`KvTripleStore.ts:965-985`). `Compares` names the case.
- An index finds a number by its bits and a filter by its value (`KvTripleStore.ts:965-985`), which -0 tells apart: a pattern with 0 finds a fact of -0 when it binds the entity alone beside
  it, and misses it when it binds the attribute. `NoNegativeZeroAssumption` leaves -0 out.
- PostgreSQL takes no zero byte in a text and no fraction in an instant, which the other backends store: `Stores`. A fact whose `validTo` is not after its `validFrom` can
  give the backends different next boundaries. A row tells no empty text from an absent one (`rowToTriple`, and `packValue` for a file name), so an empty `createdBy`, `entityType` or
  `filename` is absent over SQL and kept by the hexastore. `SqlRowsAssumption` leaves these facts out.
- A `query` over FoundationDB reads each clause in a transaction of its own and may be torn by commits; only pages, which are pinned, are compared with one state.
- `checkInvalidation` promises no false negatives (`invalidation.ts:16-18`) but has one for a query with a variable for an attribute beside
  typed attributes: `Discoverable`.
- Two validations of one ref at once may interleave their heads and checkpoints: `OneAtATime`.
- The next boundary of an overlay (`Overlay.ts:155-167`) counts the ends of the base facts that are visible at its instant and misses one that begins later;
  `BoundariesCoverChanges` is about runs over the store.
- The two Datalog executors differ on: recursive rules that repeat a variable, and cyclic data below `maxDepth`; sums and averages over rule arguments and identities; constants in `find` beside aggregates;
  HAVING `!=` on a null aggregate, and its place in an order; wrapper filters on columns that are no values; LIKE's case; wrapped queries with rules, which SQL refuses; -0; optional fields of several values;
  numbers bound in rule bodies and not in heads; order of texts beyond the basic plane. The queries asked have none of these.
- `TypeSubsumption` keeps the last of several patterns only, so a type with patterns p and q is judged compatible with q alone in one order; no body of the
  instance is told apart by it.
- The cache of answers keys `$subject` by expression and facts seen, so another subject is served the first one's answer; the reactor refreshes all that
  are affected with one environment. `Decisions` has one subject.
- The projection of a retracting pattern compares a blob's type and size too, the retraction itself only its value: blobs are left out of `Constraints`.
- `ConfigRuntime` without a basis reads facts one after another, between which others commit.
- `DatabaseManager`: two first uses build two connections and one is never closed; a first use that a deletion overtakes caches a deleted database, a deletion's last
  step may remove the storage of one created since, and counting creates storage anew. `Databases` has all of these behaviours; its properties say what holds nevertheless.

## 6. Plan

Done: the store over all its backends, its indexes and caches, queries and pages, constraints, and everything that follows the feed or is kept in `_triplex/` facts. Next, in the
order of importance: theorems about Datalog; `SubscriptionManager`; the other snapshot reads.

## 7. Not modelled

SQL text, migrations and metrics; the encodings behind content ids; the coding of cursors and envelopes; pages of a long FoundationDB range; the bulk load of the
FoundationDB backend, which is not one transaction; the manager of Durable Objects; `SubscriptionManager`, a registry of subscriptions with an index by the hash of their queries; evidence verification; the command line,
the dashboard and the test kit, which read the services or scaffold tests. None of these decides in which order state changes, except the bulk load and `SubscriptionManager`.
