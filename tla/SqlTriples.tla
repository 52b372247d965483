------------------------------ MODULE SqlTriples ------------------------------
(***************************************************************************)
(* Triples.transact over a SQL database (TriplesLive.ts), one step for     *)
(* each statement.  Hosts run transactions of their own and any number of  *)
(* transacts in them, each a savepoint; a transact on its own is a host    *)
(* transaction that holds nothing else.                                    *)
(*                                                                         *)
(* PostgreSQL hosts each have a connection and read committed data.  The   *)
(* row of the position counter stays locked from its UPDATE to the end of  *)
(* the host transaction or of the savepoint that is rolled back, and every *)
(* write to the facts comes after it: work, the database as its holder     *)
(* sees it, is the only uncommitted version there is, apart from the       *)
(* receipts that calls insert before they ask for the position.  SQLite    *)
(* hosts share one connection and wait for it.                             *)
(***************************************************************************)
EXTENDS TripleStore, FiniteSets

CONSTANTS
  Host,        \* the fibers that open host transactions
  NoHost,
  Requests,    \* what the transacts ask for
  Engines,     \* "sqlite", "postgresql"
  MaxCalls,    \* the transacts of each host
  MaxClock     \* the last instant runtime.now returns

ASSUME SqlAssumption ==
  /\ NoHost \notin Host
  /\ Requests \subseteq Request
  /\ Engines \subseteq {"sqlite", "postgresql"}
  /\ MaxCalls \in [Host -> Nat] /\ MaxClock \in Nat \ {0}
  /\ \A h \in Host : {h} \X (1..MaxCalls[h]) \subseteq TxId

VARIABLES
  engine,     \* the database behind the adapter
  db,         \* what is committed
  clock,      \* what runtime.now returns
  pc,         \* where each host is
  asked,      \* the requests of its transacts, in their order
  result,     \* and their results
  instant,    \* the "now" of its running transact
  claimed,    \* the command whose receipt its running transact has inserted
  lock,       \* the host that holds the row of the position counter
  work,       \* the database as that host sees it
  save,       \* the same at its last savepoint
  next,       \* the index of its transact's next operation
  asserted,   \* the ids in the "assert" entries of the transact's changes
  retracted   \* the ids in its "retract" entries

holder == <<next, asserted, retracted>>
vars == <<engine, db, clock, pc, asked, result, instant, claimed, lock, work, save,
          holder>>

PC == {"idle", "open", "claim", "position", "enforce", "ops"}

Failure == {"WriteError", "CommandAlreadyCommitted", "TransactionConflict",
            "ConstraintViolation"}

\* A transact that succeeds is "applied" until its host transaction ends.
Result == {"running", "applied", "committed", "rolled back"} \cup Failure

\* The id of the running transact.
Tx(h) == <<h, Len(asked[h])>>
Asking(h) == asked[h][Len(asked[h])]
Running(h) == pc[h] \notin {"idle", "open"}

Applied(h) == {n \in DOMAIN result[h] : result[h][n] = "applied"}

Init ==
  /\ engine \in Engines
  /\ db = EmptyDatabase
  /\ clock = 1
  /\ pc = [h \in Host |-> "idle"]
  /\ asked = [h \in Host |-> <<>>]
  /\ result = [h \in Host |-> <<>>]
  /\ instant = [h \in Host |-> 0]
  /\ claimed = [h \in Host |-> NoCommand]
  /\ lock = NoHost
  /\ work = EmptyDatabase
  /\ save = EmptyDatabase
  /\ next = 1 /\ asserted = {} /\ retracted = {}
-----------------------------------------------------------------------------
(* The host transaction *)

\* Bug: SQLite hosts do not wait for the connection.
OpenAtOnce(h) ==
  /\ pc[h] = "idle"
  /\ Len(asked[h]) < MaxCalls[h]
  /\ pc' = [pc EXCEPT ![h] = "open"]
  /\ UNCHANGED <<engine, db, clock, asked, result, instant, claimed, lock, work, save,
                 holder>>

Open(h) ==
  /\ pc[h] = "idle"
  /\ Len(asked[h]) < MaxCalls[h]
  /\ engine = "sqlite" => \A g \in Host : pc[g] = "idle"
  /\ pc' = [pc EXCEPT ![h] = "open"]
  /\ UNCHANGED <<engine, db, clock, asked, result, instant, claimed, lock, work, save,
                 holder>>

\* The row is free again, and what its holder saw is gone or committed.
Unlock ==
  /\ lock' = NoHost
  /\ work' = EmptyDatabase /\ save' = EmptyDatabase
  /\ next' = 1 /\ asserted' = {} /\ retracted' = {}

Close(h, D, verdict) ==
  /\ db' = D
  /\ pc' = [pc EXCEPT ![h] = "idle"]
  /\ result' = [result EXCEPT ![h] = [n \in DOMAIN @ |->
                  IF @[n] \in {"applied", "running"} THEN verdict ELSE @[n]]]
  /\ instant' = [instant EXCEPT ![h] = 0]
  /\ claimed' = [claimed EXCEPT ![h] = NoCommand]
  /\ IF lock = h THEN Unlock ELSE UNCHANGED <<lock, work, save, holder>>
  /\ UNCHANGED <<engine, clock, asked>>

HostCommit(h) ==
  /\ pc[h] = "open"
  /\ Close(h, IF lock = h THEN work ELSE db, "committed")

\* The host fails, is interrupted or loses its connection, in a transact or not.
HostRollback(h) == pc[h] # "idle" /\ Close(h, db, "rolled back")
-----------------------------------------------------------------------------
(* transact *)

Answer(h, r) == result' = [result EXCEPT ![h][Len(asked[h])] = r]

\* Bug: the savepoint gives back neither the facts nor the position.
FailKeeping(h, o) ==
  /\ Answer(h, o)
  /\ pc' = [pc EXCEPT ![h] = "open"]
  /\ instant' = [instant EXCEPT ![h] = 0]
  /\ claimed' = [claimed EXCEPT ![h] = NoCommand]
  /\ IF lock # h THEN UNCHANGED <<lock, work, save, holder>>
     ELSE /\ save' = EmptyDatabase
          /\ next' = 1 /\ asserted' = {} /\ retracted' = {}
          /\ UNCHANGED <<lock, work>>
  /\ UNCHANGED <<engine, db, clock, asked>>

\* withTransaction rolls back to the savepoint, which frees the row unless an
\* earlier transact of the host transaction holds it.
Fail(h, o) ==
  /\ Answer(h, o)
  /\ pc' = [pc EXCEPT ![h] = "open"]
  /\ instant' = [instant EXCEPT ![h] = 0]
  /\ claimed' = [claimed EXCEPT ![h] = NoCommand]
  /\ IF lock # h THEN UNCHANGED <<lock, work, save, holder>>
     ELSE IF Applied(h) = {} THEN Unlock
     ELSE /\ work' = save /\ save' = EmptyDatabase
          /\ next' = 1 /\ asserted' = {} /\ retracted' = {}
          /\ UNCHANGED lock
  /\ UNCHANGED <<engine, db, clock, asked>>

Reject(h, r) ==
  /\ pc[h] = "open"
  /\ Len(asked[h]) < MaxCalls[h]
  /\ ~Admissible(r)
  /\ asked' = [asked EXCEPT ![h] = Append(@, r)]
  /\ result' = [result EXCEPT ![h] = Append(@, "WriteError")]
  /\ UNCHANGED <<engine, db, clock, pc, instant, claimed, lock, work, save, holder>>

\* The savepoint, the checks and the reading of the clock, before any lock.
Begin(h, r) ==
  /\ pc[h] = "open"
  /\ Len(asked[h]) < MaxCalls[h]
  /\ Admissible(r)
  /\ asked' = [asked EXCEPT ![h] = Append(@, r)]
  /\ result' = [result EXCEPT ![h] = Append(@, "running")]
  /\ pc' = [pc EXCEPT ![h] = "claim"]
  /\ instant' = [instant EXCEPT ![h] = clock]
  /\ save' = IF lock = h THEN work ELSE save
  /\ UNCHANGED <<engine, db, clock, claimed, lock, work, holder>>

\* What h sees.
View(h) == IF lock = h THEN work ELSE db

\* g has inserted a receipt of the command and has not ended its transaction.
HoldsReceipt(g, k) ==
  \/ claimed[g] = k
  \/ lock = g /\ work.receipt[k] # db.receipt[k]

WaitsForReceipt(h, g) ==
  /\ pc[h] = "claim" /\ g # h
  /\ Asking(h).command # NoCommand
  /\ HoldsReceipt(g, Asking(h).command)

\* INSERT ... ON CONFLICT DO NOTHING, which waits for the transaction that has
\* inserted the key.
ClaimCommand(h) ==
  /\ pc[h] = "claim"
  /\ ~ \E g \in Host : WaitsForReceipt(h, g)
  /\ Asking(h).command # NoCommand => View(h).receipt[Asking(h).command] = NoTx
  /\ claimed' = [claimed EXCEPT ![h] = Asking(h).command]
  /\ pc' = [pc EXCEPT ![h] = "position"]
  /\ UNCHANGED <<engine, db, clock, asked, result, instant, lock, work, save, holder>>

\* Bug: a conflict counts as a commit before the other transaction has ended.
AlreadyCommittedEarly(h) ==
  /\ pc[h] = "claim"
  /\ Asking(h).command # NoCommand
  /\ \/ View(h).receipt[Asking(h).command] # NoTx
     \/ \E g \in Host : WaitsForReceipt(h, g)
  /\ Fail(h, "CommandAlreadyCommitted")

AlreadyCommitted(h) ==
  /\ pc[h] = "claim"
  /\ Asking(h).command # NoCommand
  /\ ~ \E g \in Host : WaitsForReceipt(h, g)
  /\ View(h).receipt[Asking(h).command] # NoTx
  /\ Fail(h, "CommandAlreadyCommitted")

Claimed(h) == IF claimed[h] = NoCommand THEN View(h)
                                        ELSE WithReceipt(View(h), claimed[h], Tx(h))

\* INSERT ... ON CONFLICT DO UPDATE, which waits for the row.
NextPosition(h) ==
  /\ pc[h] = "position"
  /\ lock \in {NoHost, h}
  /\ lock' = h
  /\ work' = WithNextPosition(Claimed(h))
  /\ pc' = [pc EXCEPT ![h] = IF Asking(h).enforced THEN "enforce" ELSE "ops"]
  /\ UNCHANGED <<engine, db, clock, asked, result, instant, claimed, save, holder>>

\* Two hosts wait for each other, one with the row and one with the receipt.
Deadlocked(h, g) == lock = h /\ WaitsForReceipt(h, g) /\ pc[g] = "position"

\* Bug: the error of the statement does not end the transact.
DeadlockVictimWaiting(h) == FALSE

\* PostgreSQL cancels a statement of one of them, and its transact fails.
DeadlockVictim(h) ==
  /\ \E g \in Host : Deadlocked(h, g) \/ Deadlocked(g, h)
  /\ Fail(h, "WriteError")

EnforceHolds(h) ==
  /\ pc[h] = "enforce"
  /\ pc' = [pc EXCEPT ![h] = "ops"]
  /\ UNCHANGED <<engine, db, clock, asked, result, instant, claimed, lock, work, save,
                 holder>>

EnforceViolated(h) == pc[h] = "enforce" /\ Fail(h, "ConstraintViolation")
-----------------------------------------------------------------------------
(* The loop over the operations *)

AtOp(h, kind) ==
  /\ pc[h] = "ops"
  /\ next <= Len(Asking(h).ops)
  /\ Asking(h).ops[next].op = kind

CurrentOp(h) == Asking(h).ops[next]

OpDone ==
  /\ next' = next + 1
  /\ UNCHANGED <<engine, db, clock, pc, asked, result, instant, claimed, lock, save>>

\* A batch of assertions is inserted before the next retraction or the end;
\* nobody sees the rows before.
AssertFact(h) ==
  /\ AtOp(h, "assert")
  /\ HasFreshId(work)
  /\ work' = WithFact(work, FreshId(work), CurrentOp(h).entity, Tx(h), instant[h])
  /\ asserted' = asserted \cup {FreshId(work)}
  /\ UNCHANGED retracted
  /\ OpDone

RetractAll(h, ids) ==
  /\ work' = WithRetracted(work, ids, Tx(h), instant[h])
  /\ retracted' = retracted \cup ids
  /\ UNCHANGED asserted
  /\ OpDone

\* getById and query return live rows only.
TouchesReserved(h, ids) ==
  ~Asking(h).authorized /\ \E i \in ids : work.facts[i].entity \in Reserved

LiveOnly(ids) == {i \in ids : IsLive(work, i)}

RetractFact(h) ==
  /\ AtOp(h, "retract")
  /\ IsLive(work, CurrentOp(h).id)
  /\ ~TouchesReserved(h, {CurrentOp(h).id})
  /\ RetractAll(h, {CurrentOp(h).id})

RetractNothing(h) ==
  /\ AtOp(h, "retract")
  /\ ~IsLive(work, CurrentOp(h).id)
  /\ CurrentOp(h).id \notin Asking(h).expects
  /\ UNCHANGED <<work, asserted, retracted>>
  /\ OpDone

RetractConflict(h) ==
  /\ AtOp(h, "retract")
  /\ ~IsLive(work, CurrentOp(h).id)
  /\ CurrentOp(h).id \in Asking(h).expects
  /\ Fail(h, "TransactionConflict")

RetractPattern(h) ==
  /\ AtOp(h, "retract-pattern")
  /\ ~TouchesReserved(h, Matching(work, CurrentOp(h).entity))
  /\ RetractAll(h, Matching(work, CurrentOp(h).entity))

RetractReserved(h) ==
  /\ \/ AtOp(h, "retract") /\ TouchesReserved(h, LiveOnly({CurrentOp(h).id}))
     \/ AtOp(h, "retract-pattern")
          /\ TouchesReserved(h, Matching(work, CurrentOp(h).entity))
  /\ Fail(h, "WriteError")

EnvelopeOf(h) == [tx |-> Tx(h), position |-> work.position, instant |-> instant[h],
                  command |-> Asking(h).command,
                  asserted |-> asserted, retracted |-> retracted]

FinishAs(h, journaled, asserted1, retracted1) ==
  /\ pc[h] = "ops"
  /\ next > Len(Asking(h).ops)
  /\ work' = IF journaled THEN WithEnvelope(work, EnvelopeOf(h)) ELSE work
  /\ Answer(h, "applied")
  /\ pc' = [pc EXCEPT ![h] = "open"]
  /\ instant' = [instant EXCEPT ![h] = 0]
  /\ claimed' = [claimed EXCEPT ![h] = NoCommand]
  /\ save' = EmptyDatabase
  /\ next' = 1 /\ asserted' = asserted1 /\ retracted' = retracted1
  /\ UNCHANGED <<engine, db, clock, asked, lock>>

\* Bug: the changes of one transact leak into the next of the same host.
FinishKeepingChanges(h) == FinishAs(h, Asking(h).journaled, asserted, retracted)

\* The envelope; then the savepoint is released and the host goes on.
Finish(h) == FinishAs(h, Asking(h).journaled, {}, {})

Tick ==
  /\ clock < MaxClock
  /\ clock' = clock + 1
  /\ UNCHANGED <<engine, db, pc, asked, result, instant, claimed, lock, work, save, holder>>

Finished ==
  /\ \A h \in Host : pc[h] = "idle" /\ Len(asked[h]) = MaxCalls[h]
  /\ UNCHANGED vars
-----------------------------------------------------------------------------
BodyStep(h) ==
  \/ ClaimCommand(h) \/ AlreadyCommitted(h) \/ NextPosition(h) \/ DeadlockVictim(h)
  \/ EnforceHolds(h) \/ EnforceViolated(h)
  \/ AssertFact(h) \/ RetractFact(h) \/ RetractNothing(h) \/ RetractConflict(h)
  \/ RetractPattern(h) \/ RetractReserved(h)
  \/ Finish(h)

HostEnd(h) == HostCommit(h) \/ HostRollback(h)

Step(h) ==
  \/ Open(h) \/ HostEnd(h)
  \/ \E r \in Requests : Reject(h, r) \/ Begin(h, r)
  \/ BodyStep(h)

Next == (\E h \in Host : Step(h)) \/ Tick \/ Finished

Spec == Init /\ [][Next]_vars

\* The runtime keeps running a fiber that can run, the database detects
\* deadlocks, and hosts end the transactions they have opened.
FairSpec ==
  Spec /\ \A h \in Host : WF_vars(BodyStep(h)) /\ WF_vars(pc[h] = "open" /\ HostEnd(h))
-----------------------------------------------------------------------------
(* Properties *)

\* The types of the variables.
TypeOK ==
  /\ engine \in Engines
  /\ db \in Database /\ work \in Database /\ save \in Database
  /\ clock \in Nat
  /\ pc \in [Host -> PC]
  /\ asked \in [Host -> Seq(Requests)]
  /\ result \in [Host -> Seq(Result)]
  /\ instant \in [Host -> Nat]
  /\ claimed \in [Host -> Command \cup {NoCommand}]
  /\ lock \in Host \cup {NoHost}
  /\ next \in Nat \ {0}
  /\ asserted \subseteq TripleId /\ retracted \subseteq TripleId

Calls == UNION {{h} \X (1..MaxCalls[h]) : h \in Host}
CallsWith(r) == {c \in Calls : c[2] \in DOMAIN result[c[1]] /\ result[c[1]][c[2]] = r}
RequestOf(c) == asked[c[1]][c[2]]

\* A transact publishes all it did or nothing: when its host transaction, or its
\* savepoint, is rolled back, no fact, receipt or envelope of it stays; when it
\* commits, its receipt and envelope are there.  (README.md:508)
CommitsWithItsHost ==
  \A c \in Calls :
    IF c \in CallsWith("committed")
      THEN /\ RequestOf(c).journaled => \E env \in db.journal : env.tx = c
           /\ RequestOf(c).command # NoCommand => db.receipt[RequestOf(c).command] = c
      ELSE /\ \A i \in Ids(db) : db.facts[i].tx # c /\ db.facts[i].retractTx # c
           /\ \A env \in db.journal : env.tx # c
           /\ \A k \in Command : db.receipt[k] # c

\* A transact is told that its command has committed only when it has, or when
\* an earlier transact of its own host had applied it.
AlreadyCommittedIsTrue ==
  \A c \in CallsWith("CommandAlreadyCommitted") :
    \/ db.receipt[RequestOf(c).command] # NoTx
    \/ \E n \in 1..(c[2] - 1) : RequestOf(<<c[1], n>>).command = RequestOf(c).command

\* SQLite hosts wait for the connection before they read the clock, so commit
\* instants follow commit positions.
InstantsFollowPositions ==
  engine = "sqlite" =>
    \A e1, e2 \in db.journal : e1.position < e2.position => e1.instant <= e2.instant

\* Every transact ends, whatever row or receipt it waits for.
EveryTransactReturns == \A h \in Host : Running(h) ~> ~Running(h)

\* README.md:144 has a retraction close the recorded visibility of a fact, which
\* its assertion opened.
RetractionsCloseVisibility ==
  \A i \in Ids(db) : ~IsLive(db, i) => db.facts[i].retractInstant >= db.facts[i].instant
-----------------------------------------------------------------------------
(* What transact promises, for all transacts of a host transaction at once *)

Log == INSTANCE TripleLog WITH
  Call <- Host, MaxAttempts <- 1, request <- asked, outcome <- result,
  SeesRetracted <- FALSE

\* D after the n-th transacts of host h, n in S, run one after the other with
\* nothing in between, at instants t.
RunAlone(D, h, requests, S, t) ==
  LET after[n \in 0 .. Len(requests)] ==
        IF n = 0 THEN D
        ELSE IF n \notin S THEN after[n - 1]
        ELSE Log!Transact(after[n - 1], requests[n], <<h, n>>, t[n]).D
  IN  after[Len(requests)]

\* A host transaction takes effect at one moment: the database becomes what
\* TripleLog makes of the applied transacts alone, run on what was committed, and
\* those that failed or were rolled back leave no trace.
CommitsAsIfAlone ==
  [][db' # db => \E h \in Host : \E t \in [Applied(h) -> 1..MaxClock] :
       /\ HostCommit(h)
       /\ db' = RunAlone(db, h, asked[h], Applied(h), t)]_vars
=============================================================================
