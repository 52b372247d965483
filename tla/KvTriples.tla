------------------------------ MODULE KvTriples ------------------------------
(***************************************************************************)
(* Triples.transact over a key-value backend (KvTriplesLive.ts), one step  *)
(* for each read or write the Effect program yields on.                    *)
(*                                                                         *)
(* Two backends run it.  The in-memory one (Optimistic = FALSE) holds a    *)
(* semaphore for the whole body and applies a write buffer at the end.     *)
(* FoundationDB (Optimistic = TRUE) runs bodies concurrently, each over a  *)
(* snapshot taken at its first read; since every body reads the position   *)
(* key, its commit is refused whenever another commit came in between, and *)
(* tx._exec runs the body again.  The reply of a FoundationDB commit may   *)
(* be lost (commit_unknown_result, or the client's timeout): LostReplies.  *)
(*                                                                         *)
(* work[c] is what the body of call c sees: the snapshot overlaid with its *)
(* own writes.                                                             *)
(***************************************************************************)
EXTENDS TripleStore

CONSTANTS
  Call,         \* the calls of transact that are made
  NoCall,
  Requests,     \* what they ask for
  Optimistic,   \* FoundationDB rather than the in-memory backend
  LostReplies,  \* a commit's reply can be lost
  MaxAttempts,  \* the attempts that fit in transactionTimeoutMs
  MaxClock      \* the last instant runtime.now returns

ASSUME KvAssumption ==
  /\ NoCall \notin Call
  /\ Requests \subseteq Request
  /\ Optimistic \in BOOLEAN /\ LostReplies \in BOOLEAN
  /\ MaxAttempts \in Nat \ {0} /\ MaxClock \in Nat \ {0}
  /\ Call \X (1..MaxAttempts) \subseteq TxId

VARIABLES
  db,         \* the committed database
  clock,      \* what runtime.now returns
  mutex,      \* the call that holds the in-memory transactionMutex
  pc,         \* where each call is in the body
  request,    \* what each call asked for
  attempt,    \* the runs of the body so far
  instant,    \* the body's "now"
  work,       \* the database as the body sees it
  next,       \* the index of the body's next operation
  asserted,   \* the ids in the "assert" entries of the body's changes
  retracted,  \* the ids in its "retract" entries
  outcome     \* what transact returned

vars == <<db, clock, mutex, pc, request, attempt, instant, work, next,
          asserted, retracted, outcome>>

PC == {"idle", "claim", "position", "enforce", "ops", "commit", "done"}

Outcome == {"none", "committed", "WriteError", "CommandAlreadyCommitted",
            "TransactionConflict", "ConstraintViolation", "died"}

NoRequest == [ops |-> <<>>, command |-> NoCommand, expects |-> {},
              authorized |-> FALSE, journaled |-> TRUE, enforced |-> FALSE]

\* The id the runtime draws for the running attempt.
Tx(c) == <<c, attempt[c]>>

Running(c) == pc[c] \notin {"idle", "done"}

Init ==
  /\ db = EmptyDatabase
  /\ clock = 1
  /\ mutex = NoCall
  /\ pc = [c \in Call |-> "idle"]
  /\ request = [c \in Call |-> NoRequest]
  /\ attempt = [c \in Call |-> 0]
  /\ instant = [c \in Call |-> 0]
  /\ work = [c \in Call |-> EmptyDatabase]
  /\ next = [c \in Call |-> 1]
  /\ asserted = [c \in Call |-> {}]
  /\ retracted = [c \in Call |-> {}]
  /\ outcome = [c \in Call |-> "none"]

\* Bug: the permit is not released.
ReturnKeepingPermit(c, o) ==
  /\ pc' = [pc EXCEPT ![c] = "done"]
  /\ outcome' = [outcome EXCEPT ![c] = o]
  /\ work' = [work EXCEPT ![c] = EmptyDatabase]
  /\ next' = [next EXCEPT ![c] = 1]
  /\ asserted' = [asserted EXCEPT ![c] = {}]
  /\ retracted' = [retracted EXCEPT ![c] = {}]
  /\ UNCHANGED <<clock, mutex, request, attempt, instant>>

\* transact returns: the overlay is dropped and the permit released.
Return(c, o) ==
  /\ pc' = [pc EXCEPT ![c] = "done"]
  /\ outcome' = [outcome EXCEPT ![c] = o]
  /\ work' = [work EXCEPT ![c] = EmptyDatabase]
  /\ next' = [next EXCEPT ![c] = 1]
  /\ asserted' = [asserted EXCEPT ![c] = {}]
  /\ retracted' = [retracted EXCEPT ![c] = {}]
  /\ mutex' = IF mutex = c THEN NoCall ELSE mutex
  /\ UNCHANGED <<clock, request, attempt, instant>>

\* Bug: the writes before the failure are applied.
FailPublishing(c, o) ==
  Return(c, o) /\ db' = IF pc[c] \in {"ops", "commit"} THEN work[c] ELSE db

\* The body fails: nothing of it is published.
Fail(c, o) == Return(c, o) /\ UNCHANGED db
-----------------------------------------------------------------------------
(* The checks before the first read; a failing one ends the call. *)

Reject(c, r) ==
  /\ pc[c] = "idle"
  /\ Optimistic \/ mutex = NoCall
  /\ ~Admissible(r)
  /\ pc' = [pc EXCEPT ![c] = "done"]
  /\ request' = [request EXCEPT ![c] = r]
  /\ outcome' = [outcome EXCEPT ![c] = "WriteError"]
  /\ UNCHANGED <<db, clock, mutex, attempt, instant, work, next, asserted, retracted>>

\* A caller has read the ids it names, or they are of no triple.
NamesKnownIds(r) ==
  \A n \in DOMAIN r.ops :
    r.ops[n].op = "retract" => r.ops[n].id \in Ids(db) \cup {UnknownId}

\* The library suppresses the journal only for facts it owns.
OwnsWhatItWrites(r) ==
  r.journaled \/ \A n \in DOMAIN r.ops :
    IF r.ops[n].op = "retract"
      THEN r.ops[n].id \in Ids(db) /\ db.facts[r.ops[n].id].entity \in Reserved
      ELSE r.ops[n].entity \in Reserved

\* Bug: the body reads the clock before it has the permit.
BeginWithoutPermit(c, r) ==
  /\ pc[c] = "idle"
  /\ Admissible(r) /\ NamesKnownIds(r) /\ OwnsWhatItWrites(r)
  /\ pc' = [pc EXCEPT ![c] = "claim"]
  /\ request' = [request EXCEPT ![c] = r]
  /\ attempt' = [attempt EXCEPT ![c] = 1]
  /\ instant' = [instant EXCEPT ![c] = clock]
  /\ mutex' = c
  /\ UNCHANGED <<db, clock, work, next, asserted, retracted, outcome>>

Begin(c, r) ==
  /\ pc[c] = "idle"
  /\ Optimistic \/ mutex = NoCall
  /\ Admissible(r)
  /\ NamesKnownIds(r)
  /\ OwnsWhatItWrites(r)
  /\ pc' = [pc EXCEPT ![c] = "claim"]
  /\ request' = [request EXCEPT ![c] = r]
  /\ attempt' = [attempt EXCEPT ![c] = 1]
  /\ instant' = [instant EXCEPT ![c] = clock]
  /\ mutex' = IF Optimistic THEN mutex ELSE c
  /\ UNCHANGED <<db, clock, work, next, asserted, retracted, outcome>>

\* Bugs: the receipt is not written, or is written outside the transaction.
ClaimCommandAs(c, guard, view, D) ==
  /\ pc[c] = "claim" /\ guard
  /\ work' = [work EXCEPT ![c] = view]
  /\ db' = D
  /\ pc' = [pc EXCEPT ![c] = "position"]
  /\ UNCHANGED <<clock, mutex, request, attempt, instant, next, asserted, retracted, outcome>>

Claimed(c) == IF request[c].command = NoCommand THEN db
                                                ELSE WithReceipt(db, request[c].command, Tx(c))
Unclaimed(c) == request[c].command # NoCommand => db.receipt[request[c].command] = NoTx

ClaimCommandUnwritten(c) == ClaimCommandAs(c, Unclaimed(c), db, db)
ClaimCommandOutside(c)   == ClaimCommandAs(c, Unclaimed(c), Claimed(c), Claimed(c))

\* claimKvCommand; the first read fixes the FoundationDB snapshot.
ClaimCommand(c) ==
  /\ pc[c] = "claim"
  /\ LET k == request[c].command IN
       \/ k = NoCommand /\ work' = [work EXCEPT ![c] = db]
       \/ /\ k # NoCommand
          /\ db.receipt[k] = NoTx
          /\ work' = [work EXCEPT ![c] = WithReceipt(db, k, Tx(c))]
  /\ pc' = [pc EXCEPT ![c] = "position"]
  /\ UNCHANGED <<db, clock, mutex, request, attempt, instant, next, asserted,
                 retracted, outcome>>

AlreadyCommitted(c) ==
  /\ pc[c] = "claim"
  /\ request[c].command # NoCommand
  /\ db.receipt[request[c].command] # NoTx
  /\ Fail(c, "CommandAlreadyCommitted")

\* nextKvCommitPosition
NextPosition(c) ==
  /\ pc[c] = "position"
  /\ work[c].position < MaxPosition
  /\ work' = [work EXCEPT ![c] = WithNextPosition(work[c])]
  /\ pc' = [pc EXCEPT ![c] = IF request[c].enforced THEN "enforce" ELSE "ops"]
  /\ UNCHANGED <<db, clock, mutex, request, attempt, instant, next, asserted,
                 retracted, outcome>>

PositionExhausted(c) ==
  /\ pc[c] = "position"
  /\ work[c].position >= MaxPosition
  /\ Fail(c, "WriteError")

\* Constraint.newlyViolated only reads.  Which of its two answers it gives is
\* the subject of GraphConstraint.
EnforceHolds(c) ==
  /\ pc[c] = "enforce"
  /\ pc' = [pc EXCEPT ![c] = "ops"]
  /\ UNCHANGED <<db, clock, mutex, request, attempt, instant, work, next, asserted,
                 retracted, outcome>>

EnforceViolated(c) == pc[c] = "enforce" /\ Fail(c, "ConstraintViolation")
-----------------------------------------------------------------------------
(* The loop over the operations. *)

AtOp(c, kind) ==
  /\ pc[c] = "ops"
  /\ next[c] <= Len(request[c].ops)
  /\ request[c].ops[next[c]].op = kind

CurrentOp(c) == request[c].ops[next[c]]

OpDone(c) ==
  /\ next' = [next EXCEPT ![c] = @ + 1]
  /\ UNCHANGED <<db, clock, mutex, pc, request, attempt, instant, outcome>>

AssertFact(c) ==
  /\ AtOp(c, "assert")
  /\ HasFreshId(work[c])
  /\ LET id == FreshId(work[c]) IN
       /\ work' = [work EXCEPT ![c] =
                     WithFact(work[c], id, CurrentOp(c).entity, Tx(c), instant[c])]
       /\ asserted' = [asserted EXCEPT ![c] = @ \cup {id}]
  /\ UNCHANGED retracted
  /\ OpDone(c)

\* Retract the live facts of ids, and note them in changes.
RetractAll(c, ids) ==
  /\ work' = [work EXCEPT ![c] = WithRetracted(work[c], ids, Tx(c), instant[c])]
  /\ retracted' = [retracted EXCEPT ![c] = @ \cup ids]
  /\ UNCHANGED asserted
  /\ OpDone(c)

\* An unauthorized caller names a reserved fact, retracted or not.
TouchesReserved(c, ids) ==
  ~request[c].authorized /\ \E i \in ids \cap Ids(work[c]) :
                              work[c].facts[i].entity \in Reserved

RetractFact(c) ==
  /\ AtOp(c, "retract")
  /\ ~TouchesReserved(c, {CurrentOp(c).id})
  /\ IsLive(work[c], CurrentOp(c).id)
  /\ RetractAll(c, {CurrentOp(c).id})

\* The fact is gone or never was, and no precondition names it.
RetractNothing(c) ==
  /\ AtOp(c, "retract")
  /\ ~TouchesReserved(c, {CurrentOp(c).id})
  /\ ~IsLive(work[c], CurrentOp(c).id)
  /\ CurrentOp(c).id \notin request[c].expects
  /\ UNCHANGED <<work, asserted, retracted>>
  /\ OpDone(c)

RetractConflict(c) ==
  /\ AtOp(c, "retract")
  /\ ~TouchesReserved(c, {CurrentOp(c).id})
  /\ ~IsLive(work[c], CurrentOp(c).id)
  /\ CurrentOp(c).id \in request[c].expects
  /\ Fail(c, "TransactionConflict")

RetractReserved(c) ==
  /\ AtOp(c, "retract")
  /\ TouchesReserved(c, {CurrentOp(c).id})
  /\ Fail(c, "WriteError")

RetractPattern(c) ==
  /\ AtOp(c, "retract-pattern")
  /\ ~TouchesReserved(c, Matching(work[c], CurrentOp(c).entity))
  /\ RetractAll(c, Matching(work[c], CurrentOp(c).entity))

RetractPatternReserved(c) ==
  /\ AtOp(c, "retract-pattern")
  /\ TouchesReserved(c, Matching(work[c], CurrentOp(c).entity))
  /\ Fail(c, "WriteError")
-----------------------------------------------------------------------------
(* The end of the body and of the backend's transaction. *)

EnvelopeOf(c) == [tx |-> Tx(c), position |-> work[c].position, instant |-> instant[c],
                  command |-> request[c].command,
                  asserted |-> asserted[c], retracted |-> retracted[c]]

\* Bug: a transaction that asserts nothing gets no envelope.
WriteJournalIfAsserted(c) ==
  /\ pc[c] = "ops"
  /\ next[c] > Len(request[c].ops)
  /\ work' = [work EXCEPT ![c] = IF request[c].journaled /\ asserted[c] # {}
                                   THEN WithEnvelope(work[c], EnvelopeOf(c))
                                   ELSE work[c]]
  /\ pc' = [pc EXCEPT ![c] = "commit"]
  /\ UNCHANGED <<db, clock, mutex, request, attempt, instant, next, asserted,
                 retracted, outcome>>

\* metadataInputs, unless the journal is suppressed.
WriteJournal(c) ==
  /\ pc[c] = "ops"
  /\ next[c] > Len(request[c].ops)
  /\ work' = [work EXCEPT ![c] = IF request[c].journaled
                                   THEN WithEnvelope(work[c], EnvelopeOf(c))
                                   ELSE work[c]]
  /\ pc' = [pc EXCEPT ![c] = "commit"]
  /\ UNCHANGED <<db, clock, mutex, request, attempt, instant, next, asserted,
                 retracted, outcome>>

\* Bug: a snapshot whose position is one behind counts as current.
SnapshotBehind(c) == work[c].position \in {db.position, db.position + 1}

\* Bug: no snapshot is ever current.
SnapshotNever(c) == work[c].position = db.position

\* No commit has come between the snapshot and now.
SnapshotCurrent(c) == work[c].position = db.position + 1

\* Bug: conflicts are not detected.
CommitBlind(c) == pc[c] = "commit" /\ db' = work[c] /\ Return(c, "committed")

\* applyWriteBuffer under the permit, or a FoundationDB commit.
Commit(c) ==
  /\ pc[c] = "commit"
  /\ Optimistic => SnapshotCurrent(c)
  /\ db' = work[c]
  /\ Return(c, "committed")

\* Bug: changes are collected outside the body.
RunAgainKeepingChanges(c) ==
  /\ attempt[c] < MaxAttempts
  /\ attempt' = [attempt EXCEPT ![c] = @ + 1]
  /\ instant' = [instant EXCEPT ![c] = clock]
  /\ pc' = [pc EXCEPT ![c] = "claim"]
  /\ work' = [work EXCEPT ![c] = EmptyDatabase]
  /\ next' = [next EXCEPT ![c] = 1]
  /\ UNCHANGED <<clock, mutex, request, asserted, retracted, outcome>>

\* tx._exec runs the body again, with new ids and a new "now".
RunAgain(c) ==
  /\ attempt[c] < MaxAttempts
  /\ attempt' = [attempt EXCEPT ![c] = @ + 1]
  /\ instant' = [instant EXCEPT ![c] = clock]
  /\ pc' = [pc EXCEPT ![c] = "claim"]
  /\ work' = [work EXCEPT ![c] = EmptyDatabase]
  /\ next' = [next EXCEPT ![c] = 1]
  /\ asserted' = [asserted EXCEPT ![c] = {}]
  /\ retracted' = [retracted EXCEPT ![c] = {}]
  /\ UNCHANGED <<clock, mutex, request, outcome>>

CommitConflict(c) ==
  /\ pc[c] = "commit"
  /\ Optimistic /\ ~SnapshotCurrent(c)
  /\ RunAgain(c)
  /\ UNCHANGED db

\* commit_unknown_result: the commit happened or not, and is retried.
CommitUnknown(c) ==
  /\ pc[c] = "commit"
  /\ Optimistic /\ LostReplies
  /\ RunAgain(c)
  /\ \/ UNCHANGED db
     \/ SnapshotCurrent(c) /\ db' = work[c]

\* The body or its fiber dies: the client's timeout, an interrupt, a defect.
Abandon(c) == Running(c) /\ Fail(c, "died")

\* The timeout cancels a commit that has already happened.
CancelTooLate(c) ==
  /\ pc[c] = "commit"
  /\ Optimistic /\ LostReplies
  /\ SnapshotCurrent(c)
  /\ db' = work[c]
  /\ Return(c, "died")

Tick ==
  /\ clock < MaxClock
  /\ clock' = clock + 1
  /\ UNCHANGED <<db, mutex, pc, request, attempt, instant, work, next, asserted,
                 retracted, outcome>>

\* Every call has returned.
Finished == (\A c \in Call : pc[c] = "done") /\ UNCHANGED vars
-----------------------------------------------------------------------------
BodyStep(c) ==
  \/ ClaimCommand(c) \/ AlreadyCommitted(c)
  \/ NextPosition(c) \/ PositionExhausted(c)
  \/ EnforceHolds(c) \/ EnforceViolated(c)
  \/ AssertFact(c)
  \/ RetractFact(c) \/ RetractNothing(c) \/ RetractConflict(c) \/ RetractReserved(c)
  \/ RetractPattern(c) \/ RetractPatternReserved(c)
  \/ WriteJournal(c) \/ Commit(c) \/ CommitConflict(c)

Step(c) ==
  \/ \E r \in Requests : Reject(c, r) \/ Begin(c, r)
  \/ BodyStep(c)
  \/ CommitUnknown(c) \/ Abandon(c) \/ CancelTooLate(c)

Next == (\E c \in Call : Step(c)) \/ Tick \/ Finished

Spec == Init /\ [][Next]_vars

\* The runtime keeps running a fiber that can run.
FairSpec == Spec /\ \A c \in Call : WF_vars(BodyStep(c))
-----------------------------------------------------------------------------
(* Properties *)

\* Every variable has its type.
TypeOK ==
  /\ db \in Database
  /\ clock \in Nat
  /\ mutex \in Call \cup {NoCall}
  /\ pc \in [Call -> PC]
  /\ request \in [Call -> Request]
  /\ attempt \in [Call -> 0..MaxAttempts]
  /\ instant \in [Call -> Nat]
  /\ work \in [Call -> Database]
  /\ next \in [Call -> Nat \ {0}]
  /\ asserted \in [Call -> SUBSET TripleId]
  /\ retracted \in [Call -> SUBSET TripleId]
  /\ outcome \in [Call -> Outcome]

\* The audit journal tells the truth: an envelope lists exactly the facts its
\* transaction asserted and retracted, all of them at its position and instant.
JournalMatchesFacts ==
  \A env \in db.journal :
    /\ env.asserted = {i \in Ids(db) : db.facts[i].tx = env.tx}
    /\ env.retracted = {i \in Ids(db) : db.facts[i].retractTx = env.tx}
    /\ \A i \in env.asserted :
         /\ db.facts[i].position = env.position
         /\ db.facts[i].instant = env.instant
    /\ \A i \in env.retracted :
         /\ db.facts[i].retractPosition = env.position
         /\ db.facts[i].retractInstant = env.instant

\* The feed covers every application write: only facts of the reserved
\* namespace come or go without an envelope that lists them.
FeedCoversFacts ==
  \A i \in Ids(db) : db.facts[i].entity \notin Reserved =>
    /\ \E env \in db.journal : i \in env.asserted
    /\ ~IsLive(db, i) => \E env \in db.journal : i \in env.retracted

\* A command id is an idempotency identity: no two commits carry it, whatever
\* calls raced for it, were retried or lost their replies.
CommandCommitsOnce ==
  \A e1, e2 \in db.journal :
    e1.command # NoCommand /\ e1.command = e2.command => e1 = e2

\* The receipt of a command and the commit that carries it appear together: the
\* original transaction that CommandAlreadyCommittedError names did run this
\* command and, unless it was one of the library's silent ones, is in the journal.
ReceiptNamesCommit ==
  /\ \A k \in Command : db.receipt[k] # NoTx =>
       LET tx == db.receipt[k]
       IN  /\ request[tx[1]].command = k
           /\ request[tx[1]].journaled =>
                \E env \in db.journal : env.tx = tx /\ env.command = k
  /\ \A env \in db.journal :
       env.command # NoCommand => db.receipt[env.command] = env.tx

\* Compare-and-retract: when a call that declared facts live commits, it is the
\* one that retracted each of them, so of two writers that expect one fact at
\* most one commits.
ExpectationHonoured ==
  \A c \in Call : outcome[c] = "committed" =>
    \A i \in request[c].expects :
      i \in Ids(db) /\ db.facts[i].retractTx = Tx(c)

\* Commit instants follow commit positions.  Only where the body holds the
\* permit from its reading of the clock to its commit.
InstantsFollowPositions ==
  \A e1, e2 \in db.journal : e1.position < e2.position => e1.instant <= e2.instant

\* A consumer that has paged the feed up to the current position never misses
\* an envelope: those that appear later lie beyond it, and none goes away.
FeedGrowsAtTheEnd ==
  [][/\ db.journal \subseteq db'.journal
     /\ \A env \in db'.journal \ db.journal : env.position > db.position]_vars

\* A snapshot at a recorded position is repeatable: no later commit changes
\* what a reader pinned at a committed position sees.
PositionCutStable ==
  [][\A p \in 0..db.position :
       VisibleAtPosition(db', p) = VisibleAtPosition(db, p)]_vars

\* History is append-only: a fact never goes away, and neither its assertion nor
\* a retraction once recorded is rewritten.
HistoryAppendOnly ==
  [][\A i \in Ids(db) :
       /\ i \in Ids(db')
       /\ db'.facts[i].tx = db.facts[i].tx
       /\ ~IsLive(db, i) => db'.facts[i] = db.facts[i]]_vars

\* Every body comes to an end, whatever round of conflicts it is in, and gives
\* the permit back: no call waits for ever behind another.
EveryBodyReturns == \A c \in Call : Running(c) ~> (~Running(c) /\ mutex # c)

\* docs/operational-primitives.md:13 has every supported write receive one
\* commit position.
OneCommitPerCall ==
  \A e1, e2 \in db.journal : e1.tx[1] = e2.tx[1] => e1 = e2
=============================================================================
