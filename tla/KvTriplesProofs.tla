--------------------------- MODULE KvTriplesProofs ---------------------------
(***************************************************************************)
(* Proofs about KvTriples, for both backends and any number of calls.      *)
(***************************************************************************)
EXTENDS KvTriplesInv, NaturalLemmas, TLAPS

-----------------------------------------------------------------------------
(* The writes of a transaction keep a database a database. *)

LEMMA EmptyDatabaseType == EmptyDatabase \in Database
BY StoreAssumption DEF StoreAssumption, EmptyDatabase, Database

LEMMA ReceiptType ==
  ASSUME NEW D \in Database, NEW k \in Command, NEW tx \in TxId
  PROVE  WithReceipt(D, k, tx) \in Database
BY DEF WithReceipt, Database

LEMMA PositionType ==
  ASSUME NEW D \in Database
  PROVE  WithNextPosition(D) \in Database
BY DEF WithNextPosition, Database

LEMMA FactType ==
  ASSUME NEW D \in Database, NEW id \in TripleId, NEW e \in Entity,
         NEW tx \in TxId, NEW now \in Nat
  PROVE  WithFact(D, id, e, tx, now) \in Database
<1>1. NewFact(D, e, tx, now) \in Fact
  BY DEF NewFact, Fact, Database
<1> QED BY <1>1 DEF WithFact, Database

LEMMA RetractedType ==
  ASSUME NEW D \in Database, NEW ids \in SUBSET Ids(D),
         NEW tx \in TxId, NEW now \in Nat
  PROVE  WithRetracted(D, ids, tx, now) \in Database
<1>1. ASSUME NEW i \in ids PROVE Retired(D, D.facts[i], tx, now) \in Fact
  BY <1>1 DEF Retired, Fact, Ids, Database
<1> QED BY <1>1 DEF WithRetracted, Database

LEMMA EnvelopeType ==
  ASSUME NEW D \in Database, NEW env \in Envelope
  PROVE  WithEnvelope(D, env) \in Database
BY DEF WithEnvelope, Database
-----------------------------------------------------------------------------
(* Type correctness.  The typing of a call that returns, and of one that runs *)
(* its body again, is the same whatever became of the database.              *)

LEMMA TxType == ASSUME TypeOK, NEW c \in Call, attempt[c] # 0 PROVE Tx(c) \in TxId
BY KvAssumption DEF KvAssumption, TypeOK, Tx

LEMMA CurrentOpType ==
  ASSUME TypeOK, NEW c \in Call, NEW kind, AtOp(c, kind)
  PROVE  /\ CurrentOp(c) \in Op
         /\ kind = "retract" => CurrentOp(c).id \in TripleId \cup {UnknownId}
         /\ kind # "retract" => CurrentOp(c).entity \in Entity
<1>1. next[c] \in Nat \ {0} /\ request[c].ops \in Seq(Op)
  BY DEF TypeOK, Request
<1>2. CurrentOp(c) \in Op /\ CurrentOp(c).op = kind
  BY <1>1 DEF AtOp, CurrentOp
<1> QED BY <1>2 DEF Op

LEMMA ReturnType ==
  ASSUME TypeOK, NEW c \in Call, NEW o \in Outcome, Return(c, o), db' \in Database
  PROVE  TypeOK'
BY EmptyDatabaseType DEF TypeOK, Return, PC

LEMMA RunAgainType ==
  ASSUME TypeOK, NEW c \in Call, RunAgain(c), db' \in Database
  PROVE  TypeOK'
BY EmptyDatabaseType, KvAssumption DEF TypeOK, RunAgain, PC, KvAssumption

\* A body has an attempt number.
Attempted == \A c \in Call : Running(c) => attempt[c] # 0

LEMMA InitType == Init => TypeOK /\ Attempted
<1>1. NoRequest \in Request
  BY DEF NoRequest, Request
<1> QED BY <1>1, EmptyDatabaseType, KvAssumption, StoreAssumption
        DEF Init, TypeOK, PC, Outcome, KvAssumption, StoreAssumption, Attempted, Running

TypeInv == TypeOK /\ Attempted

LEMMA NextType == TypeInv /\ [Next]_vars => TypeInv'
<1> SUFFICES ASSUME TypeInv, [Next]_vars PROVE TypeInv'
  OBVIOUS
<1> USE DEF TypeInv, Attempted, Running
<1>1. ASSUME NEW c \in Call, NEW r \in Requests, Reject(c, r) PROVE TypeInv'
  BY <1>1, KvAssumption DEF Reject, TypeOK, PC, Outcome, KvAssumption
<1>2. ASSUME NEW c \in Call, NEW r \in Requests, Begin(c, r) PROVE TypeInv'
  BY <1>2, KvAssumption DEF Begin, TypeOK, PC, Outcome, KvAssumption
<1>3. ASSUME NEW c \in Call, ClaimCommand(c) PROVE TypeInv'
  <2>1. Tx(c) \in TxId
    BY <1>3, TxType DEF ClaimCommand
  <2>2. request[c].command \in Command \cup {NoCommand}
    BY DEF TypeOK, Request
  <2>3. work' \in [Call -> Database]
    BY <1>3, <2>1, <2>2, ReceiptType DEF ClaimCommand, TypeOK
  <2> QED BY <1>3, <2>3 DEF ClaimCommand, TypeOK, PC
<1>4. ASSUME NEW c \in Call, NextPosition(c) PROVE TypeInv'
  BY <1>4, PositionType DEF NextPosition, TypeOK, PC
<1>5. ASSUME NEW c \in Call, EnforceHolds(c) PROVE TypeInv'
  BY <1>5 DEF EnforceHolds, TypeOK, PC
<1>6. ASSUME NEW c \in Call, AssertFact(c) PROVE TypeInv'
  <2>1. /\ Tx(c) \in TxId
        /\ CurrentOp(c).entity \in Entity
        /\ FreshId(work[c]) \in TripleId
    BY <1>6, TxType, CurrentOpType DEF AssertFact, AtOp, HasFreshId, FreshId
  <2>2. work' \in [Call -> Database] /\ asserted' \in [Call -> SUBSET TripleId]
    BY <1>6, <2>1, FactType DEF AssertFact, TypeOK
  <2> QED BY <1>6, <2>2 DEF AssertFact, OpDone, TypeOK
<1>7. ASSUME NEW c \in Call, NEW ids \in SUBSET Ids(work[c]), pc[c] = "ops",
             RetractAll(c, ids)
      PROVE  TypeInv'
  <2>1. Tx(c) \in TxId
    BY <1>7, TxType
  <2>2. work' \in [Call -> Database] /\ retracted' \in [Call -> SUBSET TripleId]
    BY <1>7, <2>1, RetractedType DEF RetractAll, TypeOK, Ids
  <2> QED BY <1>7, <2>2 DEF RetractAll, OpDone, TypeOK
<1>8. ASSUME NEW c \in Call, RetractNothing(c) PROVE TypeInv'
  BY <1>8 DEF RetractNothing, AtOp, OpDone, TypeOK
<1>9. ASSUME NEW c \in Call, WriteJournal(c) PROVE TypeInv'
  <2>1. EnvelopeOf(c) \in Envelope
    BY <1>9, TxType DEF WriteJournal, EnvelopeOf, Envelope, TypeOK, Request, Database
  <2>2. work' \in [Call -> Database]
    BY <1>9, <2>1, EnvelopeType DEF WriteJournal, TypeOK
  <2> QED BY <1>9, <2>2 DEF WriteJournal, TypeOK, PC
<1>10. ASSUME NEW c \in Call, NEW o \in Outcome, Return(c, o), db' \in {db, work[c]}
       PROVE  TypeInv'
  BY <1>10, ReturnType DEF Return, TypeOK
<1>11. ASSUME NEW c \in Call, RunAgain(c), db' \in {db, work[c]} PROVE TypeInv'
  <2>1. TypeOK'
    BY <1>11, RunAgainType DEF TypeOK
  <2>2. attempt[c] + 1 # 0
    BY KvAssumption DEF KvAssumption, TypeOK
  <2> QED BY <1>11, <2>1, <2>2 DEF RunAgain, TypeOK
<1>12. CASE Tick
  BY <1>12 DEF Tick, TypeOK
<1>13. CASE UNCHANGED vars
  BY <1>13 DEF vars, TypeOK
<1>14. ASSUME NEW c \in Call, Step(c) PROVE TypeInv'
  <2>1. CASE BodyStep(c)
    <3>1. ASSUME RetractFact(c) PROVE TypeInv'
      BY <1>7, <3>1 DEF RetractFact, AtOp, IsLive
    <3>2. ASSUME RetractPattern(c) PROVE TypeInv'
      BY <1>7, <3>2 DEF RetractPattern, AtOp, Matching
    <3> QED BY <2>1, <1>3, <1>4, <1>5, <1>6, <1>8, <1>9, <1>10, <1>11, <3>1, <3>2
            DEF BodyStep, Fail, AlreadyCommitted, PositionExhausted, EnforceViolated,
                RetractConflict, RetractReserved, RetractPatternReserved, Commit,
                CommitConflict, Outcome
  <2> QED BY <1>14, <1>1, <1>2, <1>10, <1>11, <2>1
          DEF Step, CommitUnknown, Abandon, CancelTooLate, Fail, Outcome
<1> QED BY <1>12, <1>13, <1>14 DEF Next, Finished

\* Every variable keeps its type, whatever the requests and the backend.
THEOREM TypeCorrect == Spec => []TypeOK
<1>1. Init => TypeInv
  BY InitType DEF TypeInv
<1>2. TypeInv => TypeOK
  BY DEF TypeInv
<1> QED BY <1>1, <1>2, NextType, PTL DEF Spec
-----------------------------------------------------------------------------
(* The calls that a step does not take. *)

Local(c) == <<pc[c], request[c], attempt[c], instant[c], work[c], next[c],
              asserted[c], retracted[c], outcome[c]>>

LEMMA Undisturbed ==
  ASSUME TypeOK, NEW d \in Call, ViewInv(d), UNCHANGED <<db, Local(d)>>,
         UNCHANGED mutex \/ ~Running(d) \/ Optimistic
  PROVE  ViewInv(d)'
<1> USE DEF Local, Running, Current, Allocated, SnapshotCurrent, Tx
<1>1. AttemptFresh(d)' /\ ViewBounded(d)'
  BY DEF ViewInv, AttemptFresh, ViewBounded
<1>2. OverlayFacts(d)' <=> OverlayFacts(d)
  BY DEF OverlayFacts, AssertedFact, RetractedFact
<1>3. OverlayReceipt(d)' <=> OverlayReceipt(d)
  BY DEF OverlayReceipt
<1>4. OverlayJournal(d)' <=> OverlayJournal(d)
  BY DEF OverlayJournal, EnvelopeOf
<1>5. Overlay(d)'
  BY <1>2, <1>3, <1>4 DEF ViewInv, Overlay
<1>6. Settled(d)' /\ Silent(d)'
  BY DEF ViewInv, Settled, Silent, OwnsWhatItWrites
<1> QED BY <1>1, <1>5, <1>6 DEF ViewInv

\* The view of a body that has allocated its position mentions one new id.
LEMMA TxsOfView ==
  ASSUME TypeOK, NEW c \in Call, ViewInv(c), Allocated(c), SnapshotCurrent(c)
  PROVE  TxsOf(work[c]) \subseteq TxsOf(db) \cup {Tx(c)}
<1>1. OverlayFacts(c) /\ OverlayReceipt(c) /\ OverlayJournal(c)
  BY DEF ViewInv, Overlay, Current
<1>2. \A i \in Ids(work[c]) : work[c].facts[i].tx \in TxsOf(db) \cup {Tx(c)}
  <2> TAKE i \in Ids(work[c])
  <2>1. CASE i \in asserted[c]
    BY <2>1, <1>1 DEF OverlayFacts, AssertedFact
  <2>2. CASE i \in retracted[c] \ asserted[c]
    BY <2>2, <1>1 DEF OverlayFacts, SameAssertion, TxsOf, IsLive
  <2>3. CASE i \notin asserted[c] \cup retracted[c]
    BY <2>3, <1>1 DEF OverlayFacts, TxsOf, Ids
  <2> QED BY <2>1, <2>2, <2>3
<1>3. \A i \in Ids(work[c]) : ~IsLive(work[c], i) =>
        work[c].facts[i].retractTx \in TxsOf(db) \cup {Tx(c)}
  BY <1>1 DEF OverlayFacts, RetractedFact, TxsOf, Ids, IsLive, TypeOK
<1>4. \A env \in work[c].journal : env.tx \in TxsOf(db) \cup {Tx(c)}
  BY <1>1 DEF OverlayJournal, EnvelopeOf, TxsOf
<1>5. \A k \in Command : work[c].receipt[k] # NoTx =>
        work[c].receipt[k] \in TxsOf(db) \cup {Tx(c)}
  BY <1>1 DEF OverlayReceipt, TxsOf, TypeOK, Database
<1> QED BY <1>2, <1>3, <1>4, <1>5 DEF TxsOf

\* It keeps every committed fact, and every retraction.
LEMMA ViewExtends ==
  ASSUME TypeOK, NEW c \in Call, ViewInv(c), Allocated(c), SnapshotCurrent(c),
         NEW i \in Ids(db)
  PROVE  /\ i \in Ids(work[c])
         /\ SameAssertion(work[c].facts[i], db.facts[i])
         /\ ~IsLive(db, i) => work[c].facts[i] = db.facts[i]
<1>1. OverlayFacts(c)
  BY DEF ViewInv, Overlay, Current
<1>2. i \notin asserted[c]
  BY <1>1 DEF OverlayFacts, Ids
<1> QED BY <1>1, <1>2 DEF OverlayFacts, SameAssertion, Ids, IsLive

\* Its own id marks exactly the changes it has noted.
LEMMA ChangesOfView ==
  ASSUME TypeOK, NEW c \in Call, ViewInv(c), Allocated(c), SnapshotCurrent(c)
  PROVE  /\ Tx(c) \in TxId /\ Tx(c) \notin TxsOf(db) /\ Tx(c) # NoTx
         /\ asserted[c] = {i \in Ids(work[c]) : work[c].facts[i].tx = Tx(c)}
         /\ retracted[c] = {i \in Ids(work[c]) : work[c].facts[i].retractTx = Tx(c)}
<1>1. OverlayFacts(c)
  BY DEF ViewInv, Overlay, Current
<1>2. attempt[c] \in 1..MaxAttempts
  BY KvAssumption DEF KvAssumption, TypeOK, ViewInv, ViewBounded, Running, Allocated
<1>3. Tx(c) \in TxId /\ Tx(c) \notin TxsOf(db) /\ Tx(c) # NoTx
  BY <1>2, KvAssumption, StoreAssumption
     DEF KvAssumption, StoreAssumption, Tx, ViewInv, AttemptFresh, Running, Allocated
<1>4. asserted[c] = {i \in Ids(work[c]) : work[c].facts[i].tx = Tx(c)}
  <2>1. asserted[c] \subseteq Ids(work[c])
    BY <1>1 DEF OverlayFacts, AssertedFact, Ids, TypeOK
  <2>2. ASSUME NEW i \in Ids(work[c]), i \notin asserted[c]
        PROVE  work[c].facts[i].tx # Tx(c)
    <3>1. i \in Ids(db) /\ work[c].facts[i].tx = db.facts[i].tx
      BY <2>2, <1>1 DEF OverlayFacts, SameAssertion, Ids, IsLive
    <3> QED BY <3>1, <1>3 DEF TxsOf
  <2> QED BY <2>1, <2>2, <1>1 DEF OverlayFacts, AssertedFact
<1>5. retracted[c] = {i \in Ids(work[c]) : work[c].facts[i].retractTx = Tx(c)}
  <2>1. ASSUME NEW i \in Ids(work[c]), i \notin retracted[c]
        PROVE  work[c].facts[i].retractTx # Tx(c)
    <3>1. CASE i \in asserted[c]
      BY <2>1, <3>1, <1>1, <1>3 DEF OverlayFacts
    <3>2. CASE i \notin asserted[c]
      <4>1. i \in Ids(db) /\ work[c].facts[i] = db.facts[i]
        BY <2>1, <3>2, <1>1 DEF OverlayFacts, Ids
      <4> QED BY <4>1, <1>3 DEF TxsOf, IsLive
    <3> QED BY <3>1, <3>2
  <2> QED BY <2>1, <1>1 DEF OverlayFacts, RetractedFact
<1> QED BY <1>3, <1>4, <1>5

\* A commit leaves every other view behind.
LEMMA Outdated ==
  ASSUME TypeOK, NEW c \in Call, NEW d \in Call, c # d, ViewInv(c), ViewInv(d),
         pc[c] = "commit", SnapshotCurrent(c), db' = work[c], UNCHANGED Local(d)
  PROVE  ViewInv(d)'
<1> USE DEF Local, Running, Allocated
<1>1. db.position \in Nat /\ db'.position = db.position + 1 /\ work[d].position \in Nat
  BY DEF SnapshotCurrent, TypeOK, Database
<1>2. Optimistic \/ ~Running(d)
  BY DEF ViewInv, ViewBounded
<1>3. Tx(d)' = Tx(d) /\ Tx(c) # Tx(d) /\ \A n \in 1..MaxAttempts : <<d, n>> # Tx(c)
  BY DEF Tx
<1>4. AttemptFresh(d)'
  BY <1>3, TxsOfView DEF ViewInv, AttemptFresh
<1>5. ~Current(d)'
  BY <1>1, <1>2 DEF Current, SnapshotCurrent, ViewInv, ViewBounded
<1>6. ViewBounded(d)' /\ Overlay(d)'
  BY <1>1, <1>2, <1>5 DEF ViewInv, ViewBounded, Overlay
<1>7. Settled(d)'
  BY DEF ViewInv, Settled
<1>8. Silent(d)'
  <2>1. OwnsWhatItWrites(request[d]) => OwnsWhatItWrites(request[d])'
    <3>1. \A i \in Ids(db) : i \in Ids(db)' /\ db'.facts[i].entity = db.facts[i].entity
      BY ViewExtends DEF SameAssertion, Ids
    <3> QED BY <3>1 DEF OwnsWhatItWrites
  <2> QED BY <2>1, <1>5 DEF ViewInv, Silent
<1> QED BY <1>4, <1>6, <1>7, <1>8 DEF ViewInv
-----------------------------------------------------------------------------
(* The database a commit leaves. *)

LEMMA CommittedJournal ==
  ASSUME IInv, NEW c \in Call, pc[c] = "commit", SnapshotCurrent(c), db' = work[c]
  PROVE  JournalMatchesFacts' /\ EnvelopesDistinct'
<1> USE DEF IInv, Allocated
<1>1. OverlayFacts(c) /\ OverlayJournal(c)
  BY DEF ViewInv, Overlay, Current
<1>2. /\ Tx(c) \notin TxsOf(db) /\ Tx(c) # NoTx
      /\ asserted[c] = {i \in Ids(work[c]) : work[c].facts[i].tx = Tx(c)}
      /\ retracted[c] = {i \in Ids(work[c]) : work[c].facts[i].retractTx = Tx(c)}
  BY ChangesOfView
<1>3. \A i \in Ids(db) : /\ i \in Ids(work[c])
                         /\ SameAssertion(work[c].facts[i], db.facts[i])
                         /\ ~IsLive(db, i) => work[c].facts[i] = db.facts[i]
  BY ViewExtends
<1>4. \A env \in db.journal : env.tx # Tx(c) /\ env.tx # NoTx
  BY <1>2, StoreAssumption DEF TxsOf, TypeOK, Database, Envelope, StoreAssumption
<1>5. \A i \in Ids(work[c]) : i \in Ids(db) \/ work[c].facts[i].tx = Tx(c)
  BY <1>1 DEF OverlayFacts, AssertedFact, Ids, IsLive
<1>6. \A i \in Ids(db) : \/ work[c].facts[i] = db.facts[i]
                         \/ /\ work[c].facts[i].retractTx = Tx(c)
                            /\ db.facts[i].retractTx = NoTx
  BY <1>1 DEF OverlayFacts, RetractedFact, Ids, IsLive
<1>7. ASSUME NEW env \in db.journal
      PROVE  /\ env.asserted = {i \in Ids(work[c]) : work[c].facts[i].tx = env.tx}
             /\ env.retracted = {i \in Ids(work[c]) : work[c].facts[i].retractTx = env.tx}
             /\ \A i \in env.asserted : /\ work[c].facts[i].position = env.position
                                       /\ work[c].facts[i].instant = env.instant
             /\ \A i \in env.retracted : work[c].facts[i] = db.facts[i]
  <2>1. /\ env.asserted = {i \in Ids(db) : db.facts[i].tx = env.tx}
        /\ env.retracted = {i \in Ids(db) : db.facts[i].retractTx = env.tx}
        /\ \A i \in env.asserted : /\ db.facts[i].position = env.position
                                  /\ db.facts[i].instant = env.instant
    BY DEF DatabaseInv, JournalMatchesFacts
  <2>2. env.asserted = {i \in Ids(work[c]) : work[c].facts[i].tx = env.tx}
    BY <2>1, <1>3, <1>4, <1>5 DEF SameAssertion
  <2>3. \A i \in Ids(work[c]) : work[c].facts[i].retractTx = env.tx => i \in Ids(db)
    <3> TAKE i \in Ids(work[c])
    <3>1. CASE i \in asserted[c]
      BY <3>1, <1>1, <1>4 DEF OverlayFacts, RetractedFact
    <3>2. CASE i \notin asserted[c]
      BY <3>2, <1>2, <1>5
    <3> QED BY <3>1, <3>2
  <2>4. env.retracted = {i \in Ids(work[c]) : work[c].facts[i].retractTx = env.tx}
    BY <2>1, <2>3, <1>3, <1>4, <1>6
  <2>5. \A i \in env.retracted : work[c].facts[i] = db.facts[i]
    BY <2>1, <1>3, <1>4 DEF IsLive
  <2> QED BY <2>1, <2>2, <2>4, <2>5, <1>3 DEF SameAssertion
<1>8. work[c].journal \in {db.journal, db.journal \cup {EnvelopeOf(c)}}
  BY <1>1 DEF OverlayJournal
<1>9. JournalMatchesFacts'
  <2>1. ASSUME NEW env \in work[c].journal, env = EnvelopeOf(c)
        PROVE  /\ env.asserted = {i \in Ids(work[c]) : work[c].facts[i].tx = env.tx}
               /\ env.retracted = {i \in Ids(work[c]) : work[c].facts[i].retractTx = env.tx}
               /\ \A i \in env.asserted : /\ work[c].facts[i].position = env.position
                                         /\ work[c].facts[i].instant = env.instant
               /\ \A i \in env.retracted :
                    /\ work[c].facts[i].retractPosition = env.position
                    /\ work[c].facts[i].retractInstant = env.instant
    BY <2>1, <1>1, <1>2 DEF EnvelopeOf, OverlayFacts, AssertedFact, RetractedFact
  <2>2. \A env \in db.journal : \A i \in env.retracted :
          /\ db.facts[i].retractPosition = env.position
          /\ db.facts[i].retractInstant = env.instant
    BY DEF DatabaseInv, JournalMatchesFacts
  <2> QED BY <2>1, <2>2, <1>7, <1>8 DEF JournalMatchesFacts, Ids
<1>10. EnvelopesDistinct'
  BY <1>4, <1>8 DEF EnvelopesDistinct, EnvelopeOf, DatabaseInv
<1> QED BY <1>9, <1>10

LEMMA CommittedFeed ==
  ASSUME IInv, NEW c \in Call, pc[c] = "commit", SnapshotCurrent(c), db' = work[c]
  PROVE  FeedCoversFacts'
<1> USE DEF IInv, Allocated
<1>1. OverlayFacts(c) /\ OverlayJournal(c)
  BY DEF ViewInv, Overlay, Current
<1>2. ASSUME NEW i \in asserted[c] \cup retracted[c],
             work[c].facts[i].entity \notin Reserved
      PROVE  EnvelopeOf(c) \in work[c].journal
  BY <1>1, <1>2 DEF OverlayJournal, ViewInv, Silent, Running, Current
<1>3. db.journal \subseteq work[c].journal
  BY <1>1 DEF OverlayJournal
<1>4. SUFFICES ASSUME NEW i \in Ids(work[c]), work[c].facts[i].entity \notin Reserved
               PROVE  /\ \E env \in work[c].journal : i \in env.asserted
                      /\ ~IsLive(work[c], i) => \E env \in work[c].journal : i \in env.retracted
  BY DEF FeedCoversFacts, Ids, IsLive
<1>5. CASE i \in asserted[c]
  <2>1. EnvelopeOf(c) \in work[c].journal /\ i \in EnvelopeOf(c).asserted
    BY <1>2, <1>4, <1>5 DEF EnvelopeOf
  <2>2. ~IsLive(work[c], i) => i \in EnvelopeOf(c).retracted
    BY <1>1, <1>4, <1>5 DEF OverlayFacts, IsLive, EnvelopeOf
  <2> QED BY <2>1, <2>2
<1>6. CASE i \in retracted[c] \ asserted[c]
  <2>1. EnvelopeOf(c) \in work[c].journal /\ i \in EnvelopeOf(c).retracted
    BY <1>2, <1>4, <1>6 DEF EnvelopeOf
  <2>2. i \in Ids(db) /\ db.facts[i].entity = work[c].facts[i].entity
    BY <1>1, <1>6 DEF OverlayFacts, SameAssertion, IsLive
  <2> QED BY <2>1, <2>2, <1>3, <1>4 DEF DatabaseInv, FeedCoversFacts
<1>7. CASE i \notin asserted[c] \cup retracted[c]
  <2>1. i \in Ids(db) /\ db.facts[i] = work[c].facts[i]
    BY <1>1, <1>4, <1>7 DEF OverlayFacts, Ids
  <2> QED BY <2>1, <1>3, <1>4 DEF DatabaseInv, FeedCoversFacts, IsLive, Ids
<1> QED BY <1>5, <1>6, <1>7

LEMMA CommittedReceipts ==
  ASSUME IInv, NEW c \in Call, pc[c] = "commit", SnapshotCurrent(c), db' = work[c],
         UNCHANGED request, \A d \in Call : attempt[d] # 0 => attempt'[d] # 0
  PROVE  ReceiptCall' /\ ReceiptNamesCommit'
<1> USE DEF IInv, Allocated
<1>1. OverlayReceipt(c) /\ OverlayJournal(c)
  BY DEF ViewInv, Overlay, Current
<1>2. /\ attempt[c] \in 1..MaxAttempts /\ attempt[c] # 0
      /\ Tx(c) = <<c, attempt[c]>> /\ Tx(c) # NoTx
  BY KvAssumption, ChangesOfView
     DEF KvAssumption, TypeOK, ViewInv, ViewBounded, Running, Tx
<1>3. work[c].receipt \in [Command -> TxId \cup {NoTx}]
  BY DEF TypeOK, Database
<1>4. db.journal \subseteq work[c].journal
  BY <1>1 DEF OverlayJournal
<1>5. \A k \in Command : \/ work[c].receipt[k] = db.receipt[k]
                         \/ k = request[c].command /\ work[c].receipt[k] = Tx(c)
                                                  /\ db.receipt[k] = NoTx
  BY <1>1 DEF OverlayReceipt, TypeOK, Database
<1>6. ReceiptCall'
  <2> SUFFICES ASSUME NEW k \in Command, work[c].receipt[k] # NoTx
               PROVE  \E d \in Call, n \in 1..MaxAttempts :
                        work[c].receipt[k] = <<d, n>> /\ attempt'[d] # 0
    BY DEF ReceiptCall
  <2>1. CASE work[c].receipt[k] = db.receipt[k]
    BY <2>1 DEF DatabaseInv, ReceiptCall
  <2>2. CASE work[c].receipt[k] = Tx(c)
    BY <2>2, <1>2
  <2> QED BY <2>1, <2>2, <1>5
<1>7. ASSUME NEW k \in Command, work[c].receipt[k] # NoTx
      PROVE  /\ request[work[c].receipt[k][1]].command = k
             /\ request[work[c].receipt[k][1]].journaled =>
                  \E env \in work[c].journal : env.tx = work[c].receipt[k] /\ env.command = k
  <2>1. CASE work[c].receipt[k] = db.receipt[k]
    BY <1>7, <2>1, <1>4 DEF DatabaseInv, ReceiptNamesCommit
  <2>2. CASE k = request[c].command /\ work[c].receipt[k] = Tx(c)
    <3>1. work[c].receipt[k][1] = c
      BY <2>2, <1>2
    <3>2. request[c].journaled => EnvelopeOf(c) \in work[c].journal
      BY <1>1 DEF OverlayJournal
    <3>3. EnvelopeOf(c).tx = work[c].receipt[k] /\ EnvelopeOf(c).command = k
      BY <2>2 DEF EnvelopeOf
    <3> QED BY <2>2, <3>1, <3>2, <3>3
  <2> QED BY <2>1, <2>2, <1>5
<1>8. ASSUME NEW env \in work[c].journal, env.command # NoCommand
      PROVE  work[c].receipt[env.command] = env.tx
  <2>1. CASE env \in db.journal
    <3>1. env.command \in Command /\ env.tx \in TxId /\ db.receipt[env.command] = env.tx
      BY <1>8, <2>1 DEF DatabaseInv, ReceiptNamesCommit, TypeOK, Database, Envelope
    <3> QED BY <3>1, <1>5, StoreAssumption DEF StoreAssumption
  <2>2. CASE env = EnvelopeOf(c)
    BY <1>8, <2>2, <1>1 DEF OverlayReceipt, EnvelopeOf, TypeOK, Database, Request
  <2> QED BY <2>1, <2>2, <1>1 DEF OverlayJournal
<1>9. ReceiptNamesCommit'
  BY <1>7, <1>8 DEF ReceiptNamesCommit
<1> QED BY <1>6, <1>9

LEMMA CommittedExpectations ==
  ASSUME IInv, NEW c \in Call, pc[c] = "commit", SnapshotCurrent(c), db' = work[c],
         UNCHANGED request,
         \A d \in Call \ {c} : UNCHANGED <<attempt[d], outcome[d]>>,
         outcome'[c] = "committed" => UNCHANGED attempt[c]
  PROVE  ExpectationHonoured'
<1> USE DEF IInv, Allocated
<1> SUFFICES ASSUME NEW d \in Call, outcome'[d] = "committed", NEW i \in request[d].expects
             PROVE  i \in Ids(work[c]) /\ work[c].facts[i].retractTx = Tx(d)'
  BY DEF ExpectationHonoured
<1>1. CASE d # c
  <2>1. i \in Ids(db) /\ db.facts[i].retractTx = Tx(d) /\ Tx(d) # NoTx
    <3>1. outcome[d] = "committed" /\ attempt[d] \in 1..MaxAttempts
      BY <1>1, KvAssumption DEF KvAssumption, TypeOK, ViewInv, ViewBounded
    <3>2. Tx(d) # NoTx
      BY <3>1, KvAssumption, StoreAssumption DEF KvAssumption, StoreAssumption, Tx
    <3> QED BY <3>1, <3>2 DEF DatabaseInv, ExpectationHonoured
  <2> QED BY <1>1, <2>1, ViewExtends DEF IsLive, Tx
<1>2. CASE d = c
  <2>1. PICK n \in DOMAIN request[c].ops :
          request[c].ops[n].op = "retract" /\ request[c].ops[n].id = i
    BY <1>2 DEF ViewInv, Settled, Running, Admissible, UnmatchedExpectation
  <2>2. n < next[c]
    <3>1. request[c].ops \in Seq(Op) /\ next[c] \in Nat
      BY DEF TypeOK, Request
    <3>2. next[c] > Len(request[c].ops)
      BY DEF ViewInv, Settled, Running
    <3> QED BY <2>1, <3>1, <3>2
  <2>3. i \in retracted[c]
    BY <1>2, <2>1, <2>2 DEF ViewInv, Settled, Running
  <2>4. i \in Ids(work[c]) /\ work[c].facts[i].retractTx = Tx(c)
    BY <2>3, ChangesOfView
  <2>5. Tx(d)' = Tx(c)
    BY <1>2 DEF Tx
  <2> QED BY <2>4, <2>5
<1> QED BY <1>1, <1>2

LEMMA DatabaseKept ==
  ASSUME IInv, NEW c \in Call, UNCHANGED db,
         \A d \in Call \ {c} : UNCHANGED <<request[d], attempt[d], outcome[d]>>,
         UNCHANGED request[c] \/ attempt[c] = 0,
         attempt[c] # 0 => attempt'[c] # 0,
         outcome'[c] # "committed"
  PROVE  DatabaseInv'
<1> USE DEF IInv, DatabaseInv
<1>1. JournalMatchesFacts' /\ FeedCoversFacts' /\ EnvelopesDistinct'
  BY DEF JournalMatchesFacts, FeedCoversFacts, EnvelopesDistinct
<1>2. ReceiptCall'
  BY DEF ReceiptCall
<1>3. ASSUME NEW k \in Command, db.receipt[k] # NoTx
      PROVE  UNCHANGED request[db.receipt[k][1]]
  <2>1. PICK d \in Call, n \in 1..MaxAttempts : db.receipt[k] = <<d, n>> /\ attempt[d] # 0
    BY <1>3 DEF ReceiptCall
  <2>2. db.receipt[k][1] = d
    BY <2>1
  <2> QED BY <2>1, <2>2
<1>4. ReceiptNamesCommit'
  BY <1>3 DEF ReceiptNamesCommit
<1>5. ExpectationHonoured'
  BY DEF ExpectationHonoured, Tx
<1> QED BY <1>1, <1>2, <1>4, <1>5
-----------------------------------------------------------------------------
(* The call that takes a step: one lemma for each action. *)

\* What the steps inside a body leave alone.
LEMMA BodyKeeps ==
  ASSUME IInv, NEW c \in Call, Running(c), UNCHANGED <<db, mutex, request, attempt, outcome>>,
         \A d \in Call \ {c} : UNCHANGED Local(d), ViewInv(c)'
  PROVE  (\A d \in Call : ViewInv(d)') /\ DatabaseInv'
<1>1. outcome[c] # "committed"
  BY DEF IInv, ViewInv, ViewBounded, Running
<1>2. DatabaseInv'
  BY <1>1, DatabaseKept
<1>3. \A d \in Call \ {c} : ViewInv(d)'
  BY Undisturbed DEF IInv
<1> QED BY <1>2, <1>3

LEMMA ClaimView ==
  ASSUME IInv, NEW c \in Call, ClaimCommand(c) PROVE ViewInv(c)'
<1> USE DEF IInv, ClaimCommand, Running, Allocated
<1>1. /\ pc'[c] = "position" /\ next'[c] = 1 /\ asserted'[c] = {} /\ retracted'[c] = {}
      /\ Tx(c)' = Tx(c)
      /\ \/ request[c].command = NoCommand /\ work'[c] = db
         \/ /\ request[c].command # NoCommand
            /\ db.receipt[request[c].command] = NoTx
            /\ work'[c] = WithReceipt(db, request[c].command, Tx(c))
  BY DEF TypeOK, ViewInv, ViewBounded, Tx
<1>2. work'[c].position = db.position /\ work'[c].facts = db.facts
      /\ work'[c].journal = db.journal
  BY <1>1 DEF WithReceipt, TypeOK, Database
<1>3. AttemptFresh(c)'
  BY <1>1 DEF ViewInv, AttemptFresh
<1>4. db.position \in Nat
  BY DEF TypeOK, Database
<1>5. ViewBounded(c)'
  BY <1>1, <1>2, <1>4 DEF ViewInv, ViewBounded, Current
<1>6. Overlay(c)'
  <2>1. OverlayFacts(c)'
    BY <1>1, <1>2 DEF OverlayFacts
  <2>2. OverlayReceipt(c)'
    BY <1>1 DEF OverlayReceipt, WithReceipt, TypeOK, Database
  <2>3. OverlayJournal(c)'
    BY <1>1, <1>2 DEF OverlayJournal
  <2> QED BY <2>1, <2>2, <2>3 DEF Overlay
<1>7. Settled(c)' /\ Silent(c)'
  BY <1>1 DEF ViewInv, Settled, Silent, OwnsWhatItWrites
<1> QED BY <1>3, <1>5, <1>6, <1>7 DEF ViewInv

LEMMA PositionView ==
  ASSUME IInv, NEW c \in Call, NextPosition(c) PROVE ViewInv(c)'
<1> USE DEF IInv, NextPosition, Running, Allocated
<1>1. /\ pc'[c] \in {"enforce", "ops"} /\ next'[c] = 1 /\ asserted'[c] = {}
      /\ retracted'[c] = {} /\ Tx(c)' = Tx(c)
      /\ work'[c] = WithNextPosition(work[c])
  BY DEF TypeOK, ViewInv, ViewBounded, Tx
<1>2. /\ work'[c].position = work[c].position + 1 /\ work'[c].facts = work[c].facts
      /\ work'[c].journal = work[c].journal /\ work'[c].receipt = work[c].receipt
      /\ work[c].position \in Nat /\ db.position \in Nat
  BY <1>1 DEF WithNextPosition, TypeOK, Database
<1>3. Current(c)' <=> Current(c)
  BY <1>1, <1>2 DEF Current, SnapshotCurrent
<1>4. AttemptFresh(c)' /\ ViewBounded(c)'
  BY <1>1, <1>2, <1>3 DEF ViewInv, AttemptFresh, ViewBounded
<1>5. Overlay(c)'
  <2> SUFFICES ASSUME Current(c) PROVE (OverlayFacts(c) /\ OverlayReceipt(c) /\ OverlayJournal(c))'
    BY <1>3 DEF Overlay
  <2>1. OverlayFacts(c) /\ OverlayReceipt(c) /\ OverlayJournal(c)
    BY DEF ViewInv, Overlay
  <2>2. OverlayFacts(c)'
    BY <2>1, <1>1, <1>2 DEF OverlayFacts, ViewInv, ViewBounded
  <2> QED BY <2>1, <2>2, <1>1, <1>2 DEF OverlayReceipt, OverlayJournal
<1>6. Settled(c)' /\ Silent(c)'
  BY <1>1 DEF ViewInv, Settled, Silent, OwnsWhatItWrites
<1> QED BY <1>4, <1>5, <1>6 DEF ViewInv

LEMMA EnforceView ==
  ASSUME IInv, NEW c \in Call, EnforceHolds(c) PROVE ViewInv(c)'
<1> USE DEF IInv, EnforceHolds, Running, Allocated
<1>1. /\ pc'[c] = "ops" /\ Tx(c)' = Tx(c) /\ (Current(c)' <=> Current(c))
  BY DEF TypeOK, Tx, Current, SnapshotCurrent
<1>2. AttemptFresh(c)' /\ ViewBounded(c)'
  BY <1>1 DEF ViewInv, AttemptFresh, ViewBounded
<1>3. Overlay(c)'
  BY <1>1 DEF ViewInv, Overlay, OverlayFacts, OverlayReceipt, OverlayJournal,
              AssertedFact, RetractedFact
<1>4. Settled(c)' /\ Silent(c)'
  BY <1>1 DEF ViewInv, Settled, Silent, OwnsWhatItWrites
<1> QED BY <1>2, <1>3, <1>4 DEF ViewInv

LEMMA BeginView ==
  ASSUME IInv, NEW c \in Call, NEW r \in Requests, Begin(c, r) PROVE ViewInv(c)'
<1> USE DEF IInv, Begin, Running, Allocated
<1>1. /\ pc'[c] = "claim" /\ attempt'[c] = 1 /\ attempt[c] = 0 /\ request'[c] = r
      /\ next'[c] = 1 /\ asserted'[c] = {} /\ retracted'[c] = {} /\ outcome'[c] = "none"
      /\ Optimistic \/ mutex' = c
  BY DEF TypeOK, ViewInv, ViewBounded
<1>2. AttemptFresh(c)'
  BY <1>1, KvAssumption DEF ViewInv, AttemptFresh, KvAssumption
<1>3. ViewBounded(c)' /\ Overlay(c)'
  BY <1>1 DEF ViewBounded, Overlay, Current
<1>4. Settled(c)'
  <2>1. r.ops \in Seq(Op)
    BY KvAssumption DEF KvAssumption, Request
  <2> QED BY <1>1, <2>1 DEF Settled
<1>5. Silent(c)'
  BY <1>1 DEF Silent, OwnsWhatItWrites, Current
<1> QED BY <1>2, <1>3, <1>4, <1>5 DEF ViewInv

\* What a step of the loop over the operations leaves alone.
LEMMA LoopView ==
  ASSUME IInv, NEW c \in Call, pc[c] = "ops", OpDone(c),
         work'[c].position = work[c].position,
         work'[c].receipt = work[c].receipt, work'[c].journal = work[c].journal
  PROVE  /\ next'[c] = next[c] + 1 /\ Tx(c)' = Tx(c)
         /\ Current(c)' <=> Current(c)
         /\ AttemptFresh(c)' /\ ViewBounded(c)'
         /\ Overlay(c) /\ (Current(c) => OverlayFacts(c)') => Overlay(c)'
<1> USE DEF IInv, OpDone, Running, Allocated
<1>1. next'[c] = next[c] + 1 /\ Tx(c)' = Tx(c)
  BY DEF TypeOK, Tx
<1>2. Current(c)' <=> Current(c)
  BY DEF Current, SnapshotCurrent
<1>3. AttemptFresh(c)' /\ ViewBounded(c)'
  BY <1>2 DEF ViewInv, AttemptFresh, ViewBounded
<1>4. Overlay(c) /\ (Current(c) => OverlayFacts(c)') => Overlay(c)'
  BY <1>1, <1>2 DEF Overlay, OverlayReceipt, OverlayJournal
<1> QED BY <1>1, <1>2, <1>3, <1>4

LEMMA AssertView ==
  ASSUME IInv, NEW c \in Call, AssertFact(c) PROVE ViewInv(c)'
<1> DEFINE id == FreshId(work[c])
           f == NewFact(work[c], CurrentOp(c).entity, Tx(c), instant[c])
<1> USE DEF IInv, Running, Allocated
<1>1. pc[c] = "ops" /\ OpDone(c) /\ UNCHANGED retracted
  BY DEF AssertFact, AtOp
<1>2. id \in TripleId /\ work[c].facts[id] = NoFact
  BY DEF AssertFact, HasFreshId, FreshId, Ids
<1>3. /\ asserted'[c] = asserted[c] \cup {id} /\ retracted'[c] = retracted[c]
      /\ work'[c] = [work[c] EXCEPT !.facts = [work[c].facts EXCEPT ![id] = f]]
  BY <1>1 DEF AssertFact, WithFact, TypeOK
<1>4. /\ work'[c].facts = [work[c].facts EXCEPT ![id] = f]
      /\ work'[c].position = work[c].position /\ work'[c].receipt = work[c].receipt
      /\ work'[c].journal = work[c].journal
      /\ work[c].facts \in [TripleId -> Fact \cup {NoFact}]
  BY <1>3 DEF TypeOK, Database
<1>5. /\ f.tx = Tx(c) /\ f.position = work[c].position /\ f.instant = instant[c]
      /\ f.retractTx = NoTx /\ f.entity = CurrentOp(c).entity
  BY DEF NewFact
<1>6. f # NoFact
  <2>1. attempt[c] # 0 /\ CurrentOp(c).entity \in Entity
    BY CurrentOpType DEF AssertFact, AtOp, ViewInv, ViewBounded
  <2>2. f \in Fact
    BY <2>1, TxType DEF NewFact, Fact, TypeOK, Database
  <2> QED BY <2>2, StoreAssumption DEF StoreAssumption
<1>7. /\ next'[c] = next[c] + 1 /\ Tx(c)' = Tx(c) /\ (Current(c)' <=> Current(c))
      /\ AttemptFresh(c)' /\ ViewBounded(c)'
      /\ Overlay(c) /\ (Current(c) => OverlayFacts(c)') => Overlay(c)'
  BY <1>1, <1>4, LoopView
<1>8. ASSUME OverlayFacts(c), Current(c) PROVE OverlayFacts(c)'
  <2>1. id \notin asserted[c] /\ id \notin retracted[c] /\ db.facts[id] = NoFact
    BY <1>2, <1>8 DEF OverlayFacts, AssertedFact, Ids
  <2>2. instant' = instant /\ db' = db
    BY <1>1 DEF OpDone
  <2>3. work'[c].facts[id] = f /\ \A i \in TripleId \ {id} : work'[c].facts[i] = work[c].facts[i]
    BY <1>2, <1>4
  <2>4. retracted[c] \subseteq TripleId /\ asserted[c] \subseteq TripleId
    BY DEF TypeOK
  <2>5. \A i \in asserted'[c] : db'.facts[i] = NoFact /\ AssertedFact(c, i)'
    BY <1>3, <1>4, <1>5, <1>6, <1>7, <1>8, <2>1, <2>2, <2>3, <2>4 DEF OverlayFacts, AssertedFact
  <2>6. \A i \in retracted'[c] : RetractedFact(c, i)'
    BY <1>3, <1>4, <1>7, <1>8, <2>1, <2>2, <2>3, <2>4 DEF OverlayFacts, RetractedFact
  <2> QED BY <1>3, <1>5, <1>8, <2>1, <2>2, <2>3, <2>4, <2>5, <2>6 DEF OverlayFacts, Ids
<1>9. Overlay(c)'
  BY <1>7, <1>8 DEF ViewInv, Overlay
<1>10. Settled(c)'
  <2>1. request[c].ops[next[c]].op # "retract"
    BY DEF AssertFact, AtOp
  <2>2. next[c] \in Nat /\ request[c].ops \in Seq(Op) /\ pc' = pc /\ request' = request
    BY <1>1 DEF OpDone, TypeOK, Request
  <2> QED BY <1>1, <1>3, <1>7, <2>1, <2>2 DEF ViewInv, Settled
<1>11. Silent(c)'
  <2> SUFFICES ASSUME ~request[c].journaled
               PROVE  /\ OwnsWhatItWrites(request[c])'
                      /\ Current(c) => \A i \in (asserted[c] \cup retracted[c])' :
                                         work'[c].facts[i].entity \in Reserved
    BY <1>1, <1>7 DEF Silent, OpDone
  <2>1. OwnsWhatItWrites(request[c])
    BY <1>1 DEF ViewInv, Silent
  <2>2. OwnsWhatItWrites(request[c])'
    BY <1>1, <2>1 DEF OwnsWhatItWrites, OpDone
  <2>3. next[c] \in DOMAIN request[c].ops
    BY DEF AssertFact, AtOp, TypeOK, Request
  <2>4. f.entity \in Reserved
    BY <1>5, <2>1, <2>3 DEF OwnsWhatItWrites, CurrentOp, AssertFact, AtOp
  <2>5. Current(c) => \A i \in asserted[c] \cup retracted[c] :
                        work[c].facts[i].entity \in Reserved
    BY <1>1 DEF ViewInv, Silent
  <2> QED BY <1>2, <1>3, <1>4, <2>2, <2>4, <2>5 DEF TypeOK
<1> QED BY <1>7, <1>9, <1>10, <1>11 DEF ViewInv

LEMMA RetractView ==
  ASSUME IInv, NEW c \in Call, NEW ids \in SUBSET Ids(work[c]), pc[c] = "ops",
         RetractAll(c, ids),
         \A i \in ids : IsLive(work[c], i),
         next[c] \in DOMAIN request[c].ops,
         CurrentOp(c).op = "retract" => CurrentOp(c).id \in ids,
         ~request[c].journaled /\ Current(c) =>
           \A i \in ids : work[c].facts[i].entity \in Reserved
  PROVE  ViewInv(c)'
<1> DEFINE now == instant[c]
           g(i) == Retired(work[c], work[c].facts[i], Tx(c), now)
<1> USE DEF IInv, Running, Allocated
<1>1. OpDone(c) /\ UNCHANGED asserted /\ ids \subseteq TripleId
  BY DEF RetractAll, Ids
<1>2. retracted'[c] = retracted[c] \cup ids /\ asserted'[c] = asserted[c]
  BY <1>1 DEF RetractAll, TypeOK
<1>3. /\ work'[c].facts = [i \in TripleId |-> IF i \in ids THEN g(i) ELSE work[c].facts[i]]
      /\ work'[c].position = work[c].position /\ work'[c].receipt = work[c].receipt
      /\ work'[c].journal = work[c].journal
      /\ work[c].facts \in [TripleId -> Fact \cup {NoFact}]
  BY DEF RetractAll, WithRetracted, TypeOK, Database
<1>4. ASSUME NEW i \in ids
      PROVE  /\ g(i).retractTx = Tx(c) /\ g(i).retractPosition = work[c].position
             /\ g(i).retractInstant = now
             /\ SameAssertion(g(i), work[c].facts[i])
             /\ g(i).entity = work[c].facts[i].entity /\ g(i) # NoFact
  <2>1. work[c].facts[i] \in Fact
    BY <1>3 DEF Ids
  <2>2. /\ g(i).retractTx = Tx(c) /\ g(i).retractPosition = work[c].position
        /\ g(i).retractInstant = now /\ SameAssertion(g(i), work[c].facts[i])
        /\ g(i).entity = work[c].facts[i].entity
    BY <2>1 DEF Retired, Fact, SameAssertion
  <2>3. Tx(c) \in TxId
    BY TxType DEF ViewInv, ViewBounded
  <2>4. g(i) \in Fact
    BY <2>1, <2>3 DEF Retired, Fact, TypeOK, Database
  <2> QED BY <2>2, <2>4, StoreAssumption DEF StoreAssumption
<1>5. /\ next'[c] = next[c] + 1 /\ Tx(c)' = Tx(c) /\ (Current(c)' <=> Current(c))
      /\ AttemptFresh(c)' /\ ViewBounded(c)'
      /\ Overlay(c) /\ (Current(c) => OverlayFacts(c)') => Overlay(c)'
  BY <1>1, <1>3, LoopView
<1>6. ASSUME OverlayFacts(c), Current(c) PROVE OverlayFacts(c)'
  <2>1. instant' = instant /\ db' = db
    BY <1>1 DEF OpDone
  <2>2. /\ \A i \in ids : work'[c].facts[i] = g(i)
        /\ \A i \in TripleId \ ids : work'[c].facts[i] = work[c].facts[i]
    BY <1>1, <1>3
  <2>3. retracted[c] \subseteq TripleId /\ asserted[c] \subseteq TripleId
    BY DEF TypeOK
  <2>4. Tx(c) # NoTx
    BY <1>6, ChangesOfView DEF Current
  <2>5. ids \cap retracted[c] = {}
    BY <1>6, <2>4 DEF OverlayFacts, RetractedFact, IsLive
  <2>6. \A i \in asserted'[c] : db'.facts[i] = NoFact /\ AssertedFact(c, i)'
    <3> SUFFICES ASSUME NEW i \in asserted[c]
                 PROVE  db'.facts[i] = NoFact /\ AssertedFact(c, i)'
      BY <1>2
    <3>1. db.facts[i] = NoFact /\ AssertedFact(c, i)
      BY <1>6 DEF OverlayFacts
    <3>2. CASE i \in ids
      <4>1. work'[c].facts[i] = g(i) /\ g(i) # NoFact /\ SameAssertion(g(i), work[c].facts[i])
        BY <1>4, <2>2, <3>2
      <4> QED BY <4>1, <1>3, <1>5, <2>1, <3>1 DEF AssertedFact, SameAssertion
    <3>3. CASE i \notin ids
      BY <1>3, <1>5, <2>1, <2>2, <2>3, <3>1, <3>3 DEF AssertedFact
    <3> QED BY <3>2, <3>3
  <2>7. \A i \in retracted'[c] : RetractedFact(c, i)'
    <3> SUFFICES ASSUME NEW i \in retracted[c] \cup ids PROVE RetractedFact(c, i)'
      BY <1>2
    <3>1. CASE i \in ids
      <4>1. /\ work'[c].facts[i] = g(i) /\ g(i).retractTx = Tx(c)
            /\ g(i).retractPosition = work[c].position /\ g(i).retractInstant = now
        BY <1>4, <2>2, <3>1
      <4> QED BY <4>1, <1>3, <1>5, <2>1 DEF RetractedFact
    <3>2. CASE i \notin ids
      BY <1>3, <1>5, <1>6, <2>1, <2>2, <2>3, <3>2, ZenonT(60) DEF RetractedFact, OverlayFacts
    <3> QED BY <3>1, <3>2
  <2>8. \A i \in retracted'[c] \ asserted'[c] :
          IsLive(db, i) /\ SameAssertion(work'[c].facts[i], db.facts[i])
    <3> SUFFICES ASSUME NEW i \in (retracted[c] \cup ids) \ asserted[c]
                 PROVE  IsLive(db, i) /\ SameAssertion(work'[c].facts[i], db.facts[i])
      BY <1>2
    <3>1. CASE i \in ids
      <4>1. i \notin retracted[c] /\ work[c].facts[i] = db.facts[i]
        BY <1>1, <1>6, <2>5, <3>1 DEF OverlayFacts
      <4>2. SameAssertion(work'[c].facts[i], work[c].facts[i]) /\ IsLive(work[c], i)
        BY <1>4, <2>2, <3>1
      <4> QED BY <4>1, <4>2 DEF IsLive, Ids
    <3>2. CASE i \notin ids
      BY <1>6, <2>2, <2>3, <3>2 DEF OverlayFacts
    <3> QED BY <3>1, <3>2
  <2>9. retracted'[c] \subseteq Ids(work[c])'
    <3> SUFFICES ASSUME NEW i \in retracted[c] \cup ids
                 PROVE  i \in TripleId /\ work'[c].facts[i] # NoFact
      BY <1>2 DEF Ids
    <3>1. CASE i \in ids
      BY <1>1, <1>4, <2>2, <3>1
    <3>2. CASE i \notin ids
      BY <1>6, <2>2, <2>3, <3>2 DEF OverlayFacts, Ids
    <3> QED BY <3>1, <3>2
  <2>10. /\ \A i \in asserted'[c] \ retracted'[c] : work'[c].facts[i].retractTx = NoTx
         /\ \A i \in TripleId \ (asserted'[c] \cup retracted'[c]) :
              work'[c].facts[i] = db'.facts[i]
    BY <1>2, <1>6, <2>1, <2>2, <2>3 DEF OverlayFacts
  <2> QED BY <2>1, <2>6, <2>7, <2>8, <2>9, <2>10 DEF OverlayFacts, IsLive, Ids
<1>7. Overlay(c)'
  BY <1>5, <1>6 DEF ViewInv, Overlay
<1>8. Settled(c)'
  <2>1. next[c] \in Nat /\ request[c].ops \in Seq(Op) /\ pc' = pc /\ request' = request
    BY <1>1 DEF OpDone, TypeOK, Request
  <2> SUFFICES ASSUME NEW n \in DOMAIN request[c].ops, n < next[c] + 1,
                      request[c].ops[n].op = "retract",
                      request[c].ops[n].id \in request[c].expects
               PROVE  request[c].ops[n].id \in retracted'[c]
    BY <1>5, <2>1 DEF ViewInv, Settled
  <2>2. CASE n = next[c]
    BY <1>2, <2>2 DEF CurrentOp
  <2>3. CASE n < next[c]
    BY <1>2, <2>3 DEF ViewInv, Settled
  <2> QED BY <2>1, <2>2, <2>3
<1>9. Silent(c)'
  <2> SUFFICES ASSUME ~request[c].journaled
               PROVE  /\ OwnsWhatItWrites(request[c])'
                      /\ Current(c) => \A i \in (asserted[c] \cup retracted[c])' :
                                         work'[c].facts[i].entity \in Reserved
    BY <1>1, <1>5 DEF Silent, OpDone
  <2>1. OwnsWhatItWrites(request[c])'
    BY <1>1 DEF OwnsWhatItWrites, OpDone, ViewInv, Silent
  <2>2. Current(c) => \A i \in asserted[c] \cup retracted[c] :
                        work[c].facts[i].entity \in Reserved
    BY DEF ViewInv, Silent
  <2>3. ASSUME Current(c), NEW i \in asserted[c] \cup retracted[c] \cup ids
        PROVE  work'[c].facts[i].entity \in Reserved
    <3>0. i \in TripleId
      BY <1>1 DEF TypeOK
    <3>1. CASE i \in ids
      <4>1. work'[c].facts[i] = g(i) /\ g(i).entity = work[c].facts[i].entity
        BY <1>3, <1>4, <3>0, <3>1
      <4> QED BY <2>3, <3>1, <4>1
    <3>2. CASE i \notin ids
      BY <1>3, <2>2, <2>3, <3>0, <3>2
    <3> QED BY <3>1, <3>2
  <2> QED BY <1>2, <2>1, <2>3
<1> QED BY <1>5, <1>7, <1>8, <1>9 DEF ViewInv

LEMMA RetractFactView ==
  ASSUME IInv, NEW c \in Call, RetractFact(c) PROVE ViewInv(c)'
<1> DEFINE i == CurrentOp(c).id
<1> USE DEF IInv, Running, Allocated
<1>1. /\ pc[c] = "ops" /\ next[c] \in DOMAIN request[c].ops /\ CurrentOp(c).op = "retract"
      /\ IsLive(work[c], i) /\ i \in Ids(work[c]) /\ RetractAll(c, {i})
  <2>1. /\ pc[c] = "ops" /\ next[c] <= Len(request[c].ops) /\ CurrentOp(c).op = "retract"
        /\ IsLive(work[c], i) /\ RetractAll(c, {i})
    BY DEF RetractFact, AtOp, CurrentOp
  <2>2. request[c].ops \in Seq(Op) /\ next[c] \in Nat \ {0}
    BY <2>1 DEF TypeOK, Request
  <2>3. next[c] \in DOMAIN request[c].ops
    BY ONLY <2>1, <2>2
  <2> QED BY <2>1, <2>3 DEF IsLive
<1>2. ASSUME ~request[c].journaled, Current(c) PROVE work[c].facts[i].entity \in Reserved
  <2>1. i \in Ids(db) /\ db.facts[i].entity \in Reserved
    BY <1>1, <1>2 DEF ViewInv, Silent, OwnsWhatItWrites, CurrentOp
  <2> QED BY <1>1, <1>2, <2>1, ViewExtends DEF SameAssertion, Current
<1> QED BY <1>1, <1>2, RetractView

LEMMA RetractPatternView ==
  ASSUME IInv, NEW c \in Call, RetractPattern(c) PROVE ViewInv(c)'
<1> DEFINE ids == Matching(work[c], CurrentOp(c).entity)
<1> USE DEF IInv, Running, Allocated
<1>1. /\ pc[c] = "ops" /\ next[c] \in DOMAIN request[c].ops
      /\ CurrentOp(c).op = "retract-pattern"
      /\ ids \in SUBSET Ids(work[c]) /\ RetractAll(c, ids)
      /\ \A i \in ids : IsLive(work[c], i) /\ work[c].facts[i].entity = CurrentOp(c).entity
  BY DEF RetractPattern, AtOp, CurrentOp, Matching, TypeOK, Request
<1>2. ~request[c].journaled => CurrentOp(c).entity \in Reserved
  BY <1>1 DEF ViewInv, Silent, OwnsWhatItWrites, CurrentOp
<1> QED BY <1>1, <1>2, RetractView

LEMMA RetractNothingView ==
  ASSUME IInv, NEW c \in Call, RetractNothing(c) PROVE ViewInv(c)'
<1> USE DEF IInv, Running, Allocated
<1>1. pc[c] = "ops" /\ OpDone(c) /\ UNCHANGED <<work, asserted, retracted>>
  BY DEF RetractNothing, AtOp
<1>2. /\ next'[c] = next[c] + 1 /\ Tx(c)' = Tx(c) /\ (Current(c)' <=> Current(c))
      /\ AttemptFresh(c)' /\ ViewBounded(c)'
      /\ Overlay(c) /\ (Current(c) => OverlayFacts(c)') => Overlay(c)'
  BY <1>1, LoopView
<1>3. Overlay(c)'
  BY <1>1, <1>2 DEF ViewInv, Overlay, OverlayFacts, AssertedFact, RetractedFact, OpDone
<1>4. Settled(c)'
  <2>1. next[c] \in Nat /\ request[c].ops \in Seq(Op) /\ pc' = pc /\ request' = request
    BY <1>1 DEF OpDone, TypeOK, Request
  <2>2. CurrentOp(c).id \notin request[c].expects
    BY DEF RetractNothing
  <2> SUFFICES ASSUME NEW n \in DOMAIN request[c].ops, n < next[c] + 1,
                      request[c].ops[n].op = "retract",
                      request[c].ops[n].id \in request[c].expects
               PROVE  request[c].ops[n].id \in retracted[c]
    BY <1>1, <1>2, <2>1 DEF ViewInv, Settled
  <2>3. n # next[c]
    BY <2>2 DEF CurrentOp
  <2>4. n < next[c] /\ pc[c] = "ops"
    BY <1>1, <2>1, <2>3
  <2> QED BY <2>4 DEF ViewInv, Settled
<1>5. Silent(c)'
  BY <1>1, <1>2 DEF ViewInv, Silent, OwnsWhatItWrites, OpDone
<1> QED BY <1>2, <1>3, <1>4, <1>5 DEF ViewInv

LEMMA JournalView ==
  ASSUME IInv, NEW c \in Call, WriteJournal(c) PROVE ViewInv(c)'
<1> USE DEF IInv, Running, Allocated
<1>1. /\ pc[c] = "ops" /\ pc'[c] = "commit" /\ Tx(c)' = Tx(c)
      /\ work'[c] = IF request[c].journaled THEN WithEnvelope(work[c], EnvelopeOf(c))
                                            ELSE work[c]
      /\ UNCHANGED <<db, mutex, request, attempt, instant, next, asserted, retracted, outcome>>
  BY DEF WriteJournal, TypeOK, Tx
<1>2. /\ work'[c].position = work[c].position /\ work'[c].facts = work[c].facts
      /\ work'[c].receipt = work[c].receipt
      /\ work'[c].journal = IF request[c].journaled THEN work[c].journal \cup {EnvelopeOf(c)}
                                                    ELSE work[c].journal
  BY <1>1 DEF WithEnvelope, TypeOK, Database
<1>3. Current(c)' <=> Current(c)
  BY <1>1, <1>2 DEF Current, SnapshotCurrent
<1>4. AttemptFresh(c)' /\ ViewBounded(c)'
  BY <1>1, <1>2, <1>3 DEF ViewInv, AttemptFresh, ViewBounded
<1>5. EnvelopeOf(c)' = EnvelopeOf(c)
  BY <1>1, <1>2 DEF EnvelopeOf
<1>6. ASSUME Current(c) PROVE (OverlayFacts(c) /\ OverlayReceipt(c) /\ OverlayJournal(c))'
  <2>1. OverlayFacts(c) /\ OverlayReceipt(c) /\ OverlayJournal(c)
    BY <1>6 DEF ViewInv, Overlay
  <2>2. OverlayFacts(c)'
    BY <1>1, <1>2, <2>1, ZenonT(60) DEF OverlayFacts, AssertedFact, RetractedFact, Ids
  <2>3. OverlayReceipt(c)' /\ OverlayJournal(c)'
    BY <1>1, <1>2, <1>5, <2>1 DEF OverlayReceipt, OverlayJournal
  <2> QED BY <2>2, <2>3
<1>7. Overlay(c)'
  BY <1>3, <1>6 DEF Overlay
<1>8. Settled(c)'
  BY <1>1 DEF ViewInv, Settled, WriteJournal
<1>9. Silent(c)'
  BY <1>1, <1>2, <1>3 DEF ViewInv, Silent, OwnsWhatItWrites
<1> QED BY <1>4, <1>7, <1>8, <1>9 DEF ViewInv

\* The database is left alone, or a view that is still current is committed.
Publishes(c) == pc[c] = "commit" /\ SnapshotCurrent(c) /\ db' = work[c]

LEMMA ReturnView ==
  ASSUME IInv, NEW c \in Call, NEW o \in Outcome, Running(c), Return(c, o),
         UNCHANGED db \/ Publishes(c)
  PROVE  ViewInv(c)'
<1> USE DEF IInv, Running, Allocated, Publishes
<1>1. /\ pc'[c] = "done" /\ attempt' = attempt /\ attempt[c] # 0
  BY DEF Return, TypeOK, ViewInv, ViewBounded
<1>2. TxsOf(db)' \subseteq TxsOf(db) \cup {Tx(c)}
  BY TxsOfView
<1>3. AttemptFresh(c)'
  <2>1. \A n \in 1..MaxAttempts : <<c, n>> \in TxsOf(db) => n <= attempt[c]
    BY DEF ViewInv, AttemptFresh
  <2>2. \A n : <<c, n>> = Tx(c) => n = attempt[c]
    BY DEF Tx
  <2>3. attempt[c] \in Nat
    BY DEF TypeOK
  <2> QED BY <1>1, <1>2, <2>1, <2>2, <2>3 DEF AttemptFresh
<1>4. ViewBounded(c)' /\ Overlay(c)' /\ Settled(c)' /\ Silent(c)'
  BY <1>1 DEF ViewBounded, Overlay, Current, Settled, Silent
<1> QED BY <1>3, <1>4 DEF ViewInv

LEMMA RunAgainView ==
  ASSUME IInv, NEW c \in Call, Optimistic, pc[c] = "commit", RunAgain(c),
         UNCHANGED db \/ Publishes(c)
  PROVE  ViewInv(c)'
<1> USE DEF IInv, Running, Allocated, Publishes
<1>1. /\ pc'[c] = "claim" /\ attempt'[c] = attempt[c] + 1 /\ request' = request
      /\ next'[c] = 1 /\ asserted'[c] = {} /\ retracted'[c] = {}
      /\ outcome' = outcome /\ outcome[c] = "none" /\ attempt[c] \in Nat
  BY DEF RunAgain, TypeOK, ViewInv, ViewBounded
<1>2. TxsOf(db)' \subseteq TxsOf(db) \cup {Tx(c)}
  BY TxsOfView
<1>3. AttemptFresh(c)'
  <2>1. \A n \in 1..MaxAttempts : <<c, n>> \in TxsOf(db) => n <= attempt[c]
    BY DEF ViewInv, AttemptFresh
  <2>2. \A n : <<c, n>> = Tx(c) => n = attempt[c]
    BY DEF Tx
  <2> QED BY <1>1, <1>2, <2>1, <2>2, KvAssumption DEF AttemptFresh, KvAssumption
<1>4. ViewBounded(c)' /\ Overlay(c)'
  BY <1>1 DEF ViewBounded, Overlay, Current
<1>5. Settled(c)'
  <2>1. request[c].ops \in Seq(Op)
    BY DEF TypeOK, Request
  <2>2. \A n \in DOMAIN request[c].ops : ~(n < 1)
    BY <2>1
  <2>3. Admissible(request[c])
    BY DEF ViewInv, Settled
  <2> QED BY <1>1, <2>2, <2>3 DEF Settled
<1>6. Silent(c)'
  <2>1. OwnsWhatItWrites(request[c]) => OwnsWhatItWrites(request[c])'
    <3>1. \A i \in Ids(db) : i \in Ids(db') /\ db'.facts[i].entity = db.facts[i].entity
      BY ViewExtends DEF SameAssertion
    <3> QED BY ONLY <1>1, <3>1 DEF OwnsWhatItWrites
  <2> QED BY <1>1, <2>1 DEF ViewInv, Silent, Current
<1> QED BY <1>3, <1>4, <1>5, <1>6 DEF ViewInv
-----------------------------------------------------------------------------
(* The invariant is inductive. *)

LEMMA InitIInv == Init => IInv
<1> SUFFICES ASSUME Init PROVE IInv
  OBVIOUS
<1>1. TypeOK
  BY InitType
<1>2. Ids(db) = {} /\ db.journal = {} /\ \A k \in Command : db.receipt[k] = NoTx
  BY DEF Init, EmptyDatabase, Ids
<1>3. TxsOf(db) = {}
  BY <1>2 DEF TxsOf, IsLive
<1>4. ASSUME NEW c \in Call PROVE ViewInv(c)
  BY <1>3 DEF Init, ViewInv, AttemptFresh, ViewBounded, Overlay, Settled, Silent,
              Running, Allocated, Current
<1>5. DatabaseInv
  BY <1>2 DEF Init, DatabaseInv, JournalMatchesFacts, FeedCoversFacts,
              EnvelopesDistinct, ReceiptCall, ReceiptNamesCommit, ExpectationHonoured
<1> QED BY <1>1, <1>4, <1>5 DEF IInv

\* A call that ends its body, or starts it again.
LEMMA EndInv ==
  ASSUME IInv, NEW c \in Call,
         \/ \E o \in Outcome : /\ Running(c) /\ Return(c, o)
                               /\ (UNCHANGED db /\ o # "committed") \/ Publishes(c)
         \/ /\ Optimistic /\ pc[c] = "commit" /\ RunAgain(c)
            /\ UNCHANGED db \/ Publishes(c)
  PROVE  (\A d \in Call : ViewInv(d)') /\ DatabaseInv'
<1>1. ViewInv(c)'
  BY ReturnView, RunAgainView
<1>2. TypeOK /\ \A d \in Call : ViewInv(d)
  BY DEF IInv
<1>3. Running(c) /\ (Optimistic \/ mutex = c)
  BY <1>2 DEF ViewInv, ViewBounded, Running
<1>4. ASSUME NEW d \in Call, d # c
      PROVE  /\ UNCHANGED Local(d)
             /\ UNCHANGED mutex \/ ~Running(d) \/ Optimistic
  BY <1>2, <1>3, <1>4 DEF Return, RunAgain, Local, TypeOK, ViewInv, ViewBounded
<1>5. \A d \in Call \ {c} : ViewInv(d)'
  BY <1>2, <1>4, Undisturbed, Outdated DEF Publishes
<1>6. /\ UNCHANGED request
      /\ \A d \in Call : attempt[d] # 0 => attempt'[d] # 0
      /\ \A d \in Call \ {c} : UNCHANGED <<request[d], attempt[d], outcome[d]>>
      /\ outcome'[c] = "committed" => UNCHANGED attempt[c] /\ Publishes(c)
  <2>1. CASE RunAgain(c)
    <3>1. outcome'[c] = "none" /\ UNCHANGED request
      BY <2>1, <1>2, <1>3 DEF RunAgain, ViewInv, ViewBounded, Running
    <3>2. attempt[c] \in Nat /\ attempt' = [attempt EXCEPT ![c] = @ + 1]
      BY <2>1, <1>2 DEF RunAgain, TypeOK
    <3>3. \A d \in Call : attempt[d] # 0 => attempt'[d] # 0
      BY <3>2, <1>2 DEF TypeOK
    <3> QED BY <3>1, <3>3, <1>4 DEF Local
  <2>2. CASE ~RunAgain(c)
    BY <2>2, <1>2, <1>4 DEF Return, TypeOK, Local
  <2> QED BY <2>1, <2>2
<1>7. CASE Publishes(c)
  <2>1. JournalMatchesFacts' /\ EnvelopesDistinct' /\ FeedCoversFacts'
    BY <1>7, CommittedJournal, CommittedFeed DEF Publishes
  <2>2. ReceiptCall' /\ ReceiptNamesCommit'
    BY <1>6, <1>7, CommittedReceipts DEF Publishes
  <2>3. ExpectationHonoured'
    BY <1>6, <1>7, CommittedExpectations DEF Publishes
  <2> QED BY <1>1, <1>5, <2>1, <2>2, <2>3 DEF DatabaseInv
<1>8. CASE ~Publishes(c)
  <2>1. DatabaseInv'
    BY <1>6, <1>8, DatabaseKept
  <2> QED BY <1>1, <1>5, <2>1
<1> QED BY <1>7, <1>8

LEMMA NextIInv == IInv /\ [Next]_vars => IInv'
<1> SUFFICES ASSUME IInv, [Next]_vars PROVE IInv'
  OBVIOUS
<1>1. TypeOK /\ \A d \in Call : ViewInv(d)
  BY DEF IInv
<1>2. TypeOK'
  BY <1>1, NextType DEF TypeInv, Attempted, ViewInv, ViewBounded
<1> DEFINE Goal == (\A d \in Call : ViewInv(d)') /\ DatabaseInv'
<1>3. ASSUME UNCHANGED <<db, mutex, pc, request, attempt, instant, work, next,
                         asserted, retracted, outcome>>
      PROVE  Goal
  <2>1. \A d \in Call : ViewInv(d)'
    BY <1>1, <1>3, Undisturbed DEF Local
  <2>2. DatabaseInv'
    BY <1>3 DEF IInv, DatabaseInv, JournalMatchesFacts, FeedCoversFacts, EnvelopesDistinct,
                ReceiptCall, ReceiptNamesCommit, ExpectationHonoured, Tx
  <2> QED BY <2>1, <2>2
<1>4. ASSUME NEW c \in Call, NEW r \in Requests, Reject(c, r) PROVE Goal
  <2>1. ViewInv(c)'
    BY <1>1, <1>4 DEF Reject, TypeOK, ViewInv, AttemptFresh, ViewBounded, Overlay, Settled,
                      Silent, Running, Allocated, Current
  <2>2. \A d \in Call \ {c} : ViewInv(d)'
    BY <1>1, <1>4, Undisturbed DEF Reject, Local, TypeOK
  <2>3. DatabaseInv'
    BY <1>1, <1>4, DatabaseKept DEF Reject, TypeOK, ViewInv, ViewBounded
  <2> QED BY <2>1, <2>2, <2>3
<1>5. ASSUME NEW c \in Call, NEW r \in Requests, Begin(c, r) PROVE Goal
  <2>1. Optimistic \/ \A d \in Call : ~Running(d)
    BY <1>1, <1>5, KvAssumption DEF Begin, ViewInv, ViewBounded, KvAssumption
  <2>2. \A d \in Call \ {c} : ViewInv(d)'
    BY <1>1, <1>5, <2>1, Undisturbed DEF Begin, Local, TypeOK
  <2>3. DatabaseInv'
    <3>1. /\ outcome'[c] = "none" /\ attempt[c] = 0
          /\ \A d \in Call \ {c} : UNCHANGED <<request[d], attempt[d], outcome[d]>>
      BY <1>1, <1>5 DEF Begin, TypeOK, ViewInv, ViewBounded
    <3> QED BY <1>5, <3>1, DatabaseKept DEF Begin
  <2> QED BY <1>5, <2>2, <2>3, BeginView
<1>6. ASSUME NEW c \in Call, Running(c), ViewInv(c)',
             UNCHANGED <<db, mutex, request, attempt, outcome>>,
             \A d \in Call \ {c} : UNCHANGED Local(d)
      PROVE  Goal
  BY <1>6, BodyKeeps
<1>7. ASSUME NEW c \in Call, BodyStep(c) PROVE Goal
  <2>1. ASSUME ClaimCommand(c) PROVE Goal
    BY <1>1, <1>6, <2>1, ClaimView DEF ClaimCommand, Running, Local, TypeOK
  <2>2. ASSUME NextPosition(c) PROVE Goal
    BY <1>1, <1>6, <2>2, PositionView DEF NextPosition, Running, Local, TypeOK
  <2>3. ASSUME EnforceHolds(c) PROVE Goal
    BY <1>1, <1>6, <2>3, EnforceView DEF EnforceHolds, Running, Local, TypeOK
  <2>4. ASSUME AssertFact(c) PROVE Goal
    BY <1>1, <1>6, <2>4, AssertView DEF AssertFact, AtOp, OpDone, Running, Local, TypeOK
  <2>5. ASSUME RetractFact(c) PROVE Goal
    BY <1>1, <1>6, <2>5, RetractFactView
       DEF RetractFact, RetractAll, AtOp, OpDone, Running, Local, TypeOK
  <2>6. ASSUME RetractPattern(c) PROVE Goal
    BY <1>1, <1>6, <2>6, RetractPatternView
       DEF RetractPattern, RetractAll, AtOp, OpDone, Running, Local, TypeOK
  <2>7. ASSUME RetractNothing(c) PROVE Goal
    BY <1>1, <1>6, <2>7, RetractNothingView
       DEF RetractNothing, AtOp, OpDone, Running, Local, TypeOK
  <2>8. ASSUME WriteJournal(c) PROVE Goal
    BY <1>1, <1>6, <2>8, JournalView DEF WriteJournal, Running, Local, TypeOK
  <2>9. ASSUME Commit(c) PROVE Goal
    <3>1. SnapshotCurrent(c)
      BY <1>1, <2>9 DEF Commit, ViewInv, ViewBounded, Running, Current
    <3> QED BY <2>9, <3>1, EndInv DEF Commit, Running, Publishes, Outcome
  <2>10. ASSUME CommitConflict(c) PROVE Goal
    BY <2>10, EndInv DEF CommitConflict
  <2>11. ASSUME NEW o \in Outcome \ {"committed"}, Fail(c, o), Running(c) PROVE Goal
    BY <2>11, EndInv DEF Fail
  <2> QED BY <1>7, <2>1, <2>2, <2>3, <2>4, <2>5, <2>6, <2>7, <2>8, <2>9, <2>10, <2>11
          DEF BodyStep, AlreadyCommitted, PositionExhausted, EnforceViolated,
              RetractConflict, RetractReserved, RetractPatternReserved, AtOp, Running, Outcome
<1>8. ASSUME NEW c \in Call, CommitUnknown(c) \/ Abandon(c) \/ CancelTooLate(c) PROVE Goal
  BY <1>8, EndInv DEF CommitUnknown, Abandon, CancelTooLate, Fail, Running, Publishes, Outcome
<1>9. Goal
  BY <1>3, <1>4, <1>5, <1>7, <1>8 DEF Next, Step, Tick, Finished, vars
<1> QED BY <1>2, <1>9 DEF IInv

LEMMA Inductive == Spec => []IInv
BY InitIInv, NextIInv, PTL DEF Spec
-----------------------------------------------------------------------------
(* What every reachable database satisfies. *)

\* Whatever bodies interleave, die or are run again, an envelope lists exactly
\* the facts its transaction asserted and retracted.
THEOREM JournalTellsTheTruth == Spec => []JournalMatchesFacts
<1>1. IInv => JournalMatchesFacts
  BY DEF IInv, DatabaseInv
<1> QED BY <1>1, Inductive, PTL

\* No application fact comes or goes without an envelope in the feed.
THEOREM FeedIsComplete == Spec => []FeedCoversFacts
<1>1. IInv => FeedCoversFacts
  BY DEF IInv, DatabaseInv
<1> QED BY <1>1, Inductive, PTL

\* A receipt and the commit it names appear together, and only together.
THEOREM ReceiptsAreExact == Spec => []ReceiptNamesCommit
<1>1. IInv => ReceiptNamesCommit
  BY DEF IInv, DatabaseInv
<1> QED BY <1>1, Inductive, PTL

\* A command id is committed at most once, even when the reply of a commit is
\* lost and the body is run again: both commits would be the receipt's.
THEOREM CommandsAreIdempotent == Spec => []CommandCommitsOnce
<1>1. IInv => CommandCommitsOnce
  <2> SUFFICES ASSUME IInv, NEW e1 \in db.journal, NEW e2 \in db.journal,
                      e1.command # NoCommand, e1.command = e2.command
               PROVE  e1 = e2
    BY DEF CommandCommitsOnce
  <2>1. db.receipt[e1.command] = e1.tx /\ db.receipt[e2.command] = e2.tx
    BY DEF IInv, DatabaseInv, ReceiptNamesCommit
  <2> QED BY <2>1 DEF IInv, DatabaseInv, EnvelopesDistinct
<1> QED BY <1>1, Inductive, PTL

\* A call that declared a fact live and committed is the one that retracted it.
THEOREM ExpectationsAreHonoured == Spec => []ExpectationHonoured
<1>1. IInv => ExpectationHonoured
  BY DEF IInv, DatabaseInv
<1> QED BY <1>1, Inductive, PTL
-----------------------------------------------------------------------------
(* What a step may do to the database. *)

\* Only the commit of a current view changes the database.
LEMMA OnlyCommitsPublish ==
  ASSUME IInv, [Next]_vars PROVE UNCHANGED db \/ \E c \in Call : Publishes(c)
<1>1. ASSUME NEW c \in Call, Commit(c) PROVE Publishes(c)
  BY <1>1 DEF Commit, Publishes, IInv, ViewInv, ViewBounded, Running, Current, Allocated
<1> QED BY <1>1, ZenonT(60) DEF Next, Step, BodyStep, Tick, Finished, vars, Reject, Begin, ClaimCommand,
       AlreadyCommitted, NextPosition, PositionExhausted, EnforceHolds, EnforceViolated,
       AssertFact, RetractFact, RetractAll, RetractNothing, RetractConflict,
       RetractReserved, RetractPattern, RetractPatternReserved, OpDone, WriteJournal,
       CommitConflict, CommitUnknown, Abandon, CancelTooLate, Fail, Publishes

LEMMA PublishedView ==
  ASSUME IInv, NEW c \in Call, Publishes(c)
  PROVE  /\ db.position \in Nat /\ db'.position = db.position + 1
         /\ OverlayFacts(c) /\ OverlayJournal(c) /\ db' = work[c]
         /\ \A i \in Ids(db) : /\ i \in Ids(db')
                               /\ SameAssertion(db'.facts[i], db.facts[i])
                               /\ ~IsLive(db, i) => db'.facts[i] = db.facts[i]
BY ViewExtends
   DEF IInv, Publishes, SnapshotCurrent, ViewInv, Overlay, Current, Allocated, TypeOK, Database

\* No step removes a fact or rewrites what history recorded of it.
THEOREM HistoryIsAppendOnly == Spec => HistoryAppendOnly
<1>1. IInv /\ [Next]_vars =>
        [\A i \in Ids(db) : /\ i \in Ids(db')
                            /\ db'.facts[i].tx = db.facts[i].tx
                            /\ ~IsLive(db, i) => db'.facts[i] = db.facts[i]]_vars
  BY OnlyCommitsPublish, PublishedView DEF SameAssertion, Ids, IsLive
<1> QED BY <1>1, Inductive, PTL DEF Spec, HistoryAppendOnly

\* What a reader pinned at a committed position sees is the same for ever.
THEOREM PositionCutsAreRepeatable == Spec => PositionCutStable
<1>1. ASSUME IInv, NEW c \in Call, Publishes(c), NEW p \in 0..db.position
      PROVE  VisibleAtPosition(db', p) = VisibleAtPosition(db, p)
  <2>1. /\ db.position \in Nat /\ db'.position = db.position + 1
        /\ OverlayFacts(c) /\ db' = work[c]
        /\ \A i \in Ids(db) : /\ i \in Ids(db')
                              /\ SameAssertion(db'.facts[i], db.facts[i])
                              /\ ~IsLive(db, i) => db'.facts[i] = db.facts[i]
    BY <1>1, PublishedView
  <2>2. ASSUME NEW i \in VisibleAtPosition(db', p) PROVE i \in VisibleAtPosition(db, p)
    <3>1. i \notin asserted[c]
      BY <2>1, <2>2 DEF OverlayFacts, AssertedFact, VisibleAtPosition
    <3>2. i \in Ids(db) /\ (db'.facts[i] = db.facts[i] \/ IsLive(db, i))
      BY <2>1, <2>2, <3>1 DEF OverlayFacts, VisibleAtPosition, Ids, IsLive
    <3> QED BY <2>1, <2>2, <3>2 DEF VisibleAtPosition, SameAssertion, IsLive
  <2>3. ASSUME NEW i \in VisibleAtPosition(db, p) PROVE i \in VisibleAtPosition(db', p)
    <3>1. i \in Ids(db) /\ db.facts[i].position <= p /\ i \notin asserted[c]
      BY <2>1, <2>3 DEF OverlayFacts, VisibleAtPosition, Ids
    <3>2. i \in Ids(db') /\ db'.facts[i].position <= p
      BY <2>1, <3>1 DEF SameAssertion
    <3>3. CASE i \in retracted[c]
      BY <2>1, <3>2, <3>3 DEF OverlayFacts, RetractedFact, VisibleAtPosition
    <3>4. CASE i \notin retracted[c]
      <4>1. db'.facts[i] = db.facts[i]
        BY <2>1, <3>1, <3>4 DEF OverlayFacts, Ids
      <4> QED BY <2>3, <3>2, <4>1 DEF VisibleAtPosition, IsLive
    <3> QED BY <3>3, <3>4
  <2> QED BY <2>2, <2>3
<1>2. IInv /\ [Next]_vars =>
        [\A p \in 0..db.position : VisibleAtPosition(db', p) = VisibleAtPosition(db, p)]_vars
  BY <1>1, OnlyCommitsPublish DEF VisibleAtPosition, Ids, IsLive
<1> QED BY <1>2, Inductive, PTL DEF Spec, PositionCutStable

\* A reader of the feed that is up to date has missed nothing, and never will.
THEOREM FeedIsResumable == Spec => FeedGrowsAtTheEnd
<1>1. ASSUME IInv, NEW c \in Call, Publishes(c)
      PROVE  /\ db.journal \subseteq db'.journal
             /\ \A env \in db'.journal \ db.journal : env.position > db.position
  <2>1. /\ db.position \in Nat /\ db'.position = db.position + 1
        /\ OverlayJournal(c) /\ db' = work[c]
    BY <1>1, PublishedView
  <2>2. db'.journal \in {db.journal, db.journal \cup {EnvelopeOf(c)}}
    BY <2>1 DEF OverlayJournal
  <2>3. EnvelopeOf(c).position = db.position + 1
    BY <2>1 DEF EnvelopeOf
  <2> QED BY <2>1, <2>2, <2>3
<1>2. IInv /\ [Next]_vars =>
        [/\ db.journal \subseteq db'.journal
         /\ \A env \in db'.journal \ db.journal : env.position > db.position]_vars
  BY <1>1, OnlyCommitsPublish
<1> QED BY <1>2, Inductive, PTL DEF Spec, FeedGrowsAtTheEnd
-----------------------------------------------------------------------------
(* Instants and positions. *)

\* A step that publishes nothing: no running body's instant is older than before
\* unless its body begins at the present instant.
LEMMA OrderKept ==
  ASSUME IInv, OrderInv, UNCHANGED db, clock' \in Nat, clock <= clock',
         \A d \in Call : Running(d)' => \/ Running(d) /\ UNCHANGED instant[d]
                                        \/ instant'[d] = clock
  PROVE  OrderInv'
<1>1. /\ clock \in Nat
      /\ \A d \in Call : instant[d] \in Nat
      /\ \A env \in db.journal : env.instant \in Nat /\ env.position \in Nat
  BY DEF IInv, TypeOK, Database, Envelope
<1>2. \A d \in Call : Running(d)' => instant'[d] <= clock'
  BY <1>1 DEF OrderInv
<1>3. \A env \in db'.journal : env.position <= db'.position /\ env.instant <= clock'
  BY <1>1 DEF OrderInv
<1>4. ASSUME ~Optimistic, NEW d \in Call, Running(d)', NEW env \in db'.journal
      PROVE  env.instant <= instant'[d]
  BY <1>4 DEF OrderInv
<1>5. ~Optimistic => InstantsFollowPositions'
  BY DEF OrderInv, InstantsFollowPositions
<1> QED BY <1>2, <1>3, <1>4, <1>5 DEF OrderInv

\* The steps of the others leave instant and the set of running bodies alone.
LEMMA OrderSteps ==
  ASSUME IInv, [Next]_vars
  PROVE  /\ clock' \in Nat /\ clock <= clock'
         /\ \A d \in Call : Running(d)' => \/ Running(d) /\ UNCHANGED instant[d]
                                        \/ instant'[d] = clock
<1>1. TypeOK
  BY DEF IInv
<1>2. clock' \in Nat /\ clock <= clock'
  <2>1. Tick \/ UNCHANGED clock
    BY ZenonT(60) DEF Next, Step, BodyStep, Finished, vars, Reject, Begin, ClaimCommand,
       AlreadyCommitted, NextPosition, PositionExhausted, EnforceHolds, EnforceViolated,
       AssertFact, RetractFact, RetractAll, RetractNothing, RetractConflict,
       RetractReserved, RetractPattern, RetractPatternReserved, OpDone, WriteJournal,
       Commit, CommitConflict, CommitUnknown, Abandon, CancelTooLate, Fail, Return, RunAgain
  <2> QED BY <1>1, <2>1 DEF TypeOK, Tick
<1>3. ASSUME NEW d \in Call, UNCHANGED <<pc[d], instant[d]>>
      PROVE  Running(d)' => Running(d) /\ UNCHANGED instant[d]
  BY <1>3 DEF Running
<1>4. ASSUME NEW d \in Call, NEW c \in Call, Step(c)
      PROVE  Running(d)' => \/ Running(d) /\ UNCHANGED instant[d]
                            \/ instant'[d] = clock
  <2>1. ASSUME NEW o, Return(c, o) PROVE Running(d)' => Running(d) /\ UNCHANGED instant[d]
    BY <1>1, <2>1 DEF Return, Running, TypeOK
  <2>2. ASSUME RunAgain(c)
        PROVE  Running(d)' => \/ (Running(d) /\ UNCHANGED instant[d]) \/ instant'[d] = clock
    BY <1>1, <2>2 DEF RunAgain, Running, TypeOK
  <2>3. ASSUME NEW r \in Requests, Begin(c, r)
        PROVE  Running(d)' => \/ (Running(d) /\ UNCHANGED instant[d]) \/ instant'[d] = clock
    BY <1>1, <2>3 DEF Begin, Running, TypeOK
  <2>4. ASSUME NEW r \in Requests, Reject(c, r)
        PROVE  Running(d)' => Running(d) /\ UNCHANGED instant[d]
    BY <1>1, <2>4 DEF Reject, Running, TypeOK
  <2>5. ASSUME Running(c), UNCHANGED instant, UNCHANGED pc \/ \E l \in PC : pc' = [pc EXCEPT ![c] = l]
        PROVE  Running(d)' => Running(d) /\ UNCHANGED instant[d]
    BY <1>1, <2>5 DEF Running, TypeOK
  <2> QED
    BY <1>4, <2>1, <2>2, <2>3, <2>4, <2>5
       DEF Step, BodyStep, ClaimCommand, AlreadyCommitted, NextPosition, PositionExhausted,
       EnforceHolds, EnforceViolated, AssertFact, RetractFact, RetractAll, RetractNothing,
       RetractConflict, RetractReserved, RetractPattern, RetractPatternReserved, OpDone,
       AtOp, WriteJournal, Commit, CommitConflict, CommitUnknown, Abandon, CancelTooLate,
       Fail, Running, PC
<1> QED BY <1>2, <1>3, <1>4 DEF Next, Tick, Finished, vars

\* Under the permit a commit takes effect as its call returns.
LEMMA PermitCommits ==
  ASSUME ~Optimistic, [Next]_vars PROVE UNCHANGED db \/ \E c \in Call : Commit(c)
BY DEF Next, Step, BodyStep, Tick, Finished, vars, Reject, Begin, ClaimCommand,
       AlreadyCommitted, NextPosition, PositionExhausted, EnforceHolds, EnforceViolated,
       AssertFact, RetractFact, RetractAll, RetractNothing, RetractConflict,
       RetractReserved, RetractPattern, RetractPatternReserved, OpDone, WriteJournal,
       CommitConflict, CommitUnknown, Abandon, CancelTooLate, Fail

LEMMA OrderInductive == Spec => []OrderInv
<1>1. Init => OrderInv
  BY DEF Init, OrderInv, Running, EmptyDatabase, InstantsFollowPositions
<1>2. IInv /\ OrderInv /\ [Next]_vars => OrderInv'
  <2> SUFFICES ASSUME IInv, OrderInv, [Next]_vars PROVE OrderInv'
    OBVIOUS
  <2>1. CASE UNCHANGED db
    BY <2>1, OrderSteps, OrderKept
  <2>2. ASSUME NEW c \in Call, Publishes(c) PROVE OrderInv'
    <3>1. /\ db.position \in Nat /\ db'.position = db.position + 1
          /\ OverlayJournal(c) /\ db' = work[c]
      BY <2>2, PublishedView
    <3>2. db'.journal \subseteq db.journal \cup {EnvelopeOf(c)}
      BY <3>1 DEF OverlayJournal
    <3>3. EnvelopeOf(c).position = db.position + 1 /\ EnvelopeOf(c).instant = instant[c]
      BY <3>1 DEF EnvelopeOf
    <3>4. Running(c) /\ instant \in [Call -> Nat] /\ clock \in Nat /\ clock' \in Nat
          /\ \A env \in db.journal : env.position \in Nat /\ env.instant \in Nat
      BY <2>2, OrderSteps DEF Publishes, Running, IInv, TypeOK, Database, Envelope
    <3>5. instant[c] <= clock /\ clock <= clock'
      BY <3>4, OrderSteps DEF OrderInv
    <3>6. \A env \in db'.journal : env.position <= db'.position /\ env.instant <= clock'
      BY <3>1, <3>2, <3>3, <3>4, <3>5 DEF OrderInv
    <3>7. \A d \in Call : Running(d)' => instant'[d] <= clock'
      BY <3>4, <3>5, OrderSteps DEF OrderInv
    <3>8. ASSUME ~Optimistic PROVE InstantsFollowPositions'
      BY <3>1, <3>2, <3>3, <3>4, <3>8 DEF OrderInv, InstantsFollowPositions
    <3>9. ASSUME ~Optimistic, NEW d \in Call, Running(d)', NEW env \in db'.journal
          PROVE  env.instant <= instant'[d]
      <4>1. db' # db
        BY <3>1
      <4>2. PICK e \in Call : Commit(e)
        BY <3>9, <4>1, PermitCommits
      <4>3. Running(e) /\ d # e /\ Running(d)
        BY <3>9, <4>2 DEF Commit, Return, Running, IInv, TypeOK
      <4> QED BY <3>9, <4>3 DEF IInv, ViewInv, ViewBounded
    <3> QED BY <3>6, <3>7, <3>8, <3>9 DEF OrderInv
  <2> QED BY <2>1, <2>2, OnlyCommitsPublish
<1> QED BY <1>1, <1>2, Inductive, PTL DEF Spec

\* The in-memory backend's commit instants never run against its positions: a
\* body reads the clock under the permit it commits under.
THEOREM InstantsAreOrdered == ASSUME ~Optimistic PROVE Spec => []InstantsFollowPositions
<1>1. OrderInv => InstantsFollowPositions
  BY DEF OrderInv
<1> QED BY <1>1, OrderInductive, PTL
-----------------------------------------------------------------------------
(* The engine implements TripleLog.  TripleLog's operators on databases are *)
(* the same as the engine's; a call there is the fold of ApplyOp.           *)

LEMMA SameReads ==
  ASSUME NEW D
  PROVE  /\ Log!Ids(D) = Ids(D)
         /\ \A i : Log!IsLive(D, i) <=> IsLive(D, i)
         /\ \A e : Log!Matching(D, e) = Matching(D, e)
         /\ Log!HasFreshId(D) <=> HasFreshId(D)
         /\ Log!FreshId(D) = FreshId(D)
<1>1. Log!Ids(D) = Ids(D)
  BY DEF Log!Ids, Ids
<1>2. \A i : Log!IsLive(D, i) <=> IsLive(D, i)
  BY <1>1 DEF Log!IsLive, IsLive
<1> QED BY <1>1, <1>2 DEF Log!Matching, Matching, Log!HasFreshId, HasFreshId, Log!FreshId, FreshId

LEMMA SameWrites ==
  ASSUME NEW D, NEW tx, NEW now
  PROVE  /\ \A k : Log!WithReceipt(D, k, tx) = WithReceipt(D, k, tx)
         /\ Log!WithNextPosition(D) = WithNextPosition(D)
         /\ \A i, e : Log!WithFact(D, i, e, tx, now) = WithFact(D, i, e, tx, now)
         /\ \A ids : Log!WithRetracted(D, ids, tx, now) = WithRetracted(D, ids, tx, now)
         /\ \A env : Log!WithEnvelope(D, env) = WithEnvelope(D, env)
<1>1. \A i, e : Log!WithFact(D, i, e, tx, now) = WithFact(D, i, e, tx, now)
  BY DEF Log!WithFact, WithFact, Log!NewFact, NewFact
<1>2. \A ids : Log!WithRetracted(D, ids, tx, now) = WithRetracted(D, ids, tx, now)
  BY DEF Log!WithRetracted, WithRetracted, Log!Retired, Retired
<1> QED BY <1>1, <1>2 DEF Log!WithReceipt, WithReceipt, Log!WithNextPosition, WithNextPosition,
                         Log!WithEnvelope, WithEnvelope

LEMMA SameRequests ==
  /\ Log!NoRequest = NoRequest /\ Log!EmptyDatabase = EmptyDatabase
  /\ \A r : Log!Admissible(r) <=> Admissible(r)
BY DEF Log!NoRequest, NoRequest, Log!EmptyDatabase, EmptyDatabase, Log!Admissible, Admissible,
       Log!ReservedAssert, ReservedAssert, Log!UnmatchedExpectation, UnmatchedExpectation

\* The states of a call's loop.
Loops == [D : Database, asserted : SUBSET TripleId, retracted : SUBSET TripleId, error : Log!Failure \cup {"none"}]

LEMMA StartType ==
  ASSUME NEW D \in Database, NEW r \in Request, NEW tx \in TxId
  PROVE  Log!Start(D, r, tx) \in Loops
<1>1. r.command \in Command \cup {NoCommand}
  BY DEF Request
<1>2. (IF r.command = NoCommand THEN D ELSE WithReceipt(D, r.command, tx)) \in Database
  BY <1>1, ReceiptType
<1> DEFINE E == WithNextPosition(IF r.command = NoCommand THEN D ELSE WithReceipt(D, r.command, tx))
<1>3. E \in Database
  BY <1>2, PositionType
<1>4. Log!Start(D, r, tx) =
        [D |-> E, asserted |-> {}, retracted |-> {}, error |-> "none"]
  BY SameWrites DEF Log!Start
<1> HIDE DEF E
<1> QED BY <1>3, <1>4 DEF Loops

LEMMA AssertingIs ==
  ASSUME NEW s \in Loops, NEW i, NEW e, NEW tx \in TxId, NEW now \in Nat
  PROVE  Log!Asserting(s, i, e, tx, now) =
           [D |-> WithFact(s.D, i, e, tx, now), asserted |-> s.asserted \cup {i},
            retracted |-> s.retracted, error |-> s.error]
<1>1. Log!Asserting(s, i, e, tx, now) =
        [s EXCEPT !.D = WithFact(s.D, i, e, tx, now), !.asserted = s.asserted \cup {i}]
  BY SameWrites, ZenonT(60) DEF Log!Asserting
<1> QED BY <1>1 DEF Loops

LEMMA RetractingIs ==
  ASSUME NEW s \in Loops, NEW ids, NEW tx \in TxId, NEW now \in Nat
  PROVE  Log!Retracting(s, ids, tx, now) =
           [D |-> WithRetracted(s.D, ids, tx, now), asserted |-> s.asserted,
            retracted |-> s.retracted \cup ids, error |-> s.error]
<1>1. Log!Retracting(s, ids, tx, now) =
        [s EXCEPT !.D = WithRetracted(s.D, ids, tx, now), !.retracted = s.retracted \cup ids]
  BY SameWrites DEF Log!Retracting
<1> QED BY <1>1 DEF Loops

\* One operation, in the engine's terms, case by case.
LEMMA ApplyIs ==
  ASSUME NEW s \in Loops, NEW op \in Op, NEW r \in Request, NEW tx \in TxId,
         NEW now \in Nat
  PROVE  LET after == Log!ApplyOp(s, op, r, tx, now) IN
         /\ s.error # "none" => after = s
         /\ s.error = "none" =>
              /\ op.op = "assert" /\ HasFreshId(s.D) =>
                   after = Log!Asserting(s, FreshId(s.D), op.entity, tx, now)
              /\ op.op = "assert" /\ ~HasFreshId(s.D) => after = Log!Failing(s, "died")
              /\ op.op = "retract" /\ Log!Hidden(r, s.D, {op.id}) =>
                   after = Log!Failing(s, "WriteError")
              /\ op.op = "retract" /\ ~Log!Hidden(r, s.D, {op.id}) /\ IsLive(s.D, op.id) =>
                   after = Log!Retracting(s, {op.id}, tx, now)
              /\ op.op = "retract" /\ ~Log!Hidden(r, s.D, {op.id}) /\ ~IsLive(s.D, op.id) /\ op.id \in r.expects =>
                   after = Log!Failing(s, "TransactionConflict")
              /\ op.op = "retract" /\ ~Log!Hidden(r, s.D, {op.id}) /\ ~IsLive(s.D, op.id) /\ op.id \notin r.expects =>
                   after = s
              /\ op.op = "retract-pattern" /\ Log!Hidden(r, s.D, Matching(s.D, op.entity)) =>
                   after = Log!Failing(s, "WriteError")
              /\ op.op = "retract-pattern" /\ ~Log!Hidden(r, s.D, Matching(s.D, op.entity)) =>
                   after = Log!Retracting(s, Matching(s.D, op.entity), tx, now)
<1>1. s.error # "none" => Log!ApplyOp(s, op, r, tx, now) = s
  BY DEF Log!ApplyOp
<1>2. ASSUME s.error = "none", op.op = "assert"
      PROVE  Log!ApplyOp(s, op, r, tx, now) =
               IF HasFreshId(s.D) THEN Log!Asserting(s, FreshId(s.D), op.entity, tx, now)
                                  ELSE Log!Failing(s, "died")
  BY <1>2, SameReads DEF Log!ApplyOp
<1>3. ASSUME s.error = "none", op.op = "retract"
      PROVE  Log!ApplyOp(s, op, r, tx, now) =
               IF Log!Hidden(r, s.D, {op.id}) THEN Log!Failing(s, "WriteError")
               ELSE IF IsLive(s.D, op.id) THEN Log!Retracting(s, {op.id}, tx, now)
               ELSE IF op.id \in r.expects THEN Log!Failing(s, "TransactionConflict")
               ELSE s
  BY <1>3, SameReads DEF Log!ApplyOp
<1>4. ASSUME s.error = "none", op.op = "retract-pattern"
      PROVE  Log!ApplyOp(s, op, r, tx, now) =
               IF Log!Hidden(r, s.D, Matching(s.D, op.entity)) THEN Log!Failing(s, "WriteError")
               ELSE Log!Retracting(s, Matching(s.D, op.entity), tx, now)
  BY <1>4, SameReads DEF Log!ApplyOp
<1> QED BY <1>1, <1>2, <1>3, <1>4

\* The four operations that go through.
LEMMA ApplyAssert ==
  ASSUME NEW s \in Loops, NEW op \in Op, NEW r \in Request, NEW tx \in TxId,
         NEW now \in Nat, s.error = "none", op.op = "assert", HasFreshId(s.D)
  PROVE  Log!ApplyOp(s, op, r, tx, now) = Log!Asserting(s, FreshId(s.D), op.entity, tx, now)
BY ApplyIs

LEMMA ApplyRetract ==
  ASSUME NEW s \in Loops, NEW op \in Op, NEW r \in Request, NEW tx \in TxId,
         NEW now \in Nat, s.error = "none", op.op = "retract",
         ~Log!Hidden(r, s.D, {op.id}), IsLive(s.D, op.id)
  PROVE  Log!ApplyOp(s, op, r, tx, now) = Log!Retracting(s, {op.id}, tx, now)
BY ApplyIs

LEMMA ApplyNothing ==
  ASSUME NEW s \in Loops, NEW op \in Op, NEW r \in Request, NEW tx \in TxId,
         NEW now \in Nat, s.error = "none", op.op = "retract",
         ~Log!Hidden(r, s.D, {op.id}), ~IsLive(s.D, op.id), op.id \notin r.expects
  PROVE  Log!ApplyOp(s, op, r, tx, now) = s
BY ApplyIs

LEMMA ApplyPattern ==
  ASSUME NEW s \in Loops, NEW op \in Op, NEW r \in Request, NEW tx \in TxId,
         NEW now \in Nat, s.error = "none", op.op = "retract-pattern",
         ~Log!Hidden(r, s.D, Matching(s.D, op.entity))
  PROVE  Log!ApplyOp(s, op, r, tx, now) = Log!Retracting(s, Matching(s.D, op.entity), tx, now)
BY ApplyIs

LEMMA ApplyType ==
  ASSUME NEW s \in Loops, NEW op \in Op, NEW r \in Request, NEW tx \in TxId,
         NEW now \in Nat
  PROVE  Log!ApplyOp(s, op, r, tx, now) \in Loops
<1>1. s.D \in Database /\ s.error \in Log!Failure \cup {"none"} /\ s.asserted \in SUBSET TripleId
      /\ s.retracted \in SUBSET TripleId
  BY DEF Loops
<1>2. ASSUME NEW ids \in SUBSET Ids(s.D) PROVE Log!Retracting(s, ids, tx, now) \in Loops
  <2>1. Log!WithRetracted(s.D, ids, tx, now) = WithRetracted(s.D, ids, tx, now)
    BY SameWrites
  <2>3. WithRetracted(s.D, ids, tx, now) \in Database
    BY <1>1, RetractedType
  <2>2. ids \subseteq TripleId
    BY DEF Ids
  <2> QED BY <2>1, <2>2, <2>3 DEF Log!Retracting, Loops
<1>3. \A e \in {"died", "WriteError", "TransactionConflict"} : Log!Failing(s, e) \in Loops
  BY DEF Loops, Log!Failing, Log!Failure
<1>7. CASE s.error # "none"
  <2>1. Log!ApplyOp(s, op, r, tx, now) = s
    BY <1>7, ApplyIs
  <2> QED BY <2>1
<1>4. CASE s.error = "none" /\ op.op = "assert"
  <2>1. op.entity \in Entity
    BY <1>4 DEF Op
  <2>2. ASSUME HasFreshId(s.D)
        PROVE  /\ FreshId(s.D) \in TripleId
               /\ WithFact(s.D, FreshId(s.D), op.entity, tx, now) \in Database
    BY <2>1, <2>2, <1>1, FactType DEF HasFreshId, FreshId
  <2>3. ASSUME HasFreshId(s.D)
        PROVE  Log!Asserting(s, FreshId(s.D), op.entity, tx, now) \in Loops
    BY <1>1, <2>2, <2>3, SameWrites DEF Loops, Log!Asserting
  <2>4. Log!ApplyOp(s, op, r, tx, now) =
          IF HasFreshId(s.D) THEN Log!Asserting(s, FreshId(s.D), op.entity, tx, now)
                             ELSE Log!Failing(s, "died")
    BY <1>4, ApplyIs
  <2> QED BY <1>3, <2>3, <2>4
<1>5. CASE s.error = "none" /\ op.op = "retract"
  <2>1. IsLive(s.D, op.id) => {op.id} \in SUBSET Ids(s.D)
    BY DEF IsLive
  <2>2. Log!ApplyOp(s, op, r, tx, now) =
          IF Log!Hidden(r, s.D, {op.id}) THEN Log!Failing(s, "WriteError")
          ELSE IF IsLive(s.D, op.id) THEN Log!Retracting(s, {op.id}, tx, now)
          ELSE IF op.id \in r.expects THEN Log!Failing(s, "TransactionConflict")
          ELSE s
    BY <1>5, ApplyIs
  <2> QED BY <1>2, <1>3, <2>1, <2>2
<1>6. CASE s.error = "none" /\ op.op = "retract-pattern"
  <2>1. Matching(s.D, op.entity) \in SUBSET Ids(s.D)
    BY DEF Matching
  <2>2. Log!ApplyOp(s, op, r, tx, now) =
          IF Log!Hidden(r, s.D, Matching(s.D, op.entity)) THEN Log!Failing(s, "WriteError")
          ELSE Log!Retracting(s, Matching(s.D, op.entity), tx, now)
    BY <1>6, ApplyIs
  <2> QED BY <1>2, <1>3, <2>1, <2>2
<1> QED BY <1>4, <1>5, <1>6, <1>7 DEF Op

LEMMA LoopIs ==
  ASSUME NEW D \in Database, NEW r \in Request, NEW tx \in TxId, NEW now \in Nat
  PROVE  /\ Log!Loop(D, r, tx, now)[0] = Log!Start(D, r, tx)
         /\ \A n \in 1 .. Len(r.ops) :
              Log!Loop(D, r, tx, now)[n] =
                Log!ApplyOp(Log!Loop(D, r, tx, now)[n - 1], r.ops[n], r, tx, now)
<1> DEFINE N == Len(r.ops)
           x == Log!Start(D, r, tx)
           Apply(s, n) == Log!ApplyOp(s, r.ops[n], r, tx, now)
           Is(f) == f = [n \in 0 .. N |-> IF n = 0 THEN x ELSE Apply(f[n - 1], n)]
           step == [i \in Nat |-> [s \in Loops |-> IF i < N THEN Apply(s, i + 1) ELSE s]]
<1>1. N \in Nat /\ \A n \in 1 .. N : r.ops[n] \in Op
  BY DEF Request
<1>2. x \in Loops
  BY StartType
<1>3. step \in [Nat -> [Loops -> Loops]]
  <2>1. ASSUME NEW i \in Nat, i < N, NEW s \in Loops PROVE Apply(s, i + 1) \in Loops
    <3>1. i + 1 \in 1 .. N
      BY <1>1, <2>1
    <3> QED BY <1>1, <3>1, ApplyType
  <2> HIDE DEF Apply, N
  <2> QED BY <2>1
<1>4. PICK f \in [Nat -> Loops] : f[0] = x /\ \A i \in Nat : f[i + 1] = step[i][f[i]]
  <2> HIDE DEF step, x
  <2>1. Iterations(Loops, x, step) # {}
    BY <1>2, <1>3, Iterates
  <2> QED BY <2>1 DEF Iterations
<1> DEFINE g == [n \in 0 .. N |-> f[n]]
<1>5. Is(g)
  <2>1. ASSUME NEW n \in 0 .. N PROVE f[n] = IF n = 0 THEN x ELSE Apply(g[n - 1], n)
    <3>1. CASE n = 0
      BY <1>4, <3>1
    <3>2. CASE n # 0
      <4>1. n - 1 \in Nat /\ (n - 1) + 1 = n /\ n - 1 < N /\ n - 1 \in 0 .. N
        BY <1>1, <3>2
      <4>2. f[n] = step[n - 1][f[n - 1]] /\ f[n - 1] \in Loops
        BY <1>4, <4>1
      <4> HIDE DEF Apply, N, x
      <4> QED BY <3>2, <4>1, <4>2
    <3> QED BY <3>1, <3>2
  <2> HIDE DEF Apply, N, x
  <2> QED BY <2>1
<1> DEFINE h == CHOOSE q : Is(q)
<1>6. Is(h)
  <2> HIDE DEF Is, g
  <2> QED BY <1>5
<1>7. Log!Loop(D, r, tx, now) = h
  BY DEF Log!Loop
<1> HIDE DEF h
<1>8. h[0] = x /\ \A n \in 1 .. N : h[n] = Apply(h[n - 1], n)
  <2> HIDE DEF Apply, N, x
  <2> QED BY <1>1, <1>6
<1> QED BY <1>7, <1>8
-----------------------------------------------------------------------------
(* The bodies that a step does not take. *)

LEMMA LogUndisturbed ==
  ASSUME NEW d \in Call, LogView(d), UNCHANGED <<db, Local(d)>>
  PROVE  LogView(d)'
<1> USE DEF Local, Running
<1>1. Follows(d)'
  BY DEF LogView, Follows, Current, Allocated, SnapshotCurrent, Computed, Tx
<1>2. SeesNamed(d)'
  <2>1. db' = db /\ work'[d] = work[d] /\ request'[d] = request[d] /\ pc'[d] = pc[d] /\ next'[d] = next[d]
    OBVIOUS
  <2>2. SeesNamed(d)
    BY DEF LogView
  <2> QED BY ONLY <2>1, <2>2 DEF SeesNamed, Running
<1>3. Answers(d)'
  BY DEF LogView, Answers, Allocated
<1> QED BY <1>1, <1>2, <1>3 DEF LogView

LEMMA LogOutdated ==
  ASSUME IInv, NEW c \in Call, NEW d \in Call, c # d, Publishes(c), UNCHANGED Local(d), LogView(d)
  PROVE  LogView(d)'
<1> USE DEF Local, Running
<1>1. /\ db.position \in Nat /\ db'.position = db.position + 1
      /\ \A i \in Ids(db) : /\ i \in Ids(db')
                            /\ SameAssertion(db'.facts[i], db.facts[i])
                            /\ ~IsLive(db, i) => db'.facts[i] = db.facts[i]
  BY PublishedView
<1>2. Optimistic \/ ~Running(d)
  BY DEF IInv, ViewInv, ViewBounded, Publishes
<1>3. ~Current(d)'
  <2>1. work[d].position \in Nat
    BY DEF IInv, TypeOK, Database
  <2> QED BY <1>1, <1>2, <2>1
          DEF Current, Allocated, SnapshotCurrent, IInv, ViewInv, ViewBounded
<1>4. SeesNamed(d)'
  <2> SUFFICES ASSUME Running(d), NEW n \in DOMAIN request[d].ops,
                      request[d].ops[n].op = "retract", request[d].ops[n].id # UnknownId
               PROVE  LET i == request[d].ops[n].id IN
                      /\ i \in Ids(db')
                      /\ pc[d] # "claim" =>
                           /\ i \in Ids(work[d])
                           /\ work[d].facts[i].entity = db'.facts[i].entity
                           /\ IsLive(db', i) /\ ~IsLive(work[d], i) =>
                                \E m \in 1 .. next[d] - 1 :
                                  Retracts(request[d], m, i, db'.facts[i].entity)
    <3>1. work'[d] = work[d] /\ request'[d] = request[d] /\ pc'[d] = pc[d] /\ next'[d] = next[d]
      OBVIOUS
    <3> QED BY <3>1 DEF SeesNamed
  <2> DEFINE i == request[d].ops[n].id
  <2>1. /\ i \in Ids(db)
        /\ pc[d] # "claim" =>
             /\ i \in Ids(work[d])
             /\ work[d].facts[i].entity = db.facts[i].entity
             /\ IsLive(db, i) /\ ~IsLive(work[d], i) =>
                  \E m \in 1 .. next[d] - 1 : Retracts(request[d], m, i, db.facts[i].entity)
    BY DEF LogView, SeesNamed
  <2>2. i \in Ids(db') /\ db'.facts[i].entity = db.facts[i].entity
        /\ (IsLive(db', i) => IsLive(db, i))
    BY <1>1, <2>1 DEF SameAssertion, IsLive
  <2> QED BY <2>1, <2>2
<1>5. Follows(d)' /\ Answers(d)'
  BY <1>3 DEF LogView, Follows, Answers, Allocated
<1> QED BY <1>4, <1>5 DEF LogView
-----------------------------------------------------------------------------
(* The body that takes the step. *)

LEMMA BeginFollows ==
  ASSUME IInv, clock \in 1..MaxClock, NEW c \in Call, NEW r \in Requests, Begin(c, r)
  PROVE  LogView(c)'
<1>1. /\ pc'[c] = "claim" /\ request'[c] = r /\ instant'[c] = clock /\ db' = db
      /\ NamesKnownIds(r)
  BY DEF Begin, IInv, TypeOK
<1>2. Follows(c)' /\ Answers(c)'
  BY <1>1 DEF Follows, Answers, Current, Allocated
<1>3. SeesNamed(c)'
  BY <1>1 DEF SeesNamed, NamesKnownIds
<1> QED BY <1>2, <1>3 DEF LogView

LEMMA RunAgainFollows ==
  ASSUME IInv, clock \in 1..MaxClock, NEW c \in Call, LogView(c), CommitConflict(c)
  PROVE  LogView(c)'
<1>1. /\ pc[c] = "commit" /\ pc'[c] = "claim" /\ request' = request /\ instant'[c] = clock
      /\ db' = db
  BY DEF CommitConflict, RunAgain, IInv, TypeOK
<1>2. Follows(c)' /\ Answers(c)'
  BY <1>1 DEF Follows, Answers, Current, Allocated
<1>3. SeesNamed(c)'
  BY <1>1 DEF LogView, SeesNamed, Running
<1> QED BY <1>2, <1>3 DEF LogView

LEMMA EndFollows ==
  ASSUME NEW c \in Call, pc'[c] = "done" PROVE LogView(c)'
BY DEF LogView, Follows, SeesNamed, Answers, Current, Allocated, Running

LEMMA ClaimFollows ==
  ASSUME IInv, NEW c \in Call, LogView(c), ClaimCommand(c) PROVE LogView(c)'
<1>1. /\ pc[c] = "claim" /\ pc'[c] = "position" /\ UNCHANGED <<db, request, instant, attempt, next>>
      /\ \/ request[c].command = NoCommand /\ work'[c] = db
         \/ request[c].command # NoCommand /\ work'[c] = WithReceipt(db, request[c].command, Tx(c))
  BY DEF ClaimCommand, IInv, TypeOK
<1>2. work'[c].facts = db.facts
  BY <1>1 DEF WithReceipt, IInv, TypeOK, Database
<1>3. Follows(c)'
  <2>1. WithNextPosition(work'[c]) = Log!Start(db, request[c], Tx(c)).D
    BY <1>1, SameWrites DEF Log!Start
  <2> QED BY <1>1, <2>1 DEF Follows, Tx
<1>4. SeesNamed(c)'
  BY <1>1, <1>2 DEF LogView, SeesNamed, Running, Ids, IsLive
<1>5. Answers(c)'
  BY <1>1 DEF LogView, Answers, Running, Allocated
<1> QED BY <1>3, <1>4, <1>5 DEF LogView

LEMMA PositionFollows ==
  ASSUME IInv, NEW c \in Call, LogView(c), NextPosition(c) PROVE LogView(c)'
<1>1. /\ pc[c] = "position" /\ pc'[c] = (IF request[c].enforced THEN "enforce" ELSE "ops")
      /\ work[c].position < MaxPosition /\ work'[c] = WithNextPosition(work[c])
      /\ UNCHANGED <<db, request, instant, attempt, next, asserted, retracted>>
      /\ next[c] = 1 /\ asserted[c] = {} /\ retracted[c] = {}
      /\ db \in Database /\ request[c] \in Request /\ instant[c] \in Nat /\ Tx(c) \in TxId
  BY TxType DEF NextPosition, IInv, TypeOK, ViewInv, ViewBounded, Running
<1>2. /\ work'[c].facts = work[c].facts /\ work'[c].position = work[c].position + 1
      /\ work[c].position \in Nat /\ db.position \in Nat
  BY <1>1 DEF WithNextPosition, IInv, TypeOK, Database
<1>3. ASSUME Current(c)' PROVE Current(c)
  BY <1>1, <1>2, <1>3 DEF Current, Allocated, SnapshotCurrent
<1>4. Follows(c)'
  <2> SUFFICES ASSUME Current(c)
               PROVE  /\ 0 <= Len(request[c].ops)
                      /\ Log!Loop(db, request[c], Tx(c), instant[c])[0] = Computed(c)'
    BY <1>1, <1>3 DEF Follows, Tx
  <2>1. Log!Loop(db, request[c], Tx(c), instant[c])[0] = Log!Start(db, request[c], Tx(c))
    BY <1>1, LoopIs
  <2>2. work'[c] = Log!Start(db, request[c], Tx(c)).D
    BY <1>1 DEF LogView, Follows
  <2>3. Log!Start(db, request[c], Tx(c)) = Computed(c)'
    BY <1>1, <2>2 DEF Log!Start, Computed
  <2>4. Len(request[c].ops) \in Nat
    BY <1>1 DEF Request
  <2> QED BY <2>1, <2>3, <2>4
<1>5. SeesNamed(c)'
  BY <1>1, <1>2, ZenonT(60) DEF LogView, SeesNamed, Running, Ids, IsLive
<1>6. Answers(c)'
  BY <1>1, <1>2, StoreAssumption DEF LogView, Answers, Running, Allocated, StoreAssumption
<1> QED BY <1>4, <1>5, <1>6 DEF LogView

LEMMA EnforceFollows ==
  ASSUME IInv, NEW c \in Call, LogView(c), EnforceHolds(c) PROVE LogView(c)'
<1>1. /\ pc[c] = "enforce" /\ pc'[c] = "ops"
      /\ UNCHANGED <<db, request, instant, attempt, next, asserted, retracted, work>>
  BY DEF EnforceHolds, IInv, TypeOK
<1> QED BY <1>1 DEF LogView, Follows, SeesNamed, Answers, Current, Allocated, SnapshotCurrent,
                    Running, Computed, Tx

\* One operation of the loop.
LEMMA OpFollows ==
  ASSUME IInv, NEW c \in Call, LogView(c), pc[c] = "ops", OpDone(c),
         next[c] <= Len(request[c].ops),
         work'[c].position = work[c].position,
         Log!ApplyOp(Computed(c), CurrentOp(c), request[c], Tx(c), instant[c]) = Computed(c)'
  PROVE  Follows(c)' /\ Answers(c)'
<1>1. /\ UNCHANGED <<db, pc, request, instant, attempt>> /\ next'[c] = next[c] + 1
      /\ next[c] \in Nat \ {0}
      /\ db \in Database /\ request[c] \in Request /\ instant[c] \in Nat /\ Tx(c) \in TxId
  BY TxType DEF OpDone, IInv, TypeOK, ViewInv, ViewBounded, Running
<1>2. Follows(c)'
  <2> SUFFICES ASSUME Current(c)
               PROVE  Log!Loop(db, request[c], Tx(c), instant[c])[next[c]] = Computed(c)'
    <3>1. next'[c] - 1 = next[c] /\ (Current(c)' <=> Current(c)) /\ Tx(c)' = Tx(c)
      BY <1>1 DEF Current, Allocated, SnapshotCurrent, Tx
    <3> QED BY <1>1, <3>1 DEF Follows
  <2>1. Log!Loop(db, request[c], Tx(c), instant[c])[next[c] - 1] = Computed(c)
    BY DEF LogView, Follows
  <2>2. next[c] \in 1 .. Len(request[c].ops)
    <3>1. Len(request[c].ops) \in Nat
      BY <1>1 DEF Request
    <3> QED BY <1>1, <3>1
  <2> QED BY <1>1, <2>1, <2>2, LoopIs DEF CurrentOp
<1>3. Answers(c)'
  BY <1>1 DEF LogView, Answers, Running, Allocated
<1> QED BY <1>2, <1>3

\* The facts a body names, after an operation that retracts ids and leaves the
\* other facts it has seen as they were.
LEMMA OpSees ==
  ASSUME IInv, NEW c \in Call, LogView(c), pc[c] = "ops", OpDone(c), NEW ids,
         \A i \in Ids(work[c]) :
           /\ i \in Ids(work'[c]) /\ work'[c].facts[i].entity = work[c].facts[i].entity
           /\ i \notin ids => work'[c].facts[i] = work[c].facts[i],
         \A i \in ids : i \in Ids(work[c]) /\
           Retracts(request[c], next[c], i, work[c].facts[i].entity)
  PROVE  SeesNamed(c)'
<1>1. UNCHANGED <<db, pc, request>> /\ next'[c] = next[c] + 1 /\ next[c] \in Nat \ {0}
  BY DEF OpDone, IInv, TypeOK
<1> SUFFICES ASSUME NEW n \in DOMAIN request[c].ops,
                    request[c].ops[n].op = "retract", request[c].ops[n].id # UnknownId
             PROVE  LET i == request[c].ops[n].id IN
                    /\ i \in Ids(db) /\ i \in Ids(work'[c])
                    /\ work'[c].facts[i].entity = db.facts[i].entity
                    /\ IsLive(db, i) /\ ~IsLive(work'[c], i) =>
                         \E m \in 1 .. next[c] : Retracts(request[c], m, i, db.facts[i].entity)
  <2>1. next'[c] - 1 = next[c]
    BY ONLY <1>1
  <2> QED BY <1>1, <2>1 DEF SeesNamed
<1> DEFINE i == request[c].ops[n].id
<1>2. /\ i \in Ids(db) /\ i \in Ids(work[c]) /\ work[c].facts[i].entity = db.facts[i].entity
      /\ IsLive(db, i) /\ ~IsLive(work[c], i) =>
           \E m \in 1 .. next[c] - 1 : Retracts(request[c], m, i, db.facts[i].entity)
  BY DEF LogView, SeesNamed, Running
<1>3. CASE i \in ids
  <2>1. next[c] \in 1 .. next[c]
    BY <1>1
  <2> QED BY <1>2, <1>3, <2>1
<1>4. CASE i \notin ids
  <2>1. IsLive(work'[c], i) <=> IsLive(work[c], i)
    BY <1>2, <1>4 DEF IsLive
  <2>2. ASSUME IsLive(db, i), ~IsLive(work'[c], i)
        PROVE  \E m \in 1 .. next[c] : Retracts(request[c], m, i, db.facts[i].entity)
    <3>1. PICK m \in 1 .. next[c] - 1 : Retracts(request[c], m, i, db.facts[i].entity)
      BY <1>2, <2>1, <2>2
    <3>2. m \in 1 .. next[c]
      BY <1>1
    <3> QED BY <3>1, <3>2
  <2> QED BY <1>2, <1>4, <2>2
<1> QED BY <1>3, <1>4

LEMMA AssertFollows ==
  ASSUME IInv, NEW c \in Call, LogView(c), AssertFact(c) PROVE LogView(c)'
<1> DEFINE id == FreshId(work[c])
           e == CurrentOp(c).entity
<1>1. /\ pc[c] = "ops" /\ OpDone(c) /\ next[c] <= Len(request[c].ops) /\ CurrentOp(c).op = "assert"
      /\ HasFreshId(work[c]) /\ retracted' = retracted
      /\ work'[c] = WithFact(work[c], id, e, Tx(c), instant[c])
      /\ asserted'[c] = asserted[c] \cup {id}
      /\ work[c] \in Database /\ Computed(c) \in Loops
      /\ request[c] \in Request /\ instant[c] \in Nat /\ Tx(c) \in TxId /\ CurrentOp(c) \in Op
  BY TxType, CurrentOpType
     DEF AssertFact, AtOp, CurrentOp, IInv, TypeOK, ViewInv, ViewBounded, Running, Computed, Loops
<1>2. id \in TripleId /\ id \notin Ids(work[c])
  BY <1>1 DEF HasFreshId, FreshId
<1>3. Log!ApplyOp(Computed(c), CurrentOp(c), request[c], Tx(c), instant[c]) = Computed(c)'
  <2>1. Computed(c).error = "none" /\ Computed(c).D = work[c]
    BY DEF Computed
  <2>2. Log!ApplyOp(Computed(c), CurrentOp(c), request[c], Tx(c), instant[c]) =
          Log!Asserting(Computed(c), id, e, Tx(c), instant[c])
    BY <1>1, <2>1, ApplyAssert
  <2>3. Log!Asserting(Computed(c), id, e, Tx(c), instant[c]) = Computed(c)'
    <3>1. Log!Asserting(Computed(c), id, e, Tx(c), instant[c]) =
            [D |-> WithFact(Computed(c).D, id, e, Tx(c), instant[c]),
             asserted |-> Computed(c).asserted \cup {id}, retracted |-> Computed(c).retracted,
             error |-> Computed(c).error]
      <4>1. Computed(c) \in Loops /\ Tx(c) \in TxId /\ instant[c] \in Nat
        BY <1>1
      <4> HIDE DEF id, e
      <4> QED BY <4>1, AssertingIs, ZenonT(60)
    <3> QED BY <1>1, <3>1 DEF Computed
  <2> QED BY <2>2, <2>3
<1>4. /\ work'[c].position = work[c].position
      /\ \A i \in Ids(work[c]) : i \in Ids(work'[c]) /\ work'[c].facts[i] = work[c].facts[i]
  BY <1>1, <1>2 DEF WithFact, Database, Ids
<1>5. Follows(c)' /\ Answers(c)'
  BY <1>1, <1>3, <1>4, OpFollows
<1>6. SeesNamed(c)'
  <2> DEFINE ids == {}
  <2>1. \A i \in ids : i \in Ids(work[c]) /\
          Retracts(request[c], next[c], i, work[c].facts[i].entity)
    OBVIOUS
  <2> HIDE DEF ids
  <2> QED BY <1>1, <1>4, <2>1, OpSees
<1> QED BY <1>5, <1>6 DEF LogView

LEMMA RetractFollows ==
  ASSUME IInv, NEW c \in Call, LogView(c), NEW ids \in SUBSET Ids(work[c]),
         pc[c] = "ops", next[c] <= Len(request[c].ops), RetractAll(c, ids),
         \A i \in ids : Retracts(request[c], next[c], i, work[c].facts[i].entity),
         Log!ApplyOp(Computed(c), CurrentOp(c), request[c], Tx(c), instant[c])
           = Log!Retracting(Computed(c), ids, Tx(c), instant[c])
  PROVE  LogView(c)'
<1>1. /\ OpDone(c) /\ asserted' = asserted
      /\ work'[c] = WithRetracted(work[c], ids, Tx(c), instant[c])
      /\ retracted'[c] = retracted[c] \cup ids
      /\ work[c] \in Database /\ Tx(c) \in TxId /\ instant[c] \in Nat /\ Computed(c) \in Loops
  BY TxType DEF RetractAll, IInv, TypeOK, ViewInv, ViewBounded, Running, Computed, Loops
<1>2. Log!Retracting(Computed(c), ids, Tx(c), instant[c]) = Computed(c)'
  <2>1. Log!Retracting(Computed(c), ids, Tx(c), instant[c]) =
          [D |-> WithRetracted(Computed(c).D, ids, Tx(c), instant[c]),
           asserted |-> Computed(c).asserted, retracted |-> Computed(c).retracted \cup ids,
           error |-> Computed(c).error]
    BY <1>1, RetractingIs
  <2> QED BY <1>1, <2>1 DEF Computed
<1>3. work'[c].position = work[c].position
  BY <1>1 DEF WithRetracted, Database
<1>4. ASSUME NEW i \in Ids(work[c])
      PROVE  /\ i \in Ids(work'[c]) /\ work'[c].facts[i].entity = work[c].facts[i].entity
             /\ i \notin ids => work'[c].facts[i] = work[c].facts[i]
  <2>1. work[c].facts[i] \in Fact /\ i \in TripleId
    BY <1>1 DEF Ids, Database
  <2>2. work'[c].facts[i] = IF i \in ids THEN Retired(work[c], work[c].facts[i], Tx(c), instant[c])
                                         ELSE work[c].facts[i]
    BY <1>1, <2>1 DEF WithRetracted, Database
  <2>3. /\ Retired(work[c], work[c].facts[i], Tx(c), instant[c]) \in Fact
        /\ Retired(work[c], work[c].facts[i], Tx(c), instant[c]).entity = work[c].facts[i].entity
    BY <1>1, <2>1 DEF Retired, Fact, Database
  <2> QED BY <2>1, <2>2, <2>3, StoreAssumption DEF Ids, StoreAssumption
<1>5. Follows(c)' /\ Answers(c)'
  BY <1>1, <1>2, <1>3, OpFollows
<1>6. SeesNamed(c)'
  BY <1>1, <1>4, OpSees
<1> QED BY <1>5, <1>6 DEF LogView

\* What the engine refuses to touch is what the call refuses to touch.
LEMMA SameRefusals ==
  ASSUME NEW c \in Call, NEW ids
  PROVE  Log!Hidden(request[c], work[c], ids) <=> TouchesReserved(c, ids)
BY SameReads DEF Log!Hidden, TouchesReserved

LEMMA AtOpFacts ==
  ASSUME IInv, NEW c \in Call, NEW kind, AtOp(c, kind)
  PROVE  /\ pc[c] = "ops" /\ next[c] <= Len(request[c].ops) /\ CurrentOp(c).op = kind
         /\ Computed(c) \in Loops /\ Computed(c).error = "none" /\ Computed(c).D = work[c]
         /\ request[c] \in Request /\ instant[c] \in Nat /\ Tx(c) \in TxId
         /\ CurrentOp(c) \in Op /\ CurrentOp(c) = request[c].ops[next[c]]
BY TxType, CurrentOpType
   DEF AtOp, CurrentOp, IInv, TypeOK, ViewInv, ViewBounded, Running, Computed, Loops

LEMMA RetractFactFollows ==
  ASSUME IInv, NEW c \in Call, LogView(c), RetractFact(c) PROVE LogView(c)'
<1> DEFINE ids == {CurrentOp(c).id}
<1>1. AtOp(c, "retract") /\ ~TouchesReserved(c, ids) /\ IsLive(work[c], CurrentOp(c).id)
      /\ RetractAll(c, ids)
  BY DEF RetractFact
<1>2. Log!ApplyOp(Computed(c), CurrentOp(c), request[c], Tx(c), instant[c])
        = Log!Retracting(Computed(c), ids, Tx(c), instant[c])
  BY <1>1, AtOpFacts, ApplyRetract, SameRefusals
<1>3. \A i \in ids : Retracts(request[c], next[c], i, work[c].facts[i].entity)
  BY <1>1, AtOpFacts DEF Retracts
<1>4. ids \in SUBSET Ids(work[c])
  BY <1>1 DEF IsLive
<1> QED BY <1>1, <1>2, <1>3, <1>4, AtOpFacts, RetractFollows

LEMMA RetractPatternFollows ==
  ASSUME IInv, NEW c \in Call, LogView(c), RetractPattern(c) PROVE LogView(c)'
<1> DEFINE ids == Matching(work[c], CurrentOp(c).entity)
<1>1. AtOp(c, "retract-pattern") /\ ~TouchesReserved(c, ids) /\ RetractAll(c, ids)
  BY DEF RetractPattern
<1>2. Log!ApplyOp(Computed(c), CurrentOp(c), request[c], Tx(c), instant[c])
        = Log!Retracting(Computed(c), ids, Tx(c), instant[c])
  BY <1>1, AtOpFacts, ApplyPattern, SameRefusals
<1>3. \A i \in ids : Retracts(request[c], next[c], i, work[c].facts[i].entity)
  BY <1>1, AtOpFacts DEF Retracts, Matching
<1>4. ids \in SUBSET Ids(work[c])
  BY DEF Matching
<1> QED BY <1>1, <1>2, <1>3, <1>4, AtOpFacts, RetractFollows

LEMMA RetractNothingFollows ==
  ASSUME IInv, NEW c \in Call, LogView(c), RetractNothing(c) PROVE LogView(c)'
<1>1. AtOp(c, "retract") /\ ~TouchesReserved(c, {CurrentOp(c).id})
      /\ ~IsLive(work[c], CurrentOp(c).id) /\ CurrentOp(c).id \notin request[c].expects
      /\ UNCHANGED <<work, asserted, retracted>> /\ OpDone(c)
  BY DEF RetractNothing
<1>2. Log!ApplyOp(Computed(c), CurrentOp(c), request[c], Tx(c), instant[c]) = Computed(c)
  <2>1. ~Log!Hidden(request[c], work[c], {CurrentOp(c).id})
    BY <1>1, SameRefusals
  <2>2. /\ Computed(c) \in Loops /\ Computed(c).error = "none" /\ Computed(c).D = work[c]
        /\ request[c] \in Request /\ instant[c] \in Nat /\ Tx(c) \in TxId
        /\ CurrentOp(c) \in Op /\ CurrentOp(c).op = "retract"
    BY <1>1, AtOpFacts
  <2> QED BY <1>1, <2>1, <2>2, ApplyNothing
<1>3. Computed(c)' = Computed(c)
  BY <1>1 DEF Computed
<1>4. Follows(c)' /\ Answers(c)'
  BY <1>1, <1>2, <1>3, AtOpFacts, OpFollows
<1>5. SeesNamed(c)'
  <2> DEFINE ids == {}
  <2>1. \A i \in ids : i \in Ids(work[c]) /\
          Retracts(request[c], next[c], i, work[c].facts[i].entity)
    OBVIOUS
  <2> HIDE DEF ids
  <2> QED BY <1>1, <2>1, AtOpFacts, OpSees
<1> QED BY <1>4, <1>5 DEF LogView

LEMMA JournalFollows ==
  ASSUME IInv, NEW c \in Call, LogView(c), WriteJournal(c) PROVE LogView(c)'
<1>1. /\ pc[c] = "ops" /\ pc'[c] = "commit" /\ next[c] > Len(request[c].ops)
      /\ work'[c] = IF request[c].journaled THEN WithEnvelope(work[c], EnvelopeOf(c)) ELSE work[c]
      /\ UNCHANGED <<db, request, attempt, instant, next, asserted, retracted>>
      /\ next[c] \in Nat /\ work[c] \in Database /\ request[c] \in Request
  BY DEF WriteJournal, IInv, TypeOK
<1>2. work'[c].position = work[c].position /\ work'[c].facts = work[c].facts
  BY <1>1 DEF WithEnvelope, Database
<1>3. Follows(c)'
  <2> SUFFICES ASSUME Current(c)
               PROVE  Log!Transact(db, request[c], Tx(c), instant[c]) = Computed(c)'
    BY <1>1, <1>2 DEF Follows, Current, Allocated, SnapshotCurrent, Tx
  <2>1. next[c] - 1 = Len(request[c].ops)
    <3>1. Len(request[c].ops) \in Nat
      BY <1>1 DEF Request
    <3> QED BY <1>1, <3>1 DEF LogView, Follows
  <2>2. Log!Transact(db, request[c], Tx(c), instant[c])
          = Log!Finish(Computed(c), request[c], Tx(c), instant[c])
    BY <1>1, <2>1 DEF Log!Transact, LogView, Follows
  <2>3. CASE request[c].journaled
    BY <1>1, <2>2, <2>3, SameWrites DEF Log!Finish, Computed, EnvelopeOf
  <2>4. CASE ~request[c].journaled
    BY <1>1, <2>2, <2>4 DEF Log!Finish, Computed
  <2> QED BY <2>3, <2>4
<1>4. SeesNamed(c)'
  BY <1>1, <1>2, ZenonT(60) DEF LogView, SeesNamed, Running, Ids, IsLive
<1>5. Answers(c)'
  BY <1>1, <1>2 DEF LogView, Answers, Running, Allocated
<1> QED BY <1>3, <1>4, <1>5 DEF LogView
-----------------------------------------------------------------------------
(* The correspondence is inductive, and gives every step its place in TripleLog. *)

LEMMA StepOfOne ==
  ASSUME IInv, NEW c \in Call, Step(c)
  PROVE  /\ \A d \in Call \ {c} : UNCHANGED Local(d)
         /\ UNCHANGED db \/ Publishes(c)
<1>1. TypeOK
  BY DEF IInv
<1>2. ASSUME NEW r \in Requests, Reject(c, r) \/ Begin(c, r)
      PROVE  (\A d \in Call \ {c} : UNCHANGED Local(d)) /\ UNCHANGED db
  BY <1>1, <1>2 DEF Reject, Begin, Local, TypeOK
<1>3. ASSUME ClaimCommand(c) \/ NextPosition(c) \/ EnforceHolds(c) \/ WriteJournal(c)
      PROVE  (\A d \in Call \ {c} : UNCHANGED Local(d)) /\ UNCHANGED db
  BY <1>1, <1>3 DEF ClaimCommand, NextPosition, EnforceHolds, WriteJournal, Local, TypeOK
<1>4. ASSUME AssertFact(c) \/ RetractFact(c) \/ RetractNothing(c) \/ RetractPattern(c)
      PROVE  (\A d \in Call \ {c} : UNCHANGED Local(d)) /\ UNCHANGED db
  BY <1>1, <1>4 DEF AssertFact, RetractFact, RetractNothing, RetractPattern, RetractAll, OpDone,
                    Local, TypeOK
<1>5. ASSUME NEW o, Return(c, o) \/ RunAgain(c) PROVE \A d \in Call \ {c} : UNCHANGED Local(d)
  BY <1>1, <1>5 DEF Return, RunAgain, Local, TypeOK
<1>6. CASE Commit(c)
  BY <1>1, <1>5, <1>6
     DEF Commit, Publishes, IInv, ViewInv, ViewBounded, Running, Current, Allocated
<1> QED BY <1>2, <1>3, <1>4, <1>5, <1>6
        DEF Step, BodyStep, AlreadyCommitted, PositionExhausted, EnforceViolated, RetractConflict,
            RetractReserved, RetractPatternReserved, CommitConflict, CommitUnknown, Abandon,
            CancelTooLate, Fail, Publishes

LEMMA InitLogInv == Init => LogInv
BY KvAssumption DEF KvAssumption, Init, LogInv, LogView, Follows, SeesNamed, Answers, Current,
                    Allocated, Running

LEMMA NextLogInv ==
  ASSUME ~LostReplies, IInv, LogInv, [Next]_vars PROVE LogInv'
<1>1. clock \in 1..MaxClock /\ \A d \in Call : LogView(d)
  BY DEF LogInv
<1>2. clock' \in 1..MaxClock
  <2>1. Tick \/ UNCHANGED clock
    BY ZenonT(60) DEF Next, Step, BodyStep, Finished, vars, Reject, Begin, ClaimCommand,
       AlreadyCommitted, NextPosition, PositionExhausted, EnforceHolds, EnforceViolated,
       AssertFact, RetractFact, RetractAll, RetractNothing, RetractConflict,
       RetractReserved, RetractPattern, RetractPatternReserved, OpDone, WriteJournal,
       Commit, CommitConflict, CommitUnknown, Abandon, CancelTooLate, Fail, Return, RunAgain
  <2> QED BY <1>1, <2>1, KvAssumption DEF KvAssumption, Tick
<1>3. CASE UNCHANGED <<db, pc, request, attempt, instant, work, next, asserted, retracted, outcome>>
  <2>1. \A d \in Call : LogView(d)'
    BY <1>1, <1>3, LogUndisturbed DEF Local
  <2> QED BY <1>2, <2>1 DEF LogInv
<1>4. ASSUME NEW c \in Call, Step(c) PROVE LogInv'
  <2>1. \A d \in Call \ {c} : LogView(d)'
    BY <1>1, <1>4, StepOfOne, LogUndisturbed, LogOutdated
  <2>2. ASSUME NEW o, Return(c, o) PROVE LogView(c)'
    BY <2>2, EndFollows DEF Return, IInv, TypeOK
  <2>3. ASSUME NEW r \in Requests, Reject(c, r) PROVE LogView(c)'
    BY <2>3, EndFollows DEF Reject, IInv, TypeOK
  <2>4. ASSUME NEW r \in Requests, Begin(c, r) PROVE LogView(c)'
    BY <1>1, <2>4, BeginFollows
  <2>5. ASSUME BodyStep(c) PROVE LogView(c)'
    BY <1>1, <2>2, <2>5, ClaimFollows, PositionFollows, EnforceFollows, AssertFollows,
       RetractFactFollows, RetractNothingFollows, RetractPatternFollows, JournalFollows,
       RunAgainFollows
       DEF BodyStep, AlreadyCommitted, PositionExhausted, EnforceViolated, RetractConflict,
           RetractReserved, RetractPatternReserved, Commit, Fail
  <2>6. LogView(c)'
    BY <1>4, <2>2, <2>3, <2>4, <2>5 DEF Step, CommitUnknown, Abandon, CancelTooLate, Fail
  <2> QED BY <1>2, <2>1, <2>6 DEF LogInv
<1> QED BY <1>3, <1>4 DEF Next, Tick, Finished, vars

LEMMA LogInductive == ASSUME ~LostReplies PROVE Spec => []LogInv
BY InitLogInv, NextLogInv, Inductive, PTL DEF Spec

\* A body that finds a fact gone which it declared live had no chance: the fact is
\* gone now, or an operation of the body before this one retracts it.
LEMMA ConflictIsReal ==
  ASSUME IInv, LogInv, NEW c \in Call, RetractConflict(c)
  PROVE  Log!Unsettled(db, request[c])
<1> DEFINE n == next[c]
           i == request[c].ops[n].id
<1>1. /\ pc[c] = "ops" /\ n \in DOMAIN request[c].ops
      /\ request[c].ops[n].op = "retract" /\ i \in request[c].expects /\ ~IsLive(work[c], i)
      /\ i \in TripleId \cup {UnknownId}
  <2>1. next[c] \in Nat \ {0} /\ request[c].ops \in Seq(Op)
    BY DEF IInv, TypeOK, Request
  <2>2. AtOp(c, "retract") /\ ~IsLive(work[c], i) /\ i \in request[c].expects
    BY DEF RetractConflict, CurrentOp
  <2>3. i \in TripleId \cup {UnknownId}
    BY <2>2, CurrentOpType DEF CurrentOp, IInv
  <2> QED BY <2>1, <2>2, <2>3 DEF AtOp
<1>2. CASE ~IsLive(db, i)
  BY <1>1, <1>2, SameReads DEF Log!Unsettled
<1>3. CASE IsLive(db, i)
  <2>1. i # UnknownId
    BY <1>3, StoreAssumption DEF StoreAssumption, IsLive, Ids
  <2>2. PICK m \in 1 .. n - 1 : Retracts(request[c], m, i, db.facts[i].entity)
    BY <1>1, <1>3, <2>1 DEF LogInv, LogView, SeesNamed, Running
  <2> QED BY <1>1, <2>2 DEF Retracts, Log!Unsettled
<1> QED BY <1>2, <1>3

\* A commit takes effect as the call does, on the database it finds.
LEMMA CommitIsCall ==
  ASSUME IInv, LogInv, NEW c \in Call, Commit(c) PROVE Log!Commit(c)
<1>1. Publishes(c) /\ Allocated(c) /\ Current(c) /\ Running(c)
  BY DEF Commit, Publishes, IInv, ViewInv, ViewBounded, Running, Current, Allocated
<1>2. /\ outcome[c] = "none" /\ outcome' = [outcome EXCEPT ![c] = "committed"] /\ request' = request
      /\ db' = work[c]
  BY <1>1 DEF Commit, Return, IInv, ViewInv, ViewBounded, Running
<1>3. Log!Allowed(db, request[c])
  <2>1. Admissible(request[c])
    BY <1>1 DEF IInv, ViewInv, Settled
  <2>2. request[c].command # NoCommand => db.receipt[request[c].command] = NoTx
    BY <1>1 DEF IInv, ViewInv, Overlay, OverlayReceipt
  <2>3. db.position < MaxPosition
    BY <1>1, StoreAssumption
       DEF Publishes, SnapshotCurrent, LogInv, LogView, Answers, IInv, TypeOK, Database, StoreAssumption
  <2> QED BY <2>1, <2>2, <2>3, SameRequests DEF Log!Allowed
<1>4. Log!Transact(db, request[c], Tx(c), instant[c]) = Computed(c)
  BY <1>1 DEF Publishes, LogInv, LogView, Follows
<1>5. attempt[c] \in 1..MaxAttempts /\ instant[c] \in 1..MaxClock
  BY <1>1, KvAssumption DEF KvAssumption, IInv, TypeOK, ViewInv, ViewBounded, LogInv, LogView, Answers
<1>6. \E n \in 1..MaxAttempts, now \in 1..MaxClock :
        LET s == Log!Transact(db, request[c], <<c, n>>, now)
        IN  s.error = "none" /\ db' = s.D
  <2>1. Computed(c).error = "none" /\ db' = Computed(c).D
    BY <1>2 DEF Computed
  <2> QED BY <1>4, <1>5, <2>1 DEF Tx
<1> QED BY <1>2, <1>3, <1>6 DEF Log!Commit

LEMMA StepIsCall ==
  ASSUME ~LostReplies, IInv, LogInv, [Next]_vars PROVE [Log!Next]_(Log!vars)
<1> DEFINE Goal == [Log!Next]_(Log!vars)
<1>1. ASSUME UNCHANGED <<db, request, outcome>> PROVE Goal
  BY <1>1 DEF Log!vars
<1>2. ASSUME NEW c \in Call, Log!Commit(c) \/ (\E o \in Log!Failure : Log!FailWith(c, o))
                               \/ \E r \in Requests : Log!Ask(c, r) \/ Log!AskAndFail(c, r)
      PROVE  Goal
  BY <1>2 DEF Log!Next
<1>3. ASSUME NEW c \in Call, NEW r \in Requests, Begin(c, r) PROVE Goal
  <2>1. outcome[c] = "none" /\ request[c] = NoRequest
    BY <1>3 DEF Begin, IInv, ViewInv, ViewBounded, LogInv, LogView, Answers
  <2> QED BY <1>2, <1>3, <2>1, SameRequests DEF Begin, Log!Ask
<1>4. ASSUME NEW c \in Call, NEW r \in Requests, Reject(c, r) PROVE Goal
  <2>1. outcome[c] = "none" /\ request[c] = NoRequest
    BY <1>4 DEF Reject, IInv, ViewInv, ViewBounded, LogInv, LogView, Answers
  <2> QED BY <1>2, <1>4, <2>1, SameRequests DEF Reject, Log!AskAndFail
<1>5. ASSUME NEW c \in Call, NEW o \in Log!Failure, Running(c), Fail(c, o),
             o = "CommandAlreadyCommitted" => /\ request[c].command # NoCommand
                                              /\ db.receipt[request[c].command] # NoTx,
             o = "TransactionConflict" => Log!Unsettled(db, request[c]),
             o = "ConstraintViolation" => request[c].enforced
      PROVE  Goal
  <2>1. Log!FailWith(c, o)
    BY <1>5 DEF Log!FailWith, Fail, Return, IInv, ViewInv, ViewBounded, Running
  <2> QED BY <1>2, <2>1
<1>6. ASSUME NEW c \in Call, BodyStep(c) PROVE Goal
  <2>1. CASE ClaimCommand(c) \/ NextPosition(c) \/ EnforceHolds(c) \/ WriteJournal(c)
    BY <1>1, <2>1 DEF ClaimCommand, NextPosition, EnforceHolds, WriteJournal
  <2>2. CASE AssertFact(c) \/ RetractFact(c) \/ RetractNothing(c) \/ RetractPattern(c)
    BY <1>1, <2>2 DEF AssertFact, RetractFact, RetractNothing, RetractPattern, RetractAll, OpDone
  <2>3. CASE CommitConflict(c)
    BY <1>1, <2>3 DEF CommitConflict, RunAgain
  <2>4. CASE Commit(c)
    BY <1>2, <2>4, CommitIsCall
  <2>5. CASE AlreadyCommitted(c)
    BY <1>5, <2>5 DEF AlreadyCommitted, Running, Log!Failure
  <2>6. CASE EnforceViolated(c)
    BY <1>5, <2>6 DEF EnforceViolated, Running, Log!Failure, LogInv, LogView, Answers
  <2>7. CASE RetractConflict(c)
    BY <1>5, <2>7, ConflictIsReal DEF RetractConflict, AtOp, Running, Log!Failure
  <2>8. CASE PositionExhausted(c) \/ RetractReserved(c) \/ RetractPatternReserved(c)
    BY <1>5, <2>8
       DEF PositionExhausted, RetractReserved, RetractPatternReserved, AtOp, Running, Log!Failure
  <2> QED BY <1>6, <2>1, <2>2, <2>3, <2>4, <2>5, <2>6, <2>7, <2>8 DEF BodyStep
<1>7. ASSUME NEW c \in Call, Abandon(c) PROVE Goal
  BY <1>5, <1>7 DEF Abandon, Log!Failure
<1> QED BY <1>1, <1>3, <1>4, <1>6, <1>7
        DEF Next, Step, CommitUnknown, CancelTooLate, Tick, Finished, vars

\* While no reply is lost, either backend looks as if its calls ran one at a time:
\* whatever bodies overlap, each call takes effect whole, at the next position,
\* on the database it finds, or not at all, and is told which and why.
THEOREM CallsAreAtomic == ASSUME ~LostReplies PROVE Spec => RunsAsIfAtomic
<1>1. Init => Log!Init
  BY SameRequests DEF Init, Log!Init
<1>2. IInv /\ LogInv /\ [Next]_vars => [Log!Next]_(Log!vars)
  BY StepIsCall
<1> QED BY <1>1, <1>2, Inductive, LogInductive, PTL DEF Spec, RunsAsIfAtomic, Log!Spec
=============================================================================
