------------------------- MODULE SqlTriplesProofs -------------------------
(***************************************************************************)
(* Proofs about SqlTriples, for both databases and any number of hosts and *)
(* of transacts in each.                                                   *)
(***************************************************************************)
EXTENDS SqlTriples, NaturalLemmas, SequenceTheorems, TLAPS

-----------------------------------------------------------------------------
(* The writes of a transaction keep a database a database. *)

LEMMA EmptyDatabaseType == EmptyDatabase \in Database
BY StoreAssumption DEF EmptyDatabase, Database

LEMMA ReceiptType ==
  ASSUME NEW D \in Database, NEW k \in Command, NEW tx \in TxId
  PROVE  WithReceipt(D, k, tx) \in Database
BY DEF WithReceipt, Database

LEMMA PositionType ==
  ASSUME NEW D \in Database
  PROVE  WithNextPosition(D) \in Database
BY DEF WithNextPosition, Database

LEMMA FactType ==
  ASSUME NEW D \in Database, NEW id \in TripleId, NEW e \in Entity,
         NEW tx \in TxId, NEW now \in Nat
  PROVE  WithFact(D, id, e, tx, now) \in Database
<1>1. NewFact(D, e, tx, now) \in Fact
  BY DEF NewFact, Fact, Database
<1> QED BY <1>1 DEF WithFact, Database

LEMMA RetractedType ==
  ASSUME NEW D \in Database, NEW ids \in SUBSET Ids(D), NEW tx \in TxId, NEW now \in Nat
  PROVE  WithRetracted(D, ids, tx, now) \in Database
<1>1. ASSUME NEW i \in ids PROVE Retired(D, D.facts[i], tx, now) \in Fact
  BY <1>1 DEF Retired, Fact, Ids, Database
<1> QED BY <1>1 DEF WithRetracted, Database

LEMMA EnvelopeType ==
  ASSUME NEW D \in Database, NEW env \in Envelope
  PROVE  WithEnvelope(D, env) \in Database
BY DEF WithEnvelope, Database
-----------------------------------------------------------------------------
(* The inductive invariant *)

\* The transact has its position.
Writing(h) == pc[h] \in {"enforce", "ops"}

\* The transacts of each host end one after the other; what one has applied is
\* kept under the lock until the host transaction ends.
ProgressInv ==
  \A h \in Host :
    /\ Len(result[h]) = Len(asked[h]) /\ Len(asked[h]) <= MaxCalls[h]
    /\ Running(h) => asked[h] # <<>> /\ result[h][Len(asked[h])] = "running"
    /\ \A n \in DOMAIN result[h] : result[h][n] = "running" => Running(h) /\ n = Len(asked[h])
    /\ Applied(h) # {} => pc[h] # "idle" /\ lock = h
    /\ Writing(h) => lock = h

\* There is a savepoint and something before it.
Guarded(h) == lock = h /\ Running(h) /\ Applied(h) # {}

\* The receipts of D are in E, which a later database keeps.
Keeps(E, D) == \A k \in Command : D.receipt[k] # NoTx => E.receipt[k] = D.receipt[k]

\* A receipt under way is in no other view: the next to insert it waits.
ClaimOf(h) ==
  /\ claimed[h] = IF pc[h] = "position" \/ Writing(h) THEN Asking(h).command ELSE NoCommand
  /\ \A g \in Host \ {h} : claimed[g] = claimed[h] => claimed[h] = NoCommand
  /\ claimed[h] # NoCommand =>
       IF Writing(h) THEN work.receipt[claimed[h]] = Tx(h)
       ELSE /\ db.receipt[claimed[h]] = NoTx
            /\ lock # NoHost => work.receipt[claimed[h]] = NoTx

\* What the holder sees beyond what is committed is of its own transacts.
OwnReceipts(h) ==
  lock = h => \A k \in Command :
    \/ work.receipt[k] = db.receipt[k]
    \/ \E n \in DOMAIN asked[h] : work.receipt[k] = <<h, n>> /\ asked[h][n].command = k

KeepsInv ==
  /\ lock # NoHost => Keeps(work, db)
  /\ \A h \in Host : Guarded(h) => Keeps(work, save) /\ Keeps(save, db)

ClaimInv == KeepsInv /\ \A h \in Host : ClaimOf(h) /\ OwnReceipts(h)

\* What a database has of a transact.
Whole(D, c) ==
  /\ RequestOf(c).journaled => \E env \in D.journal : env.tx = c
  /\ RequestOf(c).command # NoCommand => D.receipt[RequestOf(c).command] = c

Traceless(D, c) ==
  /\ \A i \in Ids(D) : D.facts[i].tx # c /\ D.facts[i].retractTx # c
  /\ \A env \in D.journal : env.tx # c
  /\ \A k \in Command : D.receipt[k] # c

Publishes(D, S) == \A c \in Calls : IF c \in S THEN Whole(D, c) ELSE Traceless(D, c)

Committed == CallsWith("committed")
AppliedBy(h) == {<<h, n>> : n \in Applied(h)}

\* Every view has the whole of what is committed, the holder's also of what its
\* host has applied, and nothing of any other transact but the one that writes.
HolderPublishes(h) ==
  \A c \in Calls :
    IF c \in Committed \cup AppliedBy(h) THEN Whole(work, c)
    ELSE Traceless(work, c) \/ (Writing(h) /\ c = Tx(h))

PublishInv ==
  /\ Publishes(db, Committed)
  /\ \A h \in Host : lock = h => HolderPublishes(h)
  /\ \A h \in Host : Guarded(h) => Publishes(save, Committed \cup AppliedBy(h))

\* Envelopes in the order of their positions and none after the clock.
Ordered(D, now) ==
  /\ \A e1, e2 \in D.journal : e1.position < e2.position => e1.instant <= e2.instant
  /\ \A e \in D.journal : e.position <= D.position /\ e.instant <= now

\* SQLite has one host at a time, whose instant no envelope in its view exceeds.
TimeOf(h) ==
  /\ lock = h => pc[h] # "idle" /\ Ordered(work, clock)
  /\ Running(h) => instant[h] <= clock /\ Ordered(View(h), instant[h])
  /\ Guarded(h) => Ordered(save, instant[h])
  /\ Writing(h) => \A e \in work.journal : e.position < work.position

TimeInv == engine = "sqlite" =>
  /\ Ordered(db, clock)
  /\ \A g, h \in Host : pc[g] # "idle" /\ pc[h] # "idle" => g = h
  /\ \A h \in Host : TimeOf(h)

-----------------------------------------------------------------------------
(* Types and progress *)

Typed == TypeOK /\ ProgressInv

LEMMA RequestType ==
  ASSUME TypeOK, NEW h \in Host, NEW n \in DOMAIN asked[h]
  PROVE  asked[h][n] \in Requests /\ asked[h][n] \in Request
BY SqlAssumption DEF TypeOK

LEMMA CallsAre ==
  /\ \A h \in Host : \A n : <<h, n>> \in Calls <=> n \in 1..MaxCalls[h]
  /\ \A c \in Calls : c[1] \in Host /\ c[2] \in 1..MaxCalls[c[1]] /\ c = <<c[1], c[2]>>
  /\ Calls \subseteq TxId
BY SqlAssumption DEF Calls

\* The transact that a host runs is its last.
LEMMA RunningTransact ==
  ASSUME Typed, NEW h \in Host, Running(h)
  PROVE  /\ Len(asked[h]) \in DOMAIN asked[h] /\ Len(asked[h]) \in DOMAIN result[h]
         /\ Asking(h) \in Request /\ Asking(h).command \in Command \cup {NoCommand}
         /\ Tx(h) \in Calls /\ Tx(h) \in TxId
         /\ result[h][Len(asked[h])] = "running"
         /\ RequestOf(Tx(h)) = Asking(h)
<1>1. asked[h] \in Seq(Requests) /\ result[h] \in Seq(Result) /\ asked[h] # <<>>
  BY DEF Typed, TypeOK, ProgressInv
<1>2. Len(asked[h]) \in 1..MaxCalls[h] /\ Len(asked[h]) = Len(result[h])
  BY <1>1, SqlAssumption DEF Typed, ProgressInv
<1>3. Len(asked[h]) \in DOMAIN asked[h] /\ Len(asked[h]) \in DOMAIN result[h]
  BY <1>1, <1>2
<1>4. Asking(h) \in Request
  BY <1>3, RequestType DEF Typed, Asking
<1>5. Asking(h).command \in Command \cup {NoCommand}
  BY <1>4 DEF Request
<1>6. QED BY <1>2, <1>3, <1>4, <1>5, CallsAre DEF Typed, ProgressInv, Tx, RequestOf, Asking

\* An answer ends the transact that runs and no other.
LEMMA AnswerIs ==
  ASSUME Typed, NEW h \in Host, Running(h), NEW r \in Result, Answer(h, r)
  PROVE  /\ result' \in [Host -> Seq(Result)]
         /\ \A g \in Host : Len(result'[g]) = Len(result[g]) /\ DOMAIN result'[g] = DOMAIN result[g]
         /\ \A g \in Host : \A n \in DOMAIN result[g] :
              result'[g][n] = IF g = h /\ n = Len(asked[h]) THEN r ELSE result[g][n]
<1>1. result[h] \in Seq(Result) /\ Len(asked[h]) \in 1..Len(result[h])
  BY RunningTransact DEF Typed, TypeOK
<1>2. result'[h] = [result[h] EXCEPT ![Len(asked[h])] = r] /\ \A g \in Host \ {h} : result'[g] = result[g]
  BY DEF Answer, Typed, TypeOK
<1>3. result'[h] \in Seq(Result) /\ Len(result'[h]) = Len(result[h])
  BY <1>1, <1>2, ExceptSeq
<1>4. QED BY <1>1, <1>2, <1>3 DEF Answer, Typed, TypeOK

\* The end of a host transaction decides what it has applied or runs.
Decided(h, verdict) ==
  \A g \in Host : \A n \in DOMAIN result[g] :
    result'[g][n] = IF g = h /\ result[g][n] \in {"applied", "running"} THEN verdict
                    ELSE result[g][n]

LEMMA CloseIs ==
  ASSUME Typed, NEW h \in Host, NEW D, NEW verdict \in Result, Close(h, D, verdict)
  PROVE  /\ result' \in [Host -> Seq(Result)]
         /\ \A g \in Host : Len(result'[g]) = Len(result[g]) /\ DOMAIN result'[g] = DOMAIN result[g]
         /\ Decided(h, verdict)
<1> DEFINE s == [n \in DOMAIN result[h] |->
                   IF result[h][n] \in {"applied", "running"} THEN verdict ELSE result[h][n]]
<1>1. result[h] \in Seq(Result)
  BY DEF Typed, TypeOK
<1>2. result'[h] = s /\ \A g \in Host \ {h} : result'[g] = result[g]
  BY DEF Close, Typed, TypeOK
<1>3. \A n \in DOMAIN result[h] : s[n] \in Result
  BY <1>1
<1>4. s \in Seq(Result) /\ Len(s) = Len(result[h]) /\ DOMAIN s = DOMAIN result[h]
  BY <1>1, <1>3, IsASeq, LenProperties
<1> HIDE DEF s
<1>5. result' \in [Host -> Seq(Result)]
  BY <1>2, <1>4 DEF Close, Typed, TypeOK
<1>6. QED BY <1>2, <1>4, <1>5 DEF Decided, s
-----------------------------------------------------------------------------
(* What a step can be *)

Fails(h) ==
  Running(h) /\ (AlreadyCommitted(h) \/ \E o \in Failure \ {"CommandAlreadyCommitted"} : Fail(h, o))
Retracts(h) == pc[h] = "ops" /\ \E ids \in SUBSET Ids(work) : RetractAll(h, ids)
Asks(h) == \E r \in Requests : Reject(h, r) \/ Begin(h, r)
Ends(h) == HostCommit(h) \/ HostRollback(h)
Moves(h) == Open(h) \/ EnforceHolds(h) \/ RetractNothing(h)

LEMMA StepIs ==
  ASSUME Typed, NEW h \in Host, Step(h)
  PROVE  \/ Moves(h) \/ Ends(h) \/ Asks(h) \/ ClaimCommand(h) \/ NextPosition(h)
         \/ AssertFact(h) \/ Retracts(h) \/ Finish(h) \/ Fails(h)
<1>1. CASE BodyStep(h)
  <2>1. ASSUME RetractFact(h) PROVE Retracts(h)
    BY <2>1 DEF RetractFact, AtOp, IsLive, Retracts
  <2>2. ASSUME RetractPattern(h) PROVE Retracts(h)
    BY <2>2 DEF RetractPattern, AtOp, Matching, Retracts
  <2>3. ASSUME AlreadyCommitted(h) \/ EnforceViolated(h) \/ RetractConflict(h) \/ RetractReserved(h)
        PROVE  Fails(h)
    BY <2>3 DEF AlreadyCommitted, EnforceViolated, RetractConflict, RetractReserved, AtOp,
                Fails, Running, Failure
  <2>4. ASSUME DeadlockVictim(h) PROVE Fails(h)
    BY <2>4 DEF DeadlockVictim, Deadlocked, WaitsForReceipt, Fails, Running, Failure
  <2>5. QED BY <1>1, <2>1, <2>2, <2>3, <2>4 DEF BodyStep, Moves
<1>2. CASE ~ BodyStep(h)
  BY <1>2 DEF Step, HostEnd, Moves, Ends, Asks
<1>3. QED BY <1>1, <1>2

LEMMA CurrentOpType ==
  ASSUME Typed, NEW h \in Host, NEW kind, AtOp(h, kind)
  PROVE  /\ CurrentOp(h) \in Op
         /\ kind # "retract" => CurrentOp(h).entity \in Entity
<1>1. Running(h)
  BY DEF AtOp, Running
<1>2. Asking(h) \in Request /\ next \in Nat \ {0}
  BY <1>1, RunningTransact DEF Typed, TypeOK
<1>3. CurrentOp(h) \in Op /\ CurrentOp(h).op = kind
  BY <1>2 DEF AtOp, CurrentOp, Request
<1>4. QED BY <1>3 DEF Op

LEMMA TypedInit == Init => Typed
BY EmptyDatabaseType, SqlAssumption, StoreAssumption
   DEF Init, Typed, TypeOK, ProgressInv, PC, Running, Applied, Writing

LEMMA UnlockTyped ==
  ASSUME Unlock
  PROVE  /\ work' \in Database /\ save' \in Database /\ lock' = NoHost
         /\ next' = 1 /\ asserted' = {} /\ retracted' = {}
BY EmptyDatabaseType DEF Unlock

LEMMA EndTyped == ASSUME Typed, NEW h \in Host, Ends(h) PROVE Typed'
<1>1. PICK verdict : /\ verdict \in {"committed", "rolled back"}
                     /\ \E D \in {db, work} : Close(h, D, verdict)
  BY DEF Ends, HostCommit, HostRollback
<1>2. verdict \in Result
  BY <1>1 DEF Result
<1>3. /\ result' \in [Host -> Seq(Result)]
      /\ \A g \in Host : Len(result'[g]) = Len(result[g]) /\ DOMAIN result'[g] = DOMAIN result[g]
      /\ Decided(h, verdict)
  BY <1>1, <1>2, CloseIs
<1>4. /\ db' \in {db, work} /\ engine' = engine /\ clock' = clock /\ asked' = asked
      /\ pc' = [pc EXCEPT ![h] = "idle"]
      /\ instant' = [instant EXCEPT ![h] = 0] /\ claimed' = [claimed EXCEPT ![h] = NoCommand]
      /\ IF lock = h THEN Unlock ELSE UNCHANGED <<lock, work, save, holder>>
  BY <1>1 DEF Close
<1>5. TypeOK'
  <2>1. /\ work' \in Database /\ save' \in Database /\ lock' \in Host \cup {NoHost}
        /\ next' \in Nat \ {0} /\ asserted' \subseteq TripleId /\ retracted' \subseteq TripleId
    <3>1. CASE lock = h
      <4>1. Unlock
        BY <1>4, <3>1
      <4>2. QED BY <4>1, EmptyDatabaseType DEF Unlock
    <3>2. CASE lock # h
      BY <1>4, <3>2 DEF Typed, TypeOK, holder
    <3>3. QED BY <3>1, <3>2
  <2>2. QED BY <1>3, <1>4, <2>1 DEF Typed, TypeOK, PC
<1>6. /\ \A g \in Host \ {h} : Applied(g)' = Applied(g)
      /\ Applied(h)' = {}
  BY <1>1, <1>3 DEF Decided, Applied
<1>7. ProgressInv'
  <2>1. SUFFICES ASSUME NEW g \in Host PROVE ProgressInv!(g)'
    BY DEF ProgressInv
  <2>2. ProgressInv!(g) /\ pc[g] \in PC /\ result[g] \in Seq(Result) /\ asked[g] \in Seq(Requests)
    BY DEF Typed, TypeOK, ProgressInv
  <2>3. lock' = IF lock = h THEN NoHost ELSE lock
    BY <1>4 DEF Unlock
  <2>4. pc' = [g_ \in Host |-> IF g_ = h THEN "idle" ELSE pc[g_]]
    BY <1>4 DEF Typed, TypeOK
  <2>5. CASE g = h
    BY <1>1, <1>3, <1>4, <1>6, <2>2, <2>3, <2>4, <2>5 DEF Decided, Running, Writing
  <2>6. CASE g # h
    <3>1. \A n \in DOMAIN result[g] : result'[g][n] = result[g][n]
      BY <1>3, <2>6 DEF Decided
    <3>2. Running(g)' = Running(g) /\ Writing(g)' = Writing(g) /\ (pc[g] # "idle" => pc'[g] # "idle")
      BY <2>4, <2>6 DEF Running, Writing
    <3>3. lock = g => lock' = g
      BY <2>3, <2>6
    <3>4. asked[g] # <<>> => Len(asked[g]) \in DOMAIN result[g]
      BY <2>2
    <3>5. QED BY <1>3, <1>4, <1>6, <2>2, <2>6, <3>1, <3>2, <3>3, <3>4
  <2>7. QED BY <2>5, <2>6
<1>8. QED BY <1>5, <1>7 DEF Typed

LEMMA FailTyped == ASSUME Typed, NEW h \in Host, Fails(h) PROVE Typed'
<1>1. PICK o : o \in Failure /\ Running(h) /\ Fail(h, o)
  BY DEF Fails, AlreadyCommitted, Failure
<1>2. o \in Result /\ o \notin {"applied", "running"} /\ Answer(h, o)
  BY <1>1 DEF Failure, Result, Fail
<1>3. /\ result' \in [Host -> Seq(Result)]
      /\ \A g \in Host : Len(result'[g]) = Len(result[g]) /\ DOMAIN result'[g] = DOMAIN result[g]
      /\ \A g \in Host : \A n \in DOMAIN result[g] :
           result'[g][n] = IF g = h /\ n = Len(asked[h]) THEN o ELSE result[g][n]
  BY <1>1, <1>2, AnswerIs
<1>4. TypeOK'
  <2>1. /\ engine' = engine /\ db' = db /\ clock' = clock /\ asked' = asked
        /\ pc' = [pc EXCEPT ![h] = "open"]
        /\ instant' = [instant EXCEPT ![h] = 0] /\ claimed' = [claimed EXCEPT ![h] = NoCommand]
    BY <1>1 DEF Fail
  <2>2. /\ work' \in Database /\ save' \in Database /\ lock' \in Host \cup {NoHost}
        /\ next' \in Nat \ {0} /\ asserted' \subseteq TripleId /\ retracted' \subseteq TripleId
    BY <1>1, UnlockTyped, EmptyDatabaseType DEF Fail, Typed, TypeOK, holder
  <2>3. QED BY <1>3, <2>1, <2>2 DEF Typed, TypeOK, PC
<1>5. /\ pc' = [pc EXCEPT ![h] = "open"] /\ asked' = asked
      /\ lock' = IF lock = h /\ Applied(h) = {} THEN NoHost ELSE lock
  BY <1>1 DEF Fail, Unlock
<1>6. \A g \in Host : Applied(g)' = Applied(g)
  <2>1. result[h][Len(asked[h])] = "running"
    BY <1>1, RunningTransact
  <2>2. QED BY <1>2, <1>3, <2>1 DEF Applied
<1>7. ProgressInv'
  BY <1>1, <1>2, <1>3, <1>5, <1>6 DEF Typed, TypeOK, ProgressInv, Running, Writing
<1>8. QED BY <1>4, <1>7 DEF Typed

LEMMA AskTyped == ASSUME Typed, NEW h \in Host, Asks(h) PROVE Typed'
<1>1. PICK r \in Requests : Reject(h, r) \/ Begin(h, r)
  BY DEF Asks
<1>2. PICK o \in {"WriteError", "running"} :
        /\ result' = [result EXCEPT ![h] = Append(@, o)]
        /\ asked' = [asked EXCEPT ![h] = Append(@, r)]
        /\ IF o = "running" THEN pc' = [pc EXCEPT ![h] = "claim"] ELSE pc' = pc
        /\ pc[h] = "open" /\ Len(asked[h]) < MaxCalls[h] /\ lock' = lock
  BY <1>1 DEF Reject, Begin
<1>3. /\ asked[h] \in Seq(Requests) /\ result[h] \in Seq(Result) /\ Len(result[h]) = Len(asked[h])
      /\ o \in Result
  BY DEF Typed, TypeOK, ProgressInv, Result, Failure
<1>4. /\ asked'[h] \in Seq(Requests) /\ result'[h] \in Seq(Result)
      /\ Len(asked'[h]) = Len(asked[h]) + 1 /\ Len(result'[h]) = Len(asked'[h])
      /\ DOMAIN result'[h] = DOMAIN result[h] \cup {Len(asked'[h])}
      /\ result'[h][Len(asked'[h])] = o
      /\ \A n \in DOMAIN result[h] : result'[h][n] = result[h][n]
      /\ \A g \in Host \ {h} : asked'[g] = asked[g] /\ result'[g] = result[g]
  BY <1>2, <1>3 DEF Typed, TypeOK
<1>5. TypeOK'
  <2>1. /\ engine' = engine /\ db' = db /\ clock' = clock /\ claimed' = claimed /\ UNCHANGED holder
        /\ lock' = lock /\ work' = work /\ save' \in {work, save}
        /\ instant' = instant \/ instant' = [instant EXCEPT ![h] = clock]
    BY <1>1 DEF Reject, Begin
  <2>2. asked' \in [Host -> Seq(Requests)] /\ result' \in [Host -> Seq(Result)]
    BY <1>2, <1>4 DEF Typed, TypeOK
  <2>3. pc' \in [Host -> PC] /\ instant' \in [Host -> Nat]
    BY <1>2, <2>1 DEF Typed, TypeOK, PC
  <2>4. QED BY <2>1, <2>2, <2>3 DEF Typed, TypeOK, holder
<1>6. \A g \in Host : Applied(g)' = Applied(g)
  BY <1>4 DEF Applied
<1>7. \A n \in DOMAIN result[h] : result[h][n] # "running"
  BY <1>2 DEF Typed, ProgressInv, Running
<1>8. \A g \in Host \ {h} : pc'[g] = pc[g]
  BY <1>2 DEF Typed, TypeOK
<1>9. MaxCalls[h] \in Nat
  BY SqlAssumption
<1>10. ProgressInv'
  <2>1. SUFFICES ASSUME NEW g \in Host PROVE ProgressInv!(g)'
    BY DEF ProgressInv
  <2>2. CASE g # h
    BY <1>2, <1>4, <1>6, <1>8, <2>2 DEF Typed, ProgressInv, Running, Writing
  <2>3. CASE g = h
    <3>1. Applied(h) # {} => lock = h
      BY DEF Typed, ProgressInv
    <3>2. pc'[h] = IF o = "running" THEN "claim" ELSE "open"
      BY <1>2 DEF Typed, TypeOK
    <3>3. QED BY <1>2, <1>3, <1>4, <1>6, <1>7, <1>9, <2>3, <3>1, <3>2 DEF Running, Writing
  <2>4. QED BY <2>2, <2>3
<1>11. QED BY <1>5, <1>10 DEF Typed

\* The steps that leave requests, results and the lock of every host alone.
LEMMA ProgressStays ==
  ASSUME Typed, NEW h \in Host, Running(h), Writing(h) => lock = h,
         UNCHANGED <<asked, result>>, lock' \in {lock, h}, lock' = h \/ lock' = lock,
         lock = NoHost \/ lock = h \/ lock' = lock,
         NEW p \in {"position", "enforce", "ops"}, pc' = [pc EXCEPT ![h] = p],
         p # "position" => lock' = h
  PROVE  ProgressInv'
<1>1. SUFFICES ASSUME NEW g \in Host PROVE ProgressInv!(g)'
  BY DEF ProgressInv
<1>2. ProgressInv!(g) /\ Applied(g)' = Applied(g)
  BY DEF Typed, ProgressInv, Applied
<1>3. pc'[g] = IF g = h THEN p ELSE pc[g]
  BY DEF Typed, TypeOK
<1>4. NoHost \notin Host
  BY SqlAssumption
<1>5. CASE g = h
  BY <1>2, <1>3, <1>5 DEF Running, Writing
<1>6. CASE g # h
  BY <1>2, <1>3, <1>4, <1>6 DEF Running, Writing
<1>7. QED BY <1>5, <1>6

LEMMA MoveTyped == ASSUME Typed, NEW h \in Host, Moves(h) PROVE Typed'
<1>1. ASSUME Open(h) PROVE Typed'
  <2>1. TypeOK'
    BY <1>1 DEF Open, Typed, TypeOK, PC, holder
  <2>2. UNCHANGED <<asked, result, lock>> /\ pc[h] = "idle" /\ pc' = [pc EXCEPT ![h] = "open"]
    BY <1>1 DEF Open
  <2>3. ProgressInv'
    BY <2>2 DEF Typed, TypeOK, ProgressInv, Running, Writing, Applied
  <2>4. QED BY <2>1, <2>3 DEF Typed
<1>2. ASSUME EnforceHolds(h) PROVE Typed'
  <2>1. TypeOK'
    BY <1>2 DEF EnforceHolds, Typed, TypeOK, PC, holder
  <2>2. /\ UNCHANGED <<asked, result, lock>> /\ pc' = [pc EXCEPT ![h] = "ops"]
        /\ Running(h) /\ lock = h
    BY <1>2 DEF EnforceHolds, Typed, ProgressInv, Running, Writing
  <2>3. QED BY <2>1, <2>2, ProgressStays DEF Typed
<1>3. ASSUME RetractNothing(h) PROVE Typed'
  <2>1. TypeOK'
    BY <1>3 DEF RetractNothing, OpDone, Typed, TypeOK
  <2>2. UNCHANGED <<asked, result, lock, pc>>
    BY <1>3 DEF RetractNothing, OpDone
  <2>3. QED BY <2>1, <2>2 DEF Typed, ProgressInv, Running, Writing, Applied
<1>4. QED BY <1>1, <1>2, <1>3 DEF Moves

LEMMA ClaimTyped == ASSUME Typed, NEW h \in Host, ClaimCommand(h) PROVE Typed'
<1>1. Running(h) /\ ~ Writing(h)
  BY DEF ClaimCommand, Running, Writing
<1>2. Asking(h).command \in Command \cup {NoCommand}
  BY <1>1, RunningTransact
<1>3. TypeOK'
  BY <1>2 DEF ClaimCommand, Typed, TypeOK, PC, holder
<1>4. UNCHANGED <<asked, result, lock>> /\ pc' = [pc EXCEPT ![h] = "position"]
  BY DEF ClaimCommand
<1>5. QED BY <1>1, <1>3, <1>4, ProgressStays DEF Typed

LEMMA PositionTyped == ASSUME Typed, NEW h \in Host, NextPosition(h) PROVE Typed'
<1>1. Running(h) /\ ~ Writing(h)
  BY DEF NextPosition, Running, Writing
<1>2. Tx(h) \in TxId
  BY <1>1, RunningTransact
<1>3. View(h) \in Database /\ claimed[h] \in Command \cup {NoCommand}
  BY DEF View, Typed, TypeOK
<1>4. Claimed(h) \in Database
  BY <1>2, <1>3, ReceiptType DEF Claimed
<1>5. work' \in Database
  BY <1>4, PositionType DEF NextPosition
<1>6. TypeOK'
  BY <1>5 DEF NextPosition, Typed, TypeOK, PC, holder
<1>7. PICK p : /\ p = IF Asking(h).enforced THEN "enforce" ELSE "ops"
               /\ pc' = [pc EXCEPT ![h] = p]
  BY DEF NextPosition
<1>8. UNCHANGED <<asked, result>> /\ lock' = h /\ lock \in {NoHost, h}
  BY DEF NextPosition
<1>9. ProgressInv'
  BY <1>1, <1>7, <1>8, ProgressStays
<1>10. QED BY <1>6, <1>9 DEF Typed

LEMMA WriteTyped ==
  ASSUME Typed, NEW h \in Host, AssertFact(h) \/ Retracts(h)
  PROVE  Typed'
<1>1. Running(h) /\ pc[h] = "ops"
  BY DEF AssertFact, Retracts, AtOp, Running
<1>2. Tx(h) \in TxId /\ instant[h] \in Nat
  BY <1>1, RunningTransact DEF Typed, TypeOK
<1>3. work' \in Database /\ asserted' \subseteq TripleId /\ retracted' \subseteq TripleId
  <2>1. CASE AssertFact(h)
    <3>1. FreshId(work) \in TripleId /\ CurrentOp(h).entity \in Entity
      BY <2>1, CurrentOpType DEF AssertFact, HasFreshId, FreshId
    <3>2. QED BY <1>2, <2>1, <3>1, FactType DEF AssertFact, Typed, TypeOK
  <2>2. CASE Retracts(h)
    <3>1. PICK ids \in SUBSET Ids(work) : RetractAll(h, ids)
      BY <2>2 DEF Retracts
    <3>2. QED BY <1>2, <3>1, RetractedType DEF RetractAll, Ids, Typed, TypeOK
  <2>3. QED BY <2>1, <2>2
<1>4. OpDone
  BY DEF AssertFact, Retracts, RetractAll
<1>5. TypeOK'
  BY <1>3, <1>4 DEF OpDone, Typed, TypeOK
<1>6. UNCHANGED <<asked, result, lock, pc>>
  BY <1>4 DEF OpDone
<1>7. QED BY <1>5, <1>6 DEF Typed, ProgressInv, Running, Writing, Applied

\* Finish releases the savepoint: the transact joins what its host has applied.
LEMMA FinishIs ==
  ASSUME Typed, NEW h \in Host, Finish(h)
  PROVE  /\ Running(h) /\ Writing(h) /\ lock = h /\ lock' = h
         /\ Asking(h).journaled => work' = WithEnvelope(work, EnvelopeOf(h))
         /\ ~ Asking(h).journaled => work' = work
         /\ result' \in [Host -> Seq(Result)]
         /\ \A g \in Host : Len(result'[g]) = Len(result[g]) /\ DOMAIN result'[g] = DOMAIN result[g]
         /\ \A g \in Host : \A n \in DOMAIN result[g] :
              result'[g][n] = IF g = h /\ n = Len(asked[h]) THEN "applied" ELSE result[g][n]
<1>1. Running(h) /\ Writing(h)
  BY DEF Finish, FinishAs, Running, Writing
<1>2. "applied" \in Result /\ Answer(h, "applied")
  BY DEF Result, Finish, FinishAs
<1>3. lock = h /\ lock' = lock
  BY <1>1 DEF Typed, ProgressInv, Finish, FinishAs
<1>4. QED BY <1>1, <1>2, <1>3, AnswerIs DEF Finish, FinishAs

LEMMA FinishTyped == ASSUME Typed, NEW h \in Host, Finish(h) PROVE Typed'
<1>1. Running(h) /\ Tx(h) \in TxId /\ Asking(h).command \in Command \cup {NoCommand}
  BY FinishIs, RunningTransact
<1>2. EnvelopeOf(h) \in Envelope
  BY <1>1 DEF EnvelopeOf, Envelope, Typed, TypeOK, Database
<1>3. work' \in Database
  BY <1>2, FinishIs, EnvelopeType DEF Typed, TypeOK, Finish, FinishAs
<1>4. /\ UNCHANGED <<engine, db, clock, asked>> /\ pc' = [pc EXCEPT ![h] = "open"]
      /\ instant' = [instant EXCEPT ![h] = 0] /\ claimed' = [claimed EXCEPT ![h] = NoCommand]
      /\ save' = EmptyDatabase /\ next' = 1 /\ asserted' = {} /\ retracted' = {}
      /\ lock = h /\ lock' = h
  BY FinishIs DEF Finish, FinishAs
<1>5. TypeOK'
  BY <1>3, <1>4, FinishIs, EmptyDatabaseType DEF Typed, TypeOK, PC
<1>6. ProgressInv'
  <2>1. SUFFICES ASSUME NEW g \in Host PROVE ProgressInv!(g)'
    BY DEF ProgressInv
  <2>2. /\ ProgressInv!(g) /\ ProgressInv!(h)
        /\ result[g] \in Seq(Result) /\ asked[g] \in Seq(Requests)
    BY DEF Typed, TypeOK, ProgressInv
  <2>3. pc'[g] = IF g = h THEN "open" ELSE pc[g]
    BY <1>4 DEF Typed, TypeOK
  <2>4. CASE g = h
    <3>1. \A n \in DOMAIN result[h] : result'[h][n] # "running"
      BY <2>2, FinishIs
    <3>2. QED BY <1>4, <2>2, <2>3, <2>4, <3>1, FinishIs DEF Running, Writing
  <2>5. CASE g # h
    <3>1. Applied(g)' = Applied(g)
      BY <2>5, FinishIs DEF Applied
    <3>2. Running(g)' = Running(g) /\ Writing(g)' = Writing(g)
      BY <2>3, <2>5 DEF Running, Writing
    <3>3. QED BY <1>4, <2>2, <2>3, <2>5, <3>1, <3>2, FinishIs
  <2>6. QED BY <2>4, <2>5
<1>7. QED BY <1>5, <1>6 DEF Typed

LEMMA NextTyped == Typed /\ [Next]_vars => Typed'
<1> SUFFICES ASSUME Typed, [Next]_vars PROVE Typed'
  OBVIOUS
<1>1. ASSUME NEW h \in Host, Step(h) PROVE Typed'
  BY <1>1, StepIs, MoveTyped, EndTyped, AskTyped, ClaimTyped, PositionTyped, WriteTyped,
     FinishTyped, FailTyped
<1>2. ASSUME Tick \/ UNCHANGED vars PROVE Typed'
  BY <1>2 DEF Tick, vars, holder, Typed, TypeOK, ProgressInv, Running, Writing, Applied
<1>3. QED BY <1>1, <1>2 DEF Next, Finished

LEMMA TypedAlways == Spec => []Typed
BY TypedInit, NextTyped, PTL DEF Spec

\* Every variable keeps its type, for any hosts, requests and databases.
THEOREM TypeCorrect == Spec => []TypeOK
<1>1. Typed => TypeOK
  BY DEF Typed
<1>2. QED BY <1>1, TypedAlways, PTL
-----------------------------------------------------------------------------
(* Receipts *)

Quiet ==
  /\ db' = db /\ save' = save /\ claimed' = claimed /\ lock' = lock /\ asked' = asked
  /\ work'.receipt = work.receipt
  /\ \A g \in Host : /\ Applied(g)' = Applied(g)
                     /\ Running(g)' = Running(g) /\ Writing(g)' = Writing(g)
                     /\ (pc'[g] = "position") = (pc[g] = "position")

LEMMA MovesAreQuiet ==
  ASSUME Typed, NEW h \in Host, Moves(h) \/ AssertFact(h) \/ Retracts(h)
  PROVE  Quiet
<1>1. CASE Open(h)
  BY <1>1 DEF Open, holder, Quiet, Typed, TypeOK, Applied, Running, Writing
<1>2. CASE EnforceHolds(h)
  BY <1>2 DEF EnforceHolds, holder, Quiet, Typed, TypeOK, Applied, Running, Writing
<1>3. ASSUME OpDone, work'.receipt = work.receipt PROVE Quiet
  BY <1>3 DEF OpDone, Quiet, Applied, Running, Writing
<1>4. CASE RetractNothing(h)
  BY <1>3, <1>4 DEF RetractNothing
<1>5. CASE AssertFact(h)
  BY <1>3, <1>5 DEF AssertFact, WithFact, Typed, TypeOK, Database
<1>6. CASE Retracts(h)
  BY <1>3, <1>6 DEF Retracts, RetractAll, WithRetracted, Typed, TypeOK, Database
<1>7. QED BY <1>1, <1>2, <1>4, <1>5, <1>6 DEF Moves

LEMMA QuietKeepsClaims == ASSUME ClaimInv, Quiet PROVE ClaimInv'
<1>1. KeepsInv'
  BY DEF ClaimInv, KeepsInv, Quiet, Keeps, Guarded
<1>2. ASSUME NEW h \in Host PROVE ClaimOf(h)' /\ OwnReceipts(h)'
  BY DEF ClaimInv, ClaimOf, OwnReceipts, Quiet, Asking, Tx
<1>3. QED BY <1>1, <1>2 DEF ClaimInv

LEMMA AskKeepsClaims == ASSUME Typed, ClaimInv, NEW h \in Host, Asks(h) PROVE ClaimInv'
<1>1. PICK r \in Requests : Reject(h, r) \/ Begin(h, r)
  BY DEF Asks
<1>2. PICK o \in Result :
        /\ result' = [result EXCEPT ![h] = Append(@, o)] /\ o # "applied"
        /\ asked' = [asked EXCEPT ![h] = Append(@, r)]
        /\ pc' = pc \/ pc' = [pc EXCEPT ![h] = "claim"]
        /\ save' = save \/ (lock = h /\ save' = work)
        /\ pc' = pc \/ lock # h \/ save' = work
        /\ pc[h] = "open" /\ UNCHANGED <<db, work, claimed, lock>>
  BY <1>1 DEF Reject, Begin, Result, Failure
<1>3. /\ asked[h] \in Seq(Requests) /\ result[h] \in Seq(Result)
      /\ \A n \in DOMAIN asked[h] : n \in DOMAIN asked'[h] /\ asked'[h][n] = asked[h][n]
      /\ \A g \in Host \ {h} : asked'[g] = asked[g] /\ pc'[g] = pc[g]
      /\ pc'[h] \in {"open", "claim"}
  BY <1>2 DEF Typed, TypeOK
<1>4. \A g \in Host : Applied(g)' = Applied(g)
  BY <1>2, <1>3 DEF Applied, Typed, TypeOK
<1>5. KeepsInv'
  <2>1. lock # NoHost => Keeps(work, db)
    BY DEF ClaimInv, KeepsInv
  <2>2. ASSUME NEW g \in Host, Guarded(g)' PROVE Keeps(work, save)' /\ Keeps(save, db)'
    <3>1. lock = g /\ Applied(g) # {} /\ g # NoHost
      BY <1>2, <1>4, <2>2, SqlAssumption DEF Guarded
    <3>2. CASE save' = work
      BY <1>2, <2>1, <3>1, <3>2 DEF Keeps
    <3>3. CASE save' # work
      <4>1. Guarded(g) /\ save' = save
        BY <1>2, <1>3, <2>2, <3>1, <3>3 DEF Guarded, Running
      <4>2. QED BY <1>2, <4>1 DEF ClaimInv, KeepsInv, Keeps
    <3>4. QED BY <3>2, <3>3
  <2>3. QED BY <1>2, <2>1, <2>2 DEF KeepsInv, Keeps
<1>6. ASSUME NEW g \in Host PROVE ClaimOf(g)' /\ OwnReceipts(g)'
  <2>1. ClaimOf(g) /\ OwnReceipts(g)
    BY DEF ClaimInv
  <2>2. Writing(g)' = Writing(g) /\ (pc'[g] = "position") = (pc[g] = "position")
    BY <1>2, <1>3 DEF Writing
  <2>3. g = h => claimed[g] = NoCommand
    BY <1>2, <2>1 DEF ClaimOf, Writing
  <2>4. g # h => Asking(g)' = Asking(g) /\ Tx(g)' = Tx(g)
    BY <1>3 DEF Asking, Tx
  <2>5. ClaimOf(g)'
    BY <1>2, <1>3, <2>1, <2>2, <2>3, <2>4 DEF ClaimOf, Writing
  <2>6. OwnReceipts(g)'
    BY <1>2, <1>3, <2>1 DEF OwnReceipts
  <2>7. QED BY <2>5, <2>6
<1>7. QED BY <1>5, <1>6 DEF ClaimInv

LEMMA ClaimKeepsClaims == ASSUME Typed, ClaimInv, NEW h \in Host, ClaimCommand(h) PROVE ClaimInv'
<1> DEFINE k == Asking(h).command
<1>1. /\ pc[h] = "claim" /\ pc' = [pc EXCEPT ![h] = "position"]
      /\ claimed' = [claimed EXCEPT ![h] = k]
      /\ UNCHANGED <<db, work, save, lock, asked, result>>
      /\ k # NoCommand => /\ View(h).receipt[k] = NoTx
                          /\ \A g \in Host \ {h} : ~ HoldsReceipt(g, k)
  BY DEF ClaimCommand, WaitsForReceipt
<1>2. k \in Command \cup {NoCommand}
  BY <1>1, RunningTransact DEF Running
<1>9. Asking(h)'.command = k
  <2>1. asked' = asked
    BY <1>1
  <2>2. QED BY <2>1 DEF Asking
<1> HIDE DEF k
<1>3. /\ pc'[h] = "position" /\ claimed'[h] = k
      /\ \A g \in Host \ {h} : pc'[g] = pc[g] /\ claimed'[g] = claimed[g]
  BY <1>1 DEF Typed, TypeOK
<1>4. \A g \in Host : Applied(g)' = Applied(g) /\ Asking(g)' = Asking(g) /\ Tx(g)' = Tx(g)
  BY <1>1 DEF Applied, Asking, Tx
<1>5. KeepsInv'
  BY <1>1, <1>3, <1>4 DEF ClaimInv, KeepsInv, Keeps, Guarded, Running
<1>6. k # NoCommand => /\ db.receipt[k] = NoTx /\ (lock # NoHost => work.receipt[k] = NoTx)
                       /\ \A g \in Host \ {h} : claimed[g] # k
  <2>1. SUFFICES ASSUME k # NoCommand
                 PROVE  /\ db.receipt[k] = NoTx /\ (lock # NoHost => work.receipt[k] = NoTx)
                        /\ \A g \in Host \ {h} : claimed[g] # k
    OBVIOUS
  <2>2. k \in Command /\ (lock # NoHost => Keeps(work, db)) /\ lock \in Host \cup {NoHost}
    BY <1>2, <2>1 DEF ClaimInv, KeepsInv, Typed, TypeOK
  <2>3. \A g \in Host \ {h} : claimed[g] # k /\ (lock = g => work.receipt[k] = db.receipt[k])
    BY <1>1, <2>1 DEF HoldsReceipt
  <2>4. QED BY <1>1, <2>1, <2>2, <2>3, SqlAssumption DEF View, Keeps
<1>7. ASSUME NEW g \in Host PROVE ClaimOf(g)' /\ OwnReceipts(g)'
  <2>1. ClaimOf(g) /\ OwnReceipts(g)
    BY DEF ClaimInv
  <2>2. OwnReceipts(g)'
    BY <1>1, <2>1 DEF OwnReceipts
  <2>3. ClaimOf(h)'
    <3>1. ~ Writing(h)'
      BY <1>3 DEF Writing
    <3>2. db' = db /\ work' = work /\ lock' = lock
      BY <1>1
    <3>3. \A g_ \in Host \ {h} : claimed'[g_] = claimed'[h] => claimed'[h] = NoCommand
      BY <1>3, <1>6
    <3>4. QED BY <1>3, <1>6, <1>9, <3>1, <3>2, <3>3 DEF ClaimOf
  <2>4. g # h => ClaimOf(g)'
    BY <1>1, <1>3, <1>4, <1>6, <2>1 DEF ClaimOf, Writing
  <2>5. QED BY <2>2, <2>3, <2>4
<1>8. QED BY <1>5, <1>7 DEF ClaimInv

\* The view that takes the position, with the receipt of its transact.
LEMMA PositionIs ==
  ASSUME Typed, ClaimInv, NEW h \in Host, NextPosition(h)
  PROVE  /\ Running(h) /\ pc[h] = "position" /\ ~ Writing(h) /\ Writing(h)'
         /\ \A g \in Host \ {h} : pc'[g] = pc[g]
         /\ claimed[h] = Asking(h).command
         /\ lock \in {NoHost, h} /\ lock' = h
         /\ UNCHANGED <<engine, db, clock, asked, result, instant, claimed, save>>
         /\ \A k \in Command : work'.receipt[k] = IF k = claimed[h] THEN Tx(h) ELSE View(h).receipt[k]
         /\ claimed[h] # NoCommand => claimed[h] \in Command /\ View(h).receipt[claimed[h]] = NoTx
         /\ work'.facts = View(h).facts /\ work'.journal = View(h).journal
         /\ work'.position = View(h).position + 1
         /\ View(h) = IF lock = h THEN work ELSE db
<1>1. /\ pc[h] = "position" /\ lock \in {NoHost, h} /\ lock' = h
      /\ work' = WithNextPosition(Claimed(h))
      /\ UNCHANGED <<engine, db, clock, asked, result, instant, claimed, save>>
      /\ pc'[h] \in {"enforce", "ops"}
      /\ \A g \in Host \ {h} : pc'[g] = pc[g]
  BY DEF NextPosition, Typed, TypeOK
<1>2. ClaimOf(h)
  BY DEF ClaimInv
<1>3. claimed[h] = Asking(h).command /\ claimed[h] \in Command \cup {NoCommand} /\ NoCommand \notin Command
  BY <1>1, <1>2, StoreAssumption DEF ClaimOf, Typed, TypeOK
<1>4. claimed[h] # NoCommand => View(h).receipt[claimed[h]] = NoTx
  BY <1>1, <1>2, SqlAssumption DEF ClaimOf, Writing, View
<1>5. View(h) \in Database
  BY DEF View, Typed, TypeOK
<1>6. /\ Claimed(h).facts = View(h).facts /\ Claimed(h).journal = View(h).journal
      /\ Claimed(h).position = View(h).position /\ Claimed(h) \in [position : Nat, receipt : [Command -> TxId \cup {NoTx}], facts : [TripleId -> Fact \cup {NoFact}], journal : SUBSET Envelope]
      /\ \A k \in Command : Claimed(h).receipt[k] = IF k = claimed[h] THEN Tx(h) ELSE View(h).receipt[k]
  <2>1. Tx(h) \in TxId
    BY <1>1, RunningTransact DEF Running
  <2>2. QED BY <1>3, <1>5, <2>1 DEF Claimed, WithReceipt, Database
<1>7. /\ work'.facts = Claimed(h).facts /\ work'.journal = Claimed(h).journal
      /\ work'.receipt = Claimed(h).receipt /\ work'.position = Claimed(h).position + 1
  BY <1>1, <1>6 DEF WithNextPosition
<1>8. QED BY <1>1, <1>3, <1>4, <1>6, <1>7 DEF Running, Writing, View

LEMMA PositionKeepsClaims == ASSUME Typed, ClaimInv, NEW h \in Host, NextPosition(h) PROVE ClaimInv'
<1> USE PositionIs
<1>1. \A g \in Host : Applied(g)' = Applied(g) /\ Asking(g)' = Asking(g) /\ Tx(g)' = Tx(g)
  <2>1. result' = result /\ asked' = asked
    OBVIOUS
  <2> QED BY ONLY <2>1 DEF Applied, Asking, Tx
<1>2. Keeps(View(h), db) /\ NoHost \notin Host
  BY SqlAssumption DEF ClaimInv, KeepsInv, View, Keeps
<1>3. Keeps(work', db)
  BY <1>2, StoreAssumption DEF Keeps
<1>4. KeepsInv'
  <2>1. ASSUME NEW g \in Host, Guarded(g)' PROVE Keeps(work, save)' /\ Keeps(save, db)'
    <3>1. g = h /\ Applied(h) # {}
      BY <1>1, <2>1 DEF Guarded
    <3>2. lock = h /\ Guarded(h)
      BY <3>1 DEF Typed, ProgressInv, Guarded
    <3>3. Keeps(work, save) /\ Keeps(save, db)
      BY <3>2 DEF ClaimInv, KeepsInv
    <3>4. QED BY <3>2, <3>3, StoreAssumption DEF Keeps
  <2>2. QED BY <1>3, <2>1 DEF KeepsInv, Keeps
<1>5. ASSUME NEW g \in Host PROVE ClaimOf(g)' /\ OwnReceipts(g)'
  <2>1. ClaimOf(g) /\ OwnReceipts(g) /\ OwnReceipts(h) /\ claimed[g] \in Command \cup {NoCommand}
    BY DEF ClaimInv, Typed, TypeOK
  <2>2. CASE g = h
    <3>1. ClaimOf(h)'
      BY <1>1, <2>1, <2>2 DEF ClaimOf, Writing
    <3>2. ASSUME NEW k \in Command
          PROVE \/ work'.receipt[k] = db.receipt[k]
                \/ \E n \in DOMAIN asked[h] : work'.receipt[k] = <<h, n>> /\ asked[h][n].command = k
      <4>1. CASE k = claimed[h]
        BY <4>1, RunningTransact DEF Tx, Asking
      <4>2. CASE k # claimed[h]
        BY <2>1, <4>2 DEF OwnReceipts
      <4>3. QED BY <4>1, <4>2
    <3>3. QED BY <2>2, <3>1, <3>2 DEF OwnReceipts
  <2>3. CASE g # h
    <3>1. ~ Writing(g) /\ ~ Writing(g)'
      BY <1>2, <2>3 DEF Typed, ProgressInv, Writing
    <3>2. claimed[g] # NoCommand => claimed[g] # claimed[h] /\ View(h).receipt[claimed[g]] = NoTx
      BY <1>2, <2>1, <2>3, <3>1 DEF ClaimOf
    <3>3. ClaimOf(g)'
      BY <1>1, <2>1, <2>3, <3>1, <3>2 DEF ClaimOf, Writing
    <3>4. QED BY <2>3, <3>3 DEF OwnReceipts
  <2>4. QED BY <2>2, <2>3
<1>6. QED BY <1>4, <1>5 DEF ClaimInv

LEMMA FinishKeepsClaims == ASSUME Typed, ClaimInv, NEW h \in Host, Finish(h) PROVE ClaimInv'
<1>1. /\ lock = h /\ lock' = lock /\ db' = db /\ asked' = asked /\ work'.receipt = work.receipt
      /\ pc'[h] = "open" /\ claimed'[h] = NoCommand
      /\ \A g \in Host \ {h} : pc'[g] = pc[g] /\ claimed'[g] = claimed[g]
  <2>1. work'.receipt = work.receipt
    <3>1. work \in Database
      BY DEF Typed, TypeOK
    <3>2. WithEnvelope(work, EnvelopeOf(h)).receipt = work.receipt
      BY ONLY <3>1 DEF WithEnvelope, Database
    <3> QED BY <3>2, FinishIs
  <2>2. QED BY <2>1, FinishIs DEF Finish, FinishAs, Typed, TypeOK
<1>2. \A g \in Host : Asking(g)' = Asking(g) /\ Tx(g)' = Tx(g) /\ ~ Guarded(g)'
  BY <1>1 DEF Asking, Tx, Guarded, Running
<1>3. KeepsInv'
  BY <1>1, <1>2 DEF ClaimInv, KeepsInv, Keeps
<1>4. ASSUME NEW g \in Host PROVE ClaimOf(g)' /\ OwnReceipts(g)'
  <2>1. ClaimOf(g) /\ OwnReceipts(g)
    BY DEF ClaimInv
  <2>2. ClaimOf(g)'
    BY <1>1, <1>2, <2>1 DEF ClaimOf, Writing
  <2>3. OwnReceipts(g)'
    BY <1>1, <2>1 DEF OwnReceipts
  <2>4. QED BY <2>2, <2>3
<1>5. QED BY <1>3, <1>4 DEF ClaimInv

\* What becomes of the views when a transact fails.
LEMMA FailIs ==
  ASSUME Typed, NEW h \in Host, Fails(h)
  PROVE  /\ Running(h) /\ UNCHANGED <<engine, db, clock, asked>>
         /\ pc'[h] = "open" /\ claimed'[h] = NoCommand
         /\ \A g \in Host \ {h} : pc'[g] = pc[g] /\ claimed'[g] = claimed[g] /\ instant'[g] = instant[g]
         /\ \/ lock # h /\ UNCHANGED <<lock, work, save>>
            \/ lock = h /\ Applied(h) = {} /\ lock' = NoHost
            \/ Guarded(h) /\ work' = save /\ lock' = lock
         /\ \E o \in Failure :
              /\ o = "CommandAlreadyCommitted" => AlreadyCommitted(h)
              /\ \A g \in Host :
                   /\ DOMAIN result'[g] = DOMAIN result[g]
                   /\ \A n \in DOMAIN result[g] :
                        result'[g][n] = IF g = h /\ n = Len(asked[h]) THEN o ELSE result[g][n]
         /\ \A g \in Host : Applied(g)' = Applied(g)
<1>1. PICK o : /\ o \in Failure /\ Running(h) /\ Fail(h, o)
               /\ o = "CommandAlreadyCommitted" => AlreadyCommitted(h)
  BY DEF Fails, AlreadyCommitted, Failure
<1>2. o \in Result /\ o \notin {"applied", "running"} /\ Answer(h, o)
  BY <1>1 DEF Failure, Result, Fail
<1>3. \A g \in Host :
        /\ DOMAIN result'[g] = DOMAIN result[g]
        /\ \A n \in DOMAIN result[g] :
             result'[g][n] = IF g = h /\ n = Len(asked[h]) THEN o ELSE result[g][n]
  BY <1>1, <1>2, AnswerIs
<1>4. \A g \in Host : Applied(g)' = Applied(g)
  <2>1. result[h][Len(asked[h])] = "running"
    BY <1>1, RunningTransact
  <2>2. QED BY <1>2, <1>3, <2>1 DEF Applied
<1>5. /\ UNCHANGED <<engine, db, clock, asked>>
      /\ pc'[h] = "open" /\ claimed'[h] = NoCommand
      /\ \A g \in Host \ {h} : pc'[g] = pc[g] /\ claimed'[g] = claimed[g] /\ instant'[g] = instant[g]
  BY <1>1 DEF Fail, Typed, TypeOK
<1>6. \/ lock # h /\ UNCHANGED <<lock, work, save>>
      \/ lock = h /\ Applied(h) = {} /\ lock' = NoHost
      \/ Guarded(h) /\ work' = save /\ lock' = lock
  BY <1>1 DEF Fail, Unlock, Guarded
<1>7. QED BY <1>1, <1>3, <1>4, <1>5, <1>6

LEMMA FailKeepsClaims == ASSUME Typed, ClaimInv, NEW h \in Host, Fails(h) PROVE ClaimInv'
<1>1. /\ db' = db /\ asked' = asked
      /\ pc'[h] = "open" /\ claimed'[h] = NoCommand
      /\ \A g \in Host \ {h} : pc'[g] = pc[g] /\ claimed'[g] = claimed[g]
      /\ \A g \in Host : Applied(g)' = Applied(g)
      /\ NoHost \notin Host
  BY FailIs, SqlAssumption
<1>2. \A g \in Host : /\ Asking(g)' = Asking(g) /\ Tx(g)' = Tx(g)
                      /\ Writing(g)' = (Writing(g) /\ g # h) /\ Running(g)' = (Running(g) /\ g # h)
  BY <1>1 DEF Asking, Tx, Writing, Running
<1>3. \A g \in Host : ClaimOf(g) /\ OwnReceipts(g) /\ (Guarded(g) => Keeps(work, save) /\ Keeps(save, db))
  BY DEF ClaimInv, KeepsInv
<1>4. lock # NoHost => Keeps(work, db)
  BY DEF ClaimInv, KeepsInv
<1>5. \A g \in Host : claimed[g] \in Command \cup {NoCommand}
  BY DEF Typed, TypeOK
<1>6. \A g \in Host : Writing(g) => lock = g
  BY DEF Typed, ProgressInv
<1>7. CASE lock # h /\ UNCHANGED <<lock, work, save>>
  <2>1. KeepsInv'
    BY <1>1, <1>2, <1>3, <1>4, <1>7 DEF KeepsInv, Keeps, Guarded
  <2>2. \A g \in Host : ClaimOf(g)' /\ OwnReceipts(g)'
    BY <1>1, <1>2, <1>3, <1>7 DEF ClaimOf, OwnReceipts
  <2>3. QED BY <2>1, <2>2 DEF ClaimInv
<1>8. CASE lock = h /\ lock' = NoHost
  <2>1. KeepsInv'
    BY <1>1, <1>8 DEF KeepsInv, Guarded
  <2>2. \A g \in Host : ClaimOf(g)' /\ OwnReceipts(g)'
    BY <1>1, <1>2, <1>3, <1>6, <1>8 DEF ClaimOf, OwnReceipts
  <2>3. QED BY <2>1, <2>2 DEF ClaimInv
<1>9. CASE Guarded(h) /\ work' = save /\ lock' = lock
  <2>1. lock = h /\ Keeps(work, save) /\ Keeps(save, db)
    BY <1>3, <1>9 DEF Guarded
  <2>2. KeepsInv'
    BY <1>1, <1>2, <1>9, <2>1 DEF KeepsInv, Keeps, Guarded
  <2>3. ASSUME NEW g \in Host PROVE ClaimOf(g)'
    <3>1. g # h => ~ Writing(g)
      BY <1>6, <2>1
    <3>2. g # h /\ claimed[g] # NoCommand => save.receipt[claimed[g]] = NoTx
      BY <1>1, <1>3, <1>5, <2>1, <3>1 DEF ClaimOf, Keeps
    <3>3. QED BY <1>1, <1>2, <1>3, <1>9, <3>1, <3>2 DEF ClaimOf
  <2>4. ASSUME NEW g \in Host PROVE OwnReceipts(g)'
    <3>1. CASE g = h
      <4>1. \A k \in Command : save.receipt[k] = db.receipt[k] \/ save.receipt[k] = work.receipt[k]
        BY <2>1 DEF Keeps
      <4>2. QED BY <1>1, <1>3, <1>9, <2>1, <3>1, <4>1 DEF OwnReceipts
    <3>2. CASE g # h
      BY <1>9, <2>1, <3>2 DEF OwnReceipts
    <3>3. QED BY <3>1, <3>2
  <2>5. QED BY <2>2, <2>3, <2>4 DEF ClaimInv
<1>10. QED BY <1>7, <1>8, <1>9, FailIs

\* What becomes of the views when a host transaction ends.
LEMMA EndIs ==
  ASSUME Typed, NEW h \in Host, Ends(h)
  PROVE  /\ UNCHANGED <<engine, clock, asked>>
         /\ pc[h] # "idle" /\ pc'[h] = "idle" /\ claimed'[h] = NoCommand
         /\ \A g \in Host \ {h} : pc'[g] = pc[g] /\ claimed'[g] = claimed[g] /\ instant'[g] = instant[g]
         /\ \/ lock # h /\ UNCHANGED <<db, lock, work, save>>
            \/ lock = h /\ lock' = NoHost
         /\ \E verdict \in {"committed", "rolled back"} :
              /\ Decided(h, verdict)
              /\ IF verdict = "committed" THEN pc[h] = "open" /\ (lock = h => db' = work) ELSE db' = db
         /\ \A g \in Host : DOMAIN result'[g] = DOMAIN result[g]
         /\ Applied(h)' = {} /\ \A g \in Host \ {h} : Applied(g)' = Applied(g)
<1>1. PICK verdict : /\ verdict \in {"committed", "rolled back"}
                     /\ Close(h, IF verdict = "committed" /\ lock = h THEN work ELSE db, verdict)
                     /\ IF verdict = "committed" THEN pc[h] = "open" ELSE pc[h] # "idle"
  <2>1. CASE HostCommit(h)
    BY <2>1 DEF HostCommit
  <2>2. CASE HostRollback(h)
    BY <2>2 DEF HostRollback
  <2>3. QED BY <2>1, <2>2 DEF Ends
<1>2. verdict \in Result /\ verdict # "applied"
  BY <1>1 DEF Result
<1>3. Decided(h, verdict) /\ \A g \in Host : DOMAIN result'[g] = DOMAIN result[g]
  BY <1>1, <1>2, CloseIs
<1>4. Applied(h)' = {} /\ \A g \in Host \ {h} : Applied(g)' = Applied(g)
  BY <1>2, <1>3 DEF Decided, Applied
<1>5. /\ UNCHANGED <<engine, clock, asked>>
      /\ pc' = [pc EXCEPT ![h] = "idle"] /\ claimed' = [claimed EXCEPT ![h] = NoCommand]
      /\ instant' = [instant EXCEPT ![h] = 0]
      /\ db' = IF verdict = "committed" /\ lock = h THEN work ELSE db
      /\ IF lock = h THEN Unlock ELSE UNCHANGED <<lock, work, save, holder>>
  BY <1>1 DEF Close
<1>6. /\ pc'[h] = "idle" /\ claimed'[h] = NoCommand
      /\ \A g \in Host \ {h} : pc'[g] = pc[g] /\ claimed'[g] = claimed[g] /\ instant'[g] = instant[g]
  BY <1>5 DEF Typed, TypeOK
<1>7. \/ lock # h /\ UNCHANGED <<db, lock, work, save>>
      \/ lock = h /\ lock' = NoHost
  BY <1>5 DEF Unlock
<1>8. IF verdict = "committed" THEN pc[h] = "open" /\ (lock = h => db' = work) ELSE db' = db
  BY <1>1, <1>5
<1>9. QED BY <1>1, <1>3, <1>4, <1>5, <1>6, <1>7, <1>8

LEMMA EndKeepsClaims == ASSUME Typed, ClaimInv, NEW h \in Host, Ends(h) PROVE ClaimInv'
<1>1. /\ asked' = asked
      /\ pc'[h] = "idle" /\ claimed'[h] = NoCommand
      /\ \A g \in Host \ {h} : pc'[g] = pc[g] /\ claimed'[g] = claimed[g] /\ Applied(g)' = Applied(g)
      /\ Applied(h)' = {} /\ NoHost \notin Host
  BY EndIs, SqlAssumption
<1>2. \A g \in Host : /\ Asking(g)' = Asking(g) /\ Tx(g)' = Tx(g)
                      /\ Writing(g)' = (Writing(g) /\ g # h) /\ Running(g)' = (Running(g) /\ g # h)
  BY <1>1 DEF Asking, Tx, Writing, Running
<1>3. \A g \in Host : ClaimOf(g) /\ OwnReceipts(g) /\ (Guarded(g) => Keeps(work, save) /\ Keeps(save, db))
  BY DEF ClaimInv, KeepsInv
<1>4. lock # NoHost => Keeps(work, db)
  BY DEF ClaimInv, KeepsInv
<1>5. \A g \in Host : Writing(g) => lock = g
  BY DEF Typed, ProgressInv
<1>6. CASE lock # h /\ UNCHANGED <<db, lock, work, save>>
  <2>1. KeepsInv'
    BY <1>1, <1>2, <1>3, <1>4, <1>6 DEF KeepsInv, Keeps, Guarded
  <2>2. \A g \in Host : ClaimOf(g)' /\ OwnReceipts(g)'
    BY <1>1, <1>2, <1>3, <1>6, ZenonT(60) DEF ClaimOf, OwnReceipts
  <2>3. QED BY <2>1, <2>2 DEF ClaimInv
<1>7. CASE lock = h /\ lock' = NoHost
  <2>1. db' = db \/ db' = work
    BY <1>7, EndIs
  <2>2. KeepsInv'
    BY <1>1, <1>7 DEF KeepsInv, Guarded
  <2>3. \A g \in Host : ClaimOf(g)' /\ OwnReceipts(g)'
    BY <1>1, <1>2, <1>3, <1>5, <1>7, <2>1 DEF ClaimOf, OwnReceipts
  <2>4. QED BY <2>2, <2>3 DEF ClaimInv
<1>8. QED BY <1>6, <1>7, EndIs

LEMMA ClaimInit == Init => ClaimInv
BY SqlAssumption DEF Init, ClaimInv, KeepsInv, ClaimOf, OwnReceipts, Guarded, Writing

LEMMA NextKeepsClaims == Typed /\ ClaimInv /\ [Next]_vars => ClaimInv'
<1> SUFFICES ASSUME Typed, ClaimInv, [Next]_vars PROVE ClaimInv'
  OBVIOUS
<1>1. ASSUME NEW h \in Host, Step(h) PROVE ClaimInv'
  BY <1>1, StepIs, MovesAreQuiet, QuietKeepsClaims, EndKeepsClaims, AskKeepsClaims, ClaimKeepsClaims,
     PositionKeepsClaims, FinishKeepsClaims, FailKeepsClaims
<1>2. ASSUME Tick \/ UNCHANGED vars PROVE ClaimInv'
  <2>1. Quiet
    BY <1>2 DEF Tick, vars, holder, Quiet, Applied, Running, Writing
  <2>2. QED BY <2>1, QuietKeepsClaims
<1>3. QED BY <1>1, <1>2 DEF Next, Finished
-----------------------------------------------------------------------------
(* All or nothing *)

LEMMA FactsLeaveOthersTraceless ==
  ASSUME NEW D \in Database, NEW id \in TripleId, id \notin Ids(D), NEW e, NEW now,
         NEW tx, NEW c \in TxId, c # tx, Traceless(D, c)
  PROVE  Traceless(WithFact(D, id, e, tx, now), c)
<1> DEFINE E == WithFact(D, id, e, tx, now)
<1>1. E.journal = D.journal /\ E.receipt = D.receipt
  BY DEF WithFact, Database
<1>2. \A i \in TripleId : E.facts[i] = IF i = id THEN NewFact(D, e, tx, now) ELSE D.facts[i]
  BY DEF WithFact, Database
<1>3. NewFact(D, e, tx, now).tx # c /\ NewFact(D, e, tx, now).retractTx # c
  BY StoreAssumption DEF NewFact
<1> HIDE DEF E
<1>4. \A i \in Ids(E) : E.facts[i].tx # c /\ E.facts[i].retractTx # c
  BY <1>2, <1>3 DEF Ids, Traceless
<1>5. Traceless(E, c)
  BY <1>1, <1>4 DEF Traceless
<1>6. QED BY <1>5 DEF E

LEMMA RetractionsLeaveOthersTraceless ==
  ASSUME NEW D \in Database, NEW ids \in SUBSET Ids(D), NEW now,
         NEW tx, NEW c \in TxId, c # tx, Traceless(D, c)
  PROVE  Traceless(WithRetracted(D, ids, tx, now), c)
<1> DEFINE E == WithRetracted(D, ids, tx, now)
<1>1. E.journal = D.journal /\ E.receipt = D.receipt
  BY DEF WithRetracted, Database
<1>2. \A i \in TripleId : E.facts[i] = IF i \in ids THEN Retired(D, D.facts[i], tx, now) ELSE D.facts[i]
  BY DEF WithRetracted, Database
<1>3. ASSUME NEW i \in ids
      PROVE  Retired(D, D.facts[i], tx, now).tx # c /\ Retired(D, D.facts[i], tx, now).retractTx # c
  <2>1. D.facts[i] \in Fact /\ D.facts[i].tx # c
    BY DEF Ids, Database, Traceless
  <2>2. QED BY <2>1 DEF Retired, Fact
<1> HIDE DEF E
<1>4. \A i \in Ids(E) : E.facts[i].tx # c /\ E.facts[i].retractTx # c
  BY <1>2, <1>3 DEF Ids, Traceless
<1>5. Traceless(E, c)
  BY <1>1, <1>4 DEF Traceless
<1>6. QED BY <1>5 DEF E

\* The requests of what is committed or applied stay.
LEMMA Known ==
  ASSUME Typed, NEW c \in Calls,
         c \in Committed \/ \E h \in Host : c \in AppliedBy(h)
  PROVE  /\ c[1] \in Host /\ c[2] \in DOMAIN asked[c[1]] /\ c \in TxId
         /\ RequestOf(c).command \in Command \cup {NoCommand}
<1>1. c[1] \in Host /\ c \in TxId
  BY CallsAre
<1>2. c[2] \in DOMAIN result[c[1]]
  BY DEF Committed, CallsWith, AppliedBy, Applied
<1>3. asked[c[1]] \in Seq(Requests) /\ result[c[1]] \in Seq(Result) /\ Len(result[c[1]]) = Len(asked[c[1]])
  BY <1>1 DEF Typed, TypeOK, ProgressInv
<1>4. c[2] \in DOMAIN asked[c[1]]
  BY <1>2, <1>3
<1>5. RequestOf(c) \in Request
  BY <1>1, <1>4, RequestType DEF Typed, RequestOf
<1>6. QED BY <1>1, <1>4, <1>5 DEF Request

\* Steps that change no view and end no transact.
LEMMA IdleKeepsPublished ==
  ASSUME Typed, PublishInv, UNCHANGED <<db, work, save, asked, result, lock>>,
         \A g \in Host : Running(g)' => Running(g), \A g \in Host : Writing(g) => Writing(g)'
  PROVE  PublishInv'
<1>1. /\ Committed' = Committed
      /\ \A g \in Host : AppliedBy(g)' = AppliedBy(g) /\ Tx(g)' = Tx(g) /\ Applied(g)' = Applied(g)
      /\ \A c : RequestOf(c)' = RequestOf(c)
  BY DEF Committed, CallsWith, AppliedBy, Applied, Tx, RequestOf
<1>2. \A c : Whole(work, c)' = Whole(work, c) /\ Traceless(work, c)' = Traceless(work, c)
  BY <1>1 DEF Whole, Traceless, Ids
<1>3. \A c : Whole(db, c)' = Whole(db, c) /\ Traceless(db, c)' = Traceless(db, c)
  BY <1>1 DEF Whole, Traceless, Ids
<1>4. \A c : Whole(save, c)' = Whole(save, c) /\ Traceless(save, c)' = Traceless(save, c)
  BY <1>1 DEF Whole, Traceless, Ids
<1>5. Publishes(db, Committed)'
  BY <1>1, <1>3 DEF PublishInv, Publishes
<1>6. \A g \in Host : lock' = g => HolderPublishes(g)'
  BY <1>1, <1>2 DEF PublishInv, HolderPublishes
<1>7. \A g \in Host : Guarded(g)' => Publishes(save, Committed \cup AppliedBy(g))'
  BY <1>1, <1>4 DEF PublishInv, Publishes, Guarded
<1>8. QED BY <1>5, <1>6, <1>7 DEF PublishInv

LEMMA WriteKeepsPublished ==
  ASSUME Typed, PublishInv, NEW h \in Host, AssertFact(h) \/ Retracts(h)
  PROVE  PublishInv'
<1>1. /\ Writing(h) /\ lock = h /\ lock' = h /\ UNCHANGED <<db, save, asked, result, pc>>
      /\ work \in Database /\ Tx(h) \in TxId
  BY RunningTransact DEF AssertFact, Retracts, RetractAll, OpDone, AtOp, Writing, Running, Typed,
                         TypeOK, ProgressInv
<1>2. /\ Committed' = Committed
      /\ \A g \in Host : /\ AppliedBy(g)' = AppliedBy(g) /\ Tx(g)' = Tx(g) /\ Applied(g)' = Applied(g)
                         /\ Writing(g)' = Writing(g) /\ Running(g)' = Running(g)
      /\ \A c : RequestOf(c)' = RequestOf(c)
  BY <1>1 DEF Committed, CallsWith, AppliedBy, Applied, Tx, RequestOf, Writing, Running
<1>3. /\ work'.journal = work.journal /\ work'.receipt = work.receipt
      /\ \A c \in TxId : c # Tx(h) /\ Traceless(work, c) => Traceless(work', c)
  <2>1. CASE AssertFact(h)
    <3>1. FreshId(work) \in TripleId /\ FreshId(work) \notin Ids(work)
      BY <2>1 DEF AssertFact, HasFreshId, FreshId
    <3>2. work' = WithFact(work, FreshId(work), CurrentOp(h).entity, Tx(h), instant[h])
      BY <2>1 DEF AssertFact
    <3>3. QED BY <1>1, <3>1, <3>2, FactsLeaveOthersTraceless DEF WithFact, Database
  <2>2. CASE Retracts(h)
    <3>1. PICK ids \in SUBSET Ids(work) : work' = WithRetracted(work, ids, Tx(h), instant[h])
      BY <2>2 DEF Retracts, RetractAll
    <3>2. QED BY <1>1, <3>1, RetractionsLeaveOthersTraceless DEF WithRetracted, Database
  <2>3. QED BY <2>1, <2>2
<1>4. Publishes(db, Committed)'
  BY <1>1, <1>2 DEF PublishInv, Publishes, Whole, Traceless, Ids
<1>5. HolderPublishes(h)'
  <2>1. SUFFICES ASSUME NEW c \in Calls
                 PROVE  IF c \in Committed \cup AppliedBy(h) THEN Whole(work, c)'
                        ELSE Traceless(work, c)' \/ c = Tx(h)
    BY <1>1, <1>2 DEF HolderPublishes
  <2>2. CASE c \in Committed \cup AppliedBy(h)
    BY <1>1, <1>2, <1>3, <2>2 DEF PublishInv, HolderPublishes, Whole
  <2>3. CASE c \notin Committed \cup AppliedBy(h)
    <3>1. Traceless(work, c)' = Traceless(work', c)
      BY DEF Traceless, Ids
    <3>2. QED BY <1>1, <1>3, <2>3, <3>1, CallsAre DEF PublishInv, HolderPublishes
  <2>4. QED BY <2>2, <2>3
<1>6. \A g \in Host : Guarded(g)' => Publishes(save, Committed \cup AppliedBy(g))'
  BY <1>1, <1>2 DEF PublishInv, Publishes, Guarded, Whole, Traceless, Ids
<1>7. QED BY <1>1, <1>4, <1>5, <1>6 DEF PublishInv

LEMMA AskKeepsPublished == ASSUME Typed, PublishInv, NEW h \in Host, Asks(h) PROVE PublishInv'
<1>1. PICK r \in Requests : Reject(h, r) \/ Begin(h, r)
  BY DEF Asks
<1>2. PICK o \in Result :
        /\ result' = [result EXCEPT ![h] = Append(@, o)] /\ o # "applied" /\ o # "committed"
        /\ asked' = [asked EXCEPT ![h] = Append(@, r)]
        /\ pc' = pc \/ pc' = [pc EXCEPT ![h] = "claim"]
        /\ save' = save \/ (lock = h /\ save' = work)
        /\ pc' = pc \/ lock # h \/ save' = work
        /\ pc[h] = "open" /\ UNCHANGED <<db, work, lock>>
  BY <1>1 DEF Reject, Begin, Result, Failure
<1>3. /\ asked[h] \in Seq(Requests) /\ result[h] \in Seq(Result) /\ Len(asked[h]) = Len(result[h])
      /\ \A n \in DOMAIN asked[h] : n \in DOMAIN asked'[h] /\ asked'[h][n] = asked[h][n]
      /\ DOMAIN result'[h] = DOMAIN result[h] \cup {Len(result[h]) + 1}
      /\ \A n \in DOMAIN result[h] : result'[h][n] = result[h][n]
      /\ result'[h][Len(result[h]) + 1] = o
      /\ \A g \in Host \ {h} : asked'[g] = asked[g] /\ pc'[g] = pc[g] /\ result'[g] = result[g]
      /\ pc'[h] \in {"open", "claim"}
  BY <1>2 DEF Typed, TypeOK, ProgressInv
<1>4. /\ \A g \in Host : Applied(g)' = Applied(g) /\ AppliedBy(g)' = AppliedBy(g)
  BY <1>2, <1>3 DEF Applied, AppliedBy
<1>5. Committed' = Committed
  BY <1>2, <1>3, CallsAre DEF Committed, CallsWith
<1>6. \A c \in Calls : c \in Committed \/ (\E g \in Host : c \in AppliedBy(g)) => RequestOf(c)' = RequestOf(c)
  BY <1>3, Known DEF RequestOf
<1>7. /\ \A g \in Host : Writing(g)' = Writing(g) /\ (g # h => Tx(g)' = Tx(g)) /\ (g # h => Running(g)' = Running(g))
      /\ ~ Writing(h)
  BY <1>2, <1>3 DEF Writing, Tx, Running
<1>8. Publishes(db, Committed)'
  <2>1. \A c \in Calls : c \in Committed => Whole(db, c)'
    BY <1>2, <1>6 DEF PublishInv, Publishes, Whole
  <2>2. \A c \in Calls : c \notin Committed => Traceless(db, c)'
    BY <1>2 DEF PublishInv, Publishes, Traceless, Ids
  <2>3. QED BY <1>5, <2>1, <2>2 DEF Publishes
<1>9. ASSUME NEW g \in Host, lock' = g PROVE HolderPublishes(g)'
  <2>1. HolderPublishes(g)
    BY <1>2, <1>9 DEF PublishInv
  <2>2. \A c \in Calls : c \in Committed \cup AppliedBy(g) => Whole(work, c)'
    BY <1>2, <1>6, <2>1 DEF HolderPublishes, Whole
  <2>3. \A c \in Calls : c \notin Committed \cup AppliedBy(g) => Traceless(work, c)' \/ (Writing(g)' /\ c = Tx(g)')
    BY <1>2, <1>7, <2>1 DEF HolderPublishes, Traceless, Ids
  <2>4. QED BY <1>4, <1>5, <2>2, <2>3 DEF HolderPublishes
<1>10. ASSUME NEW g \in Host, Guarded(g)' PROVE Publishes(save, Committed \cup AppliedBy(g))'
  <2>1. lock = g /\ Applied(g) # {}
    BY <1>2, <1>4, <1>10 DEF Guarded
  <2>2. Publishes(save', Committed \cup AppliedBy(g))
    <3>1. CASE save' = work /\ g = h
      BY <1>2, <1>7, <2>1, <3>1 DEF PublishInv, HolderPublishes, Publishes
    <3>2. CASE ~ (save' = work /\ g = h)
      <4>1. Guarded(g) /\ save' = save
        BY <1>2, <1>3, <1>10, <2>1, <3>2 DEF Guarded, Running
      <4>2. QED BY <4>1 DEF PublishInv
    <3>3. QED BY <3>1, <3>2
  <2>3. \A c \in Calls : c \in Committed \cup AppliedBy(g) => Whole(save, c)'
    BY <1>6, <2>2 DEF Publishes, Whole
  <2>4. \A c \in Calls : c \notin Committed \cup AppliedBy(g) => Traceless(save, c)'
    BY <2>2 DEF Publishes, Traceless, Ids
  <2>5. QED BY <1>4, <1>5, <2>3, <2>4 DEF Publishes
<1>11. QED BY <1>8, <1>9, <1>10 DEF PublishInv

LEMMA PositionKeepsPublished ==
  ASSUME Typed, ClaimInv, PublishInv, NEW h \in Host, NextPosition(h) PROVE PublishInv'
<1> USE PositionIs
<1>1. /\ Committed' = Committed
      /\ \A g \in Host : AppliedBy(g)' = AppliedBy(g) /\ Applied(g)' = Applied(g) /\ Tx(g)' = Tx(g)
      /\ \A c : RequestOf(c)' = RequestOf(c)
  <2>1. asked' = asked /\ result' = result
    OBVIOUS
  <2>2. QED BY <2>1 DEF Committed, CallsWith, AppliedBy, Applied, Tx, RequestOf
<1>2. \A c \in Calls : IF c \in Committed \cup AppliedBy(h) THEN Whole(View(h), c) ELSE Traceless(View(h), c)
  <2>1. CASE lock = h
    BY <2>1 DEF PublishInv, HolderPublishes
  <2>2. CASE lock # h
    <3>1. AppliedBy(h) = {}
      BY <2>2 DEF Typed, ProgressInv, AppliedBy
    <3>2. QED BY <2>2, <3>1 DEF PublishInv, Publishes
  <2>3. QED BY <2>1, <2>2
<1>3. Publishes(db, Committed)'
  BY <1>1 DEF PublishInv, Publishes, Whole, Traceless, Ids
<1>4. ASSUME NEW c \in Calls, c \in Committed \cup AppliedBy(h) PROVE Whole(work, c)'
  <2>1. Whole(View(h), c) /\ c \in TxId /\ RequestOf(c).command \in Command \cup {NoCommand}
    BY <1>2, <1>4, Known
  <2>2. RequestOf(c).command # NoCommand => View(h).receipt[RequestOf(c).command] # NoTx
    BY <2>1, StoreAssumption DEF Whole
  <2>3. RequestOf(c).command # NoCommand => work'.receipt[RequestOf(c).command] = c
    BY <2>1, <2>2 DEF Whole
  <2>4. QED BY <1>1, <2>1, <2>3 DEF Whole
<1>5. ASSUME NEW c \in Calls, c # Tx(h), Traceless(View(h), c) PROVE Traceless(work, c)'
  <2>1. \A k \in Command : work'.receipt[k] # c
    BY <1>5 DEF Traceless
  <2>2. Ids(work') = Ids(View(h)) /\ Ids(work)' = Ids(work')
    BY DEF Ids
  <2>3. QED BY <1>5, <2>1, <2>2 DEF Traceless
<1>6. HolderPublishes(h)'
  BY <1>1, <1>2, <1>4, <1>5 DEF HolderPublishes
<1>7. ASSUME NEW g \in Host, Guarded(g)' PROVE Publishes(save, Committed \cup AppliedBy(g))'
  <2>1. g = h /\ Guarded(h)
    BY <1>1, <1>7 DEF Guarded, Typed, ProgressInv
  <2>2. Publishes(save, Committed \cup AppliedBy(h))
    BY <2>1 DEF PublishInv
  <2>3. QED BY <1>1, <2>1, <2>2 DEF Publishes, Whole, Traceless, Ids
<1>8. QED BY <1>3, <1>6, <1>7 DEF PublishInv

LEMMA FinishKeepsPublished ==
  ASSUME Typed, ClaimInv, PublishInv, NEW h \in Host, Finish(h) PROVE PublishInv'
<1> DEFINE n == Len(asked[h])
<1>1. /\ UNCHANGED <<db, asked>> /\ lock = h /\ lock' = h /\ pc'[h] = "open" /\ Writing(h)
      /\ Running(h) /\ ~ Running(h)' /\ ~ Writing(h)'
  <2>1. UNCHANGED <<db, asked>> /\ pc'[h] = "open"
    BY DEF Finish, FinishAs, Typed, TypeOK
  <2>2. QED BY <2>1, FinishIs DEF Running, Writing
<1>2. /\ n \in DOMAIN result[h] /\ result[h][n] = "running" /\ Tx(h) = <<h, n>> /\ Tx(h) \in Calls
      /\ RequestOf(Tx(h)) = Asking(h) /\ Asking(h).command \in Command \cup {NoCommand}
  BY <1>1, RunningTransact DEF Tx
<1>3. Committed' = Committed /\ Tx(h)' = Tx(h) /\ \A c : RequestOf(c)' = RequestOf(c)
  BY <1>1, <1>2, FinishIs, CallsAre DEF Committed, CallsWith, RequestOf, Tx
<1>4. AppliedBy(h)' = AppliedBy(h) \cup {Tx(h)}
  <2>1. Applied(h)' = Applied(h) \cup {n}
    BY <1>2, FinishIs DEF Applied
  <2>2. QED BY <1>2, <2>1 DEF AppliedBy
<1>5. Publishes(db, Committed)'
  BY <1>1, <1>3 DEF PublishInv, Publishes, Whole, Traceless, Ids
<1>6. /\ work'.facts = work.facts /\ work'.receipt = work.receipt
      /\ work'.journal = IF Asking(h).journaled THEN work.journal \cup {EnvelopeOf(h)} ELSE work.journal
      /\ EnvelopeOf(h).tx = Tx(h)
  <2>1. work \in Database /\ EnvelopeOf(h).tx = Tx(h)
    BY DEF EnvelopeOf, Typed, TypeOK
  <2>2. CASE Asking(h).journaled
    BY <2>1, <2>2, FinishIs DEF WithEnvelope, Database
  <2>3. CASE ~ Asking(h).journaled
    BY <2>1, <2>3, FinishIs
  <2>4. QED BY <2>1, <2>2, <2>3
<1>7. Whole(work, Tx(h))'
  <2>1. Asking(h).command # NoCommand => work.receipt[Asking(h).command] = Tx(h)
    BY <1>1 DEF ClaimInv, ClaimOf
  <2>2. Asking(h).journaled => \E env \in work'.journal : env.tx = Tx(h)
    BY <1>6
  <2>3. QED BY <1>2, <1>3, <1>6, <2>1, <2>2 DEF Whole
<1>8. HolderPublishes(h)'
  <2>1. HolderPublishes(h)
    BY <1>1 DEF PublishInv
  <2>2. \A c \in Calls : c \in Committed \cup AppliedBy(h) => Whole(work, c)'
    BY <1>3, <1>6, <2>1 DEF HolderPublishes, Whole
  <2>3. \A c \in Calls : c \notin Committed \cup AppliedBy(h) \cup {Tx(h)} => Traceless(work, c)'
    BY <1>6, <2>1 DEF HolderPublishes, Traceless, Ids
  <2>4. QED BY <1>3, <1>4, <1>7, <2>2, <2>3 DEF HolderPublishes
<1>9. \A g \in Host : ~ Guarded(g)'
  BY <1>1 DEF Guarded
<1>10. QED BY <1>1, <1>5, <1>8, <1>9 DEF PublishInv

LEMMA FailKeepsPublished == ASSUME Typed, PublishInv, NEW h \in Host, Fails(h) PROVE PublishInv'
<1>1. /\ Running(h) /\ UNCHANGED <<db, asked>> /\ pc'[h] = "open"
      /\ \A g \in Host \ {h} : pc'[g] = pc[g]
      /\ \A g \in Host : Applied(g)' = Applied(g) /\ AppliedBy(g)' = AppliedBy(g)
      /\ NoHost \notin Host
  BY FailIs, SqlAssumption DEF AppliedBy
<1>2. \A c : RequestOf(c)' = RequestOf(c)
  BY <1>1 DEF RequestOf
<1>3. Committed' = Committed
  <2>1. PICK o : /\ o \in Failure
                 /\ \A g \in Host :
                      /\ DOMAIN result'[g] = DOMAIN result[g]
                      /\ \A n \in DOMAIN result[g] :
                           result'[g][n] = IF g = h /\ n = Len(asked[h]) THEN o ELSE result[g][n]
    BY FailIs
  <2>2. o # "committed" /\ result[h][Len(asked[h])] = "running"
    BY <1>1, <2>1, RunningTransact DEF Failure
  <2>3. QED BY <2>1, <2>2, CallsAre DEF Committed, CallsWith
<1>4. \A g \in Host : /\ Writing(g)' = (Writing(g) /\ g # h) /\ Running(g)' = (Running(g) /\ g # h)
                      /\ Tx(g)' = Tx(g)
  BY <1>1 DEF Writing, Running, Tx
<1>5. Publishes(db, Committed)'
  BY <1>1, <1>2, <1>3 DEF PublishInv, Publishes, Whole, Traceless, Ids
<1>6. CASE lock # h /\ UNCHANGED <<lock, work, save>>
  <2>1. \A g \in Host : lock' = g => HolderPublishes(g)'
    BY <1>1, <1>2, <1>3, <1>4, <1>6 DEF PublishInv, HolderPublishes, Whole, Traceless, Ids
  <2>2. ASSUME NEW g \in Host, Guarded(g)' PROVE Publishes(save, Committed \cup AppliedBy(g))'
    <3>1. Guarded(g) /\ save' = save /\ AppliedBy(g)' = AppliedBy(g) /\ Committed' = Committed
      BY <1>1, <1>3, <1>4, <1>6, <2>2 DEF Guarded
    <3>2. QED BY <1>2, <3>1 DEF PublishInv, Publishes, Whole, Traceless, Ids
  <2>3. QED BY <1>5, <2>1, <2>2 DEF PublishInv
<1>7. CASE lock = h /\ lock' = NoHost
  BY <1>1, <1>5, <1>7 DEF PublishInv, Guarded
<1>8. CASE Guarded(h) /\ work' = save /\ lock' = lock
  <2>1. Publishes(save, Committed \cup AppliedBy(h)) /\ lock = h
    BY <1>8 DEF PublishInv, Guarded
  <2>2. HolderPublishes(h)'
    BY <1>1, <1>2, <1>3, <1>8, <2>1 DEF HolderPublishes, Publishes, Whole, Traceless, Ids
  <2>3. \A g \in Host : ~ Guarded(g)'
    BY <1>4, <1>8, <2>1 DEF Guarded
  <2>4. QED BY <1>5, <1>8, <2>1, <2>2, <2>3 DEF PublishInv
<1>9. QED BY <1>6, <1>7, <1>8, FailIs

LEMMA EndKeepsPublished == ASSUME Typed, PublishInv, NEW h \in Host, Ends(h) PROVE PublishInv'
<1>1. /\ asked' = asked /\ pc'[h] = "idle" /\ \A g \in Host \ {h} : pc'[g] = pc[g]
      /\ Applied(h)' = {} /\ AppliedBy(h)' = {}
      /\ \A g \in Host \ {h} : Applied(g)' = Applied(g) /\ AppliedBy(g)' = AppliedBy(g)
      /\ \A g \in Host : DOMAIN result'[g] = DOMAIN result[g]
      /\ NoHost \notin Host
  BY EndIs, SqlAssumption DEF AppliedBy
<1>2. PICK verdict :
        /\ verdict \in {"committed", "rolled back"} /\ Decided(h, verdict)
        /\ IF verdict = "committed" THEN pc[h] = "open" /\ (lock = h => db' = work) ELSE db' = db
  BY EndIs
<1>3. \A c : RequestOf(c)' = RequestOf(c)
  BY <1>1 DEF RequestOf
<1>4. \A g \in Host : /\ Writing(g)' = (Writing(g) /\ g # h) /\ Running(g)' = (Running(g) /\ g # h)
                      /\ Tx(g)' = Tx(g)
  BY <1>1 DEF Writing, Running, Tx
<1>5. Committed' = IF verdict = "committed" THEN Committed \cup (AppliedBy(h) \cap Calls) ELSE Committed
  <2>1. verdict = "committed" => \A n \in DOMAIN result[h] : result[h][n] # "running"
    BY <1>2 DEF Typed, ProgressInv, Running
  <2>2. \A c \in Calls : c \in AppliedBy(h) <=> c[1] = h /\ c[2] \in DOMAIN result[h] /\ result[h][c[2]] = "applied"
    BY CallsAre DEF AppliedBy, Applied
  <2>3. ASSUME NEW c \in Calls
        PROVE  c \in Committed' <=> c \in Committed \/ (verdict = "committed" /\ c \in AppliedBy(h))
    <3>1. c[1] \in Host
      BY CallsAre
    <3>2. c \in Committed <=> c[2] \in DOMAIN result[c[1]] /\ result[c[1]][c[2]] = "committed"
      BY DEF Committed, CallsWith
    <3>3. c \in Committed' <=> c[2] \in DOMAIN result[c[1]] /\ result'[c[1]][c[2]] = "committed"
      BY <1>1, <3>1 DEF Committed, CallsWith
    <3>4. c[2] \in DOMAIN result[c[1]] =>
            result'[c[1]][c[2]] = IF c[1] = h /\ result[c[1]][c[2]] \in {"applied", "running"}
                                  THEN verdict ELSE result[c[1]][c[2]]
      BY <1>2, <3>1 DEF Decided
    <3>5. QED BY <1>2, <2>1, <2>2, <3>2, <3>3, <3>4
  <2>4. Committed \subseteq Calls /\ Committed' \subseteq Calls
    BY DEF Committed, CallsWith
  <2>5. QED BY <2>3, <2>4
<1>6. lock # h => Applied(h) = {} /\ AppliedBy(h) = {}
  BY DEF Typed, ProgressInv, AppliedBy
<1>7. Publishes(db, Committed)'
  <2>1. CASE verdict = "committed" /\ lock = h
    <3>1. HolderPublishes(h) /\ ~ Writing(h) /\ db' = work
      BY <1>2, <2>1 DEF PublishInv, Writing
    <3>2. QED BY <1>3, <1>5, <2>1, <3>1 DEF HolderPublishes, Publishes, Whole, Traceless, Ids
  <2>2. CASE ~ (verdict = "committed" /\ lock = h)
    <3>1. db' = db /\ Committed' = Committed
      BY <1>2, <1>5, <1>6, <2>2, EndIs
    <3>2. QED BY <1>3, <3>1 DEF PublishInv, Publishes, Whole, Traceless, Ids
  <2>3. QED BY <2>1, <2>2
<1>8. CASE lock # h /\ UNCHANGED <<db, lock, work, save>>
  <2>1. Committed' = Committed
    BY <1>5, <1>6, <1>8
  <2>2. \A g \in Host : lock' = g => HolderPublishes(g)'
    BY <1>1, <1>3, <1>4, <1>8, <2>1 DEF PublishInv, HolderPublishes, Whole, Traceless, Ids
  <2>3. ASSUME NEW g \in Host, Guarded(g)' PROVE Publishes(save, Committed \cup AppliedBy(g))'
    <3>1. Guarded(g) /\ save' = save /\ AppliedBy(g)' = AppliedBy(g) /\ Committed' = Committed
      BY <1>1, <1>3, <1>4, <1>8, <2>3, <2>1 DEF Guarded
    <3>2. QED BY <1>3, <3>1 DEF PublishInv, Publishes, Whole, Traceless, Ids
  <2>4. QED BY <1>7, <2>2, <2>3 DEF PublishInv
<1>9. CASE lock = h /\ lock' = NoHost
  BY <1>1, <1>7, <1>9 DEF PublishInv, Guarded
<1>10. QED BY <1>8, <1>9, EndIs

LEMMA PublishInit == Init => PublishInv
BY SqlAssumption, CallsAre, StoreAssumption
   DEF Init, PublishInv, Publishes, Committed, CallsWith, Traceless, Ids, EmptyDatabase, Guarded

LEMMA NextKeepsPublished == Typed /\ ClaimInv /\ PublishInv /\ [Next]_vars => PublishInv'
<1> SUFFICES ASSUME Typed, ClaimInv, PublishInv, [Next]_vars PROVE PublishInv'
  OBVIOUS
<1>1. ASSUME NEW h \in Host, Moves(h) \/ ClaimCommand(h) PROVE PublishInv'
  <2>1. UNCHANGED <<db, save, asked, result, lock>> /\ work' = work
    BY <1>1 DEF Moves, Open, EnforceHolds, RetractNothing, OpDone, ClaimCommand
  <2>2. \A g \in Host : (Running(g)' => Running(g)) /\ (Writing(g) => Writing(g)')
    BY <1>1 DEF Moves, Open, EnforceHolds, RetractNothing, OpDone, ClaimCommand, Running, Writing,
                Typed, TypeOK
  <2>3. QED BY <2>1, <2>2, IdleKeepsPublished
<1>2. ASSUME NEW h \in Host, Step(h) PROVE PublishInv'
  BY <1>1, <1>2, StepIs, EndKeepsPublished, AskKeepsPublished, PositionKeepsPublished, WriteKeepsPublished,
     FinishKeepsPublished, FailKeepsPublished
<1>3. ASSUME Tick \/ UNCHANGED vars PROVE PublishInv'
  BY <1>3, IdleKeepsPublished DEF Tick, vars, Running, Writing
<1>4. QED BY <1>2, <1>3 DEF Next, Finished
-----------------------------------------------------------------------------
(* What a transact is told *)

LEMMA ReceiptsStay == ASSUME Typed, ClaimInv, [Next]_vars PROVE Keeps(db', db)
<1>1. ASSUME NEW h \in Host, Step(h) PROVE db' = db \/ (lock # NoHost /\ db' = work)
  <2>1. CASE Ends(h)
    BY <2>1, EndIs, SqlAssumption
  <2>2. CASE ~ Ends(h)
    BY <1>1, <2>2, StepIs, FailIs DEF Moves, Open, EnforceHolds, RetractNothing, Asks, Reject, Begin,
       ClaimCommand, NextPosition, AssertFact, Retracts, RetractAll, OpDone, Finish, FinishAs
  <2>3. QED BY <2>1, <2>2
<1>2. ASSUME Tick \/ UNCHANGED vars PROVE db' = db
  BY <1>2 DEF Tick, vars
<1>3. db' = db \/ (lock # NoHost /\ db' = work)
  BY <1>1, <1>2 DEF Next, Finished
<1>4. QED BY <1>3 DEF ClaimInv, KeepsInv, Keeps

\* The answer is given by AlreadyCommitted only, and a request stays what it was.
LEMMA Told ==
  ASSUME Typed, [Next]_vars, NEW c \in CallsWith("CommandAlreadyCommitted")'
  PROVE  /\ c \in Calls /\ c[2] \in DOMAIN asked[c[1]] /\ asked[c[1]] \in Seq(Requests)
         /\ asked'[c[1]] = asked[c[1]] \/ \E r : asked'[c[1]] = Append(asked[c[1]], r)
         /\ \/ c \in CallsWith("CommandAlreadyCommitted")
            \/ \E h \in Host : c = Tx(h) /\ Running(h) /\ AlreadyCommitted(h)
<1> DEFINE cac == "CommandAlreadyCommitted"
<1>1. c \in Calls /\ c[1] \in Host /\ c = <<c[1], c[2]>> /\ c[2] \in DOMAIN result'[c[1]] /\ result'[c[1]][c[2]] = cac
  BY CallsAre DEF CallsWith
<1>2. /\ asked[c[1]] \in Seq(Requests) /\ result[c[1]] \in Seq(Result)
      /\ DOMAIN asked[c[1]] = DOMAIN result[c[1]] /\ Len(asked[c[1]]) = Len(result[c[1]])
  BY <1>1 DEF Typed, TypeOK, ProgressInv
<1>3. c[2] \in DOMAIN result[c[1]] /\ result[c[1]][c[2]] = cac => c \in CallsWith(cac)
  BY <1>1 DEF CallsWith
<1>4. ASSUME NEW h \in Host, Step(h)
      PROVE  /\ c[2] \in DOMAIN result[c[1]]
             /\ asked'[c[1]] = asked[c[1]] \/ \E r : asked'[c[1]] = Append(asked[c[1]], r)
             /\ \/ result[c[1]][c[2]] = cac
                \/ c = Tx(h) /\ Running(h) /\ AlreadyCommitted(h)
  <2>1. CASE Fails(h)
    <3>1. PICK o \in Failure :
            /\ o = cac => AlreadyCommitted(h)
            /\ \A g \in Host :
                 /\ DOMAIN result'[g] = DOMAIN result[g]
                 /\ \A n \in DOMAIN result[g] :
                      result'[g][n] = IF g = h /\ n = Len(asked[h]) THEN o ELSE result[g][n]
      BY <2>1, FailIs
    <3>2. asked' = asked /\ Running(h)
      BY <2>1, FailIs
    <3>3. QED BY <1>1, <3>1, <3>2 DEF Tx
  <2>2. CASE Ends(h)
    <3>1. PICK verdict : verdict \in {"committed", "rolled back"} /\ Decided(h, verdict)
      BY <2>2, EndIs
    <3>2. asked' = asked /\ \A g \in Host : DOMAIN result'[g] = DOMAIN result[g]
      BY <2>2, EndIs
    <3>3. QED BY <1>1, <3>1, <3>2 DEF Decided
  <2>3. CASE Finish(h)
    <3>1. asked' = asked
      BY <2>3 DEF Finish, FinishAs
    <3>2. QED BY <1>1, <2>3, <3>1, FinishIs
  <2>4. CASE Asks(h)
    <3>1. PICK r, o :
            /\ r \in Requests
            /\ asked' = [asked EXCEPT ![h] = Append(@, r)] /\ result' = [result EXCEPT ![h] = Append(@, o)]
            /\ o # cac
      BY <2>4 DEF Asks, Reject, Begin
    <3>2. CASE c[1] = h
      <4>1. asked'[h] = Append(asked[h], r) /\ result'[h] = Append(result[h], o)
        BY <3>1 DEF Typed, TypeOK
      <4>2. c[2] \in 1 .. (Len(result[h]) + 1) /\ c[2] # Len(result[h]) + 1
        BY <1>1, <1>2, <3>1, <3>2, <4>1
      <4>3. QED BY <1>1, <1>2, <3>2, <4>1, <4>2
    <3>3. CASE c[1] # h
      BY <1>1, <3>1, <3>3 DEF Typed, TypeOK
    <3>4. QED BY <3>2, <3>3
  <2>5. CASE ~ (Fails(h) \/ Ends(h) \/ Finish(h) \/ Asks(h))
    <3>1. asked' = asked /\ result' = result
      BY <1>4, <2>5, StepIs DEF Moves, Open, EnforceHolds, RetractNothing, ClaimCommand, NextPosition,
         AssertFact, Retracts, RetractAll, OpDone
    <3>2. QED BY <1>1, <3>1
  <2>6. QED BY <2>1, <2>2, <2>3, <2>4, <2>5
<1>5. ASSUME Tick \/ UNCHANGED vars PROVE asked' = asked /\ result' = result
  BY <1>5 DEF Tick, vars
<1>6. QED BY <1>1, <1>2, <1>3, <1>4, <1>5 DEF Next, Finished

ToldInv ==
  /\ AlreadyCommittedIsTrue
  /\ \A c \in CallsWith("CommandAlreadyCommitted") : RequestOf(c).command \in Command

LEMMA NextTellsTheTruth == Typed /\ ClaimInv /\ PublishInv /\ ToldInv /\ [Next]_vars => ToldInv'
<1> SUFFICES ASSUME Typed, ClaimInv, PublishInv, ToldInv, [Next]_vars,
                    NEW c \in CallsWith("CommandAlreadyCommitted")'
             PROVE  /\ \/ db'.receipt[RequestOf(c)'.command] # NoTx
                       \/ \E n \in 1..(c[2] - 1) : RequestOf(<<c[1], n>>)'.command = RequestOf(c)'.command
                    /\ RequestOf(c)'.command \in Command
  BY DEF AlreadyCommittedIsTrue, ToldInv
<1>1. /\ c \in Calls /\ c[1] \in Host /\ c[2] \in DOMAIN asked[c[1]] /\ asked[c[1]] \in Seq(Requests)
      /\ asked'[c[1]] = asked[c[1]] \/ \E r : asked'[c[1]] = Append(asked[c[1]], r)
  BY Told, CallsAre
<1>2. RequestOf(c)' = RequestOf(c) /\ \A n \in 1..(c[2] - 1) : RequestOf(<<c[1], n>>)' = RequestOf(<<c[1], n>>)
  BY <1>1, SMTT(30) DEF RequestOf
<1>3. RequestOf(c) \in Request
  BY <1>1, RequestType DEF RequestOf, Typed
<1>4. RequestOf(c).command \in Command \cup {NoCommand}
  BY <1>3 DEF Request
<1>5. CASE c \in CallsWith("CommandAlreadyCommitted")
  <2>1. RequestOf(c).command \in Command
    BY <1>5 DEF ToldInv
  <2>2. CASE \E n \in 1..(c[2] - 1) : RequestOf(<<c[1], n>>).command = RequestOf(c).command
    BY <1>2, <2>1, <2>2
  <2>3. CASE db.receipt[RequestOf(c).command] # NoTx
    BY <1>2, <2>1, <2>3, ReceiptsStay DEF Keeps
  <2>4. QED BY <1>5, <2>2, <2>3 DEF AlreadyCommittedIsTrue, ToldInv
<1>6. CASE \E h \in Host : c = Tx(h) /\ Running(h) /\ AlreadyCommitted(h)
  <2>1. PICK h \in Host : c = Tx(h) /\ Running(h) /\ AlreadyCommitted(h)
    BY <1>6
  <2>2. /\ RequestOf(c) = Asking(h) /\ pc[h] = "claim" /\ Asking(h).command \in Command
        /\ View(h).receipt[Asking(h).command] # NoTx /\ result[h][Len(asked[h])] = "running"
        /\ c = <<h, Len(asked[h])>> /\ c \in Calls
    BY <1>4, <2>1, RunningTransact DEF AlreadyCommitted, Tx
  <2>3. CASE db.receipt[Asking(h).command] # NoTx
    BY <1>2, <2>2, <2>3, ReceiptsStay DEF Keeps
  <2>4. CASE db.receipt[Asking(h).command] = NoTx
    <3>1. lock = h /\ work.receipt[Asking(h).command] # NoTx
      BY <2>2, <2>4 DEF View
    <3>2. PICK n \in DOMAIN asked[h] :
            work.receipt[Asking(h).command] = <<h, n>> /\ asked[h][n].command = Asking(h).command
      BY <2>2, <2>4, <3>1 DEF ClaimInv, OwnReceipts
    <3>3. c \notin Committed \cup AppliedBy(h)
      BY <2>2 DEF Committed, CallsWith, AppliedBy, Applied
    <3>4. Traceless(work, c)
      BY <2>2, <3>1, <3>3 DEF PublishInv, HolderPublishes, Writing
    <3>5. n # Len(asked[h])
      BY <2>2, <3>2, <3>4 DEF Traceless
    <3>6. n \in 1..(c[2] - 1) /\ c[1] = h
      BY <1>1, <2>2, <3>2, <3>5
    <3>7. RequestOf(<<c[1], n>>).command = RequestOf(c).command
      BY <2>2, <3>2, <3>6 DEF RequestOf
    <3>8. QED BY <1>2, <2>2, <3>6, <3>7
  <2>5. QED BY <2>3, <2>4
<1>7. QED BY <1>5, <1>6, Told

-----------------------------------------------------------------------------
(* Instants and positions *)

LEMMA TimeInit == Init => TimeInv
BY SqlAssumption DEF Init, TimeInv, TimeOf, Ordered, EmptyDatabase, Running, Guarded, Writing

\* One host moves; the others are idle and hold nothing.
LEMMA AloneKeepsTime ==
  ASSUME Typed, TimeInv, engine = "sqlite", engine' = engine, NEW h \in Host, pc[h] # "idle",
         \A g \in Host \ {h} : pc'[g] = pc[g], lock' \in {lock, h, NoHost},
         Ordered(db', clock'), TimeOf(h)'
  PROVE  TimeInv'
<1>1. \A g \in Host \ {h} : pc[g] = "idle" /\ lock # g /\ NoHost # g
  BY SqlAssumption DEF TimeInv, TimeOf
<1>2. \A g \in Host \ {h} : TimeOf(g)'
  BY <1>1 DEF TimeOf, Running, Guarded, Writing
<1>3. QED BY <1>1, <1>2 DEF TimeInv

LEMMA NextKeepsTime == Typed /\ ClaimInv /\ TimeInv /\ [Next]_vars => TimeInv'
<1> SUFFICES ASSUME Typed, ClaimInv, TimeInv, [Next]_vars, engine' = "sqlite" PROVE TimeInv'
  BY DEF TimeInv
<1>1. ASSUME NEW h \in Host, Step(h) PROVE engine' = engine
  BY <1>1, StepIs, FailIs, EndIs DEF Moves, Open, EnforceHolds, RetractNothing, Asks, Reject, Begin,
     ClaimCommand, NextPosition, AssertFact, Retracts, RetractAll, OpDone, Finish, FinishAs
<1>2. engine = "sqlite"
  BY <1>1 DEF Next, Finished, Tick, vars
<1>3. /\ Ordered(db, clock) /\ \A h \in Host : TimeOf(h)
      /\ \A g, h \in Host : pc[g] # "idle" /\ pc[h] # "idle" => g = h
      /\ clock \in Nat /\ NoHost \notin Host
      /\ db \in Database /\ work \in Database /\ save \in Database
  BY <1>2, SqlAssumption DEF TimeInv, Typed, TypeOK
<1>4. ASSUME NEW D \in Database, NEW t \in Nat, Ordered(D, t), t <= clock PROVE Ordered(D, clock)
  BY <1>3, <1>4 DEF Ordered, Database, Envelope
<1>5. ASSUME NEW h \in Host, Open(h) PROVE TimeInv'
  BY <1>2, <1>3, <1>5 DEF Open, TimeInv, TimeOf, Running, Guarded, Writing, Typed, TypeOK
<1>6. ASSUME NEW h \in Host, EnforceHolds(h) \/ RetractNothing(h) \/ ClaimCommand(h) PROVE TimeInv'
  <2>1. /\ pc[h] # "idle" /\ UNCHANGED <<engine, db, work, save, lock, clock, instant, result>>
        /\ \A g \in Host \ {h} : pc'[g] = pc[g]
        /\ pc'[h] # "idle" /\ (Running(h)' => Running(h)) /\ (Writing(h)' => Writing(h))
    BY <1>6 DEF EnforceHolds, RetractNothing, ClaimCommand, AtOp, OpDone, Running, Writing, Typed, TypeOK
  <2>2. View(h)' = View(h) /\ Applied(h)' = Applied(h)
    BY <2>1 DEF View, Applied
  <2>3. TimeOf(h)'
    BY <1>3, <2>1, <2>2 DEF TimeOf, Guarded, Ordered
  <2>4. QED BY <1>2, <1>3, <2>1, <2>3, AloneKeepsTime
<1>7. ASSUME NEW h \in Host, Asks(h) PROVE TimeInv'
  <2>1. PICK r \in Requests : Reject(h, r) \/ Begin(h, r)
    BY <1>7 DEF Asks
  <2>2. /\ pc[h] = "open" /\ UNCHANGED <<engine, db, work, lock, clock>>
        /\ \A g \in Host \ {h} : pc'[g] = pc[g]
        /\ pc'[h] \in {"open", "claim"}
        /\ pc'[h] = "claim" => instant'[h] = clock /\ (lock = h => save' = work)
    BY <2>1 DEF Reject, Begin, Typed, TypeOK
  <2>3. /\ View(h)' = View(h) /\ Ordered(View(h), clock)
    BY <1>3, <2>2 DEF View, TimeOf
  <2>4. TimeOf(h)'
    BY <1>3, <2>2, <2>3 DEF TimeOf, Guarded, Running, Writing
  <2>5. QED BY <1>2, <1>3, <2>2, <2>4, AloneKeepsTime
<1>8. ASSUME NEW h \in Host, NextPosition(h) PROVE TimeInv'
  <2>1. /\ Running(h) /\ pc[h] = "position" /\ ~ Writing(h) /\ Writing(h)'
        /\ \A g \in Host \ {h} : pc'[g] = pc[g]
        /\ lock' = h /\ UNCHANGED <<engine, db, clock, result, instant, save>>
        /\ work'.journal = View(h).journal /\ work'.position = View(h).position + 1
        /\ View(h) \in Database /\ instant[h] \in Nat
    BY <1>8, PositionIs DEF View, Typed, TypeOK
  <2>2. instant[h] <= clock /\ Ordered(View(h), instant[h])
    BY <1>3, <2>1 DEF TimeOf
  <2>3. /\ Ordered(work', instant[h]) /\ Ordered(work', clock)
        /\ \A e \in work'.journal : e.position < work'.position
    BY <1>3, <2>1, <2>2 DEF Ordered, Database, Envelope
  <2>4. Guarded(h)' => Guarded(h)
    BY <2>1 DEF Guarded, Applied, Typed, ProgressInv
  <2>5. pc'[h] # "idle"
    BY <2>1 DEF Writing
  <2>6. TimeOf(h)'
    BY <1>3, <2>1, <2>2, <2>3, <2>4, <2>5 DEF TimeOf, View
  <2>7. pc[h] # "idle"
    BY <2>1
  <2>8. QED BY <1>2, <1>3, <2>1, <2>6, <2>7, AloneKeepsTime
<1>9. ASSUME NEW h \in Host, AssertFact(h) \/ Retracts(h) PROVE TimeInv'
  <2>1. /\ pc[h] = "ops" /\ Running(h) /\ Writing(h) /\ lock = h
        /\ UNCHANGED <<engine, db, save, lock, clock, instant, result, pc>>
    BY <1>9 DEF AssertFact, Retracts, RetractAll, OpDone, AtOp, Running, Writing, Typed, ProgressInv
  <2>2. work'.journal = work.journal /\ work'.position = work.position
    BY <1>3, <1>9 DEF AssertFact, Retracts, RetractAll, WithFact, WithRetracted, Database
  <2>3. Guarded(h)' = Guarded(h)
    BY <2>1 DEF Guarded, Applied, Running
  <2>4. TimeOf(h)'
    BY <1>3, <2>1, <2>2, <2>3 DEF TimeOf, View, Ordered, Running, Writing
  <2>5. QED BY <1>2, <1>3, <2>1, <2>4, AloneKeepsTime
<1>10. ASSUME NEW h \in Host, Finish(h) PROVE TimeInv'
  <2>1. /\ pc[h] = "ops" /\ pc'[h] = "open" /\ \A g \in Host \ {h} : pc'[g] = pc[g]
        /\ UNCHANGED <<engine, db, clock>>
    BY <1>10 DEF Finish, FinishAs, Typed, TypeOK
  <2>2. Running(h) /\ Writing(h) /\ lock = h /\ lock' = h
    BY <1>10, FinishIs
  <2>3. /\ Ordered(work, instant[h]) /\ instant[h] <= clock /\ instant[h] \in Nat
        /\ \A e \in work.journal : e.position < work.position
    BY <1>3, <2>2 DEF TimeOf, View, Typed, TypeOK
  <2>4. Ordered(work, clock)
    BY <1>3, <1>4, <2>3
  <2>5. Ordered(work', clock)
    <3>1. CASE Asking(h).journaled
      <4>1. /\ work'.journal = work.journal \cup {EnvelopeOf(h)} /\ work'.position = work.position
            /\ EnvelopeOf(h).position = work.position /\ EnvelopeOf(h).instant = instant[h]
        BY <1>3, <1>10, <3>1, FinishIs DEF WithEnvelope, EnvelopeOf, Database
      <4>2. \A e \in work.journal : e.position \in Nat /\ e.instant \in Nat
        BY <1>3 DEF Database, Envelope
      <4>3. work.position \in Nat
        BY <1>3 DEF Database
      <4>4. QED BY <1>3, <2>3, <2>4, <4>1, <4>2, <4>3 DEF Ordered
    <3>2. CASE ~ Asking(h).journaled
      BY <1>10, <2>4, <3>2, FinishIs
    <3>3. QED BY <3>1, <3>2
  <2>6. TimeOf(h)'
    BY <2>1, <2>5 DEF TimeOf, Guarded, Running, Writing
  <2>7. QED BY <1>2, <1>3, <2>1, <2>2, <2>6, AloneKeepsTime
<1>11. ASSUME NEW h \in Host, Fails(h) PROVE TimeInv'
  <2>1. /\ Running(h) /\ UNCHANGED <<engine, db, clock>> /\ pc'[h] = "open"
        /\ \A g \in Host \ {h} : pc'[g] = pc[g]
        /\ \/ lock # h /\ UNCHANGED <<lock, work, save>>
           \/ lock = h /\ Applied(h) = {} /\ lock' = NoHost
           \/ Guarded(h) /\ work' = save /\ lock' = lock
        /\ instant[h] \in Nat
    BY <1>11, FailIs DEF Typed, TypeOK
  <2>2. Guarded(h) => Ordered(save, clock)
    BY <1>3, <1>4, <2>1 DEF TimeOf
  <2>3. lock' = h => Ordered(work', clock)
    BY <1>3, <2>1, <2>2
  <2>4. TimeOf(h)'
    BY <2>1, <2>3 DEF TimeOf, Guarded, Running, Writing
  <2>5. pc[h] # "idle" /\ lock' \in {lock, h, NoHost}
    BY <2>1 DEF Running
  <2>6. QED BY <1>2, <1>3, <2>1, <2>4, <2>5, AloneKeepsTime
<1>12. ASSUME NEW h \in Host, Ends(h) PROVE TimeInv'
  <2>1. /\ UNCHANGED <<engine, clock>> /\ pc[h] # "idle" /\ pc'[h] = "idle"
        /\ \A g \in Host \ {h} : pc'[g] = pc[g]
        /\ \/ lock # h /\ UNCHANGED <<db, lock>>
           \/ lock = h /\ lock' = NoHost /\ db' \in {db, work}
    BY <1>12, EndIs
  <2>2. Ordered(db', clock)
    BY <1>3, <2>1 DEF TimeOf
  <2>3. lock' # h
    BY <1>3, <2>1
  <2>4. TimeOf(h)'
    BY <2>1, <2>3 DEF TimeOf, Guarded, Running, Writing
  <2>5. QED BY <1>2, <1>3, <2>1, <2>2, <2>4, AloneKeepsTime
<1>13. CASE Tick
  <2>1. /\ clock' = clock + 1 /\ UNCHANGED <<engine, db, work, save, lock, pc, instant, result>>
        /\ MaxClock \in Nat
    BY <1>13, SqlAssumption DEF Tick
  <2>2. ASSUME NEW D \in Database, Ordered(D, clock) PROVE Ordered(D, clock')
    BY <1>3, <2>1, <2>2 DEF Ordered, Database, Envelope
  <2>3. ASSUME NEW g \in Host PROVE TimeOf(g)'
    <3>1. View(g)' = View(g) /\ Guarded(g)' = Guarded(g) /\ instant[g] \in Nat
      BY <2>1 DEF View, Guarded, Applied, Running, Typed, TypeOK
    <3>2. lock = g => Ordered(work, clock)'
      BY <1>3, <2>1, <2>2 DEF TimeOf
    <3>3. Running(g) => instant[g] <= clock'
      BY <1>3, <2>1, <3>1 DEF TimeOf
    <3>4. QED BY <1>3, <2>1, <3>1, <3>2, <3>3 DEF TimeOf, Running, Writing, Ordered
  <2>4. QED BY <1>3, <2>1, <2>2, <2>3 DEF TimeInv
<1>14. CASE UNCHANGED vars
  BY <1>14 DEF vars, TimeInv, TimeOf, View, Guarded, Applied, Running, Writing, Ordered
<1>15. ASSUME NEW h \in Host, Step(h) PROVE TimeInv'
  BY <1>5, <1>6, <1>7, <1>8, <1>9, <1>10, <1>11, <1>12, <1>15, StepIs DEF Moves
<1>16. QED BY <1>13, <1>14, <1>15 DEF Next, Finished
-----------------------------------------------------------------------------
SqlInv == Typed /\ ClaimInv /\ PublishInv /\ ToldInv /\ TimeInv

LEMMA InitSqlInv == Init => SqlInv
<1>1. Init => ToldInv
  <2>1. Init => CallsWith("CommandAlreadyCommitted") = {}
    BY CallsAre DEF Init, CallsWith
  <2>2. QED BY <2>1, CallsAre DEF Init, ToldInv, AlreadyCommittedIsTrue
<1>2. QED BY <1>1, TypedInit, ClaimInit, PublishInit, TimeInit DEF SqlInv

LEMMA NextSqlInv == SqlInv /\ [Next]_vars => SqlInv'
BY NextTyped, NextKeepsClaims, NextKeepsPublished, NextTellsTheTruth, NextKeepsTime DEF SqlInv

LEMMA SqlInductive == Spec => []SqlInv
BY InitSqlInv, NextSqlInv, PTL DEF Spec

\* A transact that its host transaction has committed has its envelope and its
\* receipt; any other has no fact, retraction, envelope or receipt in the database.
THEOREM AllOrNothing == Spec => []CommitsWithItsHost
<1>1. SqlInv => CommitsWithItsHost
  <2> SUFFICES ASSUME SqlInv, NEW c \in Calls PROVE CommitsWithItsHost!(c)
    BY DEF CommitsWithItsHost
  <2>1. IF c \in Committed THEN Whole(db, c) ELSE Traceless(db, c)
    BY DEF SqlInv, PublishInv, Publishes
  <2>2. QED BY <2>1 DEF Committed, Whole, Traceless
<1>2. QED BY <1>1, SqlInductive, PTL

\* A command is called committed only when it is, or when the host itself has
\* applied it, whatever locks, savepoints and deadlocks come between.
THEOREM AlreadyCommittedTellsTheTruth == Spec => []AlreadyCommittedIsTrue
<1>1. SqlInv => AlreadyCommittedIsTrue
  BY DEF SqlInv, ToldInv
<1>2. QED BY <1>1, SqlInductive, PTL

\* Over SQLite, envelopes in the order of their positions are in that of their
\* instants.
THEOREM SqliteInstantsFollow == Spec => []InstantsFollowPositions
<1>1. SqlInv => InstantsFollowPositions
  BY DEF SqlInv, TimeInv, Ordered, InstantsFollowPositions
<1>2. QED BY <1>1, SqlInductive, PTL
-----------------------------------------------------------------------------
(* A host transaction does what TripleLog makes of its transacts.  The     *)
(* operators of TripleLog on databases are the engine's; a transact there  *)
(* is the fold of ApplyOp.                                                 *)

LEMMA SameReads ==
  ASSUME NEW D
  PROVE  /\ Log!Ids(D) = Ids(D)
         /\ \A i : Log!IsLive(D, i) <=> IsLive(D, i)
         /\ \A e : Log!Matching(D, e) = Matching(D, e)
         /\ Log!HasFreshId(D) <=> HasFreshId(D)
         /\ Log!FreshId(D) = FreshId(D)
<1>1. Log!Ids(D) = Ids(D)
  BY DEF Log!Ids, Ids
<1>2. \A i : Log!IsLive(D, i) <=> IsLive(D, i)
  BY <1>1 DEF Log!IsLive, IsLive
<1> QED BY <1>1, <1>2 DEF Log!Matching, Matching, Log!HasFreshId, HasFreshId, Log!FreshId, FreshId

LEMMA SameWrites ==
  ASSUME NEW D, NEW tx, NEW now
  PROVE  /\ \A k : Log!WithReceipt(D, k, tx) = WithReceipt(D, k, tx)
         /\ Log!WithNextPosition(D) = WithNextPosition(D)
         /\ \A i, e : Log!WithFact(D, i, e, tx, now) = WithFact(D, i, e, tx, now)
         /\ \A ids : Log!WithRetracted(D, ids, tx, now) = WithRetracted(D, ids, tx, now)
         /\ \A env : Log!WithEnvelope(D, env) = WithEnvelope(D, env)
<1>1. \A i, e : Log!WithFact(D, i, e, tx, now) = WithFact(D, i, e, tx, now)
  BY DEF Log!WithFact, WithFact, Log!NewFact, NewFact
<1>2. \A ids : Log!WithRetracted(D, ids, tx, now) = WithRetracted(D, ids, tx, now)
  BY DEF Log!WithRetracted, WithRetracted, Log!Retired, Retired
<1> QED BY <1>1, <1>2 DEF Log!WithReceipt, WithReceipt, Log!WithNextPosition, WithNextPosition,
                         Log!WithEnvelope, WithEnvelope

\* The states of a call's loop.
Loops == [D : Database, asserted : SUBSET TripleId, retracted : SUBSET TripleId, error : Log!Failure \cup {"none"}]

LEMMA StartType ==
  ASSUME NEW D \in Database, NEW r \in Request, NEW tx \in TxId
  PROVE  Log!Start(D, r, tx) \in Loops
<1>1. r.command \in Command \cup {NoCommand}
  BY DEF Request
<1>2. (IF r.command = NoCommand THEN D ELSE WithReceipt(D, r.command, tx)) \in Database
  BY <1>1, ReceiptType
<1> DEFINE E == WithNextPosition(IF r.command = NoCommand THEN D ELSE WithReceipt(D, r.command, tx))
<1>3. E \in Database
  BY <1>2, PositionType
<1>4. Log!Start(D, r, tx) =
        [D |-> E, asserted |-> {}, retracted |-> {}, error |-> "none"]
  BY SameWrites DEF Log!Start
<1> HIDE DEF E
<1> QED BY <1>3, <1>4 DEF Loops

LEMMA AssertingIs ==
  ASSUME NEW s \in Loops, NEW i, NEW e, NEW tx \in TxId, NEW now \in Nat
  PROVE  Log!Asserting(s, i, e, tx, now) =
           [D |-> WithFact(s.D, i, e, tx, now), asserted |-> s.asserted \cup {i},
            retracted |-> s.retracted, error |-> s.error]
<1>1. Log!Asserting(s, i, e, tx, now) =
        [s EXCEPT !.D = WithFact(s.D, i, e, tx, now), !.asserted = s.asserted \cup {i}]
  BY SameWrites, ZenonT(60) DEF Log!Asserting
<1> QED BY <1>1 DEF Loops

LEMMA RetractingIs ==
  ASSUME NEW s \in Loops, NEW ids, NEW tx \in TxId, NEW now \in Nat
  PROVE  Log!Retracting(s, ids, tx, now) =
           [D |-> WithRetracted(s.D, ids, tx, now), asserted |-> s.asserted,
            retracted |-> s.retracted \cup ids, error |-> s.error]
<1>1. Log!Retracting(s, ids, tx, now) =
        [s EXCEPT !.D = WithRetracted(s.D, ids, tx, now), !.retracted = s.retracted \cup ids]
  BY SameWrites DEF Log!Retracting
<1> QED BY <1>1 DEF Loops

\* One operation, in the engine's terms, case by case.
LEMMA ApplyIs ==
  ASSUME NEW s \in Loops, NEW op \in Op, NEW r \in Request, NEW tx \in TxId,
         NEW now \in Nat
  PROVE  LET after == Log!ApplyOp(s, op, r, tx, now) IN
         /\ s.error # "none" => after = s
         /\ s.error = "none" =>
              /\ op.op = "assert" /\ HasFreshId(s.D) =>
                   after = Log!Asserting(s, FreshId(s.D), op.entity, tx, now)
              /\ op.op = "assert" /\ ~HasFreshId(s.D) => after = Log!Failing(s, "died")
              /\ op.op = "retract" /\ Log!Hidden(r, s.D, {op.id}) =>
                   after = Log!Failing(s, "WriteError")
              /\ op.op = "retract" /\ ~Log!Hidden(r, s.D, {op.id}) /\ IsLive(s.D, op.id) =>
                   after = Log!Retracting(s, {op.id}, tx, now)
              /\ op.op = "retract" /\ ~Log!Hidden(r, s.D, {op.id}) /\ ~IsLive(s.D, op.id) /\ op.id \in r.expects =>
                   after = Log!Failing(s, "TransactionConflict")
              /\ op.op = "retract" /\ ~Log!Hidden(r, s.D, {op.id}) /\ ~IsLive(s.D, op.id) /\ op.id \notin r.expects =>
                   after = s
              /\ op.op = "retract-pattern" /\ Log!Hidden(r, s.D, Matching(s.D, op.entity)) =>
                   after = Log!Failing(s, "WriteError")
              /\ op.op = "retract-pattern" /\ ~Log!Hidden(r, s.D, Matching(s.D, op.entity)) =>
                   after = Log!Retracting(s, Matching(s.D, op.entity), tx, now)
<1>1. s.error # "none" => Log!ApplyOp(s, op, r, tx, now) = s
  BY DEF Log!ApplyOp
<1>2. ASSUME s.error = "none", op.op = "assert"
      PROVE  Log!ApplyOp(s, op, r, tx, now) =
               IF HasFreshId(s.D) THEN Log!Asserting(s, FreshId(s.D), op.entity, tx, now)
                                  ELSE Log!Failing(s, "died")
  BY <1>2, SameReads DEF Log!ApplyOp
<1>3. ASSUME s.error = "none", op.op = "retract"
      PROVE  Log!ApplyOp(s, op, r, tx, now) =
               IF Log!Hidden(r, s.D, {op.id}) THEN Log!Failing(s, "WriteError")
               ELSE IF IsLive(s.D, op.id) THEN Log!Retracting(s, {op.id}, tx, now)
               ELSE IF op.id \in r.expects THEN Log!Failing(s, "TransactionConflict")
               ELSE s
  BY <1>3, SameReads DEF Log!ApplyOp
<1>4. ASSUME s.error = "none", op.op = "retract-pattern"
      PROVE  Log!ApplyOp(s, op, r, tx, now) =
               IF Log!Hidden(r, s.D, Matching(s.D, op.entity)) THEN Log!Failing(s, "WriteError")
               ELSE Log!Retracting(s, Matching(s.D, op.entity), tx, now)
  BY <1>4, SameReads DEF Log!ApplyOp
<1> QED BY <1>1, <1>2, <1>3, <1>4

\* The four operations that go through.
LEMMA ApplyAssert ==
  ASSUME NEW s \in Loops, NEW op \in Op, NEW r \in Request, NEW tx \in TxId,
         NEW now \in Nat, s.error = "none", op.op = "assert", HasFreshId(s.D)
  PROVE  Log!ApplyOp(s, op, r, tx, now) = Log!Asserting(s, FreshId(s.D), op.entity, tx, now)
BY ApplyIs

LEMMA ApplyRetract ==
  ASSUME NEW s \in Loops, NEW op \in Op, NEW r \in Request, NEW tx \in TxId,
         NEW now \in Nat, s.error = "none", op.op = "retract",
         ~Log!Hidden(r, s.D, {op.id}), IsLive(s.D, op.id)
  PROVE  Log!ApplyOp(s, op, r, tx, now) = Log!Retracting(s, {op.id}, tx, now)
BY ApplyIs

LEMMA ApplyNothing ==
  ASSUME NEW s \in Loops, NEW op \in Op, NEW r \in Request, NEW tx \in TxId,
         NEW now \in Nat, s.error = "none", op.op = "retract",
         ~Log!Hidden(r, s.D, {op.id}), ~IsLive(s.D, op.id), op.id \notin r.expects
  PROVE  Log!ApplyOp(s, op, r, tx, now) = s
BY ApplyIs

LEMMA ApplyPattern ==
  ASSUME NEW s \in Loops, NEW op \in Op, NEW r \in Request, NEW tx \in TxId,
         NEW now \in Nat, s.error = "none", op.op = "retract-pattern",
         ~Log!Hidden(r, s.D, Matching(s.D, op.entity))
  PROVE  Log!ApplyOp(s, op, r, tx, now) = Log!Retracting(s, Matching(s.D, op.entity), tx, now)
BY ApplyIs

LEMMA ApplyType ==
  ASSUME NEW s \in Loops, NEW op \in Op, NEW r \in Request, NEW tx \in TxId,
         NEW now \in Nat
  PROVE  Log!ApplyOp(s, op, r, tx, now) \in Loops
<1>1. s.D \in Database /\ s.error \in Log!Failure \cup {"none"} /\ s.asserted \in SUBSET TripleId
      /\ s.retracted \in SUBSET TripleId
  BY DEF Loops
<1>2. ASSUME NEW ids \in SUBSET Ids(s.D) PROVE Log!Retracting(s, ids, tx, now) \in Loops
  <2>1. Log!WithRetracted(s.D, ids, tx, now) = WithRetracted(s.D, ids, tx, now)
    BY SameWrites
  <2>3. WithRetracted(s.D, ids, tx, now) \in Database
    BY <1>1, RetractedType
  <2>2. ids \subseteq TripleId
    BY DEF Ids
  <2> QED BY <2>1, <2>2, <2>3 DEF Log!Retracting, Loops
<1>3. \A e \in {"died", "WriteError", "TransactionConflict"} : Log!Failing(s, e) \in Loops
  BY DEF Loops, Log!Failing, Log!Failure
<1>7. CASE s.error # "none"
  <2>1. Log!ApplyOp(s, op, r, tx, now) = s
    BY <1>7, ApplyIs
  <2> QED BY <2>1
<1>4. CASE s.error = "none" /\ op.op = "assert"
  <2>1. op.entity \in Entity
    BY <1>4 DEF Op
  <2>2. ASSUME HasFreshId(s.D)
        PROVE  /\ FreshId(s.D) \in TripleId
               /\ WithFact(s.D, FreshId(s.D), op.entity, tx, now) \in Database
    BY <2>1, <2>2, <1>1, FactType DEF HasFreshId, FreshId
  <2>3. ASSUME HasFreshId(s.D)
        PROVE  Log!Asserting(s, FreshId(s.D), op.entity, tx, now) \in Loops
    BY <1>1, <2>2, <2>3, SameWrites DEF Loops, Log!Asserting
  <2>4. Log!ApplyOp(s, op, r, tx, now) =
          IF HasFreshId(s.D) THEN Log!Asserting(s, FreshId(s.D), op.entity, tx, now)
                             ELSE Log!Failing(s, "died")
    BY <1>4, ApplyIs
  <2> QED BY <1>3, <2>3, <2>4
<1>5. CASE s.error = "none" /\ op.op = "retract"
  <2>1. IsLive(s.D, op.id) => {op.id} \in SUBSET Ids(s.D)
    BY DEF IsLive
  <2>2. Log!ApplyOp(s, op, r, tx, now) =
          IF Log!Hidden(r, s.D, {op.id}) THEN Log!Failing(s, "WriteError")
          ELSE IF IsLive(s.D, op.id) THEN Log!Retracting(s, {op.id}, tx, now)
          ELSE IF op.id \in r.expects THEN Log!Failing(s, "TransactionConflict")
          ELSE s
    BY <1>5, ApplyIs
  <2> QED BY <1>2, <1>3, <2>1, <2>2
<1>6. CASE s.error = "none" /\ op.op = "retract-pattern"
  <2>1. Matching(s.D, op.entity) \in SUBSET Ids(s.D)
    BY DEF Matching
  <2>2. Log!ApplyOp(s, op, r, tx, now) =
          IF Log!Hidden(r, s.D, Matching(s.D, op.entity)) THEN Log!Failing(s, "WriteError")
          ELSE Log!Retracting(s, Matching(s.D, op.entity), tx, now)
    BY <1>6, ApplyIs
  <2> QED BY <1>2, <1>3, <2>1, <2>2
<1> QED BY <1>4, <1>5, <1>6, <1>7 DEF Op

LEMMA LoopIs ==
  ASSUME NEW D \in Database, NEW r \in Request, NEW tx \in TxId, NEW now \in Nat
  PROVE  /\ Log!Loop(D, r, tx, now)[0] = Log!Start(D, r, tx)
         /\ \A n \in 1 .. Len(r.ops) :
              Log!Loop(D, r, tx, now)[n] =
                Log!ApplyOp(Log!Loop(D, r, tx, now)[n - 1], r.ops[n], r, tx, now)
<1> DEFINE N == Len(r.ops)
           x == Log!Start(D, r, tx)
           Apply(s, n) == Log!ApplyOp(s, r.ops[n], r, tx, now)
           Is(f) == f = [n \in 0 .. N |-> IF n = 0 THEN x ELSE Apply(f[n - 1], n)]
           step == [i \in Nat |-> [s \in Loops |-> IF i < N THEN Apply(s, i + 1) ELSE s]]
<1>1. N \in Nat /\ \A n \in 1 .. N : r.ops[n] \in Op
  BY DEF Request
<1>2. x \in Loops
  BY StartType
<1>3. step \in [Nat -> [Loops -> Loops]]
  <2>1. ASSUME NEW i \in Nat, i < N, NEW s \in Loops PROVE Apply(s, i + 1) \in Loops
    <3>1. i + 1 \in 1 .. N
      BY <1>1, <2>1
    <3> QED BY <1>1, <3>1, ApplyType
  <2> HIDE DEF Apply, N
  <2> QED BY <2>1
<1>4. PICK f \in [Nat -> Loops] : f[0] = x /\ \A i \in Nat : f[i + 1] = step[i][f[i]]
  <2> HIDE DEF step, x
  <2>1. Iterations(Loops, x, step) # {}
    BY <1>2, <1>3, Iterates
  <2> QED BY <2>1 DEF Iterations
<1> DEFINE g == [n \in 0 .. N |-> f[n]]
<1>5. Is(g)
  <2>1. ASSUME NEW n \in 0 .. N PROVE f[n] = IF n = 0 THEN x ELSE Apply(g[n - 1], n)
    <3>1. CASE n = 0
      BY <1>4, <3>1
    <3>2. CASE n # 0
      <4>1. n - 1 \in Nat /\ (n - 1) + 1 = n /\ n - 1 < N /\ n - 1 \in 0 .. N
        BY <1>1, <3>2
      <4>2. f[n] = step[n - 1][f[n - 1]] /\ f[n - 1] \in Loops
        BY <1>4, <4>1
      <4> HIDE DEF Apply, N, x
      <4> QED BY <3>2, <4>1, <4>2
    <3> QED BY <3>1, <3>2
  <2> HIDE DEF Apply, N, x
  <2> QED BY <2>1
<1> DEFINE h == CHOOSE q : Is(q)
<1>6. Is(h)
  <2> HIDE DEF Is, g
  <2> QED BY <1>5
<1>7. Log!Loop(D, r, tx, now) = h
  BY DEF Log!Loop
<1> HIDE DEF h
<1>8. h[0] = x /\ \A n \in 1 .. N : h[n] = Apply(h[n - 1], n)
  <2> HIDE DEF Apply, N, x
  <2> QED BY <1>1, <1>6
<1> QED BY <1>7, <1>8

LEMMA LoopTypes ==
  ASSUME NEW D \in Database, NEW r \in Request, NEW tx \in TxId, NEW now \in Nat
  PROVE  \A n \in 0 .. Len(r.ops) : Log!Loop(D, r, tx, now)[n] \in Loops
<1> DEFINE N == Len(r.ops)
           after == Log!Loop(D, r, tx, now)
           S == {n \in Nat : n <= N => after[n] \in Loops}
<1>1. N \in Nat /\ \A n \in 1 .. N : r.ops[n] \in Op
  BY DEF Request
<1>2. after[0] \in Loops /\ \A n \in 1 .. N : after[n] = Log!ApplyOp(after[n - 1], r.ops[n], r, tx, now)
  BY LoopIs, StartType
<1>3. 0 \in S
  BY <1>2
<1>4. ASSUME NEW n \in Nat, n \in S PROVE n + 1 \in S
  <2> SUFFICES ASSUME n + 1 <= N PROVE after[n + 1] \in Loops
    OBVIOUS
  <2>1. n + 1 \in 1 .. N /\ (n + 1) - 1 = n /\ after[n] \in Loops
    BY <1>1, <1>4
  <2>2. after[n + 1] = Log!ApplyOp(after[n], r.ops[n + 1], r, tx, now)
    BY <1>2, <2>1
  <2> HIDE DEF after, N
  <2> QED BY <1>1, <2>1, <2>2, ApplyType
<1>5. Nat \subseteq S
  <2> HIDE DEF S
  <2> QED BY <1>3, <1>4, AllNaturals DEF S
<1> QED BY <1>1, <1>5

\* The envelope at the end of a transact.
LEMMA TransactIs ==
  ASSUME NEW D \in Database, NEW r \in Request, NEW tx \in TxId, NEW now \in Nat,
         NEW s \in Loops, s = Log!Loop(D, r, tx, now)[Len(r.ops)], s.error = "none"
  PROVE  Log!Transact(D, r, tx, now).D =
           IF r.journaled
             THEN WithEnvelope(s.D, [tx |-> tx, position |-> s.D.position, instant |-> now,
                                     command |-> r.command,
                                     asserted |-> s.asserted, retracted |-> s.retracted])
             ELSE s.D
<1>1. Log!Transact(D, r, tx, now) = Log!Finish(s, r, tx, now)
  BY DEF Log!Transact
<1>2. CASE r.journaled
  BY <1>1, <1>2, SameWrites DEF Log!Finish, Loops
<1>3. CASE ~ r.journaled
  BY <1>1, <1>3 DEF Log!Finish
<1> QED BY <1>2, <1>3

LEMMA TransactType ==
  ASSUME NEW D \in Database, NEW r \in Request, NEW tx \in TxId, NEW now \in Nat
  PROVE  Log!Transact(D, r, tx, now).D \in Database
<1>1. \A n \in 0 .. Len(r.ops) : Log!Loop(D, r, tx, now)[n] \in Loops
  BY LoopTypes
<1>2. PICK s \in Loops : s = Log!Loop(D, r, tx, now)[Len(r.ops)]
  BY <1>1 DEF Request
<1>3. s.D \in Database /\ s.asserted \subseteq TripleId /\ s.retracted \subseteq TripleId
  BY DEF Loops
<1>4. Log!Transact(D, r, tx, now) = Log!Finish(s, r, tx, now)
  BY <1>2 DEF Log!Transact
<1> DEFINE env == [tx |-> tx, position |-> s.D.position, instant |-> now, command |-> r.command,
                   asserted |-> s.asserted, retracted |-> s.retracted]
<1>5. env \in Envelope
  BY <1>3 DEF Envelope, Database, Request
<1>6. WithEnvelope(s.D, env) \in Database
  BY <1>3, <1>5, EnvelopeType
<1>7. Log!Finish(s, r, tx, now).D = IF s.error # "none" \/ ~r.journaled THEN s.D ELSE WithEnvelope(s.D, env)
  BY SameWrites DEF Log!Finish, Loops
<1> QED BY <1>3, <1>4, <1>6, <1>7
\* What RunAlone is asked to run.
Runnable(h, requests, S, t) ==
  /\ requests \in Seq(Request) /\ S \subseteq 1 .. Len(requests)
  /\ \A n \in S : <<h, n>> \in TxId
  /\ t \in [S -> 1..MaxClock]

\* The databases on its way.
Passes(f, D, h, requests, S, t) ==
  /\ f[0] = D
  /\ \A n \in 1 .. Len(requests) :
       f[n] = IF n \in S THEN Log!Transact(f[n - 1], requests[n], <<h, n>>, t[n]).D ELSE f[n - 1]

LEMMA RunAloneIs ==
  ASSUME NEW D \in Database, NEW h, NEW requests, NEW S, NEW t, Runnable(h, requests, S, t)
  PROVE  \E f \in [0 .. Len(requests) -> Database] :
           Passes(f, D, h, requests, S, t) /\ RunAlone(D, h, requests, S, t) = f[Len(requests)]
<1> DEFINE N == Len(requests)
           Ran(E, n) == Log!Transact(E, requests[n], <<h, n>>, t[n]).D
           After(E, n) == IF n \notin S THEN E ELSE Ran(E, n)
           Is(f) == f = [n \in 0 .. N |-> IF n = 0 THEN D
                                          ELSE IF n \notin S THEN f[n - 1] ELSE Ran(f[n - 1], n)]
           step == [i \in Nat |-> [E \in Database |-> After(E, i + 1)]]
<1>1. N \in Nat /\ S \subseteq 1 .. N
  BY DEF Runnable
<1>2. step \in [Nat -> [Database -> Database]]
  <2>1. ASSUME NEW i \in Nat, NEW E \in Database, i + 1 \in S PROVE Ran(E, i + 1) \in Database
    <3>1. /\ requests[i + 1] \in Request /\ <<h, i + 1>> \in TxId /\ t[i + 1] \in Nat
      BY <2>1, SqlAssumption DEF Runnable
    <3> QED BY <3>1, TransactType
  <2>2. ASSUME NEW i \in Nat, NEW E \in Database PROVE After(E, i + 1) \in Database
    BY <2>1
  <2> HIDE DEF After
  <2> QED BY <2>2
<1>3. PICK f \in [Nat -> Database] : f[0] = D /\ \A i \in Nat : f[i + 1] = step[i][f[i]]
  <2> HIDE DEF step
  <2>1. Iterations(Database, D, step) # {}
    BY <1>2, Iterates
  <2> QED BY <2>1 DEF Iterations
<1> DEFINE g == [n \in 0 .. N |-> f[n]]
<1>4. Is(g)
  <2>1. ASSUME NEW n \in 0 .. N, n # 0 PROVE f[n] = After(g[n - 1], n)
    <3>1. n - 1 \in Nat /\ (n - 1) + 1 = n /\ n - 1 \in 0 .. N
      BY <1>1, <2>1
    <3>2. f[n] = step[n - 1][f[n - 1]] /\ f[n - 1] \in Database
      BY <1>3, <3>1
    <3> HIDE DEF After, N
    <3> QED BY <3>1, <3>2
  <2>2. f[0] = D
    BY <1>3
  <2> HIDE DEF Ran, N
  <2> QED BY <2>1, <2>2
<1> DEFINE q == CHOOSE p : Is(p)
<1>5. Is(q)
  <2> HIDE DEF Is, g
  <2> QED BY <1>4
<1>6. RunAlone(D, h, requests, S, t) = q[N]
  BY DEF RunAlone
<1>7. q \in [0 .. N -> Database] /\ Passes(q, D, h, requests, S, t)
  <2> HIDE DEF q
  <2>1. q[0] = D /\ \A n \in 1 .. N : q[n] = After(q[n - 1], n)
    <3> HIDE DEF Ran, N
    <3> QED BY <1>1, <1>5
  <2>2. Passes(q, D, h, requests, S, t)
    BY <2>1 DEF Passes
  <2>3. \A n \in 0 .. N : q[n] = g[n]
    <3> DEFINE T == {n \in Nat : n <= N => q[n] = f[n]}
    <3>1. 0 \in T
      BY <1>3, <2>1
    <3>2. ASSUME NEW n \in Nat, n \in T PROVE n + 1 \in T
      <4> SUFFICES ASSUME n + 1 <= N PROVE q[n + 1] = f[n + 1]
        OBVIOUS
      <4>1. n + 1 \in 1 .. N /\ (n + 1) - 1 = n /\ q[n] = f[n] /\ f[n] \in Database
        BY <1>1, <1>3, <3>2
      <4>2. q[n + 1] = After(q[n], n + 1) /\ f[n + 1] = step[n][f[n]]
        BY <1>3, <2>1, <4>1, ZenonT(60)
      <4> HIDE DEF After, N
      <4> QED BY <4>1, <4>2
    <3>3. Nat \subseteq T
      <4> HIDE DEF T
      <4> QED BY <3>1, <3>2, AllNaturals
    <3> HIDE DEF N
    <3> QED BY <1>1, <3>3
  <2>4. \E p : q = [n \in 0 .. N |-> p[n]]
    <3>1. q = [n \in 0 .. N |-> q[n]]
      <4> DEFINE B(p, n) == IF n = 0 THEN D ELSE IF n \notin S THEN p[n - 1] ELSE Ran(p[n - 1], n)
      <4>1. q = [n \in 0 .. N |-> B(q, n)]
        BY <1>5
      <4> HIDE DEF B, N
      <4> QED BY <4>1
    <3> QED BY <3>1
  <2>5. \A n \in 0 .. N : g[n] \in Database
    BY <1>3
  <2> HIDE DEF g, N
  <2> QED BY <2>2, <2>3, <2>4, <2>5
<1> HIDE DEF q
<1> QED BY <1>6, <1>7

\* Runs that agree on their first m transacts agree on what those do.
Agree(m, r1, S, t, r2, U, u) ==
  /\ m \in Nat /\ Len(r1) \in Nat /\ Len(r2) \in Nat /\ m <= Len(r1) /\ m <= Len(r2)
  /\ \A n \in 1 .. m : r1[n] = r2[n] /\ (n \in S <=> n \in U) /\ (n \in S => t[n] = u[n])

LEMMA SameRuns ==
  ASSUME NEW D, NEW h, NEW f, NEW r1, NEW S, NEW t, NEW g, NEW r2, NEW U, NEW u, NEW m,
         Passes(f, D, h, r1, S, t), Passes(g, D, h, r2, U, u), Agree(m, r1, S, t, r2, U, u)
  PROVE  f[m] = g[m]
<1> USE DEF Agree
<1> DEFINE T == {n \in Nat : n <= m => f[n] = g[n]}
<1>1. 0 \in T
  BY DEF Passes
<1>2. ASSUME NEW n \in Nat, n \in T PROVE n + 1 \in T
  <2> SUFFICES ASSUME n + 1 <= m PROVE f[n + 1] = g[n + 1]
    OBVIOUS
  <2>1. /\ n + 1 \in 1 .. Len(r1) /\ n + 1 \in 1 .. Len(r2) /\ n + 1 \in 1 .. m
        /\ (n + 1) - 1 = n /\ f[n] = g[n]
    BY <1>2
  <2> QED BY <2>1, ZenonT(60) DEF Passes
<1>3. Nat \subseteq T
  <2> HIDE DEF T
  <2> QED BY <1>1, <1>2, AllNaturals
<1> QED BY <1>3

\* Nothing to run.
LEMMA RunAloneNone ==
  ASSUME NEW D \in Database, NEW h, NEW requests \in Seq(Request), NEW t,
         Runnable(h, requests, {}, t)
  PROVE  RunAlone(D, h, requests, {}, t) = D
<1>1. PICK f : Passes(f, D, h, requests, {}, t) /\ RunAlone(D, h, requests, {}, t) = f[Len(requests)]
  BY RunAloneIs
<1> DEFINE T == {n \in Nat : n <= Len(requests) => f[n] = D}
<1>2. 0 \in T
  BY <1>1 DEF Passes
<1>3. ASSUME NEW n \in Nat, n \in T PROVE n + 1 \in T
  <2> SUFFICES ASSUME n + 1 <= Len(requests) PROVE f[n + 1] = D
    OBVIOUS
  <2>1. n + 1 \in 1 .. Len(requests) /\ (n + 1) - 1 = n /\ f[n] = D
    BY <1>3
  <2> QED BY <1>1, <2>1 DEF Passes
<1>4. Nat \subseteq T
  <2> HIDE DEF T
  <2> QED BY <1>2, <1>3, AllNaturals
<1> QED BY <1>1, <1>4

\* A transact that has just begun changes nothing yet.
LEMMA RunAloneLonger ==
  ASSUME NEW D \in Database, NEW h, NEW requests, NEW r \in Request, NEW S, NEW t,
         Runnable(h, requests, S, t)
  PROVE  /\ Runnable(h, Append(requests, r), S, t)
         /\ RunAlone(D, h, Append(requests, r), S, t) = RunAlone(D, h, requests, S, t)
<1> DEFINE N == Len(requests)
           longer == Append(requests, r)
<1>1. /\ N \in Nat /\ longer \in Seq(Request) /\ Len(longer) = N + 1
      /\ \A n \in 1 .. N : longer[n] = requests[n]
  BY DEF Runnable
<1>2. Runnable(h, longer, S, t)
  BY <1>1 DEF Runnable
<1>3. PICK f : Passes(f, D, h, requests, S, t) /\ RunAlone(D, h, requests, S, t) = f[N]
  BY RunAloneIs
<1>4. PICK g : Passes(g, D, h, longer, S, t) /\ RunAlone(D, h, longer, S, t) = g[N + 1]
  <2> HIDE DEF longer
  <2> QED BY <1>1, <1>2, RunAloneIs
<1>5. f[N] = g[N]
  <2>1. Agree(N, requests, S, t, longer, S, t)
    <3> HIDE DEF longer
    <3> QED BY <1>1 DEF Agree
  <2> HIDE DEF longer, N
  <2> QED BY <1>3, <1>4, <2>1, SameRuns
<1>6. N + 1 \in 1 .. Len(longer) /\ N + 1 \notin S /\ (N + 1) - 1 = N
  BY <1>1 DEF Runnable
<1>7. g[N + 1] = g[N]
  <2> HIDE DEF longer
  <2> QED BY <1>4, <1>6 DEF Passes
<1> QED BY <1>2, <1>3, <1>4, <1>5, <1>7

\* What the transacts in S can make of D.
Runs(D, h, requests, S) == {RunAlone(D, h, requests, S, t) : t \in [S -> 1..MaxClock]}

\* The last transact is applied.
LEMMA RunsNext ==
  ASSUME NEW D \in Database, NEW h, NEW requests, NEW S, NEW E \in Runs(D, h, requests, S),
         \A t \in [S -> 1..MaxClock] : Runnable(h, requests, S, t),
         NEW m, m = Len(requests), m # 0, m \notin S, <<h, m>> \in TxId, NEW now \in 1..MaxClock
  PROVE  Log!Transact(E, requests[m], <<h, m>>, now).D \in Runs(D, h, requests, S \cup {m})
<1> PICK t \in [S -> 1..MaxClock] : E = RunAlone(D, h, requests, S, t)
  BY DEF Runs
<1> DEFINE U == S \cup {m}
           u == [n \in U |-> IF n = m THEN now ELSE t[n]]
<1>1. m \in Nat /\ m # 0 /\ m \in 1 .. m /\ m - 1 \in Nat /\ m - 1 <= m
  BY DEF Runnable
<1>2. Runnable(h, requests, U, u)
  <2>1. U \subseteq 1 .. m /\ \A n \in U : <<h, n>> \in TxId
    BY <1>1 DEF Runnable
  <2>2. u \in [U -> 1..MaxClock]
    BY DEF Runnable
  <2> HIDE DEF U, u
  <2> QED BY <2>1, <2>2 DEF Runnable
<1>3. PICK f : Passes(f, D, h, requests, S, t) /\ RunAlone(D, h, requests, S, t) = f[m]
  BY RunAloneIs
<1>4. PICK g : Passes(g, D, h, requests, U, u) /\ RunAlone(D, h, requests, U, u) = g[m]
  <2> HIDE DEF U, u
  <2> QED BY <1>2, RunAloneIs
<1>5. f[m - 1] = g[m - 1]
  <2>1. \A n \in 1 .. m - 1 : (n \in S <=> n \in U) /\ (n \in S => t[n] = u[n])
    BY <1>1
  <2>2. Agree(m - 1, requests, S, t, requests, U, u)
    <3> HIDE DEF U, u
    <3> QED BY <1>1, <2>1 DEF Agree
  <2> HIDE DEF U, u
  <2> QED BY <1>3, <1>4, <2>2, SameRuns
<1>6. f[m] = f[m - 1] /\ g[m] = Log!Transact(g[m - 1], requests[m], <<h, m>>, now).D
  <2>1. m \in U /\ u[m] = now
    OBVIOUS
  <2> HIDE DEF U, u
  <2> QED BY <1>1, <1>3, <1>4, <2>1 DEF Passes
<1>7. u \in [U -> 1..MaxClock]
  BY DEF Runnable
<1> HIDE DEF u
<1> QED BY <1>3, <1>4, <1>5, <1>6, <1>7 DEF Runs
-----------------------------------------------------------------------------
(* What the holder of the lock has made of the committed database *)

\* What the applied transacts of h make of it, depending on their instants.
Before(h) == Runs(db, h, asked[h], Applied(h))

Reached == [D |-> work, asserted |-> asserted, retracted |-> retracted, error |-> "none"]

\* The transact that writes, if there is one, is at its next operation on E.
ComputesFrom(h, E) ==
  /\ ~ Writing(h) => work = E
  /\ Guarded(h) => save = E
  /\ Writing(h) => /\ next - 1 <= Len(Asking(h).ops)
                   /\ Log!Loop(E, Asking(h), Tx(h), instant[h])[next - 1] = Reached

AloneOf(h) == lock = h => \E E \in Before(h) : ComputesFrom(h, E)

ClockInv == clock \in 1..MaxClock /\ \A h \in Host : Running(h) => instant[h] \in 1..MaxClock

UnusedInv == (\A h \in Host : ~ Writing(h)) => next = 1 /\ asserted = {} /\ retracted = {}

AloneInv == ClockInv /\ UnusedInv /\ \A h \in Host : AloneOf(h)

LEMMA AloneInit == Init => AloneInv
BY SqlAssumption DEF Init, AloneInv, ClockInv, UnusedInv, AloneOf, Running

LEMMA HistoryIs ==
  ASSUME Typed, NEW h \in Host, NEW t \in [Applied(h) -> 1..MaxClock]
  PROVE  Runnable(h, asked[h], Applied(h), t)
<1>1. asked[h] \in Seq(Request) /\ DOMAIN result[h] = 1 .. Len(asked[h])
  BY SqlAssumption DEF Typed, TypeOK, ProgressInv
<1>2. Applied(h) \subseteq 1 .. Len(asked[h]) /\ Len(asked[h]) <= MaxCalls[h]
  BY <1>1 DEF Applied, Typed, ProgressInv
<1>3. \A n \in Applied(h) : <<h, n>> \in TxId
  <2>1. Len(asked[h]) \in Nat /\ MaxCalls[h] \in Nat
    BY <1>1, SqlAssumption
  <2>2. \A n \in Applied(h) : n \in 1 .. MaxCalls[h]
    BY <1>2, <2>1
  <2> QED BY <2>2, CallsAre
<1> QED BY <1>1, <1>2, <1>3 DEF Runnable

LEMMA BeforeType ==
  ASSUME Typed, NEW h \in Host
  PROVE  /\ Before(h) \subseteq Database
         /\ Applied(h) = {} => Before(h) = {db}
<1>1. ASSUME NEW t \in [Applied(h) -> 1..MaxClock]
      PROVE  RunAlone(db, h, asked[h], Applied(h), t) \in Database
  <2>1. Runnable(h, asked[h], Applied(h), t) /\ db \in Database
    BY HistoryIs DEF Typed, TypeOK
  <2>2. PICK f \in [0 .. Len(asked[h]) -> Database] :
          RunAlone(db, h, asked[h], Applied(h), t) = f[Len(asked[h])]
    BY <2>1, RunAloneIs
  <2>3. Len(asked[h]) \in 0 .. Len(asked[h])
    BY <2>1 DEF Runnable
  <2> QED BY <2>2, <2>3
<1>2. ASSUME Applied(h) = {} PROVE Before(h) = {db}
  <2>1. ASSUME NEW t \in [Applied(h) -> 1..MaxClock]
        PROVE  RunAlone(db, h, asked[h], Applied(h), t) = db
    <3>1. Runnable(h, asked[h], {}, t) /\ db \in Database /\ asked[h] \in Seq(Request)
      BY <1>2, HistoryIs DEF Typed, TypeOK, Runnable
    <3> QED BY <1>2, <3>1, RunAloneNone
  <2>2. [n \in Applied(h) |-> 1] \in [Applied(h) -> 1..MaxClock]
    BY <1>2
  <2> QED BY <2>1, <2>2 DEF Before, Runs
<1> QED BY <1>1, <1>2 DEF Before, Runs

\* Nothing changes for a host that another one's step leaves alone.
LEMMA OthersStayAlone ==
  ASSUME NEW g \in Host, AloneOf(g), lock' = g => lock = g,
         lock = g => /\ UNCHANGED <<db, work, save, next, asserted, retracted>>
                     /\ pc'[g] = pc[g] /\ asked'[g] = asked[g] /\ instant'[g] = instant[g]
                     /\ Applied(g)' = Applied(g)
  PROVE  AloneOf(g)'
<1> SUFFICES ASSUME lock' = g PROVE \E E \in Before(g)' : ComputesFrom(g, E)'
  BY DEF AloneOf
<1>1. PICK E \in Before(g) : ComputesFrom(g, E)
  BY DEF AloneOf
<1>2. Before(g)' = Before(g)
  BY DEF Before
<1>3. ComputesFrom(g, E)'
  BY <1>1 DEF ComputesFrom, Writing, Guarded, Running, Reached, Asking, Tx
<1> QED BY <1>1, <1>2, <1>3
\* What a step of h does to another host.
LEMMA OthersStay ==
  ASSUME Typed, NEW h \in Host, Step(h), NEW g \in Host \ {h}
  PROVE  /\ lock' = g => lock = g
         /\ lock = g => UNCHANGED <<db, work, save, next, asserted, retracted>>
         /\ pc'[g] = pc[g] /\ asked'[g] = asked[g] /\ instant'[g] = instant[g]
         /\ Applied(g)' = Applied(g)
<1> SUFFICES /\ lock' = g => lock = g
             /\ lock = g => UNCHANGED <<db, work, save, next, asserted, retracted>>
             /\ pc'[g] = pc[g] /\ asked'[g] = asked[g] /\ instant'[g] = instant[g]
             /\ result'[g] = result[g]
  BY DEF Applied
<1>1. NoHost \notin Host /\ (Writing(h) => lock = h)
  BY SqlAssumption DEF Typed, ProgressInv
<1>2. CASE Moves(h) \/ ClaimCommand(h)
  BY <1>1, <1>2 DEF Moves, Open, EnforceHolds, RetractNothing, AtOp, ClaimCommand, OpDone, holder,
     Typed, TypeOK, Writing
<1>3. CASE Asks(h)
  <2>1. PICK r \in Requests : Reject(h, r) \/ Begin(h, r)
    BY <1>3 DEF Asks
  <2> QED BY <1>1, <2>1 DEF Reject, Begin, holder, Typed, TypeOK
<1>4. CASE NextPosition(h)
  BY <1>1, <1>4 DEF NextPosition, holder, Typed, TypeOK
<1>5. CASE AssertFact(h) \/ Retracts(h)
  <2>1. pc[h] = "ops" /\ UNCHANGED <<db, pc, asked, result, instant, lock>>
    BY <1>5 DEF AssertFact, Retracts, RetractAll, AtOp, OpDone
  <2> QED BY <1>1, <2>1 DEF Writing
<1>6. CASE Finish(h)
  BY <1>1, <1>6, FinishIs DEF Finish, FinishAs, Answer, Typed, TypeOK
<1>7. CASE Fails(h)
  <2>1. PICK o : Fail(h, o)
    BY <1>7 DEF Fails, AlreadyCommitted
  <2>2. /\ UNCHANGED <<db, asked>> /\ pc'[g] = pc[g] /\ instant'[g] = instant[g]
        /\ result'[g] = result[g]
    BY <2>1 DEF Fail, Answer, Typed, TypeOK
  <2>3. lock = h => lock' \in {h, NoHost}
    BY <2>1 DEF Fail, Unlock
  <2>4. lock # h => UNCHANGED <<lock, work, save, next, asserted, retracted>>
    BY <2>1 DEF Fail, holder
  <2> QED BY <1>1, <2>2, <2>3, <2>4
<1>8. CASE Ends(h)
  <2>1. PICK D, verdict : Close(h, D, verdict) /\ (lock # h => D = db)
    BY <1>8 DEF Ends, HostCommit, HostRollback
  <2>2. asked' = asked /\ pc'[g] = pc[g] /\ instant'[g] = instant[g] /\ result'[g] = result[g]
    BY <2>1 DEF Close, Typed, TypeOK
  <2>3. lock = h => lock' = NoHost
    BY <2>1 DEF Close, Unlock
  <2>4. lock # h => UNCHANGED <<db, lock, work, save, next, asserted, retracted>>
    BY <2>1 DEF Close, holder
  <2> QED BY <1>1, <2>2, <2>3, <2>4
<1> QED BY <1>2, <1>3, <1>4, <1>5, <1>6, <1>7, <1>8, StepIs

\* Instants are of the clock, and a transact that has ended leaves nothing behind.
LEMMA ClockKept ==
  ASSUME Typed, ClockInv, UnusedInv, NEW h \in Host, Step(h)
  PROVE  ClockInv' /\ UnusedInv'
<1>1. NoHost \notin Host /\ (Writing(h) => lock = h)
  BY SqlAssumption DEF Typed, ProgressInv
<1>2. \A g \in Host \ {h} : pc'[g] = pc[g] /\ instant'[g] = instant[g]
  BY OthersStay
<1>3. ASSUME clock' = clock, Running(h)' => instant'[h] \in 1..MaxClock PROVE ClockInv'
  BY <1>2, <1>3 DEF ClockInv, Running
<1>4. ASSUME Writing(h)' = Writing(h), UNCHANGED holder PROVE UnusedInv'
  BY <1>2, <1>4 DEF UnusedInv, Writing, holder
<1>5. ASSUME Writing(h)' PROVE UnusedInv'
  BY <1>5 DEF UnusedInv
<1>6. ASSUME next' = 1, asserted' = {}, retracted' = {} PROVE UnusedInv'
  BY <1>6 DEF UnusedInv
<1>7. CASE Moves(h)
  <2>1. /\ clock' = clock /\ instant' = instant
        /\ Running(h)' => Running(h) /\ (Writing(h)' = Writing(h))
        /\ UNCHANGED holder \/ Writing(h)'
    BY <1>7 DEF Moves, Open, EnforceHolds, RetractNothing, AtOp, OpDone, Typed, TypeOK, Running, Writing
  <2>2. Writing(h)' = Writing(h)
    BY <1>7 DEF Moves, Open, EnforceHolds, RetractNothing, AtOp, OpDone, Typed, TypeOK, Writing
  <2> QED BY <1>3, <1>4, <1>5, <2>1, <2>2 DEF ClockInv
<1>8. CASE ClaimCommand(h)
  BY <1>3, <1>4, <1>8 DEF ClaimCommand, ClockInv, Typed, TypeOK, Running, Writing
<1>9. CASE Asks(h)
  <2>1. PICK r \in Requests : Reject(h, r) \/ Begin(h, r)
    BY <1>9 DEF Asks
  <2>2. clock' = clock /\ UNCHANGED holder /\ Writing(h)' = Writing(h)
    BY <2>1 DEF Reject, Begin, Typed, TypeOK, Writing
  <2>3. Running(h)' => instant'[h] = clock
    BY <2>1 DEF Reject, Begin, Typed, TypeOK, Running
  <2> QED BY <1>3, <1>4, <2>2, <2>3 DEF ClockInv
<1>10. CASE NextPosition(h)
  <2>1. /\ pc[h] = "position" /\ pc'[h] \in {"enforce", "ops"}
        /\ clock' = clock /\ instant' = instant
    BY <1>10 DEF NextPosition, Typed, TypeOK
  <2> QED BY <1>3, <1>5, <2>1 DEF ClockInv, Running, Writing
<1>11. CASE AssertFact(h) \/ Retracts(h)
  <2>1. pc[h] = "ops" /\ UNCHANGED <<pc, instant, clock>>
    BY <1>11 DEF AssertFact, Retracts, RetractAll, AtOp, OpDone
  <2> QED BY <1>3, <1>5, <2>1 DEF ClockInv, Running, Writing
<1>12. CASE Finish(h)
  BY <1>3, <1>6, <1>12 DEF Finish, FinishAs, Typed, TypeOK, Running
<1>13. CASE Fails(h)
  <2>1. PICK o : Fail(h, o)
    BY <1>13 DEF Fails, AlreadyCommitted
  <2>2. clock' = clock /\ ~ Running(h)' /\ ~ Writing(h)'
    BY <2>1 DEF Fail, Typed, TypeOK, Running, Writing
  <2>3. (UNCHANGED holder /\ lock # h) \/ (next' = 1 /\ asserted' = {} /\ retracted' = {})
    BY <2>1 DEF Fail, Unlock
  <2>4. lock # h => Writing(h)' = Writing(h)
    <3>1. lock # h => Writing(h) = FALSE
      BY <1>1 DEF Writing
    <3>2. Writing(h)' = FALSE
      BY <2>2 DEF Writing
    <3> QED BY <3>1, <3>2
  <2> QED BY <1>3, <1>4, <1>6, <2>2, <2>3, <2>4
<1>14. CASE Ends(h)
  <2>1. PICK D, verdict : Close(h, D, verdict)
    BY <1>14 DEF Ends, HostCommit, HostRollback
  <2>2. clock' = clock /\ ~ Running(h)' /\ ~ Writing(h)'
    BY <2>1 DEF Close, Typed, TypeOK, Running, Writing
  <2>3. (UNCHANGED holder /\ lock # h) \/ (next' = 1 /\ asserted' = {} /\ retracted' = {})
    BY <2>1 DEF Close, Unlock
  <2>4. lock # h => Writing(h)' = Writing(h)
    <3>1. lock # h => Writing(h) = FALSE
      BY <1>1 DEF Writing
    <3>2. Writing(h)' = FALSE
      BY <2>2 DEF Writing
    <3> QED BY <3>1, <3>2
  <2> QED BY <1>3, <1>4, <1>6, <2>2, <2>3, <2>4
<1> QED BY <1>7, <1>8, <1>9, <1>10, <1>11, <1>12, <1>13, <1>14, StepIs
-----------------------------------------------------------------------------
(* What a step of the holder makes of it *)

LEMMA AskAlone == ASSUME Typed, NEW h \in Host, AloneOf(h), Asks(h) PROVE AloneOf(h)'
<1> SUFFICES ASSUME lock' = h PROVE \E E \in Before(h)' : ComputesFrom(h, E)'
  BY DEF AloneOf
<1>1. PICK r \in Requests : Reject(h, r) \/ Begin(h, r)
  BY DEF Asks
<1>2. /\ pc[h] = "open" /\ pc'[h] \in {"open", "claim"}
      /\ UNCHANGED <<db, lock, work>> /\ asked'[h] = Append(asked[h], r)
      /\ pc'[h] = "claim" => save' = work
      /\ \E o \in {"WriteError", "running"} : result'[h] = Append(result[h], o)
  BY <1>1 DEF Reject, Begin, Typed, TypeOK
<1>3. Applied(h)' = Applied(h)
  <2>1. result[h] \in Seq(Result)
    BY DEF Typed, TypeOK
  <2> QED BY <1>2, <2>1 DEF Applied
<1>4. PICK E \in Before(h) : ComputesFrom(h, E)
  BY <1>2 DEF AloneOf
<1>5. PICK t \in [Applied(h) -> 1..MaxClock] : E = RunAlone(db, h, asked[h], Applied(h), t)
  BY DEF Before, Runs
<1>6. E = RunAlone(db, h, Append(asked[h], r), Applied(h), t)
  <2>1. db \in Database /\ r \in Request
    BY SqlAssumption DEF Typed, TypeOK
  <2> QED BY <1>5, <2>1, HistoryIs, RunAloneLonger
<1>7. E \in Before(h)'
  BY <1>2, <1>3, <1>6 DEF Before, Runs
<1>8. ComputesFrom(h, E)'
  BY <1>2, <1>4 DEF ComputesFrom, Writing, Guarded, Running
<1> QED BY <1>7, <1>8

\* The steps before the position, and those that only read.
LEMMA QuietAlone ==
  ASSUME Typed, NEW h \in Host, AloneOf(h), Open(h) \/ EnforceHolds(h) \/ ClaimCommand(h)
  PROVE  AloneOf(h)'
<1>1. /\ UNCHANGED <<db, asked, result, instant, lock, work, save, next, asserted, retracted>>
      /\ Writing(h)' = Writing(h) /\ (Running(h)' => Running(h))
  BY DEF Open, EnforceHolds, ClaimCommand, holder, Typed, TypeOK, Writing, Running
<1>2. Before(h)' = Before(h) /\ Applied(h)' = Applied(h)
  BY <1>1 DEF Before, Applied
<1>3. ASSUME NEW E, ComputesFrom(h, E) PROVE ComputesFrom(h, E)'
  BY <1>1, <1>2, <1>3 DEF ComputesFrom, Guarded, Reached, Asking, Tx
<1> QED BY <1>1, <1>2, <1>3 DEF AloneOf

LEMMA PositionAlone ==
  ASSUME Typed, ClaimInv, UnusedInv, NEW h \in Host, AloneOf(h), NextPosition(h)
  PROVE  AloneOf(h)'
<1>1. /\ ~ Writing(h) /\ Running(h) /\ Writing(h)' /\ claimed[h] = Asking(h).command
      /\ lock \in {NoHost, h} /\ lock' = h
      /\ UNCHANGED <<db, asked, result, instant, save>>
      /\ View(h) = IF lock = h THEN work ELSE db
  BY PositionIs
<1>2. work' = WithNextPosition(Claimed(h)) /\ UNCHANGED <<next, asserted, retracted>>
  BY DEF NextPosition, holder
<1>3. PICK E \in Before(h) : View(h) = E /\ (lock = h => ComputesFrom(h, E))
  <2>1. CASE lock = h
    BY <1>1, <2>1 DEF AloneOf, ComputesFrom
  <2>2. CASE lock # h
    <3>1. Applied(h) = {}
      BY <2>2 DEF Typed, ProgressInv
    <3> QED BY <1>1, <2>2, <3>1, BeforeType
  <2> QED BY <2>1, <2>2
<1>4. Before(h)' = Before(h) /\ Asking(h)' = Asking(h) /\ Tx(h)' = Tx(h) /\ Applied(h)' = Applied(h)
  BY <1>1 DEF Before, Applied, Asking, Tx
<1>5. E \in Database /\ Asking(h) \in Request /\ Tx(h) \in TxId /\ instant[h] \in Nat
  BY <1>1, BeforeType, RunningTransact DEF Typed, TypeOK
<1>6. Log!Start(E, Asking(h), Tx(h)) =
        [D |-> work', asserted |-> {}, retracted |-> {}, error |-> "none"]
  BY <1>1, <1>2, <1>3, SameWrites DEF Log!Start, Claimed
<1>7. next = 1 /\ asserted = {} /\ retracted = {}
  <2>1. \A g \in Host : ~ Writing(g)
    BY <1>1, SqlAssumption DEF Typed, ProgressInv
  <2> QED BY <2>1 DEF UnusedInv
<1>8. Log!Loop(E, Asking(h), Tx(h), instant[h])[0] = Reached'
  BY <1>2, <1>5, <1>6, <1>7, LoopIs DEF Reached
<1>9. Guarded(h)' => save' = E
  <2>1. Guarded(h)' => Guarded(h)
    BY <1>1, <1>4 DEF Guarded, Typed, ProgressInv
  <2> QED BY <1>1, <1>3, <2>1 DEF ComputesFrom, Guarded
<1>10. next' - 1 = 0 /\ next' - 1 <= Len(Asking(h).ops)
  <2>1. Len(Asking(h).ops) \in Nat
    BY <1>5 DEF Request
  <2> QED BY <1>2, <1>7, <2>1
<1>11. ComputesFrom(h, E)'
  <2>1. Asking(h)' = Asking(h) /\ Tx(h)' = Tx(h) /\ instant'[h] = instant[h]
    BY <1>1, <1>4
  <2> QED BY <1>1, <1>8, <1>9, <1>10, <2>1 DEF ComputesFrom
<1> QED BY <1>3, <1>4, <1>11 DEF AloneOf

\* The next operation, in TripleLog's terms.
LEMMA OpRuns ==
  ASSUME Typed, NEW h \in Host, NEW E \in Database, ComputesFrom(h, E), pc[h] = "ops",
         next <= Len(Asking(h).ops)
  PROVE  /\ Reached \in Loops /\ Asking(h) \in Request /\ Tx(h) \in TxId /\ instant[h] \in Nat
         /\ CurrentOp(h) \in Op
         /\ Log!Loop(E, Asking(h), Tx(h), instant[h])[next] =
              Log!ApplyOp(Reached, CurrentOp(h), Asking(h), Tx(h), instant[h])
<1>1. Running(h) /\ Writing(h)
  BY DEF Running, Writing
<1>2. Asking(h) \in Request /\ Tx(h) \in TxId /\ instant[h] \in Nat
  BY <1>1, RunningTransact DEF Typed, TypeOK
<1>3. Reached \in Loops
  BY DEF Reached, Loops, Typed, TypeOK
<1>4. next \in 1 .. Len(Asking(h).ops)
  BY <1>2 DEF Typed, TypeOK, Request
<1>5. CurrentOp(h) \in Op
  BY <1>2, <1>4 DEF CurrentOp, Request
<1>6. Log!Loop(E, Asking(h), Tx(h), instant[h])[next - 1] = Reached
  BY <1>1 DEF ComputesFrom
<1>7. \A n \in 1 .. Len(Asking(h).ops) :
        Log!Loop(E, Asking(h), Tx(h), instant[h])[n] =
          Log!ApplyOp(Log!Loop(E, Asking(h), Tx(h), instant[h])[n - 1], Asking(h).ops[n],
                      Asking(h), Tx(h), instant[h])
  BY <1>2, LoopIs
<1> QED BY <1>2, <1>3, <1>4, <1>5, <1>6, <1>7 DEF CurrentOp

\* Whatever an operation does, its result has to be what ApplyOp makes.
LEMMA OpAlone ==
  ASSUME Typed, NEW h \in Host, AloneOf(h), pc[h] = "ops", next <= Len(Asking(h).ops), OpDone,
         Log!ApplyOp(Reached, CurrentOp(h), Asking(h), Tx(h), instant[h]) = Reached'
  PROVE  AloneOf(h)'
<1>1. Running(h) /\ Writing(h) /\ lock = h
  BY DEF Running, Writing, Typed, ProgressInv
<1>2. UNCHANGED <<db, pc, asked, result, instant, lock, save>> /\ next' = next + 1
  BY DEF OpDone
<1>3. PICK E \in Before(h) : ComputesFrom(h, E)
  BY <1>1 DEF AloneOf
<1>4. /\ Before(h)' = Before(h) /\ Asking(h)' = Asking(h) /\ Tx(h)' = Tx(h)
      /\ Guarded(h)' = Guarded(h) /\ Writing(h)' = Writing(h)
  BY <1>2 DEF Before, Applied, Asking, Tx, Guarded, Running, Writing
<1>5. Log!Loop(E, Asking(h), Tx(h), instant[h])[next] = Reached'
  BY <1>3, BeforeType, OpRuns
<1>6. next' - 1 = next
  BY <1>2 DEF Typed, TypeOK
<1>7. ComputesFrom(h, E)'
  BY <1>1, <1>2, <1>3, <1>4, <1>5, <1>6 DEF ComputesFrom
<1> QED BY <1>3, <1>4, <1>7 DEF AloneOf
LEMMA WriteAlone ==
  ASSUME Typed, NEW h \in Host, AloneOf(h),
         AssertFact(h) \/ RetractFact(h) \/ RetractPattern(h) \/ RetractNothing(h)
  PROVE  AloneOf(h)'
<1> DEFINE applied == Log!ApplyOp(Reached, CurrentOp(h), Asking(h), Tx(h), instant[h])
<1>1. pc[h] = "ops" /\ next <= Len(Asking(h).ops) /\ lock = h
  BY DEF AssertFact, RetractFact, RetractPattern, RetractNothing, AtOp, Writing, Typed, ProgressInv
<1>2. /\ Reached \in Loops /\ Asking(h) \in Request /\ Tx(h) \in TxId /\ instant[h] \in Nat
      /\ CurrentOp(h) \in Op
  <2>1. PICK E \in Database : ComputesFrom(h, E)
    BY <1>1, BeforeType DEF AloneOf
  <2> QED BY <1>1, <2>1, OpRuns
<1>3. Reached.D = work /\ Reached.asserted = asserted /\ Reached.retracted = retracted /\ Reached.error = "none"
  BY DEF Reached
<1>4. ASSUME AssertFact(h) PROVE applied = Reached' /\ OpDone
  <2>1. /\ CurrentOp(h).op = "assert" /\ HasFreshId(work) /\ OpDone
        /\ work' = WithFact(work, FreshId(work), CurrentOp(h).entity, Tx(h), instant[h])
        /\ asserted' = asserted \cup {FreshId(work)} /\ retracted' = retracted
    BY <1>4 DEF AssertFact, AtOp, CurrentOp
  <2>2. applied = Log!Asserting(Reached, FreshId(work), CurrentOp(h).entity, Tx(h), instant[h])
    BY <1>2, <1>3, <2>1, ApplyAssert
  <2>3. Log!Asserting(Reached, FreshId(work), CurrentOp(h).entity, Tx(h), instant[h]) =
          [D |-> WithFact(Reached.D, FreshId(work), CurrentOp(h).entity, Tx(h), instant[h]),
           asserted |-> Reached.asserted \cup {FreshId(work)},
           retracted |-> Reached.retracted, error |-> Reached.error]
    BY <1>2, AssertingIs, ZenonT(60)
  <2>4. applied = [D |-> work', asserted |-> asserted', retracted |-> retracted', error |-> "none"]
    <3> HIDE DEF applied
    <3> QED BY <1>3, <2>1, <2>2, <2>3
  <2> HIDE DEF applied
  <2> QED BY <2>1, <2>4 DEF Reached
<1>5. ASSUME NEW ids, RetractAll(h, ids),
             applied = Log!Retracting(Reached, ids, Tx(h), instant[h])
      PROVE  applied = Reached' /\ OpDone
  <2>1. /\ OpDone /\ work' = WithRetracted(work, ids, Tx(h), instant[h])
        /\ retracted' = retracted \cup ids /\ asserted' = asserted
    BY <1>5 DEF RetractAll
  <2> QED BY <1>2, <1>3, <1>5, <2>1, RetractingIs DEF Reached
<1>6. ASSUME RetractFact(h) PROVE applied = Reached' /\ OpDone
  <2>1. /\ CurrentOp(h).op = "retract" /\ IsLive(work, CurrentOp(h).id)
        /\ ~ TouchesReserved(h, {CurrentOp(h).id}) /\ RetractAll(h, {CurrentOp(h).id})
    BY <1>6 DEF RetractFact, AtOp, CurrentOp
  <2>2. ~ Log!Hidden(Asking(h), work, {CurrentOp(h).id})
    BY <2>1 DEF Log!Hidden, TouchesReserved
  <2>3. applied = Log!Retracting(Reached, {CurrentOp(h).id}, Tx(h), instant[h])
    BY <1>2, <1>3, <2>1, <2>2, ApplyRetract
  <2> QED BY <1>5, <2>1, <2>3
<1>7. ASSUME RetractPattern(h) PROVE applied = Reached' /\ OpDone
  <2>1. /\ CurrentOp(h).op = "retract-pattern"
        /\ ~ TouchesReserved(h, Matching(work, CurrentOp(h).entity))
        /\ RetractAll(h, Matching(work, CurrentOp(h).entity))
    BY <1>7 DEF RetractPattern, AtOp, CurrentOp
  <2>2. ~ Log!Hidden(Asking(h), work, Matching(work, CurrentOp(h).entity))
    BY <2>1 DEF Log!Hidden, TouchesReserved
  <2>3. applied = Log!Retracting(Reached, Matching(work, CurrentOp(h).entity), Tx(h), instant[h])
    BY <1>2, <1>3, <2>1, <2>2, ApplyPattern
  <2> QED BY <1>5, <2>1, <2>3
<1>8. ASSUME RetractNothing(h) PROVE applied = Reached' /\ OpDone
  <2>1. /\ CurrentOp(h).op = "retract" /\ ~ IsLive(work, CurrentOp(h).id)
        /\ CurrentOp(h).id \notin Asking(h).expects
        /\ UNCHANGED <<work, asserted, retracted>> /\ OpDone
    BY <1>8 DEF RetractNothing, AtOp, CurrentOp
  <2>2. ~ Log!Hidden(Asking(h), work, {CurrentOp(h).id})
    BY <2>1, SameReads DEF Log!Hidden
  <2>3. applied = Reached
    BY <1>2, <1>3, <2>1, <2>2, ApplyNothing
  <2> QED BY <2>1, <2>3 DEF Reached
<1> HIDE DEF applied
<1>9. applied = Reached' /\ OpDone
  BY <1>4, <1>6, <1>7, <1>8
<1> QED BY <1>1, <1>9, OpAlone DEF applied

\* The transact that finishes is the last of those applied.
LEMMA FinishAlone ==
  ASSUME Typed, ClockInv, NEW h \in Host, AloneOf(h), Finish(h)
  PROVE  AloneOf(h)'
<1> DEFINE m == Len(asked[h])
           r == Asking(h)
<1>1. /\ Running(h) /\ Writing(h) /\ lock = h /\ lock' = h
      /\ r.journaled => work' = WithEnvelope(work, EnvelopeOf(h))
      /\ ~ r.journaled => work' = work
      /\ DOMAIN result'[h] = DOMAIN result[h]
      /\ \A n \in DOMAIN result[h] : result'[h][n] = IF n = m THEN "applied" ELSE result[h][n]
  BY FinishIs
<1>2. UNCHANGED <<db, asked>> /\ next > Len(r.ops) /\ pc'[h] = "open"
  BY DEF Finish, FinishAs, Typed, TypeOK
<1>3. PICK E \in Before(h) : ComputesFrom(h, E)
  BY <1>1 DEF AloneOf
<1>5. /\ r \in Request /\ Tx(h) \in TxId /\ Tx(h) = <<h, m>> /\ r = asked[h][m]
      /\ m \in DOMAIN result[h] /\ result[h][m] = "running" /\ asked[h] # <<>>
      /\ instant[h] \in 1..MaxClock /\ instant[h] \in Nat /\ E \in Database /\ db \in Database
  BY <1>1, RunningTransact, BeforeType DEF ClockInv, Typed, TypeOK, ProgressInv, Tx, Asking
<1>6. Applied(h)' = Applied(h) \cup {m} /\ m \notin Applied(h)
  BY <1>1, <1>5 DEF Applied
<1>7. Log!Transact(E, r, Tx(h), instant[h]).D = work'
  <2>1. next - 1 = Len(r.ops)
    <3>1. Len(r.ops) \in Nat /\ next \in Nat
      BY <1>5 DEF Request, Typed, TypeOK
    <3>2. next - 1 <= Len(r.ops)
      BY <1>1, <1>3 DEF ComputesFrom
    <3> HIDE DEF r
    <3> QED BY <1>2, <3>1, <3>2
  <2>2. Reached = Log!Loop(E, r, Tx(h), instant[h])[Len(r.ops)]
    BY <1>1, <1>3, <2>1 DEF ComputesFrom
  <2>3. /\ Reached.D = work /\ Reached.asserted = asserted /\ Reached.retracted = retracted
        /\ Reached.error = "none" /\ Reached \in Loops
    BY DEF Reached, Loops, Typed, TypeOK
  <2>4. Log!Transact(E, r, Tx(h), instant[h]).D =
          IF r.journaled THEN WithEnvelope(work, EnvelopeOf(h)) ELSE work
    <3> HIDE DEF r
    <3> QED BY <1>5, <2>2, <2>3, TransactIs DEF EnvelopeOf, r
  <2> QED BY <1>1, <2>4
<1>8. work' \in Runs(db, h, asked[h], Applied(h) \cup {m})
  <2>1. \A v \in [Applied(h) -> 1..MaxClock] : Runnable(h, asked[h], Applied(h), v)
    BY HistoryIs
  <2>2. m = Len(asked[h]) /\ m # 0
    BY <1>5 DEF Typed, TypeOK
  <2>3. Log!Transact(E, asked[h][m], <<h, m>>, instant[h]).D \in Runs(db, h, asked[h], Applied(h) \cup {m})
    <3>1. E \in Runs(db, h, asked[h], Applied(h)) /\ m \notin Applied(h) /\ <<h, m>> \in TxId
      BY <1>3, <1>5, <1>6 DEF Before
    <3> HIDE DEF m, r
    <3> QED BY <1>5, <2>1, <2>2, <3>1, RunsNext
  <2> QED BY <1>5, <1>7, <2>3
<1>9. work' \in Before(h)'
  BY <1>2, <1>6, <1>8 DEF Before
<1>10. \A F : F = work' => ComputesFrom(h, F)'
  BY <1>2 DEF ComputesFrom, Writing, Guarded, Running
<1> QED BY <1>9, <1>10 DEF AloneOf

LEMMA FailAlone == ASSUME Typed, NEW h \in Host, AloneOf(h), Fails(h) PROVE AloneOf(h)'
<1> SUFFICES ASSUME lock' = h PROVE \E E \in Before(h)' : ComputesFrom(h, E)'
  BY DEF AloneOf
<1>1. /\ UNCHANGED <<db, asked>> /\ pc'[h] = "open" /\ Applied(h)' = Applied(h)
      /\ Guarded(h) /\ work' = save /\ lock = h
  BY FailIs, SqlAssumption DEF Guarded
<1>2. PICK E \in Before(h) : ComputesFrom(h, E)
  BY <1>1 DEF AloneOf
<1>3. Before(h)' = Before(h)
  BY <1>1 DEF Before
<1>4. ComputesFrom(h, E)'
  BY <1>1, <1>2 DEF ComputesFrom, Writing, Guarded, Running
<1> QED BY <1>2, <1>3, <1>4

LEMMA StepAlone ==
  ASSUME Typed, ClaimInv, AloneInv, NEW h \in Host, Step(h)
  PROVE  AloneInv'
<1>1. ClockInv' /\ UnusedInv'
  BY ClockKept DEF AloneInv
<1>2. ASSUME NEW g \in Host \ {h} PROVE AloneOf(g)'
  BY OthersStay, OthersStayAlone DEF AloneInv
<1>3. AloneOf(h)'
  <2>1. CASE BodyStep(h)
    <3>1. ASSUME AlreadyCommitted(h) \/ EnforceViolated(h) \/ RetractConflict(h) \/ RetractReserved(h)
                 \/ DeadlockVictim(h)
          PROVE  Fails(h)
      BY <3>1 DEF AlreadyCommitted, EnforceViolated, RetractConflict, RetractReserved, DeadlockVictim,
                  Deadlocked, WaitsForReceipt, AtOp, Fails, Running, Failure
    <3> QED BY <2>1, <3>1, FailAlone, QuietAlone, PositionAlone, WriteAlone, FinishAlone
            DEF BodyStep, AloneInv
  <2>2. CASE Ends(h)
    <3>1. lock' # h
      BY <2>2, EndIs, SqlAssumption
    <3> QED BY <3>1 DEF AloneOf
  <2>3. CASE Open(h)
    BY <2>3, QuietAlone DEF AloneInv
  <2>4. CASE Asks(h)
    BY <2>4, AskAlone DEF AloneInv
  <2> QED BY <2>1, <2>2, <2>3, <2>4 DEF Step, HostEnd, Ends, Asks
<1> QED BY <1>1, <1>2, <1>3 DEF AloneInv

LEMMA NextAlone == Typed /\ ClaimInv /\ AloneInv /\ [Next]_vars => AloneInv'
<1> SUFFICES ASSUME Typed, ClaimInv, AloneInv, [Next]_vars PROVE AloneInv'
  OBVIOUS
<1>1. CASE UNCHANGED <<db, pc, asked, result, instant, lock, work, save, holder>> /\ clock' \in {clock, clock + 1}
           /\ clock' \in 1..MaxClock
  <2>1. \A h \in Host : Before(h)' = Before(h)
    BY <1>1 DEF Before, Applied
  <2>2. \A h \in Host : \A E : ComputesFrom(h, E) => ComputesFrom(h, E)'
    BY <1>1 DEF ComputesFrom, Writing, Guarded, Running, Applied, Reached, Asking, Tx, holder
  <2>3. \A h \in Host : AloneOf(h)'
    BY <1>1, <2>1, <2>2 DEF AloneOf, AloneInv
  <2>4. ClockInv' /\ UnusedInv'
    BY <1>1 DEF AloneInv, ClockInv, UnusedInv, Running, Writing, holder
  <2> QED BY <2>3, <2>4 DEF AloneInv
<1>2. CASE Tick
  <2>1. clock' \in 1..MaxClock
    BY <1>2, SqlAssumption DEF Tick, AloneInv, ClockInv
  <2> QED BY <1>1, <1>2, <2>1 DEF Tick
<1>3. CASE UNCHANGED vars
  BY <1>1, <1>3 DEF vars, holder, AloneInv, ClockInv
<1> QED BY <1>2, <1>3, StepAlone DEF Next, Finished

LEMMA AloneInductive == Spec => []AloneInv
<1>1. SqlInv /\ AloneInv /\ [Next]_vars => AloneInv'
  BY NextAlone DEF SqlInv
<1> QED BY <1>1, AloneInit, SqlInductive, PTL DEF Spec

\* A host transaction that commits has made of the database what its transacts,
\* run one after the other with nothing in between, make of it.
THEOREM HostsCommitAsIfAlone == Spec => CommitsAsIfAlone
<1>1. SqlInv /\ AloneInv /\ [Next]_vars =>
        [db' # db => \E h \in Host : \E t \in [Applied(h) -> 1..MaxClock] :
           /\ HostCommit(h)
           /\ db' = RunAlone(db, h, asked[h], Applied(h), t)]_vars
  <2> SUFFICES ASSUME SqlInv, AloneInv, Next, db' # db
               PROVE  \E h \in Host : \E t \in [Applied(h) -> 1..MaxClock] :
                        HostCommit(h) /\ db' = RunAlone(db, h, asked[h], Applied(h), t)
    OBVIOUS
  <2>1. PICK h \in Host : Step(h)
    BY DEF Next, Tick, Finished, vars
  <2>2. Ends(h)
    BY <2>1, StepIs, FailIs DEF SqlInv, Moves, Open, EnforceHolds, RetractNothing, Asks, Reject, Begin,
       ClaimCommand, NextPosition, AssertFact, Retracts, RetractAll, OpDone, Finish, FinishAs
  <2>3. HostCommit(h) /\ lock = h /\ db' = work
    BY <2>2 DEF Ends, HostCommit, HostRollback, Close
  <2>4. work \in Before(h)
    <3>1. ~ Writing(h)
      BY <2>3 DEF HostCommit, Writing
    <3> QED BY <2>3, <3>1 DEF AloneInv, AloneOf, ComputesFrom
  <2> QED BY <2>3, <2>4 DEF Before, Runs
<1> QED BY <1>1, AloneInductive, SqlInductive, PTL DEF Spec, CommitsAsIfAlone
=============================================================================
