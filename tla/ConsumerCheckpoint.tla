-------------------------- MODULE ConsumerCheckpoint --------------------------
(***************************************************************************)
(* Workers of one named consumer of the transaction feed.  A worker reads  *)
(* the checkpoint, reads a page of the feed after it, processes the page,  *)
(* and advances the checkpoint (ConsumerCheckpoint.advance) over it.       *)
(*                                                                         *)
(* transact and each read are one step here, which is what the in-memory   *)
(* backend and the SQL databases give (TripleLog, DatomCache); reads over  *)
(* FoundationDB are weaker and are left out.  The checkpoint is the live   *)
(* position facts of one reserved entity; a fact is named by the commit    *)
(* position it was asserted at.                                            *)
(***************************************************************************)
EXTENDS Integers, FiniteSets

CONSTANTS
  Worker,
  PageLimit,   \* the limit of a page
  MaxWrites,   \* the application transactions
  MaxCrashes,  \* the restarts of workers
  MaxLost      \* the commits whose reply is lost

ASSUME CheckpointAssumption ==
  /\ PageLimit \in Nat \ {0}
  /\ MaxWrites \in Nat /\ MaxCrashes \in Nat /\ MaxLost \in Nat

VARIABLES
  position,   \* the last commit position
  feed,       \* the positions of the envelopes
  marks,      \* the live position facts of the checkpoint
  claimed,    \* the receipt of the initialization command exists
  processed,  \* the envelopes some worker has processed
  crashes,
  lost,
  pc,
  expected,   \* expectedPosition of each worker's request
  page,       \* the envelopes it has read
  nextp,      \* nextPosition
  loaded,     \* the position fact it has read
  answer      \* what advance returned

backend == <<position, feed, marks, claimed>>
request == <<expected, page, nextp>>
faults == <<crashes, lost>>
vars == <<backend, processed, faults, pc, request, loaded, answer>>

PC == {"idle", "page", "process", "load", "init", "move", "winner", "stored", "done"}

\* at: the commit position of the fact.
Mark == [at : Nat, value : Nat]
NoMark == [at |-> 0, value |-> 0]

Init ==
  /\ position = 0
  /\ feed = {} /\ marks = {} /\ processed = {}
  /\ claimed = FALSE
  /\ crashes = 0 /\ lost = 0
  /\ pc = [w \in Worker |-> "idle"]
  /\ expected = [w \in Worker |-> 0]
  /\ page = [w \in Worker |-> {}]
  /\ nextp = [w \in Worker |-> 0]
  /\ loaded = [w \in Worker |-> NoMark]
  /\ answer = [w \in Worker |-> "none"]

\* readLoaded: no checkpoint, the checkpoint, or a corrupt one.
Absent == marks = {}
Corrupt == Cardinality(marks) > 1
Current == IF Absent THEN NoMark ELSE CHOOSE m \in marks : TRUE
-----------------------------------------------------------------------------
\* An application commits.
Write ==
  /\ Cardinality(feed) < MaxWrites
  /\ position' = position + 1
  /\ feed' = feed \cup {position + 1}
  /\ UNCHANGED <<marks, claimed, processed, faults, pc, request, loaded, answer>>

Goto(w, step) == pc' = [pc EXCEPT ![w] = step]

Return(w, a) ==
  /\ Goto(w, "done")
  /\ answer' = [answer EXCEPT ![w] = a]

Get(w) ==
  /\ pc[w] \in {"idle", "done"}
  /\ ~Corrupt
  /\ expected' = [expected EXCEPT ![w] = Current.value]
  /\ answer' = [answer EXCEPT ![w] = "none"]
  /\ Goto(w, "page")
  /\ UNCHANGED <<backend, processed, faults, page, nextp, loaded>>

\* Bug: the cursor is taken for the first position of the page.
AfterNext(p) == {q \in feed : q > p + 1}

After(p) == {q \in feed : q > p}

\* The first PageLimit envelopes after position p.
Page(p) == {q \in After(p) : Cardinality({r \in After(p) : r <= q}) <= PageLimit}

\* Bug: the cursor of a page is the position of the last commit.
IsLastCommit(q, P) == q = position

\* next: the position of the last envelope of the page.
IsLastOf(q, P) == q \in P /\ \A r \in P : r <= q

ReadPage(w) ==
  /\ pc[w] = "page"
  /\ After(expected[w]) # {}
  /\ page' = [page EXCEPT ![w] = Page(expected[w])]
  /\ \E q \in 1..position :
       /\ IsLastOf(q, Page(expected[w]))
       /\ nextp' = [nextp EXCEPT ![w] = q]
  /\ Goto(w, "process")
  /\ UNCHANGED <<backend, processed, faults, expected, loaded, answer>>

\* The host completes the effects of its page.
Process(w) ==
  /\ pc[w] = "process"
  /\ processed' = processed \cup page[w]
  /\ Goto(w, "load")
  /\ UNCHANGED <<backend, faults, request, loaded, answer>>
-----------------------------------------------------------------------------
(* advance *)

\* The checks and the reading of the checkpoint.  Positions only grow, so the
\* latest one can be read with it.
Load(w) ==
  /\ pc[w] = "load"
  /\ IF nextp[w] < expected[w] \/ nextp[w] > position THEN Return(w, "invalid")
     ELSE IF Corrupt THEN Return(w, "corrupt")
     ELSE IF ~Absent /\ Current.value = nextp[w] THEN Return(w, "ok")
     ELSE IF Current.value # expected[w] THEN Return(w, "conflict")
     ELSE Goto(w, IF Absent THEN "init" ELSE "move") /\ UNCHANGED answer
  /\ loaded' = [loaded EXCEPT ![w] = Current]
  /\ UNCHANGED <<backend, processed, faults, request>>

\* Bug: the checkpoint is an application write, with an envelope.
CommitMarkJournaled(w, old) ==
  /\ position' = position + 1
  /\ marks' = (marks \ {old}) \cup {[at |-> position + 1, value |-> nextp[w]]}
  /\ feed' = feed \cup {position + 1}

\* transactSystemUnjournaled: a commit position, but no envelope.
CommitMark(w, old) ==
  /\ position' = position + 1
  /\ marks' = (marks \ {old}) \cup {[at |-> position + 1, value |-> nextp[w]]}
  /\ UNCHANGED feed

\* transact returns, or fails because the reply of its commit is lost.
Committed(w) ==
  \/ /\ Goto(w, "stored")
     /\ UNCHANGED <<lost, answer>>
  \/ /\ lost < MaxLost
     /\ lost' = lost + 1
     /\ Return(w, "failed")

\* Bug: the first write carries no command id.
InitializeUnclaimed(w) ==
  /\ pc[w] = "init"
  /\ CommitMark(w, NoMark)
  /\ claimed' = TRUE
  /\ Committed(w)
  /\ UNCHANGED <<processed, crashes, request, loaded>>

\* The first write, under a command id of the consumer's.
Initialize(w) ==
  /\ pc[w] = "init"
  /\ ~claimed
  /\ CommitMark(w, NoMark)
  /\ claimed' = TRUE
  /\ Committed(w)
  /\ UNCHANGED <<processed, crashes, request, loaded>>

InitializeLost(w) ==
  /\ pc[w] = "init"
  /\ claimed
  /\ Goto(w, "winner")
  /\ UNCHANGED <<backend, processed, faults, request, loaded, answer>>

\* Bug: no precondition.
MoveBlindly(w) ==
  /\ pc[w] = "move"
  /\ CommitMark(w, IF loaded[w] \in marks THEN loaded[w] ELSE Current)
  /\ Committed(w)
  /\ UNCHANGED <<claimed, processed, crashes, request, loaded>>

\* Compare-and-retract of the position that was read.
Move(w) ==
  /\ pc[w] = "move"
  /\ loaded[w] \in marks
  /\ CommitMark(w, loaded[w])
  /\ Committed(w)
  /\ UNCHANGED <<claimed, processed, crashes, request, loaded>>

MoveLost(w) ==
  /\ pc[w] = "move"
  /\ loaded[w] \notin marks
  /\ Goto(w, "winner")
  /\ UNCHANGED <<backend, processed, faults, request, loaded, answer>>

\* Bug: whoever loses takes the winner's move for its own.
WinnerUnread(w) ==
  /\ pc[w] = "winner"
  /\ Goto(w, "stored")
  /\ UNCHANGED <<backend, processed, faults, request, loaded, answer>>

\* The loser of a race reads what the winner has stored.
Winner(w) ==
  /\ pc[w] = "winner"
  /\ IF Corrupt THEN Return(w, "corrupt")
     ELSE IF ~Absent /\ Current.value = nextp[w] THEN Goto(w, "stored") /\ UNCHANGED answer
     ELSE Return(w, "conflict")
  /\ UNCHANGED <<backend, processed, faults, request, loaded>>

Stored(w) ==
  /\ pc[w] = "stored"
  /\ Return(w, IF Absent \/ Corrupt THEN "corrupt" ELSE "ok")
  /\ UNCHANGED <<backend, processed, faults, request, loaded>>

\* The worker cannot tell whether a failed advance has happened and repeats it.
Retry(w) ==
  /\ pc[w] = "done" /\ answer[w] = "failed"
  /\ Goto(w, "load")
  /\ answer' = [answer EXCEPT ![w] = "none"]
  /\ UNCHANGED <<backend, processed, faults, request, loaded>>

\* The worker's process restarts.
Crash(w) ==
  /\ crashes < MaxCrashes
  /\ pc[w] \notin {"idle", "done"}
  /\ crashes' = crashes + 1
  /\ Goto(w, "idle")
  /\ UNCHANGED <<backend, processed, lost, request, loaded, answer>>

\* Every worker waits for the feed to grow, and it does not.
Quiet ==
  /\ Cardinality(feed) = MaxWrites
  /\ \A w \in Worker : pc[w] = "page" /\ After(expected[w]) = {}
  /\ UNCHANGED vars
-----------------------------------------------------------------------------
WorkerStep(w) ==
  \/ Get(w) \/ ReadPage(w) \/ Process(w) \/ Load(w)
  \/ Initialize(w) \/ InitializeLost(w) \/ Move(w) \/ MoveLost(w)
  \/ Winner(w) \/ Stored(w) \/ Retry(w)

Next ==
  \/ Write \/ Quiet
  \/ \E w \in Worker : WorkerStep(w) \/ Crash(w)

\* Workers run, and try again after a conflict.
Spec == Init /\ [][Next]_vars /\ \A w \in Worker : WF_vars(WorkerStep(w))
-----------------------------------------------------------------------------
(* Properties *)

\* Between reading a page and answering, a worker holds the page of its request.
Requested == {"process", "load", "init", "move", "winner", "stored"}

\* Every variable has its type, and a request names envelopes of the feed.
TypeOK ==
  /\ position \in Nat /\ crashes \in 0..MaxCrashes /\ lost \in 0..MaxLost
  /\ feed \subseteq 1..position
  /\ processed \subseteq feed
  /\ marks \subseteq Mark
  /\ claimed \in BOOLEAN
  /\ pc \in [Worker -> PC]
  /\ expected \in [Worker -> Nat] /\ nextp \in [Worker -> Nat]
  /\ page \in [Worker -> SUBSET feed]
  /\ loaded \in [Worker -> Mark]
  /\ answer \in [Worker -> {"none", "ok", "conflict", "invalid", "corrupt", "failed"}]
  /\ \A w \in Worker : pc[w] \in Requested => nextp[w] \in page[w]

\* However many workers initialize or move the checkpoint at once, it has one
\* live position, and nobody finds it corrupt.
OneLivePosition ==
  /\ Cardinality(marks) <= 1
  /\ \A w \in Worker : answer[w] \notin {"invalid", "corrupt"}

\* At least once: the checkpoint never stands beyond an envelope that no worker
\* has processed.
NothingSkipped == \A m \in marks : \A q \in feed : q <= m.value => q \in processed

\* Whoever is told "ok", at once or when it repeats an advance whose outcome it
\* does not know, has its page acknowledged for good; whoever is told "conflict"
\* is behind a checkpoint that another worker has moved.
AnswersAreTrue ==
  \A w \in Worker :
    /\ answer[w] = "ok" => \E m \in marks : m.value >= nextp[w]
    /\ answer[w] = "conflict" => \E m \in marks : m.value > expected[w]

\* Every write of the checkpoint acknowledges an application's write, so idle
\* consumers stay idle.  (docs/operational-primitives.md:80)
NoWriteForItsOwnSake == position <= 2 * MaxWrites

\* The checkpoint never moves backwards.
NeverMovesBack ==
  [][\A m \in marks : \E n \in marks' : n.value >= m.value]_vars

Unacknowledged(q) == \A m \in marks : m.value < q

\* Every envelope is acknowledged in the end: the writes are bounded, so a
\* consumer that is behind catches up.
EveryWriteAcknowledged ==
  (\E q \in feed : Unacknowledged(q)) ~> (\A q \in feed : ~Unacknowledged(q))
=============================================================================
