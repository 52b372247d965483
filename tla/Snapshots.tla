------------------------------ MODULE Snapshots ------------------------------
(***************************************************************************)
(* Entity snapshots: rows that hold, for an entity and a transaction, the  *)
(* content of the entity at that transaction.  A write through a store     *)
(* with the EntitySnapshots capability first commits and then writes the   *)
(* rows of the entities it has touched, one after the other; other writers *)
(* commit in between, and a writer may stop anywhere.                      *)
(*                                                                         *)
(* A commit is one step (TripleLog) and instants follow positions (SQLite, *)
(* Durable Objects).  A transaction asserts at most one fact of an entity, *)
(* so <<entity, position>> names a fact; content is the set of positions   *)
(* that asserted what the entity still has.  Silent system writes, which   *)
(* have no envelope, are left out: every transaction has a position.       *)
(*                                                                         *)
(* Names are chosen so that a run can extend ConfigStore beside this.      *)
(***************************************************************************)
EXTENDS Integers, Sequences, FiniteSets

CONSTANTS
  Entity, Writer,
  Patterns,      \* [entities, named]: what patterns match, and whether they name it
  Together,      \* the sets of entities that one call asserts facts of
  MaxPosition, MaxTime, MaxBackfills, MaxStops

ASSUME SnapshotAssumption ==
  /\ MaxPosition \in Nat /\ MaxTime \in Nat
  /\ Together \subseteq SUBSET Entity
  /\ \A p \in Patterns : p.entities \subseteq Entity /\ p.named \in BOOLEAN

VARIABLES
  facts,     \* [entity, born, died]: the positions of assertion and retraction
  instants,  \* the instant of each position
  clock,
  rows,      \* entity_snapshots: [entity, tx, time, position, content]
  place,     \* where each writer is in its operation
  job,       \* what a writer has still to do
  read,      \* the content it has read and not yet written
  backfills, \* the backfills so far
  stops,     \* the operations that have failed after their commit, or ended
  states,    \* history: the content of each entity at each position
  returned   \* history: the positions of the writes that ended well

log == <<facts, instants, clock, states>>
snapVars == <<log, rows, place, job, read, backfills, stops, returned>>

Position == Len(instants)
Id(f) == <<f.entity, f.born>>
Ids == {Id(f) : f \in facts}
LiveFacts == {f \in facts : f.died = 0}
LiveOf(e) == {f.born : f \in {x \in LiveFacts : x.entity = e}}
EntitiesOf(ids) == {i[1] : i \in ids}

Request(op, asserts, retracts, pattern, named) ==
  [op |-> op, asserts |-> asserts, retracts |-> retracts, pattern |-> pattern, named |-> named]
Job(request, seen, own, tx, time, todo) ==
  [request |-> request, seen |-> seen, own |-> own, tx |-> tx, time |-> time, todo |-> todo]

NoRequest == Request("none", {}, {}, {}, TRUE)
NoJob == Job(NoRequest, {}, 0, 0, 0, {})
NoRead == [entity |-> "none", content |-> {}]

SnapInit ==
  /\ facts = {} /\ instants = <<>> /\ clock = 1
  /\ rows = {}
  /\ place = [w \in Writer |-> "idle"]
  /\ job = [w \in Writer |-> NoJob]
  /\ read = [w \in Writer |-> NoRead]
  /\ backfills = 0 /\ stops = 0
  /\ states = <<>> /\ returned = {}

\* Time passes when somebody reads the clock.
Now == {clock, clock + 1} \cap 1..MaxTime
-----------------------------------------------------------------------------
\* The write operations of the capability.

WriteRequests ==
  {Request("assertBatch", S, {}, {}, TRUE) : S \in Together}
    \cup {Request("retract", {}, {i}, {}, TRUE) : i \in Ids}
    \cup {Request("retractByPattern", {}, {}, p.entities, TRUE) : p \in Patterns}
    \cup {Request("transact", S, {i}, {}, TRUE) : S \in {{}} \cup Together, i \in Ids}
    \cup {Request("transact", {}, {}, p.entities, p.named) : p \in Patterns}

Enter(w, step) == place' = [place EXCEPT ![w] = step]

\* What the operation reads before it writes: get, or match.
Reads(q) == q.op = "retractByPattern" \/ q.retracts # {}
Seen(q) ==
  IF q.op = "retractByPattern"
  THEN {Id(f) : f \in {x \in LiveFacts : x.entity \in q.pattern}}
  ELSE q.retracts

Prepare(w) ==
  /\ place[w] = "idle" /\ Position < MaxPosition
  /\ \E q \in WriteRequests :
       /\ Reads(q)
       /\ job' = [job EXCEPT ![w] = Job(q, Seen(q), 0, 0, 0, {})]
  /\ Enter(w, "commit")
  /\ UNCHANGED <<log, rows, read, backfills, stops, returned>>

\* The facts a commit retracts are those that are live then.
Gone(q) == {f \in LiveFacts : Id(f) \in q.retracts \/ f.entity \in q.pattern}

\* Bug: the entities of retractions by id are forgotten.
TouchedByAsserts(q, seen) ==
  q.asserts \cup (IF q.op = "transact" /\ q.named THEN q.pattern ELSE {})

\* The entities a transact or an assert knows it has touched.
Touched(q, seen) ==
  q.asserts \cup EntitiesOf(seen) \cup (IF q.op = "transact" /\ q.named THEN q.pattern ELSE {})

\* Where the operation goes after its commit.  retract fails when it has
\* retracted nothing.
AfterCommit(q, seen) ==
  CASE q.op = "retract" -> IF Gone(q) = {} THEN "idle" ELSE "meta"
    [] q.op = "retractByPattern" -> IF seen = {} THEN "idle" ELSE "meta"
    [] OTHER -> IF Touched(q, seen) = {} THEN "idle" ELSE "materialize"

\* The calls that know every entity they have touched.
KnowsAll(q) == q.op # "retractByPattern" /\ q.named

Commit(w, q, seen) ==
  LET p == Position + 1
      next == AfterCommit(q, seen)
      own == IF KnowsAll(q) THEN p ELSE 0
      kept == LiveFacts \ Gone(q)
  IN /\ p <= MaxPosition
     /\ facts' = (facts \ Gone(q))
          \cup {[f EXCEPT !.died = p] : f \in Gone(q)}
          \cup {[entity |-> e, born |-> p, died |-> 0] : e \in q.asserts}
     /\ clock' \in Now
     /\ instants' = Append(instants, clock')
     /\ states' = Append(states, [e \in Entity |->
          {f.born : f \in {x \in kept : x.entity = e}} \cup (IF e \in q.asserts THEN {p} ELSE {})])
     /\ Enter(w, next)
     /\ job' = [job EXCEPT ![w] =
          CASE next = "meta" -> Job(NoRequest, seen, own, 0, 0, {})
            [] next = "materialize" -> Job(NoRequest, {}, own, p, clock', Touched(q, seen))
            [] OTHER -> NoJob]
     /\ returned' = IF next = "idle" /\ KnowsAll(q) /\ q.op # "retract"
                    THEN returned \cup {p} ELSE returned
     /\ UNCHANGED <<rows, read, backfills, stops>>

Write(w) ==
  /\ place[w] = "idle"
  /\ \E q \in WriteRequests : ~ Reads(q) /\ Commit(w, q, {})

WriteAfterReads(w) ==
  /\ place[w] = "commit"
  /\ Commit(w, job[w].request, job[w].seen)

\* resolveRetractionMeta: the transaction that has retracted the first of the
\* facts seen, whoever did it.
Meta(w) ==
  /\ place[w] = "meta"
  /\ \E f \in facts :
       /\ Id(f) \in job[w].seen /\ f.died # 0
       /\ job' = [job EXCEPT ![w] = Job(NoRequest, {}, @.own, f.died, instants[f.died],
                                        EntitiesOf(@.seen))]
  /\ Enter(w, "materialize")
  /\ UNCHANGED <<log, rows, read, backfills, stops, returned>>
-----------------------------------------------------------------------------
\* materialize: for each entity its history, then its row.  The blob of the
\* content is written just before the row and never removed.

\* The position of a transaction, 0 when the store has no envelope of it.
PositionOf(tx) == IF tx \in 1..Position THEN tx ELSE 0

Recorded(e, t) ==
  {f.born : f \in {x \in facts :
     x.entity = e /\ instants[x.born] <= t /\ (x.died = 0 \/ instants[x.died] > t)}}

\* Bug: what is live now.
ContentLive(e, tx, t) == LiveOf(e)

Content(e, tx, t) ==
  IF PositionOf(tx) = 0
  THEN Recorded(e, t)
  ELSE {f.born : f \in {x \in facts :
          x.entity = e /\ x.born <= tx /\ (x.died = 0 \/ x.died > tx)}}

ReadHistory(w) ==
  /\ place[w] = "materialize"
  /\ \E e \in job[w].todo :
       read' = [read EXCEPT ![w] = [entity |-> e, content |-> Content(e, job[w].tx, job[w].time)]]
  /\ Enter(w, "row")
  /\ UNCHANGED <<log, rows, job, backfills, stops, returned>>

RowOf(w) ==
  [entity |-> read[w].entity, tx |-> job[w].tx, time |-> job[w].time,
   position |-> PositionOf(job[w].tx), content |-> read[w].content]

WriteRow(w) ==
  LET e == read[w].entity
      j == job[w]
      last == j.todo = {e}
  IN /\ place[w] = "row"
     /\ rows' = {r \in rows : r.entity # e \/ r.tx # j.tx} \cup {RowOf(w)}
     /\ job' = [job EXCEPT ![w] = IF last THEN NoJob
                                   ELSE Job(NoRequest, {}, j.own, j.tx, j.time, j.todo \ {e})]
     /\ read' = [read EXCEPT ![w] = NoRead]
     /\ Enter(w, IF last THEN "idle" ELSE "materialize")
     /\ returned' = IF last /\ j.own # 0 THEN returned \cup {j.own} ELSE returned
     /\ UNCHANGED <<log, backfills, stops>>

\* The operation fails after its commit, or its process ends.  (Bounds: MaxStops,
\* and none once a backfill has begun.)
Stop(w) ==
  /\ place[w] \in {"meta", "materialize", "row"} /\ stops < MaxStops /\ backfills = 0
  /\ stops' = stops + 1
  /\ Enter(w, "idle")
  /\ job' = [job EXCEPT ![w] = NoJob]
  /\ read' = [read EXCEPT ![w] = NoRead]
  /\ UNCHANGED <<log, rows, backfills, returned>>
-----------------------------------------------------------------------------
\* backfill: rows without a position, for entities that have none.

Missing == {e \in Entity : LiveOf(e) # {} /\ \A r \in rows : r.entity # e}

FindMissing(w) ==
  /\ place[w] = "idle" /\ backfills < MaxBackfills
  /\ Missing # {}
  /\ job' = [job EXCEPT ![w] = Job(NoRequest, {}, 0, 0, 0, Missing)]
  /\ backfills' = backfills + 1
  /\ Enter(w, "stamp")
  /\ UNCHANGED <<log, rows, read, stops, returned>>

\* The transaction id of a backfill is a fresh one.
Stamp(w) ==
  /\ place[w] = "stamp"
  /\ clock' \in Now
  /\ job' = [job EXCEPT ![w] = Job(NoRequest, {}, 0, MaxPosition + backfills, clock', @.todo)]
  /\ Enter(w, "materialize")
  /\ UNCHANGED <<facts, instants, states, rows, read, backfills, stops, returned>>

WriterStep(w) ==
  \/ Write(w) \/ Prepare(w) \/ WriteAfterReads(w) \/ Meta(w)
  \/ ReadHistory(w) \/ WriteRow(w) \/ Stop(w)
  \/ FindMissing(w) \/ Stamp(w)

SnapNext == \E w \in Writer : WriterStep(w)

SnapSpec == SnapInit /\ [][SnapNext]_snapVars
-----------------------------------------------------------------------------
\* SnapshotService.

\* Bug: by time alone; the transactions of one millisecond in any order.
LaterTime(r, s) == r.time >= s.time

\* The order of rows: position (none counts as 0), time, transaction id.
Later(r, s) ==
  \/ r.position > s.position
  \/ r.position = s.position /\ r.time > s.time
  \/ r.position = s.position /\ r.time = s.time /\ r.tx >= s.tx

LatestRow(S) == {r \in S : \A s \in S : Later(r, s)}
AsOf(e, t) == LatestRow({r \in rows : r.entity = e /\ r.time <= t})
Current(e) == LatestRow({r \in rows : r.entity = e})

\* Bug: only a later millisecond counts as later.
FindChangedByTime(tx) ==
  {e \in Entity : \E r \in Current(e) : \E s \in rows : s.tx = tx /\ r.time > s.time}

FindChanged(tx) ==
  {e \in Entity : \E r \in Current(e) :
     \/ \A s \in rows : s.tx # tx
     \/ \E s \in rows : s.tx = tx /\ ~ Later(s, r)}
-----------------------------------------------------------------------------
\* The last position at or before p that changed the entity, 0 if none did.
StateAt(e, p) == IF p = 0 THEN {} ELSE states[p][e]
Changes(e) == {p \in 1..Position : StateAt(e, p) # StateAt(e, p - 1)}
HasRow(e, p) == \E r \in rows : r.entity = e /\ r.tx = p
LastBy(e, t) == {p \in Changes(e) : instants[p] <= t
                   /\ \A q \in Changes(e) : instants[q] <= t => q <= p}

\* The row of a transaction is the content of the entity at its commit, whenever
\* it is written, over whatever was committed since (SnapshotService.ts: "a later
\* writer cannot be mislabeled as part of this snapshot").
RowsAreExact ==
  \A r \in rows : r.position # 0 => r.content = StateAt(r.entity, r.position)

\* A write that has returned has left a row for every entity it has changed.
\* (Not so pattern retractions that name no entity, nor retractByPattern.)
ReturnedWritesHaveRows ==
  \A p \in returned : \A e \in Entity : p \in Changes(e) => HasRow(e, p)

\* Rows are written late, twice and out of order, and backfilled: still, once
\* the last change at a time has its row, the snapshot as of that time is what
\* the bitemporal store shows, and the current one is the live entity.
SnapshotsAgreeWithStore ==
  \A e \in Entity :
    /\ \A t \in 1..clock : \A p \in LastBy(e, t) : HasRow(e, p) =>
         \A r \in AsOf(e, t) :
           r.content = Recorded(e, t)
    /\ \A p \in LastBy(e, clock) : HasRow(e, p) => \A r \in Current(e) : r.content = LiveOf(e)

\* Change detection misses no entity that differs from what it was at the
\* transaction, within one millisecond or not.
ChangesAreFound ==
  \A s \in rows : s.position # 0 => \A e \in Entity :
    StateAt(e, s.position) # LiveOf(e) /\ (\A p \in LastBy(e, clock) : HasRow(e, p))
      => e \in FindChanged(s.tx)
=============================================================================
