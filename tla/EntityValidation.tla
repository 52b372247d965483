--------------------------- MODULE EntityValidation ---------------------------
(***************************************************************************)
(* Validation of entities against the types of a configuration snapshot.   *)
(*                                                                         *)
(* A validator reads the snapshot of the ref, the last position that is    *)
(* not a validation's, the graph constraints, the heads, the checkpoint    *)
(* and then entity after entity; other transactions commit in between.     *)
(* One transaction writes what it found: the results, the heads that have  *)
(* moved, the run and the checkpoint.  currentInvalid reads the checkpoint *)
(* again in four steps.                                                    *)
(*                                                                         *)
(* One ref, one entity type.  An entity is its value; a type is the values *)
(* it allows, and the graph constraint is that no two entities share one.  *)
(* A transaction is one step (TripleLog).  The facts of a result or of a   *)
(* run never change and are asserted again when two runs race: sets.       *)
(***************************************************************************)
EXTENDS Integers, FiniteSets

CONSTANTS
  Subject, Value, Snapshot, Validator,
  Allowed,          \* the values that the type in a snapshot allows
  OneAtATime,       \* no run begins while another is under way
  LastSourcePosition

ASSUME ValidationAssumption ==
  /\ Allowed \in [Snapshot -> SUBSET Value]
  /\ OneAtATime \in BOOLEAN /\ LastSourcePosition \in Nat

VARIABLES
  entities,     \* the value of each entity
  target,       \* the snapshot the ref points to
  lastPosition,
  lastSource,   \* the last position that is no validation's
  heads,        \* the live result facts of the heads: [subject, result, at]
  checkpoint,   \* the live facts of the checkpoint: [run, snapshot, source, at]
  results, runs,
  phase,        \* where each validator is
  found         \* what it has read

appVars == <<entities, target, lastSource>>
recordVars == <<heads, checkpoint, results, runs>>
validationVars == <<appVars, recordVars, lastPosition, phase, found>>

Absent == "absent"
NothingFound ==
  [snapshot |-> "none", source |-> 0, clashes |-> {}, heads |-> {},
   checkpoint |-> {}, todo |-> {}, results |-> {}, invalid |-> {}]

ValidationInit ==
  /\ entities = [s \in Subject |-> Absent]
  /\ target \in Snapshot
  /\ lastPosition = 0 /\ lastSource = 0
  /\ heads = {} /\ checkpoint = {} /\ results = {} /\ runs = {}
  /\ phase = [v \in Validator |-> "idle"]
  /\ found = [v \in Validator |-> NothingFound]

Asking == {"askRef", "askHeads", "askPosition"}

GoOn(v, next) == phase' = [phase EXCEPT ![v] = next]
Find(v, what) == found' = [found EXCEPT ![v] = what]
-----------------------------------------------------------------------------
\* The application and the configuration store.

AppCommit ==
  /\ lastPosition < LastSourcePosition
  /\ lastPosition' = lastPosition + 1 /\ lastSource' = lastPosition + 1
  /\ UNCHANGED <<recordVars, phase, found>>

WriteEntity(s) ==
  /\ \E x \in (Value \cup {Absent}) \ {entities[s]} : entities' = [entities EXCEPT ![s] = x]
  /\ AppCommit
  /\ UNCHANGED target

MoveTarget ==
  /\ target' \in Snapshot \ {target}
  /\ AppCommit
  /\ UNCHANGED entities
-----------------------------------------------------------------------------
\* What a run computes.

Present == {s \in Subject : entities[s] # Absent}

\* GraphConstraint.evaluate: the subjects that share their value.
Clashes == {s \in Present : \E t \in Present : t # s /\ entities[t] = entities[s]}

\* The content id of a result is this.
ResultOf(s, found_) ==
  [subject |-> s, snapshot |-> found_.snapshot, value |-> entities[s],
   clash |-> s \in found_.clashes]

IsValid(r) == r.value \in Allowed[r.snapshot] /\ ~ r.clash

RunOf(f) == [snapshot |-> f.snapshot, source |-> f.source, results |-> f.results]

\* The heads a run moves: those that do not point to its result, and those of
\* entities it has not found.
OldHeads(f, s) == {h \in f.heads : h.subject = s}

Moves(f) ==
  {r \in f.results : \A h \in OldHeads(f, r.subject) : h.result # r}

\* Bug: the heads of entities that are gone stay.
RetiredMoved(f) == {h \in f.heads : \E r \in Moves(f) : h.subject = r.subject}

Retired(f) ==
  {h \in f.heads : \/ \E r \in Moves(f) : h.subject = r.subject
                   \/ \A r \in f.results : h.subject # r.subject}

CheckpointIsCurrent(f) ==
  /\ \E c \in f.checkpoint : c.run = RunOf(f)
  /\ \E c \in f.checkpoint : c.snapshot = f.snapshot
  /\ \E c \in f.checkpoint : c.source = f.source

Replaced(f) == IF CheckpointIsCurrent(f) THEN {} ELSE f.checkpoint

\* TripleLive, for each fact the run retracts.
Preconditions(f) == Retired(f) \subseteq heads /\ Replaced(f) \subseteq checkpoint

NothingToDo(f) ==
  /\ f.results \subseteq results /\ RunOf(f) \in runs
  /\ Moves(f) = {} /\ Retired(f) = {} /\ CheckpointIsCurrent(f)
-----------------------------------------------------------------------------
\* revalidate, one action for each read and one for the transaction.

StartRun(v) ==
  /\ phase[v] = "idle"
  /\ OneAtATime => \A w \in Validator : phase[w] \in {"idle"} \cup Asking
  /\ Find(v, [NothingFound EXCEPT !.snapshot = target])
  /\ GoOn(v, "source")
  /\ UNCHANGED <<appVars, recordVars, lastPosition>>

LatestSourcePosition(v) ==
  /\ phase[v] = "source"
  /\ Find(v, [found[v] EXCEPT !.source = lastSource])
  /\ GoOn(v, "graph")
  /\ UNCHANGED <<appVars, recordVars, lastPosition>>

EvaluateGraph(v) ==
  /\ phase[v] = "graph"
  /\ Find(v, [found[v] EXCEPT !.clashes = Clashes])
  /\ GoOn(v, "heads")
  /\ UNCHANGED <<appVars, recordVars, lastPosition>>

ReadHeads(v) ==
  /\ phase[v] = "heads"
  /\ Find(v, [found[v] EXCEPT !.heads = heads])
  /\ GoOn(v, "checkpoint")
  /\ UNCHANGED <<appVars, recordVars, lastPosition>>

ReadCheckpoint(v) ==
  /\ phase[v] = "checkpoint"
  /\ Find(v, [found[v] EXCEPT !.checkpoint = checkpoint])
  /\ GoOn(v, "subjects")
  /\ UNCHANGED <<appVars, recordVars, lastPosition>>

ReadSubjects(v) ==
  /\ phase[v] = "subjects"
  /\ Find(v, [found[v] EXCEPT !.todo = Present])
  /\ GoOn(v, IF Present = {} THEN "write" ELSE "entity")
  /\ UNCHANGED <<appVars, recordVars, lastPosition>>

\* An entity that is gone by then has an empty state: Absent, which no type allows.
ReadEntity(v) ==
  /\ phase[v] = "entity"
  /\ \E s \in found[v].todo :
       /\ Find(v, [found[v] EXCEPT !.todo = @ \ {s}, !.results = @ \cup {ResultOf(s, found[v])}])
       /\ GoOn(v, IF found[v].todo = {s} THEN "write" ELSE "entity")
  /\ UNCHANGED <<appVars, recordVars, lastPosition>>

Done(v) == GoOn(v, "idle") /\ Find(v, NothingFound)

Record(v) ==
  LET f == found[v]
      p == lastPosition + 1
  IN /\ phase[v] = "write" /\ ~ NothingToDo(f) /\ Preconditions(f)
     /\ p <= LastSourcePosition
     /\ lastPosition' = p
     /\ heads' = (heads \ Retired(f))
          \cup {[subject |-> r.subject, result |-> r, at |-> p] : r \in Moves(f)}
     /\ checkpoint' = IF CheckpointIsCurrent(f) THEN checkpoint
                      ELSE (checkpoint \ f.checkpoint)
                        \cup {[run |-> RunOf(f), snapshot |-> f.snapshot, source |-> f.source, at |-> p]}
     /\ results' = results \cup f.results
     /\ runs' = runs \cup {RunOf(f)}
     /\ Done(v)
     /\ UNCHANGED <<appVars>>

\* Another run has moved what this one would retract, or nothing has changed.
RecordNothing(v) ==
  /\ phase[v] = "write"
  /\ NothingToDo(found[v]) \/ ~ Preconditions(found[v])
  /\ Done(v)
  /\ UNCHANGED <<appVars, recordVars, lastPosition>>
-----------------------------------------------------------------------------
\* currentInvalid: the checkpoint, the ref, the query, the position.

AskCheckpoint(v) ==
  /\ phase[v] = "idle" /\ checkpoint # {}
  /\ Find(v, [NothingFound EXCEPT !.checkpoint = checkpoint])
  /\ GoOn(v, "askRef")
  /\ UNCHANGED <<appVars, recordVars, lastPosition>>

AskRef(v) ==
  /\ phase[v] = "askRef"
  /\ Find(v, [found[v] EXCEPT !.snapshot = target])
  /\ GoOn(v, "askHeads")
  /\ UNCHANGED <<appVars, recordVars, lastPosition>>

\* lastInvalidQuery.
AskHeads(v) ==
  /\ phase[v] = "askHeads"
  /\ Find(v, [found[v] EXCEPT !.invalid = {h.subject : h \in {g \in heads : ~ IsValid(g.result)}}])
  /\ GoOn(v, "askPosition")
  /\ UNCHANGED <<appVars, recordVars, lastPosition>>

\* Bug: only the position is compared.
IsCurrentAt(f, c, d) == d.source = lastSource

\* The first fact of each attribute, which may be of two writes when there are two.
IsCurrent(f, c, d) == c.snapshot = f.snapshot /\ d.source = lastSource

\* latestSourcePosition, and the answer.
ReportAnswer(v) ==
  /\ phase[v] = "askPosition"
  /\ Done(v)
  /\ UNCHANGED <<appVars, recordVars, lastPosition>>

Invalid(snapshot) ==
  {s \in Present : entities[s] \notin Allowed[snapshot]} \cup Clashes

\* The readers that would answer `current', were they to read the position now.
SaysCurrent(v) ==
  phase[v] = "askPosition" /\ \E c, d \in found[v].checkpoint : IsCurrent(found[v], c, d)

ValidatorStep(v) ==
  \/ StartRun(v) \/ LatestSourcePosition(v) \/ EvaluateGraph(v) \/ ReadHeads(v)
  \/ ReadCheckpoint(v) \/ ReadSubjects(v) \/ ReadEntity(v) \/ Record(v) \/ RecordNothing(v)
  \/ AskCheckpoint(v) \/ AskRef(v) \/ AskHeads(v) \/ ReportAnswer(v)

ValidationNext ==
  \/ \E s \in Subject : WriteEntity(s)
  \/ MoveTarget
  \/ \E v \in Validator : ValidatorStep(v)

ValidationSpec == ValidationInit /\ [][ValidationNext]_validationVars
-----------------------------------------------------------------------------
\* A report that says it is current names the invalid entities, all and only,
\* although it is put together from four reads of records that were made from
\* many.  (EntityValidation.ts: "Stale results are never presented as current")
CurrentReportsAreExact ==
  \A v \in Validator : SaysCurrent(v) => found[v].invalid = Invalid(target)

\* The heads are the results of one run, the one that the checkpoint names.
HeadsAreOneRun ==
  \A c \in checkpoint : {h.result : h \in heads} = c.run.results
=============================================================================
