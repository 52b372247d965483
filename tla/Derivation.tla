------------------------------ MODULE Derivation ------------------------------
(***************************************************************************)
(* Derivations and their materialized runs.                                *)
(*                                                                         *)
(* A materializer reads the last position relevant to its definition, the  *)
(* run before, the rows of the query, the next boundary in valid time and  *)
(* the sources of the rows, and records the run in one transaction; other  *)
(* transactions commit in between, and runs of other materializers with    *)
(* them.  `current' reads the runs and then the position.                  *)
(*                                                                         *)
(* Two definitions of one name:                                            *)
(*   "holders"  find ?e        where [?e "p" ?v], not [?e "q" ?w]          *)
(*   "values"   find ?e ?v     where [?e "p" ?v]                           *)
(* Both are identified by ?e.  "r" is an attribute that neither reads.     *)
(* A content id is what it is computed from.                               *)
(***************************************************************************)
EXTENDS Integers, FiniteSets, FiniteSetsExt

CONSTANTS
  DerivedEntity, Materializer,
  LastInstant,          \* valid time is 0 .. LastInstant
  FactKind,             \* what the application writes of an entity
  Asked,                \* the definitions and the instants they are evaluated at
  MaxFactWrites, MaxDerivationPosition

ASSUME DerivationAssumption ==
  /\ LastInstant \in Nat
  /\ FactKind \subseteq [attribute : {"p", "q", "r"}, value : Nat, from : Nat, to : Nat]
  /\ Asked \subseteq [definition : {"holders", "values"}, basis : 0 .. LastInstant]
  /\ MaxFactWrites \in Nat /\ MaxDerivationPosition \in Nat

Definition == {"holders", "values"}
Instant == 0 .. LastInstant
Open == LastInstant + 1

VARIABLES
  live,            \* the live facts, each with the position that asserted it
  written,         \* the position of the last transaction that changed an attribute
  derivedPosition,
  storedRuns,      \* the run facts: a run and the position that recorded it
  task             \* where each materializer or reader is, and what it has read

derivationVars == <<live, written, derivedPosition, storedRuns, task>>

Attribute == {"p", "q", "r"}
Resting ==
  [at |-> "rest", definition |-> "none", basis |-> 0, source |-> 0, rows |-> {},
   boundary |-> 0, candidates |-> {}, runs |-> {}]

DerivationInit ==
  /\ live = {} /\ written = [a \in Attribute |-> 0] /\ derivedPosition = 0
  /\ storedRuns = {}
  /\ task = [m \in Materializer |-> Resting]
-----------------------------------------------------------------------------
\* Derivation.ts: definitions, evaluation, candidates.

Dependencies(d) == IF d = "holders" THEN {"p", "q"} ELSE {"p"}

HoldsAt(f, v) == f.from <= v /\ v < f.to
Facts(fs, v, a) == {f \in fs : f.attribute = a /\ HoldsAt(f, v)}

\* The rows of the query, with the variables of its positive patterns.
Rows(d, fs, v) ==
  {[entity |-> f.entity, value |-> f.value] :
     f \in {f \in Facts(fs, v, "p") :
              d = "holders" => \A g \in Facts(fs, v, "q") : g.entity # f.entity}}

SourcesForRow(row, fs, v) ==
  {f \in Facts(fs, v, "p") : f.entity = row.entity /\ f.value = row.value}

Result(d, row) == IF d = "values" THEN {row.value} ELSE {}

IdentityConflict(d, rows) ==
  \E x, y \in rows : x.entity = y.entity /\ Result(d, x) # Result(d, y)

\* One candidate of each identity, with the sources of all its rows.
Candidates(d, rows, fs, v) ==
  {[entity |-> row.entity, result |-> Result(d, row),
    sources |-> UNION {SourcesForRow(r, fs, v) : r \in {r \in rows : r.entity = row.entity}}] :
     row \in rows}

Evaluate(d, fs, v) == Candidates(d, Rows(d, fs, v), fs, v)

\* Bug: only the ends of the facts that are visible.
VisibleBoundary(d, fs, v) ==
  Min({f.to : f \in {f \in fs : f.attribute \in Dependencies(d) /\ HoldsAt(f, v)}} \cup {Open})

\* dependencyState: the first edge of a fact of the dependencies after v, or Open.
NextTemporalBoundary(d, fs, v) ==
  LET edges == UNION {{f.from, f.to} : f \in {f \in fs : f.attribute \in Dependencies(d)}}
  IN Min({e \in edges : e > v} \cup {Open})

\* Bug: the attributes under a negation are not counted.
PositivePosition(d, w) == w["p"]

CurrentSourcePosition(d, w) == Max({w[a] : a \in Dependencies(d)})
-----------------------------------------------------------------------------
\* Overlay.ts: the visible facts of the dependencies, patched, in a store of
\* its own.  An assertion without validFrom holds from the instant asked about.

\* Bug: the facts that a negation reads are not copied.
PositiveBase(d, fs, v, retractions) == Facts(fs, v, "p") \ retractions

VisibleBase(d, fs, v, retractions) ==
  (UNION {Facts(fs, v, a) : a \in Dependencies(d)}) \ retractions

OverlayEvaluate(d, fs, v, assertions, retractions) ==
  Evaluate(d, VisibleBase(d, fs, v, retractions) \cup assertions, v)

Overlays(d, fs, v) ==
  {[plus |-> plus, minus |-> minus] :
     plus \in {{}} \cup {{[entity |-> e, attribute |-> k.attribute, value |-> k.value,
                           from |-> v, to |-> Open, at |-> 0]} :
                          e \in DerivedEntity,
                          k \in {k \in FactKind : k.attribute \in Dependencies(d)}},
     minus \in {{}} \cup {{f} : f \in VisibleBase(d, fs, v, {})}}
-----------------------------------------------------------------------------
\* The transactions of the application.

FactWrite ==
  /\ derivedPosition - Cardinality(storedRuns) < MaxFactWrites
  /\ derivedPosition < MaxDerivationPosition
  /\ derivedPosition' = derivedPosition + 1
  /\ UNCHANGED <<storedRuns, task>>

RecordFact ==
  /\ \E e \in DerivedEntity, k \in FactKind :
       /\ live' = live \cup {[entity |-> e, attribute |-> k.attribute, value |-> k.value,
                              from |-> k.from, to |-> k.to, at |-> derivedPosition + 1]}
       /\ written' = [written EXCEPT ![k.attribute] = derivedPosition + 1]
  /\ FactWrite

WithdrawFact ==
  /\ \E f \in live :
       /\ live' = live \ {f}
       /\ written' = [written EXCEPT ![f.attribute] = derivedPosition + 1]
  /\ FactWrite
-----------------------------------------------------------------------------
\* Runs.

Loaded == {r.run : r \in storedRuns}
RunPosition(run) == Min({r.at : r \in {r \in storedRuns : r.run = run}})

\* latestRunForDefinition: the source position first, then the commit.
LaterRun(x, y) ==
  \/ x.source > y.source
  \/ x.source = y.source /\ RunPosition(x) >= RunPosition(y)

LatestForDefinition(d) ==
  {x \in Loaded : x.definition = d /\ \A y \in Loaded : y.definition = d => LaterRun(x, y)}

LatestForName == {x \in Loaded : \A y \in Loaded : RunPosition(x) >= RunPosition(y)}

SelectedRuns(d) ==
  IF \E x \in Loaded : x.definition = d THEN LatestForDefinition(d) ELSE LatestForName

TaskAt(m, place) == task[m].at = place
Become(m, w) == task' = [task EXCEPT ![m] = w]
OnlyReads == UNCHANGED <<live, written, derivedPosition, storedRuns>>

\* materialize: the position, the rows, the boundary, the sources of the rows.
ReadSourcePosition(m) ==
  /\ TaskAt(m, "rest")
  /\ \E a \in Asked :
       Become(m, [Resting EXCEPT !.at = "query", !.definition = a.definition, !.basis = a.basis,
                                 !.source = CurrentSourcePosition(a.definition, written)])
  /\ OnlyReads

QueryRows(m) ==
  LET w == task[m] IN
  /\ TaskAt(m, "query")
  /\ Become(m, [w EXCEPT !.at = "boundary", !.rows = Rows(w.definition, live, w.basis)])
  /\ OnlyReads

ReadBoundary(m) ==
  LET w == task[m] IN
  /\ TaskAt(m, "boundary")
  /\ Become(m, [w EXCEPT !.at = "sources",
                         !.boundary = NextTemporalBoundary(w.definition, live, w.basis)])
  /\ OnlyReads

\* Two results of one identity are an error: nothing is recorded.
ReadSources(m) ==
  LET w == task[m] IN
  /\ TaskAt(m, "sources")
  /\ Become(m, IF IdentityConflict(w.definition, w.rows) THEN Resting
               ELSE [w EXCEPT !.at = "commit",
                              !.candidates = Candidates(w.definition, w.rows, live, w.basis)])
  /\ OnlyReads

RunOfWork(w) ==
  [definition |-> w.definition, basis |-> w.basis, source |-> w.source,
   candidates |-> w.candidates, boundary |-> w.boundary]

\* The search for the run itself, and the transaction.  Two that find nothing
\* both write it; one that finds it writes nothing.
LookForRun(m) ==
  LET w == task[m] IN
  /\ TaskAt(m, "commit")
  /\ Become(m, IF RunOfWork(w) \in Loaded THEN Resting ELSE [w EXCEPT !.at = "record"])
  /\ OnlyReads

RecordRun(m) ==
  LET w == task[m] IN
  /\ TaskAt(m, "record") /\ derivedPosition < MaxDerivationPosition
  /\ derivedPosition' = derivedPosition + 1
  /\ storedRuns' = storedRuns \cup {[run |-> RunOfWork(w), at |-> derivedPosition + 1]}
  /\ Become(m, Resting)
  /\ UNCHANGED <<live, written>>

\* current: the runs, then the position.
LoadRuns(m) ==
  /\ TaskAt(m, "rest") /\ storedRuns # {}
  /\ \E a \in Asked :
       Become(m, [Resting EXCEPT !.at = "verdict", !.definition = a.definition,
                                 !.basis = a.basis, !.runs = SelectedRuns(a.definition)])
  /\ OnlyReads

IsCurrentFor(w, run) ==
  /\ run.definition = w.definition
  /\ run.source = CurrentSourcePosition(w.definition, written)
  /\ run.basis = w.basis

\* The position is read, and the run is current or stale.
Verdict(m) ==
  /\ TaskAt(m, "verdict")
  /\ Become(m, Resting)
  /\ OnlyReads

\* The runs that a reader would call current, were it to read the position now.
CurrentRuns(w) == {run \in w.runs : IsCurrentFor(w, run)}

Readers == {m \in Materializer : TaskAt(m, "verdict")}

MaterializerStep(m) ==
  \/ ReadSourcePosition(m) \/ QueryRows(m) \/ ReadBoundary(m) \/ ReadSources(m)
  \/ LookForRun(m) \/ RecordRun(m)
  \/ LoadRuns(m) \/ Verdict(m)

DerivationNext ==
  \/ RecordFact \/ WithdrawFact
  \/ \E m \in Materializer : MaterializerStep(m)

DerivationSpec == DerivationInit /\ [][DerivationNext]_derivationVars
-----------------------------------------------------------------------------
\* The last two properties are about the live facts alone.
NoWork == \A m \in Materializer : TaskAt(m, "rest")

\* What `current' calls current is what evaluating now would give, sources and
\* all, though the run was put together from four reads between which others
\* committed.  (docs/derivations.md: "Definition changes, relevant writes, and
\* a different basis do" make it stale)
CurrentRunsAreExact ==
  \A m \in Readers : \A run \in CurrentRuns(task[m]) :
    run.candidates = Evaluate(run.definition, live, run.basis)

\* The candidates of a current run stay those of every later instant before its
\* boundary.  (docs/derivations.md: "recorded future-effective or expiring
\* evidence is not omitted")
BoundariesCoverChanges ==
  \A m \in Readers : \A run \in CurrentRuns(task[m]) :
    \A v \in run.basis .. run.boundary - 1 :
      Evaluate(run.definition, live, v) = run.candidates

\* An overlay shows what the store would show after the change.
\* (docs/derivations.md: "runs the same structural evaluator")
OverlaysForetell == NoWork /\ live # {} =>
  \A d \in Definition, v \in Instant : \A o \in Overlays(d, live, v) :
    OverlayEvaluate(d, live, v, o.plus, o.minus)
      = Evaluate(d, (live \ o.minus) \cup o.plus, v)

=============================================================================
