------------------------- MODULE DerivedRecordsProofs -------------------------
(***************************************************************************)
(* Proofs about the records that a client derives from the store and keeps *)
(* in it, with the position they were derived at: the runs of derivations  *)
(* (Derivation) and of validations (EntityValidation), and the snapshots   *)
(* of entities (Snapshots).                                                *)
(*                                                                         *)
(* A run that is reported current is exact, and a derivation's stays so up *)
(* to its boundary; an overlay is what the store would show.  The argument *)
(* is one for both kinds of run: a run's source position was read first.   *)
(* If it still is the current one, nothing that the run depends on was     *)
(* written since, so whatever was read after it is what would be read now. *)
(*                                                                         *)
(* However late, often and interleaved the snapshot rows of a transaction  *)
(* are written, each holds the content of its entity at that transaction   *)
(* (SnapInv); a write that has returned has left the rows of what it       *)
(* changed (WritesInv); and what readers choose among the rows is then the *)
(* last change, for which SnapInv and WritesInv suffice.                   *)
(***************************************************************************)
EXTENDS Derivation, EntityValidation, Snapshots, NaturalLemmas

-----------------------------------------------------------------------------
(* Derivations. *)

Fact == [entity : DerivedEntity, attribute : Attribute, value : Nat, from : Nat, to : Nat, at : Nat]
Row == [entity : DerivedEntity, value : Nat]
Candidate == [entity : DerivedEntity, result : SUBSET Nat, sources : SUBSET Fact]
Run == [definition : Definition, basis : Instant, source : Nat,
        candidates : SUBSET Candidate, boundary : Nat]
Task == [at : {"rest", "query", "boundary", "sources", "commit", "record", "verdict"},
         definition : Definition \cup {"none"}, basis : Instant, source : Nat,
         rows : SUBSET Row, boundary : Nat, candidates : SUBSET Candidate, runs : SUBSET Run]

DerivationTypes ==
  /\ live \subseteq Fact
  /\ derivedPosition \in Nat
  /\ written \in [Attribute -> 0 .. derivedPosition]
  /\ storedRuns \subseteq [run : Run, at : Nat]
  /\ task \in [Materializer -> Task]

-----------------------------------------------------------------------------
\* Operators.

LEMMA MinOfNaturals ==
  ASSUME NEW S \in SUBSET Nat, S # {}
  PROVE  Min(S) \in S /\ \A n \in S : Min(S) <= n
BY LeastOf DEF Min

LEMMA DependenciesAreAttributes ==
  ASSUME NEW d \in Definition
  PROVE  /\ Dependencies(d) \subseteq Attribute
         /\ "p" \in Dependencies(d)
         /\ d = "holders" => "q" \in Dependencies(d)
BY DEF Definition, Dependencies, Attribute

LEMMA SourcePositionIsLast ==
  ASSUME NEW d \in Definition, NEW w, \A a \in Attribute : w[a] \in Nat
  PROVE  /\ \E a \in Dependencies(d) : CurrentSourcePosition(d, w) = w[a]
         /\ \A a \in Dependencies(d) : w[a] <= CurrentSourcePosition(d, w)
         /\ CurrentSourcePosition(d, w) \in Nat
<1> DEFINE S == {w[a] : a \in Dependencies(d)}
<1>1. \E x \in S : \A y \in S : x >= y
  BY DEF Definition, Dependencies, Attribute
<1>2. Max(S) \in S /\ \A y \in S : Max(S) >= y
  BY <1>1 DEF Max
<1>3. QED BY <1>2, DependenciesAreAttributes DEF CurrentSourcePosition

\* An evaluation reads the visible facts of its dependencies and nothing else.
LEMMA SameFactsSameAnswer ==
  ASSUME NEW d \in Definition, NEW fs, NEW v, NEW gs, NEW u,
         \A a \in Dependencies(d) : Facts(fs, v, a) = Facts(gs, u, a)
  PROVE  /\ Rows(d, fs, v) = Rows(d, gs, u)
         /\ \A answer : Candidates(d, answer, fs, v) = Candidates(d, answer, gs, u)
         /\ Evaluate(d, fs, v) = Evaluate(d, gs, u)
<1>1. Facts(fs, v, "p") = Facts(gs, u, "p")
  BY DependenciesAreAttributes
<1>2. d = "holders" => Facts(fs, v, "q") = Facts(gs, u, "q")
  BY DependenciesAreAttributes
<1>3. Rows(d, fs, v) = Rows(d, gs, u)
  BY <1>1, <1>2 DEF Rows
<1>4. \A row : SourcesForRow(row, fs, v) = SourcesForRow(row, gs, u)
  BY <1>1 DEF SourcesForRow
<1>5. \A answer : Candidates(d, answer, fs, v) = Candidates(d, answer, gs, u)
  BY <1>4 DEF Candidates
<1>6. QED BY <1>3, <1>5 DEF Evaluate

LEMMA EvaluationTypes ==
  ASSUME NEW d \in Definition, NEW fs \in SUBSET Fact, NEW v \in Instant
  PROVE  /\ Rows(d, fs, v) \in SUBSET Row
         /\ \A answer \in SUBSET Row : Candidates(d, answer, fs, v) \in SUBSET Candidate
         /\ NextTemporalBoundary(d, fs, v) \in Nat
<1>1. Rows(d, fs, v) \in SUBSET Row
  BY DEF Rows, Facts, Row, Fact
<1>2. ASSUME NEW answer \in SUBSET Row PROVE Candidates(d, answer, fs, v) \in SUBSET Candidate
  <2>1. ASSUME NEW row \in answer
        PROVE  /\ row.entity \in DerivedEntity /\ Result(d, row) \in SUBSET Nat
               /\ UNION {SourcesForRow(r, fs, v) : r \in {r \in answer : r.entity = row.entity}} \in SUBSET Fact
    BY DEF Row, Result, SourcesForRow, Facts
  <2>2. QED BY <2>1 DEF Candidates, Candidate
<1>3. NextTemporalBoundary(d, fs, v) \in Nat
  <2> DEFINE edges == UNION {{f.from, f.to} : f \in {f \in fs : f.attribute \in Dependencies(d)}}
             S == {e \in edges : e > v} \cup {Open}
  <2>1. edges \subseteq Nat
    BY DEF Fact
  <2>2. S \in SUBSET Nat /\ S # {}
    BY <2>1, DerivationAssumption DEF Open
  <2>3. Min(S) \in Nat
    BY <2>2, MinOfNaturals
  <2>4. QED BY <2>3 DEF NextTemporalBoundary
<1>4. QED BY <1>1, <1>2, <1>3

\* No fact of the dependencies begins or ends between an instant and its boundary.
LEMMA NothingChangesBeforeTheBoundary ==
  ASSUME NEW d \in Definition, NEW fs \in SUBSET Fact, NEW v \in Instant,
         NEW u \in v .. NextTemporalBoundary(d, fs, v) - 1, NEW a \in Dependencies(d)
  PROVE  Facts(fs, u, a) = Facts(fs, v, a)
<1> DEFINE edges == UNION {{f.from, f.to} : f \in {f \in fs : f.attribute \in Dependencies(d)}}
           S == {e \in edges : e > v} \cup {Open}
<1>1. v \in Nat /\ Open \in Nat
  BY DerivationAssumption DEF Instant, Open
<1>2. S \in SUBSET Nat /\ S # {}
  BY <1>1 DEF Fact
<1>3. NextTemporalBoundary(d, fs, v) = Min(S)
  BY DEF NextTemporalBoundary
<1>4. Min(S) \in Nat /\ \A e \in S : Min(S) <= e
  BY <1>2, MinOfNaturals
<1>5. u \in Nat /\ v <= u /\ u < Min(S)
  <2> HIDE DEF S
  <2>1. u \in v .. Min(S) - 1
    BY <1>3
  <2>2. QED BY <1>1, <1>4, <2>1
<1>6. ASSUME NEW e \in edges, e > v PROVE u < e
  <2>1. e \in S
    BY <1>6
  <2> HIDE DEF S
  <2>2. e \in Nat /\ Min(S) <= e
    BY <1>2, <1>4, <2>1
  <2>3. QED BY <1>4, <1>5, <2>2
<1>7. ASSUME NEW f \in fs, f.attribute = a PROVE HoldsAt(f, u) <=> HoldsAt(f, v)
  <2>1. f.from \in edges /\ f.to \in edges /\ f.from \in Nat /\ f.to \in Nat
    BY <1>7 DEF Fact
  <2>2. (f.from > v => u < f.from) /\ (f.to > v => u < f.to)
    BY <1>6, <2>1
  <2>3. QED BY <1>1, <1>5, <2>1, <2>2 DEF HoldsAt
<1>8. QED BY <1>7 DEF Facts

\* The facts of an overlay's store that an evaluation sees are those of the changed store.
LEMMA OverlayIsTheChangedStore ==
  ASSUME NEW d \in Definition, NEW fs, NEW v, NEW plus, NEW minus
  PROVE  OverlayEvaluate(d, fs, v, plus, minus) = Evaluate(d, (fs \ minus) \cup plus, v)
<1> DEFINE base == VisibleBase(d, fs, v, minus) \cup plus
           after == (fs \ minus) \cup plus
<1>1. ASSUME NEW a \in Dependencies(d) PROVE Facts(base, v, a) = Facts(after, v, a)
  <2>1. ASSUME NEW f, f.attribute = a, HoldsAt(f, v) PROVE f \in base <=> f \in after
    <3> DEFINE U == UNION {Facts(fs, v, b) : b \in Dependencies(d)}
    <3>1. f \in U <=> f \in fs
      <4>1. \A b \in Dependencies(d) : Facts(fs, v, b) \subseteq fs
        BY DEF Facts
      <4>2. f \in fs => f \in Facts(fs, v, a)
        BY <2>1 DEF Facts
      <4>3. QED BY <4>1, <4>2
    <3>2. VisibleBase(d, fs, v, minus) = U \ minus
      BY DEF VisibleBase
    <3> HIDE DEF U
    <3>3. QED BY <3>1, <3>2
  <2> HIDE DEF base, after
  <2>2. QED BY <2>1 DEF Facts
<1>2. Evaluate(d, base, v) = Evaluate(d, after, v)
  BY <1>1, SameFactsSameAnswer
<1>3. QED BY <1>2 DEF OverlayEvaluate

-----------------------------------------------------------------------------
\* What is known of whatever was read after a source position.

Since(d, source) == d \in Definition /\ source <= CurrentSourcePosition(d, written)
IsNow(d, source) == source = CurrentSourcePosition(d, written)

Exact(run) ==
  /\ Since(run.definition, run.source)
  /\ IsNow(run.definition, run.source) =>
       /\ run.candidates = Evaluate(run.definition, live, run.basis)
       /\ run.boundary = NextTemporalBoundary(run.definition, live, run.basis)

TaskExact(w) ==
  /\ w.at \in {"query", "boundary", "sources", "commit", "record"} => Since(w.definition, w.source)
  /\ IsNow(w.definition, w.source) =>
       /\ w.at \in {"boundary", "sources", "commit", "record"} =>
            w.rows = Rows(w.definition, live, w.basis)
       /\ w.at \in {"sources", "commit", "record"} =>
            w.boundary = NextTemporalBoundary(w.definition, live, w.basis)
       /\ w.at \in {"commit", "record"} =>
            w.candidates = Evaluate(w.definition, live, w.basis)
  /\ w.at = "verdict" => w.definition \in Definition /\ w.runs \subseteq Loaded

RunsInv == \A r \in storedRuns : Exact(r.run)
TasksInv == \A m \in Materializer : TaskExact(task[m])
DerivationInv == DerivationTypes /\ RunsInv /\ TasksInv

LEMMA DerivationInvInit == DerivationInit => DerivationInv
<1> SUFFICES ASSUME DerivationInit PROVE DerivationInv
  OBVIOUS
<1>1. Resting \in Task
  BY DerivationAssumption DEF Resting, Task, Instant
<1>2. DerivationTypes
  BY <1>1 DEF DerivationInit, DerivationTypes, Attribute
<1>3. RunsInv /\ TasksInv
  BY DEF DerivationInit, RunsInv, TasksInv, TaskExact, Resting
<1>4. QED BY <1>2, <1>3 DEF DerivationInv

\* A definition whose dependencies a write leaves alone, and one that it overtakes.
Quiet(d) ==
  /\ CurrentSourcePosition(d, written)' = CurrentSourcePosition(d, written)
  /\ \A v \in Instant :
       /\ Rows(d, live', v) = Rows(d, live, v)
       /\ Evaluate(d, live', v) = Evaluate(d, live, v)
       /\ NextTemporalBoundary(d, live', v) = NextTemporalBoundary(d, live, v)
Overtaken(d) == CurrentSourcePosition(d, written) < CurrentSourcePosition(d, written)'

LEMMA WriteIsQuietOrOvertakes ==
  ASSUME DerivationTypes, NEW a \in Attribute,
         written' = [written EXCEPT ![a] = derivedPosition + 1],
         \A b \in Attribute \ {a} : {f \in live' : f.attribute = b} = {f \in live : f.attribute = b},
         NEW d \in Definition
  PROVE  Quiet(d) \/ Overtaken(d)
<1>1. /\ derivedPosition \in Nat
      /\ \A b \in Attribute : written[b] \in Nat /\ written[b] <= derivedPosition
      /\ \A b \in Attribute : written'[b] = IF b = a THEN derivedPosition + 1 ELSE written[b]
  BY DEF DerivationTypes
<1>2. \A b \in Attribute : written'[b] \in Nat
  BY <1>1
<1>3. /\ \E b \in Dependencies(d) : CurrentSourcePosition(d, written) = written[b]
      /\ \A b \in Dependencies(d) : written[b] <= CurrentSourcePosition(d, written)
  BY <1>1, SourcePositionIsLast
<1>4. /\ \E b \in Dependencies(d) : CurrentSourcePosition(d, written') = written'[b]
      /\ \A b \in Dependencies(d) : written'[b] <= CurrentSourcePosition(d, written')
      /\ CurrentSourcePosition(d, written') \in Nat
  BY <1>2, SourcePositionIsLast
<1>5. CurrentSourcePosition(d, written)' = CurrentSourcePosition(d, written')
  BY DEF CurrentSourcePosition
<1>6. Dependencies(d) \subseteq Attribute
  BY DependenciesAreAttributes
<1>7. CASE a \in Dependencies(d)
  <2>1. CurrentSourcePosition(d, written) \in Nat /\ CurrentSourcePosition(d, written) <= derivedPosition
    BY <1>1, <1>3, <1>6
  <2>2. written'[a] = derivedPosition + 1 /\ written'[a] <= CurrentSourcePosition(d, written')
    BY <1>1, <1>4, <1>7
  <2> HIDE DEF CurrentSourcePosition
  <2>3. QED BY <1>1, <1>4, <1>5, <2>1, <2>2 DEF Overtaken
<1>8. CASE a \notin Dependencies(d)
  <2>1. CurrentSourcePosition(d, written') = CurrentSourcePosition(d, written)
    BY <1>1, <1>6, <1>8 DEF CurrentSourcePosition
  <2>2. \A b \in Dependencies(d) : {f \in live' : f.attribute = b} = {f \in live : f.attribute = b}
    BY <1>6, <1>8
  <2>3. \A v \in Instant, b \in Dependencies(d) : Facts(live', v, b) = Facts(live, v, b)
    BY <2>2 DEF Facts
  <2>4. \A v \in Instant : /\ Rows(d, live', v) = Rows(d, live, v)
                          /\ Evaluate(d, live', v) = Evaluate(d, live, v)
    BY <2>3, SameFactsSameAnswer
  <2>5. {f \in live' : f.attribute \in Dependencies(d)} = {f \in live : f.attribute \in Dependencies(d)}
    BY <2>2
  <2>6. \A v \in Instant : NextTemporalBoundary(d, live', v) = NextTemporalBoundary(d, live, v)
    BY <2>5 DEF NextTemporalBoundary
  <2>7. QED BY <1>5, <2>1, <2>4, <2>6 DEF Quiet
<1>9. QED BY <1>7, <1>8

\* A write keeps what is known: nothing changes for a quiet definition, and a position
\* that was read before an overtaking write is no longer the current one.
LEMMA WritesKeepExactness ==
  ASSUME DerivationInv, DerivationTypes', UNCHANGED <<storedRuns, task>>,
         \A d \in Definition : Quiet(d) \/ Overtaken(d)
  PROVE  (RunsInv /\ TasksInv)'
<1>1. \A d \in Definition : /\ CurrentSourcePosition(d, written) \in Nat
                            /\ CurrentSourcePosition(d, written)' \in Nat
  <2>1. \A b \in Attribute : written[b] \in Nat /\ written'[b] \in Nat
    BY DEF DerivationInv, DerivationTypes
  <2>2. QED BY <2>1, SourcePositionIsLast DEF CurrentSourcePosition
<1>2. ASSUME NEW d \in Definition, NEW source \in Nat, Since(d, source)
      PROVE  Since(d, source)' /\ (IsNow(d, source)' => IsNow(d, source) /\ Quiet(d))
  BY <1>1, <1>2 DEF Since, IsNow, Quiet, Overtaken
<1>3. ASSUME NEW r \in storedRuns PROVE Exact(r.run)'
  <2> DEFINE run == r.run
  <2>1. run \in Run /\ Exact(run)
    BY DEF DerivationInv, DerivationTypes, RunsInv
  <2>2. run.definition \in Definition /\ run.source \in Nat /\ run.basis \in Instant
    BY <2>1 DEF Run
  <2>3. Since(run.definition, run.source)' /\ (IsNow(run.definition, run.source)' => IsNow(run.definition, run.source) /\ Quiet(run.definition))
    BY <1>2, <2>1, <2>2 DEF Exact
  <2> HIDE DEF run
  <2>4. Exact(run)'
    BY <2>1, <2>2, <2>3 DEF Exact, Quiet, Since, IsNow
  <2>5. QED BY <2>4 DEF run
<1>4. ASSUME NEW m \in Materializer PROVE TaskExact(task[m])'
  <2> DEFINE w == task[m]
  <2>1. w \in Task /\ TaskExact(w)
    BY DEF DerivationInv, DerivationTypes, TasksInv
  <2>2. w.source \in Nat /\ w.basis \in Instant
    BY <2>1 DEF Task
  <2>3. w.at \in {"query", "boundary", "sources", "commit", "record"} =>
          /\ w.definition \in Definition /\ Since(w.definition, w.source)'
          /\ IsNow(w.definition, w.source)' => IsNow(w.definition, w.source) /\ Quiet(w.definition)
    <3>1. SUFFICES ASSUME w.at \in {"query", "boundary", "sources", "commit", "record"}
                   PROVE  /\ w.definition \in Definition /\ Since(w.definition, w.source)'
                          /\ IsNow(w.definition, w.source)' => IsNow(w.definition, w.source) /\ Quiet(w.definition)
      OBVIOUS
    <3>2. Since(w.definition, w.source)
      BY <2>1, <3>1 DEF TaskExact
    <3>3. w.definition \in Definition
      BY <3>2 DEF Since
    <3>4. QED BY <1>2, <2>2, <3>2, <3>3
  <2>4. Loaded' = Loaded
    BY DEF Loaded
  <2>5. UNCHANGED w
    OBVIOUS
  <2> HIDE DEF w
  <2>6. w.at = "verdict" => w.definition \in Definition /\ w.runs \subseteq Loaded'
    BY <2>1, <2>4 DEF TaskExact
  <2>7. IsNow(w.definition, w.source)' =>
          /\ w.at \in {"boundary", "sources", "commit", "record"} =>
               w.rows = Rows(w.definition, live', w.basis)
          /\ w.at \in {"sources", "commit", "record"} =>
               w.boundary = NextTemporalBoundary(w.definition, live', w.basis)
          /\ w.at \in {"commit", "record"} =>
               w.candidates = Evaluate(w.definition, live', w.basis)
    BY <2>1, <2>2, <2>3, <2>5 DEF TaskExact, Quiet
  <2>8. TaskExact(w)'
    BY <2>3, <2>5, <2>6, <2>7 DEF TaskExact, Rows, Evaluate, NextTemporalBoundary
  <2>9. QED BY <2>8 DEF w
<1>5. QED BY <1>3, <1>4 DEF RunsInv, TasksInv

-----------------------------------------------------------------------------
\* The steps.

LEMMA RestingIsExact == Resting \in Task /\ TaskExact(Resting)
BY DerivationAssumption DEF Resting, Task, Instant, TaskExact

\* A step that only reads keeps the invariant if the task it leaves is exact.
LEMMA ReadingKeepsInv ==
  ASSUME DerivationInv, NEW m \in Materializer, NEW w \in Task, TaskExact(w),
         Become(m, w), OnlyReads
  PROVE  DerivationInv'
<1>1. UNCHANGED <<live, written, derivedPosition, storedRuns>> /\ Loaded' = Loaded
  BY DEF OnlyReads, Loaded
<1>2. task' \in [Materializer -> Task] /\ task' = [task EXCEPT ![m] = w]
  BY DEF Become, DerivationInv, DerivationTypes
<1>3. DerivationTypes'
  BY <1>1, <1>2 DEF DerivationInv, DerivationTypes
<1>4. RunsInv'
  BY <1>1 DEF DerivationInv, RunsInv, Exact, Since, IsNow
<1>5. ASSUME NEW n \in Materializer PROVE TaskExact(task[n])'
  <2>1. PICK t \in Task : task'[n] = t /\ TaskExact(t)
    BY <1>2 DEF DerivationInv, DerivationTypes, TasksInv
  <2>2. TaskExact(t)'
    BY <1>1, <2>1 DEF TaskExact, Since, IsNow
  <2>3. QED BY <2>1, <2>2 DEF TaskExact, Since, IsNow
<1>6. QED BY <1>3, <1>4, <1>5 DEF DerivationInv, TasksInv

LEMMA FactsKeepInv ==
  ASSUME DerivationInv, RecordFact \/ WithdrawFact
  PROVE  DerivationInv'
<1>1. /\ live \subseteq Fact /\ derivedPosition \in Nat /\ written \in [Attribute -> 0 .. derivedPosition]
      /\ derivedPosition' = derivedPosition + 1 /\ UNCHANGED <<storedRuns, task>>
  BY DEF DerivationInv, DerivationTypes, RecordFact, WithdrawFact, FactWrite
<1>2. PICK a \in Attribute :
         /\ live' \subseteq Fact
         /\ written' = [written EXCEPT ![a] = derivedPosition + 1]
         /\ \A b \in Attribute \ {a} : {f \in live' : f.attribute = b} = {f \in live : f.attribute = b}
  <2>1. CASE RecordFact
    <3>1. PICK e \in DerivedEntity, k \in FactKind :
             /\ live' = live \cup {[entity |-> e, attribute |-> k.attribute, value |-> k.value,
                                    from |-> k.from, to |-> k.to, at |-> derivedPosition + 1]}
             /\ written' = [written EXCEPT ![k.attribute] = derivedPosition + 1]
      BY <2>1 DEF RecordFact
    <3>2. /\ k.attribute \in Attribute /\ k.value \in Nat /\ k.from \in Nat /\ k.to \in Nat
      BY DerivationAssumption DEF Attribute
    <3>3. live' \subseteq Fact
      BY <1>1, <3>1, <3>2 DEF Fact
    <3>4. \A b \in Attribute \ {k.attribute} : {f \in live' : f.attribute = b} = {f \in live : f.attribute = b}
      BY <3>1
    <3>5. QED BY <3>1, <3>2, <3>3, <3>4
  <2>2. CASE WithdrawFact
    <3>1. PICK f \in live : /\ live' = live \ {f}
                            /\ written' = [written EXCEPT ![f.attribute] = derivedPosition + 1]
      BY <2>2 DEF WithdrawFact
    <3>2. f.attribute \in Attribute /\ live' \subseteq Fact
      BY <1>1, <3>1 DEF Fact
    <3>3. \A b \in Attribute \ {f.attribute} : {g \in live' : g.attribute = b} = {g \in live : g.attribute = b}
      BY <3>1
    <3>4. QED BY <3>1, <3>2, <3>3
  <2>3. QED BY <2>1, <2>2
<1>3. written' \in [Attribute -> 0 .. derivedPosition + 1]
  BY <1>1, <1>2
<1>4. DerivationTypes'
  BY <1>1, <1>2, <1>3 DEF DerivationInv, DerivationTypes
<1>5. \A d \in Definition : Quiet(d) \/ Overtaken(d)
  BY <1>2, WriteIsQuietOrOvertakes DEF DerivationInv
<1>6. QED BY <1>1, <1>4, <1>5, WritesKeepExactness DEF DerivationInv

LEMMA RecordingKeepsInv ==
  ASSUME DerivationInv, NEW m \in Materializer, RecordRun(m)
  PROVE  DerivationInv'
<1> DEFINE w == task[m]
           run == RunOfWork(w)
           r == [run |-> run, at |-> derivedPosition + 1]
<1>1. w \in Task /\ TaskExact(w) /\ w.at = "record" /\ derivedPosition \in Nat
  BY DEF RecordRun, TaskAt, DerivationInv, DerivationTypes, TasksInv
<1>2. Since(w.definition, w.source) /\ w.definition \in Definition
  BY <1>1 DEF TaskExact, Since
<1>3. run \in Run
  BY <1>1, <1>2 DEF RunOfWork, Task, Run
<1>4. Exact(run)
  BY <1>1, <1>2 DEF RunOfWork, Exact, TaskExact
<1>5. /\ storedRuns' = storedRuns \cup {r} /\ UNCHANGED <<live, written>>
      /\ derivedPosition' = derivedPosition + 1 /\ task' = [task EXCEPT ![m] = Resting]
  BY DEF RecordRun, Become
<1>6. DerivationTypes'
  <2>1. r \in [run : Run, at : Nat]
    BY <1>1, <1>3
  <2>2. written' \in [Attribute -> 0 .. derivedPosition + 1]
    BY <1>1, <1>5 DEF DerivationInv, DerivationTypes
  <2>3. task' \in [Materializer -> Task]
    BY <1>5, RestingIsExact DEF DerivationInv, DerivationTypes
  <2> HIDE DEF r
  <2>4. QED BY <1>1, <1>5, <2>1, <2>2, <2>3 DEF DerivationInv, DerivationTypes
<1>7. RunsInv'
  <2>1. r.run = run
    OBVIOUS
  <2> HIDE DEF r, run
  <2>2. \A s \in storedRuns' : Exact(s.run)
    BY <1>4, <1>5, <2>1 DEF DerivationInv, RunsInv
  <2>3. QED BY <1>5, <2>2 DEF RunsInv, Exact, Since, IsNow
<1>8. TasksInv'
  <2>1. Loaded \subseteq Loaded'
    BY <1>5 DEF Loaded
  <2>2. ASSUME NEW n \in Materializer PROVE TaskExact(task[n])'
    <3>1. PICK t \in Task : task'[n] = t /\ TaskExact(t)
      BY <1>5, RestingIsExact DEF DerivationInv, DerivationTypes, TasksInv
    <3>2. QED BY <1>5, <2>1, <3>1 DEF TaskExact, Since, IsNow
  <2>3. QED BY <2>2 DEF TasksInv
<1>9. QED BY <1>6, <1>7, <1>8 DEF DerivationInv

LEMMA DerivationInvStep == DerivationInv /\ [DerivationNext]_derivationVars => DerivationInv'
<1> SUFFICES ASSUME DerivationInv, [DerivationNext]_derivationVars PROVE DerivationInv'
  OBVIOUS
<1>1. /\ live \in SUBSET Fact /\ task \in [Materializer -> Task]
      /\ \A a \in Attribute : written[a] \in Nat
      /\ storedRuns \subseteq [run : Run, at : Nat] /\ TasksInv
  BY DEF DerivationInv, DerivationTypes
<1>2. \A a \in Asked : a.definition \in Definition /\ a.basis \in Instant
  BY DerivationAssumption DEF Definition, Instant
<1>3. Loaded \subseteq Run
  BY <1>1 DEF Loaded
<1>4. ASSUME NEW m \in Materializer, MaterializerStep(m) PROVE DerivationInv'
  <2> DEFINE w == task[m]
  <2>0. w \in Task /\ TaskExact(w)
    BY <1>1 DEF TasksInv
  <2>a. w.at \in {"query", "boundary", "sources", "commit", "record"} =>
          w.definition \in Definition /\ Since(w.definition, w.source)
    BY <2>0 DEF TaskExact, Since
  <2>1. CASE ReadSourcePosition(m)
    <3>1. PICK a \in Asked :
            Become(m, [Resting EXCEPT !.at = "query", !.definition = a.definition, !.basis = a.basis,
                                      !.source = CurrentSourcePosition(a.definition, written)])
      BY <2>1 DEF ReadSourcePosition
    <3> DEFINE t == [Resting EXCEPT !.at = "query", !.definition = a.definition, !.basis = a.basis,
                                    !.source = CurrentSourcePosition(a.definition, written)]
    <3>2. CurrentSourcePosition(a.definition, written) \in Nat
      BY <1>1, <1>2, SourcePositionIsLast
    <3>3. t \in Task /\ t.at = "query" /\ Since(t.definition, t.source)
      <4>1. t \in Task
        BY <1>2, <3>2, RestingIsExact DEF Task
      <4>2. /\ t.at = "query" /\ t.definition = a.definition
            /\ t.source = CurrentSourcePosition(a.definition, written)
        BY DEF Resting
      <4> HIDE DEF t
      <4>3. QED BY <1>2, <3>2, <4>1, <4>2 DEF Since
    <3> HIDE DEF t
    <3>4. TaskExact(t)
      BY <3>3 DEF TaskExact
    <3>5. OnlyReads
      BY <2>1 DEF ReadSourcePosition
    <3>6. QED BY <3>1, <3>3, <3>4, <3>5, ReadingKeepsInv DEF t
  <2>2. CASE QueryRows(m)
    <3> DEFINE t == [w EXCEPT !.at = "boundary", !.rows = Rows(w.definition, live, w.basis)]
    <3>1. w.at = "query" /\ Become(m, t) /\ OnlyReads
      BY <2>2 DEF QueryRows, TaskAt
    <3>2. Rows(w.definition, live, w.basis) \in SUBSET Row
      BY <1>1, <2>0, <2>a, <3>1, EvaluationTypes DEF Task
    <3>3. t \in Task /\ TaskExact(t)
      BY <2>0, <2>a, <3>1, <3>2 DEF Task, TaskExact
    <3>4. QED BY <3>1, <3>3, ReadingKeepsInv
  <2>3. CASE ReadBoundary(m)
    <3> DEFINE t == [w EXCEPT !.at = "sources", !.boundary = NextTemporalBoundary(w.definition, live, w.basis)]
    <3>1. w.at = "boundary" /\ Become(m, t) /\ OnlyReads
      BY <2>3 DEF ReadBoundary, TaskAt
    <3>2. NextTemporalBoundary(w.definition, live, w.basis) \in Nat
      BY <1>1, <2>0, <2>a, <3>1, EvaluationTypes DEF Task
    <3>3. t \in Task /\ TaskExact(t)
      BY <2>0, <2>a, <3>1, <3>2 DEF Task, TaskExact
    <3>4. QED BY <3>1, <3>3, ReadingKeepsInv
  <2>4. CASE ReadSources(m)
    <3> DEFINE t == [w EXCEPT !.at = "commit", !.candidates = Candidates(w.definition, w.rows, live, w.basis)]
    <3>1. w.at = "sources" /\ OnlyReads /\ (Become(m, Resting) \/ Become(m, t))
      BY <2>4 DEF ReadSources, TaskAt
    <3>2. Candidates(w.definition, w.rows, live, w.basis) \in SUBSET Candidate
      BY <1>1, <2>0, <2>a, <3>1, EvaluationTypes DEF Task
    <3>3. t \in Task
      BY <2>0, <3>2 DEF Task
    <3>4. TaskExact(t)
      BY <2>0, <2>a, <3>1 DEF Task, TaskExact, Evaluate
    <3>5. QED BY <3>1, <3>3, <3>4, RestingIsExact, ReadingKeepsInv
  <2>5. CASE LookForRun(m)
    <3> DEFINE t == [w EXCEPT !.at = "record"]
    <3>1. w.at = "commit" /\ OnlyReads /\ (Become(m, Resting) \/ Become(m, t))
      BY <2>5 DEF LookForRun, TaskAt
    <3>2. t \in Task /\ TaskExact(t)
      BY <2>0, <2>a, <3>1 DEF Task, TaskExact
    <3>3. QED BY <3>1, <3>2, RestingIsExact, ReadingKeepsInv
  <2>6. CASE RecordRun(m)
    BY <2>6, RecordingKeepsInv
  <2>7. CASE LoadRuns(m)
    <3>1. PICK a \in Asked :
            Become(m, [Resting EXCEPT !.at = "verdict", !.definition = a.definition,
                                      !.basis = a.basis, !.runs = SelectedRuns(a.definition)])
      BY <2>7 DEF LoadRuns
    <3> DEFINE t == [Resting EXCEPT !.at = "verdict", !.definition = a.definition,
                                    !.basis = a.basis, !.runs = SelectedRuns(a.definition)]
    <3>2. SelectedRuns(a.definition) \subseteq Loaded
      BY DEF SelectedRuns, LatestForDefinition, LatestForName
    <3>3. t \in Task /\ TaskExact(t)
      BY <1>2, <1>3, <3>2, RestingIsExact DEF Resting, Task, TaskExact
    <3>4. OnlyReads
      BY <2>7 DEF LoadRuns
    <3>5. QED BY <3>1, <3>3, <3>4, ReadingKeepsInv
  <2>8. CASE Verdict(m)
    BY <2>8, RestingIsExact, ReadingKeepsInv DEF Verdict
  <2>9. QED BY <1>4, <2>1, <2>2, <2>3, <2>4, <2>5, <2>6, <2>7, <2>8 DEF MaterializerStep
<1>5. CASE UNCHANGED derivationVars
  BY <1>5 DEF derivationVars, DerivationInv, DerivationTypes, RunsInv, TasksInv, Exact, TaskExact, Since, IsNow,
              Loaded
<1>6. QED BY <1>4, <1>5, FactsKeepInv DEF DerivationNext

LEMMA DerivationInductive == DerivationSpec => []DerivationInv
BY DerivationInvInit, DerivationInvStep, PTL DEF DerivationSpec

-----------------------------------------------------------------------------
\* Every variable keeps its type: in particular a task has only runs that were stored,
\* and no attribute was written after the last position (Materialization.ts).
THEOREM TypeCorrect == DerivationSpec => []DerivationTypes
<1>1. DerivationInv => DerivationTypes
  BY DEF DerivationInv
<1>2. QED BY <1>1, DerivationInductive, PTL

LEMMA CurrentRunsAreStored ==
  ASSUME DerivationInv, NEW m \in Readers, NEW run \in CurrentRuns(task[m])
  PROVE  /\ run \in Run
         /\ run.candidates = Evaluate(run.definition, live, run.basis)
         /\ run.boundary = NextTemporalBoundary(run.definition, live, run.basis)
<1>1. /\ m \in Materializer /\ task[m].at = "verdict" /\ TaskExact(task[m])
  BY DEF Readers, TaskAt, DerivationInv, TasksInv
<1>2. run \in Loaded /\ IsNow(run.definition, run.source)
  BY <1>1 DEF CurrentRuns, IsCurrentFor, TaskExact, IsNow
<1>3. PICK r \in storedRuns : r.run = run
  BY <1>2 DEF Loaded
<1>4. QED BY <1>2, <1>3 DEF DerivationInv, DerivationTypes, RunsInv, Exact

\* A run that is called current is what evaluating now would give, for any entities,
\* materializers, facts and requests (Materialization.ts, current).
THEOREM CurrentRunsAreWhatIsTrue == DerivationSpec => []CurrentRunsAreExact
<1>1. DerivationInv => CurrentRunsAreExact
  BY CurrentRunsAreStored DEF CurrentRunsAreExact
<1>2. QED BY <1>1, DerivationInductive, PTL

\* And it stays so at every later instant before its boundary, as long as nothing that it
\* depends on is written (Derivation.ts, temporalBoundaryFromJournal).
THEOREM BoundariesHideNoChange == DerivationSpec => []BoundariesCoverChanges
<1>1. DerivationInv => BoundariesCoverChanges
  <2>1. SUFFICES ASSUME DerivationInv, NEW m \in Readers, NEW run \in CurrentRuns(task[m]),
                        NEW v \in run.basis .. run.boundary - 1
                 PROVE  Evaluate(run.definition, live, v) = run.candidates
    BY DEF BoundariesCoverChanges
  <2>2. /\ run.definition \in Definition /\ run.basis \in Instant /\ live \in SUBSET Fact
        /\ run.candidates = Evaluate(run.definition, live, run.basis)
        /\ run.boundary = NextTemporalBoundary(run.definition, live, run.basis)
    BY <2>1, CurrentRunsAreStored DEF Run, DerivationInv, DerivationTypes
  <2>3. \A a \in Dependencies(run.definition) : Facts(live, v, a) = Facts(live, run.basis, a)
    BY <2>1, <2>2, NothingChangesBeforeTheBoundary
  <2>4. Evaluate(run.definition, live, v) = Evaluate(run.definition, live, run.basis)
    BY <2>2, <2>3, SameFactsSameAnswer
  <2>5. QED BY <2>2, <2>4
<1>2. QED BY <1>1, DerivationInductive, PTL

\* An overlay is what the store would show after the change, for every store and change
\* (Overlay.ts).
THEOREM OverlaysShowTheChangedStore == DerivationSpec => []OverlaysForetell
<1>1. OverlaysForetell
  BY OverlayIsTheChangedStore DEF OverlaysForetell
<1>2. QED BY <1>1, PTL
-----------------------------------------------------------------------------
(* Validations. *)

\* What validators keep and read, by type.
SnapshotOrNone == Snapshot \cup {"none"}
ResultSet == [subject : Subject, snapshot : SnapshotOrNone, value : Value \cup {Absent},
              clash : BOOLEAN]
HeadSet == [subject : Subject, result : ResultSet, at : Nat]
ValidationRun == [snapshot : SnapshotOrNone, source : Nat, results : SUBSET ResultSet]
CheckpointSet == [run : ValidationRun, snapshot : SnapshotOrNone, source : Nat, at : Nat]
FoundSet == [snapshot : SnapshotOrNone, source : Nat, clashes : SUBSET Subject,
             heads : SUBSET HeadSet, checkpoint : SUBSET CheckpointSet,
             todo : SUBSET Subject, results : SUBSET ResultSet, invalid : SUBSET Subject]

Validating == {"source", "graph", "heads", "checkpoint", "subjects", "entity", "write"}

ValidationTypes ==
  /\ entities \in [Subject -> Value \cup {Absent}]
  /\ target \in Snapshot
  /\ lastPosition \in Nat /\ lastSource \in 0 .. lastPosition
  /\ heads \subseteq HeadSet /\ checkpoint \subseteq CheckpointSet
  /\ phase \in [Validator -> Validating \cup Asking \cup {"idle"}]
  /\ found \in [Validator -> FoundSet]

\* The results of a run over the entities of ss, were it made now.
ResultsNow(snapshot, ss) ==
  {[subject |-> s, snapshot |-> snapshot, value |-> entities[s], clash |-> s \in Clashes] : s \in ss}

OfItsSubject(h) == h.result.subject = h.subject
OneEach(S) == \A x, y \in S : x.subject = y.subject => x = y

\* The records between two runs: one checkpoint, and heads that point to the
\* results of its run.
RecordsInv ==
  /\ \A c, d \in checkpoint : c = d
  /\ OneEach(heads) /\ \A h \in heads : OfItsSubject(h)
  /\ HeadsAreOneRun
  /\ \A c \in checkpoint :
       /\ c.run.snapshot = c.snapshot /\ c.run.source = c.source
       /\ c.source <= lastSource
       /\ c.source = lastSource => c.run.results = ResultsNow(c.snapshot, Present)

\* A run under way: the records are those it has read, and what it has read of the
\* entities is what they are, if its source position still is the last.
RunInv(v) ==
  LET f == found[v] IN
  phase[v] \in Validating =>
    /\ \A w \in Validator : phase[w] \in Validating => w = v
    /\ \A c \in checkpoint : c.source = lastSource => f.snapshot = target
    /\ phase[v] # "source" => f.source <= lastSource /\ \A c \in checkpoint : c.source <= f.source
    /\ phase[v] \in {"checkpoint", "subjects", "entity", "write"} => f.heads = heads
    /\ phase[v] \in {"subjects", "entity", "write"} => f.checkpoint = checkpoint
    /\ OneEach(f.results)
    /\ phase[v] \notin {"entity", "write"} => f.results = {}
    /\ \A r \in f.results : r.subject \notin f.todo
    /\ phase[v] = "write" => f.todo = {}
    /\ phase[v] \in {"heads", "checkpoint", "subjects", "entity", "write"} /\ f.source = lastSource
         => f.clashes = Clashes
    /\ phase[v] \in {"entity", "write"} /\ f.source = lastSource
         => f.todo \subseteq Present /\ f.results = ResultsNow(f.snapshot, Present \ f.todo)

\* A reader: the checkpoint it has read is the present one or has been replaced by
\* one of the same source and snapshot, unless something was committed since.
ReaderInv(v) ==
  LET f == found[v] IN
  phase[v] \in Asking =>
    /\ \A c, d \in f.checkpoint : c = d
    /\ \A c \in f.checkpoint :
         /\ c.source <= lastSource
         /\ c.source = lastSource =>
              /\ \E d \in checkpoint : d.source = lastSource /\ (c.snapshot = target => d.snapshot = target)
              /\ phase[v] # "askRef" => f.snapshot = target
              /\ phase[v] = "askPosition" /\ c.snapshot = f.snapshot => f.invalid = Invalid(target)

ValidationInv ==
  /\ ValidationTypes /\ RecordsInv
  /\ \A v \in Validator : RunInv(v) /\ ReaderInv(v)

-----------------------------------------------------------------------------
\* One validator moves, and nothing else does.

\* Primed state predicates over what has not changed.
LEMMA SameRecords ==
  ASSUME UNCHANGED <<appVars, recordVars>>
  PROVE  /\ Clashes' = Clashes /\ Present' = Present
         /\ \A x, y : ResultsNow(x, y)' = ResultsNow(x, y)
         /\ Invalid(target)' = Invalid(target)
         /\ RecordsInv' <=> RecordsInv
<1>1. Clashes' = Clashes /\ Present' = Present
  BY DEF appVars, Clashes, Present
<1>2. \A x, y : ResultsNow(x, y)' = ResultsNow(x, y)
  BY <1>1 DEF appVars, ResultsNow
<1>3. Invalid(target)' = Invalid(target)
  BY <1>1 DEF appVars, Invalid
<1>4. RecordsInv' <=> RecordsInv
  BY <1>1, <1>2 DEF appVars, recordVars, RecordsInv, HeadsAreOneRun
<1> QED BY <1>1, <1>2, <1>3, <1>4

LEMMA OneMoves ==
  ASSUME ValidationInv, NEW v \in Validator, UNCHANGED <<appVars, recordVars, lastPosition>>,
         NEW p \in Validating \cup Asking \cup {"idle"}, NEW f \in FoundSet,
         GoOn(v, p), Find(v, f), RunInv(v)', ReaderInv(v)',
         p \in Validating =>
           phase[v] \in Validating \/ \A w \in Validator : phase[w] \notin Validating
  PROVE  ValidationInv'
<1>1. ValidationTypes'
  BY DEF ValidationInv, ValidationTypes, GoOn, Find, appVars, recordVars
<1>2. RecordsInv'
  BY SameRecords DEF ValidationInv
<1>3. ASSUME NEW w \in Validator, w # v PROVE RunInv(w)' /\ ReaderInv(w)'
  <2>1. phase'[w] = phase[w] /\ found'[w] = found[w] /\ phase'[v] = p
    BY <1>3 DEF ValidationInv, ValidationTypes, GoOn, Find
  <2>2. RunInv(w) /\ ReaderInv(w) /\ RunInv(v)
    BY DEF ValidationInv
  <2>3. \A u \in Validator : phase'[u] = IF u = v THEN p ELSE phase[u]
    BY DEF ValidationInv, ValidationTypes, GoOn
  <2>4. ASSUME phase[w] \in Validating PROVE \A u \in Validator : phase'[u] \in Validating => u = w
    BY <1>3, <2>2, <2>3, <2>4 DEF RunInv
  <2>5. RunInv(w)'
    BY <2>1, <2>2, <2>4, SameRecords DEF RunInv, appVars, recordVars
  <2>6. ReaderInv(w)'
    BY <2>1, <2>2, SameRecords DEF ReaderInv, appVars, recordVars
  <2> QED BY <2>5, <2>6
<1> QED BY <1>1, <1>2, <1>3 DEF ValidationInv

LEMMA NothingFoundType == NothingFound \in FoundSet
BY DEF NothingFound, FoundSet, SnapshotOrNone

\* A validator that goes back to rest.
LEMMA RestKeeps ==
  ASSUME ValidationInv, NEW v \in Validator, UNCHANGED <<appVars, recordVars, lastPosition>>,
         Done(v)
  PROVE  ValidationInv'
<1>1. phase'[v] = "idle"
  BY DEF ValidationInv, ValidationTypes, Done, GoOn
<1>2. RunInv(v)' /\ ReaderInv(v)'
  BY <1>1 DEF RunInv, ReaderInv, Validating, Asking
<1> QED BY <1>2, NothingFoundType, OneMoves DEF Done, Validating, Asking

\* The reads of a run, up to the entities.
LEMMA RunReadsKeep ==
  ASSUME ValidationInv, NEW v \in Validator, OneAtATime,
         \/ StartRun(v) \/ LatestSourcePosition(v) \/ EvaluateGraph(v) \/ ReadHeads(v)
         \/ ReadCheckpoint(v) \/ ReadSubjects(v)
  PROVE  ValidationInv'
<1> USE DEF Validating, Asking, GoOn, Find
<1> DEFINE f == found[v]
<1>1. /\ f \in FoundSet /\ phase \in [Validator -> Validating \cup Asking \cup {"idle"}]
      /\ found \in [Validator -> FoundSet] /\ lastSource \in Nat /\ target \in Snapshot
      /\ heads \subseteq HeadSet /\ checkpoint \subseteq CheckpointSet
  BY DEF ValidationInv, ValidationTypes
<1>2. RunInv(v) /\ RecordsInv
  BY DEF ValidationInv
<1>3. UNCHANGED <<appVars, recordVars, lastPosition>>
  BY DEF StartRun, LatestSourcePosition, EvaluateGraph, ReadHeads, ReadCheckpoint, ReadSubjects
<1>4. CASE StartRun(v)
  <2> DEFINE g == [NothingFound EXCEPT !.snapshot = target]
  <2>1. /\ g \in FoundSet /\ g.snapshot = target /\ g.results = {}
    BY <1>1, NothingFoundType DEF NothingFound, FoundSet, SnapshotOrNone
  <2>2. \A w \in Validator : phase[w] \notin Validating
    BY <1>4 DEF StartRun
  <2>3. phase'[v] = "source" /\ found'[v] = g /\ \A w \in Validator \ {v} : phase'[w] = phase[w]
    BY <1>1, <1>4 DEF StartRun
  <2> HIDE DEF g
  <2>4. RunInv(v)' /\ ReaderInv(v)'
    BY <1>3, <2>1, <2>2, <2>3 DEF RunInv, ReaderInv, appVars, OneEach
  <2> QED BY <1>3, <1>4, <2>1, <2>2, <2>4, OneMoves DEF StartRun, g
<1>5. CASE LatestSourcePosition(v)
  <2> DEFINE g == [f EXCEPT !.source = lastSource]
  <2>1. g \in FoundSet /\ g.snapshot = f.snapshot /\ g.source = lastSource /\ g.results = f.results
    BY <1>1 DEF FoundSet
  <2>2. /\ phase[v] = "source" /\ phase'[v] = "graph" /\ found'[v] = g
        /\ \A w \in Validator \ {v} : phase'[w] = phase[w]
    BY <1>1, <1>5 DEF LatestSourcePosition
  <2> HIDE DEF g
  <2>3. RunInv(v)' /\ ReaderInv(v)'
    BY <1>1, <1>2, <1>3, <2>1, <2>2 DEF RunInv, ReaderInv, RecordsInv, appVars, recordVars, OneEach
  <2> QED BY <1>3, <1>5, <2>1, <2>2, <2>3, OneMoves DEF LatestSourcePosition, g
<1>6. CASE EvaluateGraph(v)
  <2> DEFINE g == [f EXCEPT !.clashes = Clashes]
  <2>1. /\ g \in FoundSet /\ g.snapshot = f.snapshot /\ g.source = f.source /\ g.results = f.results
        /\ g.clashes = Clashes
    BY <1>1 DEF FoundSet, Clashes, Present
  <2>2. /\ phase[v] = "graph" /\ phase'[v] = "heads" /\ found'[v] = g
        /\ \A w \in Validator \ {v} : phase'[w] = phase[w]
    BY <1>1, <1>6 DEF EvaluateGraph
  <2> HIDE DEF g
  <2>3. RunInv(v)' /\ ReaderInv(v)'
    BY <1>2, <1>3, <2>1, <2>2, SameRecords DEF RunInv, ReaderInv, appVars, recordVars, OneEach
  <2> QED BY <1>3, <1>6, <2>1, <2>2, <2>3, OneMoves DEF EvaluateGraph, g
<1>7. CASE ReadHeads(v)
  <2> DEFINE g == [f EXCEPT !.heads = heads]
  <2>1. /\ g \in FoundSet /\ g.snapshot = f.snapshot /\ g.source = f.source /\ g.results = f.results
        /\ g.clashes = f.clashes /\ g.heads = heads
    BY <1>1 DEF FoundSet
  <2>2. /\ phase[v] = "heads" /\ phase'[v] = "checkpoint" /\ found'[v] = g
        /\ \A w \in Validator \ {v} : phase'[w] = phase[w]
    BY <1>1, <1>7 DEF ReadHeads
  <2> HIDE DEF g
  <2>3. RunInv(v)' /\ ReaderInv(v)'
    BY <1>2, <1>3, <2>1, <2>2, SameRecords DEF RunInv, ReaderInv, appVars, recordVars, OneEach
  <2> QED BY <1>3, <1>7, <2>1, <2>2, <2>3, OneMoves DEF ReadHeads, g
<1>8. CASE ReadCheckpoint(v)
  <2> DEFINE g == [f EXCEPT !.checkpoint = checkpoint]
  <2>1. /\ g \in FoundSet /\ g.snapshot = f.snapshot /\ g.source = f.source /\ g.results = f.results
        /\ g.clashes = f.clashes /\ g.heads = f.heads /\ g.checkpoint = checkpoint
    BY <1>1 DEF FoundSet
  <2>2. /\ phase[v] = "checkpoint" /\ phase'[v] = "subjects" /\ found'[v] = g
        /\ \A w \in Validator \ {v} : phase'[w] = phase[w]
    BY <1>1, <1>8 DEF ReadCheckpoint
  <2> HIDE DEF g
  <2>3. RunInv(v)' /\ ReaderInv(v)'
    BY <1>2, <1>3, <2>1, <2>2, SameRecords DEF RunInv, ReaderInv, appVars, recordVars, OneEach
  <2> QED BY <1>3, <1>8, <2>1, <2>2, <2>3, OneMoves DEF ReadCheckpoint, g
<1>9. CASE ReadSubjects(v)
  <2> DEFINE g == [f EXCEPT !.todo = Present]
             next == IF Present = {} THEN "write" ELSE "entity"
  <2>1. /\ g \in FoundSet /\ g.snapshot = f.snapshot /\ g.source = f.source /\ g.results = f.results
        /\ g.clashes = f.clashes /\ g.heads = f.heads /\ g.checkpoint = f.checkpoint
        /\ g.todo = Present
    BY <1>1 DEF FoundSet, Present
  <2>2. /\ phase[v] = "subjects" /\ phase'[v] = next /\ found'[v] = g
        /\ \A w \in Validator \ {v} : phase'[w] = phase[w]
    BY <1>1, <1>9 DEF ReadSubjects
  <2>3. next \in {"write", "entity"} /\ (next = "write" => Present = {})
    OBVIOUS
  <2>4. ResultsNow(f.snapshot, Present \ Present) = {} /\ f.results = {}
    BY <1>2, <2>2 DEF ResultsNow, RunInv
  <2> HIDE DEF g, next
  <2>5. RunInv(v)' /\ ReaderInv(v)'
    BY <1>2, <1>3, <2>1, <2>2, <2>3, <2>4, SameRecords, SMTT(60)
       DEF RunInv, ReaderInv, appVars, recordVars, OneEach
  <2> QED BY <1>3, <1>9, <2>1, <2>2, <2>3, <2>5, OneMoves DEF ReadSubjects, g, next
<1> QED BY <1>4, <1>5, <1>6, <1>7, <1>8, <1>9

LEMMA ReadEntityKeeps ==
  ASSUME ValidationInv, NEW v \in Validator, ReadEntity(v)
  PROVE  ValidationInv'
<1> USE DEF Validating, Asking, GoOn, Find
<1> DEFINE f == found[v]
<1>1. /\ f \in FoundSet /\ phase \in [Validator -> Validating \cup Asking \cup {"idle"}]
      /\ found \in [Validator -> FoundSet] /\ entities \in [Subject -> Value \cup {Absent}]
      /\ RunInv(v)
  BY DEF ValidationInv, ValidationTypes
<1>2. PICK s \in f.todo :
        /\ Find(v, [f EXCEPT !.todo = f.todo \ {s}, !.results = f.results \cup {ResultOf(s, f)}])
        /\ GoOn(v, IF f.todo = {s} THEN "write" ELSE "entity")
  BY DEF ReadEntity
<1> DEFINE g == [f EXCEPT !.todo = f.todo \ {s}, !.results = f.results \cup {ResultOf(s, f)}]
           next == IF f.todo = {s} THEN "write" ELSE "entity"
<1>3. UNCHANGED <<appVars, recordVars, lastPosition>> /\ phase[v] = "entity"
  BY DEF ReadEntity
<1>4. /\ phase'[v] = next /\ found'[v] = g
      /\ \A w \in Validator \ {v} : phase'[w] = phase[w]
  BY <1>1, <1>2
<1>5. s \in Subject /\ f.todo \subseteq Subject /\ f.results \subseteq ResultSet
  BY <1>1 DEF FoundSet
<1>6. ResultOf(s, f) \in ResultSet /\ ResultOf(s, f).subject = s
  BY <1>1, <1>5 DEF ResultOf, ResultSet, FoundSet
<1>7. /\ g \in FoundSet /\ g.snapshot = f.snapshot /\ g.source = f.source
      /\ g.results = f.results \cup {ResultOf(s, f)} /\ g.todo = f.todo \ {s}
      /\ g.clashes = f.clashes /\ g.heads = f.heads /\ g.checkpoint = f.checkpoint
  BY <1>1, <1>5, <1>6 DEF FoundSet
<1>8. next \in {"write", "entity"} /\ (next = "write" => g.todo = {})
  BY <1>7
<1>9. OneEach(g.results) /\ \A r \in g.results : r.subject \notin g.todo
  BY <1>1, <1>3, <1>6, <1>7 DEF RunInv, OneEach
<1>10. ASSUME f.source = lastSource
       PROVE  g.todo \subseteq Present /\ g.results = ResultsNow(g.snapshot, Present \ g.todo)
  <2>1. /\ f.todo \subseteq Present /\ f.results = ResultsNow(f.snapshot, Present \ f.todo)
        /\ f.clashes = Clashes
    BY <1>1, <1>3, <1>10 DEF RunInv
  <2>2. ResultOf(s, f) = [subject |-> s, snapshot |-> f.snapshot, value |-> entities[s],
                          clash |-> s \in Clashes]
    BY <2>1 DEF ResultOf
  <2>3. Present \ g.todo = (Present \ f.todo) \cup {s}
    BY <1>7, <2>1
  <2>4. ResultsNow(f.snapshot, Present \ g.todo)
          = ResultsNow(f.snapshot, Present \ f.todo) \cup {ResultOf(s, f)}
    BY <2>2, <2>3 DEF ResultsNow
  <2> QED BY <1>7, <2>1, <2>4
<1>11. Find(v, g) /\ GoOn(v, next)
  BY <1>2
<1> HIDE DEF g, next
<1>12. RunInv(v)'
  <2>1. /\ target' = target /\ lastSource' = lastSource /\ heads' = heads
        /\ checkpoint' = checkpoint /\ Clashes' = Clashes /\ Present' = Present
    BY <1>3, SameRecords DEF appVars, recordVars
  <2>2. /\ \A w \in Validator : phase[w] \in Validating => w = v
        /\ \A c \in checkpoint : c.source = lastSource => f.snapshot = target
        /\ f.source <= lastSource /\ \A c \in checkpoint : c.source <= f.source
        /\ f.heads = heads /\ f.checkpoint = checkpoint
        /\ f.source = lastSource => f.clashes = Clashes
    BY <1>1, <1>3 DEF RunInv
  <2>3. \A w \in Validator : phase'[w] \in Validating => w = v
    BY <1>4, <2>2
  <2>4. f.source = lastSource =>
          ResultsNow(found[v].snapshot, Present \ found[v].todo)'
            = ResultsNow(g.snapshot, Present \ g.todo)
    BY <1>4, <2>1, <1>3 DEF ResultsNow, appVars
  <2> QED BY <1>4, <1>7, <1>8, <1>9, <1>10, <2>1, <2>2, <2>3, <2>4 DEF RunInv
<1>13. ReaderInv(v)'
  BY <1>4, <1>8 DEF ReaderInv
<1> QED BY <1>3, <1>7, <1>8, <1>11, <1>12, <1>13, OneMoves

\* The reads of currentInvalid.
LEMMA AskKeeps ==
  ASSUME ValidationInv, NEW v \in Validator, AskCheckpoint(v) \/ AskRef(v)
  PROVE  ValidationInv'
<1> USE DEF Validating, Asking, GoOn, Find
<1> DEFINE f == found[v]
<1>1. /\ f \in FoundSet /\ phase \in [Validator -> Validating \cup Asking \cup {"idle"}]
      /\ found \in [Validator -> FoundSet] /\ target \in Snapshot /\ checkpoint \subseteq CheckpointSet
      /\ ReaderInv(v) /\ RecordsInv
  BY DEF ValidationInv, ValidationTypes
<1>2. CASE AskCheckpoint(v)
  <2> DEFINE g == [NothingFound EXCEPT !.checkpoint = checkpoint]
  <2>1. g \in FoundSet /\ g.checkpoint = checkpoint
    BY <1>1, NothingFoundType DEF FoundSet, NothingFound
  <2>2. phase'[v] = "askRef" /\ found'[v] = g /\ UNCHANGED <<appVars, recordVars, lastPosition>>
    BY <1>1, <1>2 DEF AskCheckpoint
  <2>3. Find(v, g) /\ GoOn(v, "askRef")
    BY <1>2 DEF AskCheckpoint
  <2> HIDE DEF g
  <2>4. RunInv(v)' /\ ReaderInv(v)'
    BY <1>1, <2>1, <2>2 DEF RunInv, ReaderInv, RecordsInv, appVars, recordVars
  <2> QED BY <2>1, <2>2, <2>3, <2>4, OneMoves
<1>3. CASE AskRef(v)
  <2> DEFINE g == [f EXCEPT !.snapshot = target]
  <2>1. g \in FoundSet /\ g.checkpoint = f.checkpoint /\ g.snapshot = target
    BY <1>1 DEF FoundSet, SnapshotOrNone
  <2>2. /\ phase[v] = "askRef" /\ phase'[v] = "askHeads" /\ found'[v] = g
        /\ UNCHANGED <<appVars, recordVars, lastPosition>>
    BY <1>1, <1>3 DEF AskRef
  <2>3. Find(v, g) /\ GoOn(v, "askHeads")
    BY <1>3 DEF AskRef
  <2> HIDE DEF g
  <2>4. RunInv(v)' /\ ReaderInv(v)'
    BY <1>1, <2>1, <2>2 DEF RunInv, ReaderInv, appVars, recordVars
  <2> QED BY <2>1, <2>2, <2>3, <2>4, OneMoves
<1> QED BY <1>2, <1>3

\* The heads of the results of a run that is of now are the invalid entities of now.
LEMMA InvalidHeads ==
  ASSUME ValidationInv, NEW d \in checkpoint, d.source = lastSource, d.snapshot = target
  PROVE  {h.subject : h \in {g \in heads : ~ IsValid(g.result)}} = Invalid(target)
<1>1. {h.result : h \in heads} = ResultsNow(target, Present)
  BY DEF ValidationInv, RecordsInv, HeadsAreOneRun
<1>2. \A h \in heads : h.result.subject = h.subject
  BY DEF ValidationInv, RecordsInv, OfItsSubject
<1>3. {h.subject : h \in {g \in heads : ~ IsValid(g.result)}}
        = {r.subject : r \in {x \in ResultsNow(target, Present) : ~ IsValid(x)}}
  BY <1>1, <1>2
<1>4. {r.subject : r \in {x \in ResultsNow(target, Present) : ~ IsValid(x)}} = Invalid(target)
  <2> DEFINE R(s) == [subject |-> s, snapshot |-> target, value |-> entities[s],
                      clash |-> s \in Clashes]
  <2>1. ResultsNow(target, Present) = {R(s) : s \in Present}
    BY DEF ResultsNow
  <2>2. \A s \in Present : R(s).subject = s
    OBVIOUS
  <2>3. Invalid(target) = {s \in Present : ~ IsValid(R(s))}
    BY DEF IsValid, Invalid, Clashes
  <2> HIDE DEF R
  <2>4. {x \in ResultsNow(target, Present) : ~ IsValid(x)} = {R(s) : s \in Invalid(target)}
    BY <2>1, <2>3
  <2>5. {r.subject : r \in {R(s) : s \in Invalid(target)}} = {R(s).subject : s \in Invalid(target)}
    OBVIOUS
  <2>6. {R(s).subject : s \in Invalid(target)} = Invalid(target)
    BY <2>2, <2>3
  <2> QED BY <2>4, <2>5, <2>6
<1> QED BY <1>3, <1>4

LEMMA AskHeadsKeeps ==
  ASSUME ValidationInv, NEW v \in Validator, AskHeads(v)
  PROVE  ValidationInv'
<1> USE DEF Validating, Asking, GoOn, Find
<1> DEFINE f == found[v]
           i == {h.subject : h \in {g \in heads : ~ IsValid(g.result)}}
           g == [f EXCEPT !.invalid = i]
<1>1. /\ f \in FoundSet /\ phase \in [Validator -> Validating \cup Asking \cup {"idle"}]
      /\ found \in [Validator -> FoundSet] /\ heads \subseteq HeadSet
      /\ ReaderInv(v)
  BY DEF ValidationInv, ValidationTypes
<1>2. i \subseteq Subject
  BY <1>1 DEF HeadSet
<1>3. \A d \in checkpoint : d.source = lastSource /\ d.snapshot = target => i = Invalid(target)
  BY InvalidHeads
<1>4. /\ phase[v] = "askHeads" /\ phase'[v] = "askPosition" /\ found'[v] = g
      /\ UNCHANGED <<appVars, recordVars, lastPosition>> /\ Find(v, g) /\ GoOn(v, "askPosition")
  BY <1>1 DEF AskHeads
<1> HIDE DEF i
<1>5. g \in FoundSet /\ g.checkpoint = f.checkpoint /\ g.snapshot = f.snapshot /\ g.invalid = i
  BY <1>1, <1>2 DEF FoundSet
<1> HIDE DEF g
<1>6. RunInv(v)'
  BY <1>4 DEF RunInv
<1>7. ReaderInv(v)'
  <2>1. target' = target /\ checkpoint' = checkpoint /\ lastSource' = lastSource
        /\ Invalid(target)' = Invalid(target)
    BY <1>4, SameRecords DEF appVars, recordVars
  <2>2. ASSUME NEW c \in f.checkpoint, c.source = lastSource, c.snapshot = f.snapshot
        PROVE  i = Invalid(target)
    BY <1>1, <1>3, <1>4, <2>2 DEF ReaderInv
  <2> QED BY <1>1, <1>4, <1>5, <2>1, <2>2 DEF ReaderInv
<1> QED BY <1>4, <1>5, <1>6, <1>7, OneMoves
-----------------------------------------------------------------------------
\* The application commits: whatever was read before is of an earlier position.

LEMMA AppKeeps ==
  ASSUME ValidationInv, AppCommit, entities' \in [Subject -> Value \cup {Absent}],
         target' \in Snapshot
  PROVE  ValidationInv'
<1>1. /\ lastPosition \in Nat /\ lastSource \in Nat /\ lastSource <= lastPosition
      /\ lastPosition' = lastPosition + 1 /\ lastSource' = lastPosition + 1
      /\ UNCHANGED <<heads, checkpoint, phase, found>>
      /\ checkpoint \subseteq CheckpointSet /\ found \in [Validator -> FoundSet]
  BY DEF ValidationInv, ValidationTypes, AppCommit, recordVars
<1>2. ValidationTypes'
  BY <1>1 DEF ValidationInv, ValidationTypes
<1>3. \A c \in checkpoint : c.source \in Nat /\ c.source <= lastSource
  BY <1>1 DEF ValidationInv, RecordsInv, CheckpointSet
<1>4. \A c \in checkpoint : c.source # lastSource' /\ c.source <= lastSource'
  BY <1>1, <1>3
<1>5. RecordsInv'
  BY <1>1, <1>4 DEF ValidationInv, RecordsInv, HeadsAreOneRun
<1>6. ASSUME NEW v \in Validator PROVE RunInv(v)'
  <2>1. found[v].source \in Nat /\ RunInv(v)
    BY <1>1 DEF FoundSet, ValidationInv
  <2>2. phase[v] \in Validating /\ phase[v] # "source" =>
          found[v].source # lastSource' /\ found[v].source <= lastSource'
    BY <1>1, <2>1 DEF RunInv
  <2> QED BY <1>1, <1>4, <2>1, <2>2 DEF RunInv, Validating
<1>7. ASSUME NEW v \in Validator PROVE ReaderInv(v)'
  <2>1. \A c \in found[v].checkpoint : c.source \in Nat
    BY <1>1 DEF FoundSet, CheckpointSet
  <2>2. ReaderInv(v)
    BY DEF ValidationInv
  <2>3. phase[v] \in Asking =>
          \A c \in found[v].checkpoint : c.source # lastSource' /\ c.source <= lastSource'
    BY <1>1, <2>1, <2>2 DEF ReaderInv
  <2> QED BY <1>1, <2>2, <2>3 DEF ReaderInv
<1> QED BY <1>2, <1>5, <1>6, <1>7 DEF ValidationInv
-----------------------------------------------------------------------------
\* The transaction of a run: the heads it leaves and those it moves are its results.

LEMMA RecordedHeads ==
  ASSUME NEW f \in FoundSet, OneEach(f.heads), \A h \in f.heads : OfItsSubject(h),
         OneEach(f.results), NEW p
  PROVE  LET hs == (f.heads \ Retired(f))
                     \cup {[subject |-> r.subject, result |-> r, at |-> p] : r \in Moves(f)}
         IN  /\ OneEach(hs) /\ \A h \in hs : OfItsSubject(h)
             /\ {h.result : h \in hs} = f.results
<1> DEFINE new == {[subject |-> r.subject, result |-> r, at |-> p] : r \in Moves(f)}
           hs == (f.heads \ Retired(f)) \cup new
<1>1. ASSUME NEW h \in f.heads \ Retired(f)
      PROVE  /\ h.result \in f.results
             /\ \A r \in Moves(f) : h.subject # r.subject
  <2>1. \A r \in Moves(f) : h.subject # r.subject
    BY <1>1 DEF Retired
  <2>2. PICK r \in f.results : h.subject = r.subject
    BY <1>1 DEF Retired
  <2>3. r \notin Moves(f)
    BY <2>1, <2>2
  <2>4. PICK k \in f.heads : k.subject = r.subject /\ k.result = r
    BY <2>3 DEF Moves, OldHeads
  <2>5. k = h
    BY <2>2, <2>4 DEF OneEach
  <2> QED BY <2>1, <2>4, <2>5
<1>2. \A h \in new : \E r \in Moves(f) : h.subject = r.subject /\ h.result = r
                                         /\ h = [subject |-> r.subject, result |-> r, at |-> p]
  OBVIOUS
<1>3. Moves(f) \subseteq f.results
  BY DEF Moves
<1>4. \A h \in hs : OfItsSubject(h)
  BY <1>2 DEF OfItsSubject
<1>5. OneEach(hs)
  <2>1. ASSUME NEW x \in new, NEW y \in new, x.subject = y.subject PROVE x = y
    BY <1>2, <1>3, <2>1 DEF OneEach
  <2>2. ASSUME NEW x \in f.heads \ Retired(f), NEW y \in new PROVE x.subject # y.subject
    BY <1>1, <1>2
  <2>3. ASSUME NEW x \in f.heads, NEW y \in f.heads, x.subject = y.subject PROVE x = y
    BY <2>3 DEF OneEach
  <2> HIDE DEF new
  <2> QED BY <2>1, <2>2, <2>3 DEF OneEach
<1>6. {h.result : h \in hs} \subseteq f.results
  BY <1>1, <1>2, <1>3
<1>7. ASSUME NEW r \in f.results PROVE \E h \in hs : h.result = r
  <2>1. CASE r \in Moves(f)
    <3>1. [subject |-> r.subject, result |-> r, at |-> p] \in hs
      BY <2>1
    <3> QED BY <3>1
  <2>2. CASE r \notin Moves(f)
    <3>1. PICK h \in f.heads : h.subject = r.subject /\ h.result = r
      BY <2>2 DEF Moves, OldHeads
    <3>2. h \notin Retired(f)
      BY <2>2, <3>1 DEF Retired, OneEach, Moves
    <3> QED BY <3>1, <3>2
  <2> QED BY <2>1, <2>2
<1> QED BY <1>4, <1>5, <1>6, <1>7

LEMMA RecordKeeps ==
  ASSUME ValidationInv, NEW v \in Validator, Record(v)
  PROVE  ValidationInv'
<1> USE DEF Validating, Asking
<1> DEFINE f == found[v]
           p == lastPosition + 1
           new == [run |-> RunOf(f), snapshot |-> f.snapshot, source |-> f.source, at |-> p]
<1>1. /\ f \in FoundSet /\ lastPosition \in Nat /\ lastSource \in 0 .. lastPosition
      /\ phase \in [Validator -> Validating \cup Asking \cup {"idle"}]
      /\ found \in [Validator -> FoundSet] /\ checkpoint \subseteq CheckpointSet
      /\ heads \subseteq HeadSet
      /\ RunInv(v) /\ RecordsInv
  BY DEF ValidationInv, ValidationTypes
<1>2. /\ phase[v] = "write" /\ lastPosition' = p /\ UNCHANGED appVars
      /\ heads' = (heads \ Retired(f))
                    \cup {[subject |-> r.subject, result |-> r, at |-> p] : r \in Moves(f)}
      /\ CheckpointIsCurrent(f) => checkpoint' = checkpoint
      /\ ~CheckpointIsCurrent(f) => checkpoint' = (checkpoint \ f.checkpoint) \cup {new}
      /\ Done(v)
  BY DEF Record
<1>3. /\ \A w \in Validator : phase[w] \in Validating => w = v
      /\ \A c \in checkpoint : c.source = lastSource => f.snapshot = target
      /\ f.source <= lastSource /\ \A c \in checkpoint : c.source <= f.source
      /\ f.heads = heads /\ f.checkpoint = checkpoint
      /\ OneEach(f.results)
      /\ f.source = lastSource => f.results = ResultsNow(f.snapshot, Present)
  <2>1. f.todo = {} /\ Present \ {} = Present
    BY <1>1, <1>2 DEF RunInv
  <2> QED BY <1>1, <1>2, <2>1 DEF RunInv
<1>4. /\ Clashes' = Clashes /\ Present' = Present /\ target' = target /\ lastSource' = lastSource
      /\ \A x, y : ResultsNow(x, y)' = ResultsNow(x, y)
      /\ Invalid(target)' = Invalid(target)
  BY <1>2 DEF appVars, Clashes, Present, ResultsNow, Invalid
\* The one checkpoint there is then.
<1>5. PICK c : /\ checkpoint' = {c} /\ c \in CheckpointSet
               /\ c.run = RunOf(f) /\ c.snapshot = f.snapshot /\ c.source = f.source
  <2>1. CASE CheckpointIsCurrent(f)
    <3>1. PICK c \in checkpoint : c.run = RunOf(f)
      BY <1>3, <2>1 DEF CheckpointIsCurrent
    <3>2. checkpoint = {c}
      BY <1>1, <3>1 DEF RecordsInv
    <3> QED BY <1>1, <1>2, <1>3, <2>1, <3>1, <3>2 DEF CheckpointIsCurrent
  <2>2. CASE ~CheckpointIsCurrent(f)
    <3>1. new \in CheckpointSet
      BY <1>1 DEF CheckpointSet, ValidationRun, RunOf, FoundSet
    <3> QED BY <1>2, <1>3, <2>2, <3>1
  <2> QED BY <2>1, <2>2
<1>6. RunOf(f).snapshot = f.snapshot /\ RunOf(f).source = f.source /\ RunOf(f).results = f.results
  BY DEF RunOf
<1>7. /\ OneEach(heads)' /\ \A h \in heads' : OfItsSubject(h)
      /\ {h.result : h \in heads'} = f.results
  <2>1. OneEach(f.heads) /\ (\A h \in f.heads : OfItsSubject(h)) /\ heads = f.heads
    BY <1>1, <1>3 DEF RecordsInv
  <2>2. LET hs == (f.heads \ Retired(f))
                    \cup {[subject |-> r.subject, result |-> r, at |-> p] : r \in Moves(f)}
        IN  /\ OneEach(hs) /\ \A h \in hs : OfItsSubject(h)
            /\ {h.result : h \in hs} = f.results
    <3> HIDE DEF f, p
    <3> QED BY <1>1, <1>3, <2>1, RecordedHeads
  <2> HIDE DEF f
  <2>3. OneEach(heads') /\ (\A h \in heads' : OfItsSubject(h)) /\ {h.result : h \in heads'} = f.results
    BY <1>2, <2>1, <2>2
  <2> QED BY <2>3 DEF OneEach
<1>8. RecordsInv'
  <2>1. c.source = lastSource => c.run.results = ResultsNow(c.snapshot, Present)
    BY <1>3, <1>5, <1>6
  <2>2. ResultsNow(c.snapshot, Present)' = ResultsNow(c.snapshot, Present)
    BY <1>4
  <2> QED BY <1>3, <1>4, <1>5, <1>6, <1>7, <2>1, <2>2 DEF RecordsInv, HeadsAreOneRun, OfItsSubject
<1>9. ValidationTypes'
  <2>1. heads' \subseteq HeadSet
    <3>1. Moves(f) \subseteq ResultSet
      BY <1>1 DEF Moves, FoundSet
    <3>2. \A r \in Moves(f) : [subject |-> r.subject, result |-> r, at |-> p] \in HeadSet
      BY <1>1, <3>1 DEF HeadSet, ResultSet
    <3> QED BY <1>1, <1>2, <3>2
  <2>2. checkpoint' \subseteq CheckpointSet
    BY <1>5
  <2>3. lastPosition' \in Nat /\ lastSource' \in 0 .. lastPosition'
    BY <1>1, <1>2, <1>4
  <2>4. phase' \in [Validator -> Validating \cup Asking \cup {"idle"}] /\ found' \in [Validator -> FoundSet]
    BY <1>1, <1>2, NothingFoundType DEF Done, GoOn, Find
  <2> QED BY <1>2, <2>1, <2>2, <2>3, <2>4 DEF ValidationInv, ValidationTypes, appVars
<1>10. ASSUME NEW w \in Validator PROVE RunInv(w)' /\ ReaderInv(w)'
  <2>1. phase'[w] = (IF w = v THEN "idle" ELSE phase[w]) /\ (w # v => found'[w] = found[w])
    BY <1>1, <1>2 DEF Done, GoOn, Find
  <2>2. RunInv(w)'
    BY <1>3, <2>1 DEF RunInv
  <2>3. ASSUME w # v, phase[w] \in Asking PROVE ReaderInv(w)'
    <3>1. /\ phase'[w] = phase[w] /\ found'[w] = found[w] /\ ReaderInv(w)
      BY <2>1, <2>3 DEF ValidationInv
    <3>2. ASSUME NEW a \in found[w].checkpoint, a.source = lastSource
          PROVE  c.source = lastSource /\ (a.snapshot = target => c.snapshot = target)
      <4>1. PICK d \in checkpoint : d.source = lastSource
        BY <2>3, <3>1, <3>2 DEF ReaderInv
      <4>2. f.source \in Nat /\ lastSource \in Nat
        BY <1>1 DEF FoundSet
      <4> QED BY <1>3, <1>5, <4>1, <4>2
    <3> QED BY <1>4, <1>5, <2>3, <3>1, <3>2 DEF ReaderInv
  <2>4. ASSUME w = v \/ phase[w] \notin Asking PROVE ReaderInv(w)'
    <3>1. phase'[w] \notin Asking
      BY <2>1, <2>4
    <3> QED BY <3>1 DEF ReaderInv
  <2> QED BY <2>2, <2>3, <2>4
<1> QED BY <1>8, <1>9, <1>10 DEF ValidationInv
-----------------------------------------------------------------------------
LEMMA ValidationInvInit == ValidationInit => ValidationInv
<1> SUFFICES ASSUME ValidationInit PROVE ValidationInv
  OBVIOUS
<1>1. ValidationTypes
  BY NothingFoundType DEF ValidationInit, ValidationTypes
<1>2. RecordsInv
  BY DEF ValidationInit, RecordsInv, HeadsAreOneRun, OneEach
<1>3. \A v \in Validator : RunInv(v) /\ ReaderInv(v)
  BY DEF ValidationInit, RunInv, ReaderInv, Validating, Asking
<1> QED BY <1>1, <1>2, <1>3 DEF ValidationInv

LEMMA ValidationInvStep ==
  ASSUME OneAtATime, ValidationInv, [ValidationNext]_validationVars
  PROVE  ValidationInv'
<1>1. CASE UNCHANGED validationVars
  <2>1. UNCHANGED <<appVars, recordVars>>
    BY <1>1 DEF validationVars
  <2>2. ASSUME NEW v \in Validator PROVE RunInv(v)' /\ ReaderInv(v)'
    <3>1. RunInv(v) /\ ReaderInv(v) /\ UNCHANGED <<phase, found, target, checkpoint, heads, lastSource>>
      BY <1>1 DEF ValidationInv, validationVars, appVars, recordVars
    <3>2. RunInv(v)'
      BY <2>1, <3>1, SameRecords DEF RunInv
    <3>3. ReaderInv(v)'
      BY <2>1, <3>1, SameRecords DEF ReaderInv
    <3> QED BY <3>2, <3>3
  <2> QED BY <1>1, <2>1, <2>2, SameRecords
          DEF ValidationInv, ValidationTypes, validationVars, appVars, recordVars
<1>2. ASSUME NEW s \in Subject, WriteEntity(s) PROVE ValidationInv'
  BY <1>2, AppKeeps DEF WriteEntity, ValidationInv, ValidationTypes
<1>3. CASE MoveTarget
  BY <1>3, AppKeeps DEF MoveTarget, ValidationInv, ValidationTypes
<1>4. ASSUME NEW v \in Validator, RecordNothing(v) \/ ReportAnswer(v) PROVE ValidationInv'
  BY <1>4, RestKeeps DEF RecordNothing, ReportAnswer
<1>5. ASSUME NEW v \in Validator, ValidatorStep(v) PROVE ValidationInv'
  BY <1>4, <1>5, RunReadsKeep, ReadEntityKeeps, RecordKeeps, AskKeeps, AskHeadsKeeps DEF ValidatorStep
<1> QED BY <1>1, <1>2, <1>3, <1>5 DEF ValidationNext

LEMMA ValidationInductive == ASSUME OneAtATime PROVE ValidationSpec => []ValidationInv
BY ValidationInvInit, ValidationInvStep, PTL DEF ValidationSpec

\* Where no run begins while another is under way, the heads of the entities are
\* the results of one run, the one the checkpoint names, for any entities, types,
\* snapshots and validators.
THEOREM HeadsAreOfOneRun == ASSUME OneAtATime PROVE ValidationSpec => []HeadsAreOneRun
<1>1. ValidationInv => HeadsAreOneRun
  BY DEF ValidationInv, RecordsInv
<1> QED BY <1>1, ValidationInductive, PTL

\* A report that says it is current names all the invalid entities of that moment
\* and no other, though entities, ref, heads and checkpoint are read one after the
\* other, by the run and by the reader, and others commit at any point between.
THEOREM CurrentReportsAreOfNow == ASSUME OneAtATime PROVE ValidationSpec => []CurrentReportsAreExact
<1>1. ValidationInv => CurrentReportsAreExact
  <2> SUFFICES ASSUME ValidationInv, NEW v \in Validator, SaysCurrent(v)
               PROVE  found[v].invalid = Invalid(target)
    BY DEF CurrentReportsAreExact
  <2>1. PICK c, d \in found[v].checkpoint :
          phase[v] = "askPosition" /\ c.snapshot = found[v].snapshot /\ d.source = lastSource
    BY DEF SaysCurrent, IsCurrent
  <2> QED BY <2>1 DEF ValidationInv, ReaderInv, Asking
<1> QED BY <1>1, ValidationInductive, PTL

-----------------------------------------------------------------------------
(* Snapshots. *)

FactSet == [entity : Entity, born : Nat, died : Nat]
Ops == {"none", "assertBatch", "retract", "retractByPattern", "transact"}
RequestSet == [op : Ops, asserts : SUBSET Entity, retracts : SUBSET (Entity \X Nat),
               pattern : SUBSET Entity, named : BOOLEAN]
JobSet == [request : RequestSet, seen : SUBSET (Entity \X Nat), own : Nat, tx : Nat,
           time : Nat, todo : SUBSET Entity]
ReadSet == [entity : Entity, content : SUBSET Nat]

TypeOK ==
  /\ facts \subseteq FactSet
  /\ instants \in Seq(Nat) /\ clock \in Nat
  /\ states \in Seq([Entity -> SUBSET Nat])
  /\ place \in [Writer -> {"idle", "commit", "meta", "materialize", "row", "stamp"}]
  /\ job \in [Writer -> JobSet]
  /\ read \in [Writer -> ReadSet \cup {NoRead}]
  /\ backfills \in Nat

\* Facts are of the positions so far, of which there are as many as may be.
FactsBounded ==
  /\ Position <= MaxPosition /\ Len(states) = Position
  /\ \A f \in facts : f.born \in 1..Position /\ f.died \in 0..Position

\* The content of an entity at a position, as a set of facts has it.
StateIn(F, e, p) ==
  {f.born : f \in {x \in F : x.entity = e /\ x.born <= p /\ (x.died = 0 \/ x.died > p)}}

\* No retraction changes what the facts say of an earlier position.
StatesAreFacts ==
  \A p \in 1..Position : \A e \in Entity : states[p][e] = StateIn(facts, e, p)

\* A row under way: its transaction is a committed one, or a backfill's and never
\* becomes one; what has been read is the content at that transaction.
JobInv(w) ==
  /\ place[w] = "stamp" => backfills > 0
  /\ place[w] \in {"materialize", "row"} => job[w].tx \in 1..Position \/ job[w].tx > MaxPosition
  /\ place[w] = "row" =>
       /\ read[w] \in ReadSet
       /\ job[w].tx \in 1..Position => read[w].content = states[job[w].tx][read[w].entity]

RowsBounded == \A r \in rows : r.entity \in Entity /\ r.position \in 0..Position

\* The inductive invariant.
SnapInv ==
  /\ TypeOK /\ FactsBounded /\ StatesAreFacts
  /\ \A w \in Writer : JobInv(w)
  /\ RowsBounded /\ RowsAreExact

-----------------------------------------------------------------------------
LEMMA RequestTyped ==
  ASSUME NEW op \in Ops, NEW asserts \in SUBSET Entity,
         NEW retracts \in SUBSET (Entity \X Nat), NEW pattern \in SUBSET Entity,
         NEW named \in BOOLEAN
  PROVE  Request(op, asserts, retracts, pattern, named) \in RequestSet
BY DEF Request, RequestSet

LEMMA NothingTyped == NoRequest \in RequestSet /\ NoJob \in JobSet
<1>1. NoRequest \in RequestSet
      BY RequestTyped DEF NoRequest, Ops
<1> QED
    BY <1>1 DEF NoJob, Job, JobSet

LEMMA JobTyped ==
  ASSUME NEW q \in RequestSet, NEW seen \in SUBSET (Entity \X Nat), NEW own \in Nat,
         NEW tx \in Nat, NEW time \in Nat, NEW todo \in SUBSET Entity
  PROVE  /\ Job(q, seen, own, tx, time, todo) \in JobSet
         /\ Job(q, seen, own, tx, time, todo).tx = tx
BY DEF Job, JobSet

LEMMA Initially == ASSUME SnapInit PROVE SnapInv
<1> USE SnapshotAssumption DEF SnapInit
<1>1. NoJob \in JobSet
      BY NothingTyped
<1>2. TypeOK
      BY <1>1 DEF TypeOK
<1>3. Position = 0 /\ Len(states) = 0
      BY DEF Position
<1>4. FactsBounded
      BY <1>3 DEF FactsBounded
<1>5. StatesAreFacts /\ RowsBounded /\ RowsAreExact
      BY <1>3 DEF StatesAreFacts, RowsBounded, RowsAreExact
<1>6. \A w \in Writer : JobInv(w)
      BY DEF JobInv
<1> QED
    BY <1>2, <1>4, <1>5, <1>6 DEF SnapInv

\* Requests are typed when what they name is.
LEMMA RequestsTyped == ASSUME TypeOK PROVE WriteRequests \subseteq RequestSet
<1>1. Ids \subseteq Entity \X Nat
      BY DEF Ids, Id, TypeOK, FactSet
<1>2. ASSUME NEW q \in WriteRequests PROVE q \in RequestSet
  <2>1. /\ \A S \in Together : S \subseteq Entity
        /\ \A i \in Ids : {i} \subseteq Entity \X Nat
        /\ \A p \in Patterns : p.entities \subseteq Entity /\ p.named \in BOOLEAN
        BY <1>1, SnapshotAssumption
  <2>2. CASE \E S \in Together : q = Request("assertBatch", S, {}, {}, TRUE)
        BY <2>1, <2>2, RequestTyped DEF Ops
  <2>3. CASE \E i \in Ids : q = Request("retract", {}, {i}, {}, TRUE)
        BY <2>1, <2>3, RequestTyped DEF Ops
  <2>4. CASE \E p \in Patterns : q = Request("retractByPattern", {}, {}, p.entities, TRUE)
        BY <2>1, <2>4, RequestTyped DEF Ops
  <2>5. CASE \E S \in {{}} \cup Together, i \in Ids : q = Request("transact", S, {i}, {}, TRUE)
        BY <2>1, <2>5, RequestTyped DEF Ops
  <2>6. CASE \E p \in Patterns : q = Request("transact", {}, {}, p.entities, p.named)
        BY <2>1, <2>6, RequestTyped DEF Ops
  <2> DEFINE A == {Request("assertBatch", S, {}, {}, TRUE) : S \in Together}
             B == {Request("retract", {}, {i}, {}, TRUE) : i \in Ids}
             C == {Request("retractByPattern", {}, {}, p.entities, TRUE) : p \in Patterns}
             D == {Request("transact", S, {i}, {}, TRUE) : S \in {{}} \cup Together, i \in Ids}
             E == {Request("transact", {}, {}, p.entities, p.named) : p \in Patterns}
  <2>7. q \in A \/ q \in B \/ q \in C \/ q \in D \/ q \in E
        BY DEF WriteRequests, Request
  <2> QED
      BY <2>2, <2>3, <2>4, <2>5, <2>6, <2>7 DEF Request
<1> QED
    BY <1>2

LEMMA TouchedTyped ==
  ASSUME NEW q \in RequestSet, NEW seen \in SUBSET (Entity \X Nat)
  PROVE  Touched(q, seen) \subseteq Entity /\ EntitiesOf(seen) \subseteq Entity
BY DEF Touched, EntitiesOf, RequestSet

LEMMA SeenTyped ==
  ASSUME TypeOK, NEW q \in RequestSet
  PROVE  Seen(q) \in SUBSET (Entity \X Nat)
BY DEF Seen, Id, LiveFacts, TypeOK, FactSet, RequestSet
-----------------------------------------------------------------------------
\* What a commit at position p does to the facts F: those of G are retracted,
\* and every entity of A has one more.
Committed(F, G, A, p) ==
  (F \ G) \cup {[f EXCEPT !.died = p] : f \in G}
    \cup {[entity |-> e, born |-> p, died |-> 0] : e \in A}

LEMMA CommittedTyped ==
  ASSUME NEW F \in SUBSET FactSet, NEW G \in SUBSET F, NEW A \in SUBSET Entity,
         NEW p \in Nat \ {0},
         \A f \in F : f.born \in 1..(p - 1) /\ f.died \in 0..(p - 1)
  PROVE  /\ Committed(F, G, A, p) \subseteq FactSet
         /\ \A f \in Committed(F, G, A, p) : f.born \in 1..p /\ f.died \in 0..p
<1> SUFFICES ASSUME NEW f \in Committed(F, G, A, p)
             PROVE  f \in FactSet /\ f.born \in 1..p /\ f.died \in 0..p
    OBVIOUS
<1>1. CASE f \in F \ G
      BY <1>1
<1>2. CASE \E g \in G : f = [g EXCEPT !.died = p]
  <2>1. PICK g \in G : f = [g EXCEPT !.died = p]
        BY <1>2
  <2>2. g \in FactSet /\ g.born \in 1..(p - 1)
        OBVIOUS
  <2>3. f.born = g.born /\ f.died = p /\ f \in FactSet
        BY <2>1, <2>2 DEF FactSet
  <2> QED
      BY <2>2, <2>3
<1>3. CASE \E e \in A : f = [entity |-> e, born |-> p, died |-> 0]
      BY <1>3 DEF FactSet
<1> QED
    BY <1>1, <1>2, <1>3 DEF Committed

\* The earlier positions keep their content,
LEMMA CommitKeepsThePast ==
  ASSUME NEW F \in SUBSET FactSet, NEW G \in SUBSET F, NEW A \in SUBSET Entity,
         NEW p \in Nat \ {0}, \A f \in G : f.died = 0,
         NEW e, NEW r \in Nat, r < p
  PROVE  StateIn(Committed(F, G, A, p), e, r) = StateIn(F, e, r)
<1>1. ASSUME NEW b \in StateIn(Committed(F, G, A, p), e, r) PROVE b \in StateIn(F, e, r)
  <2>1. PICK x \in Committed(F, G, A, p) :
          b = x.born /\ x.entity = e /\ x.born <= r /\ (x.died = 0 \/ x.died > r)
        BY <1>1 DEF StateIn
  <2>2. CASE x \in F \ G
        BY <2>1, <2>2 DEF StateIn
  <2>3. CASE \E g \in G : x = [g EXCEPT !.died = p]
    <3>1. PICK g \in G : x = [g EXCEPT !.died = p]
          BY <2>3
    <3>2. g \in F /\ g \in FactSet /\ g.died = 0
          OBVIOUS
    <3>3. g.born = x.born /\ g.entity = x.entity
          BY <3>1, <3>2 DEF FactSet
    <3> QED
        BY <2>1, <3>2, <3>3 DEF StateIn
  <2>4. CASE \E a \in A : x = [entity |-> a, born |-> p, died |-> 0]
        BY <2>1, <2>4
  <2> QED
      BY <2>2, <2>3, <2>4 DEF Committed
<1>2. ASSUME NEW b \in StateIn(F, e, r) PROVE b \in StateIn(Committed(F, G, A, p), e, r)
  <2>1. PICK x \in F :
          b = x.born /\ x.entity = e /\ x.born <= r /\ (x.died = 0 \/ x.died > r)
        BY <1>2 DEF StateIn
  <2>2. CASE x \notin G
        BY <2>1, <2>2 DEF StateIn, Committed
  <2>3. CASE x \in G
    <3> DEFINE y == [x EXCEPT !.died = p]
    <3>1. y \in Committed(F, G, A, p)
          BY <2>3 DEF Committed
    <3>2. y.born = x.born /\ y.entity = x.entity /\ y.died = p
          BY DEF FactSet
    <3> HIDE DEF y
    <3> QED
        BY <2>1, <3>1, <3>2 DEF StateIn
  <2> QED
      BY <2>2, <2>3
<1> QED
    BY <1>1, <1>2

\* and the new one has what the commit leaves alive and what it asserts.
LEMMA CommitMakesTheNext ==
  ASSUME NEW F \in SUBSET FactSet, NEW G \in SUBSET F, NEW A \in SUBSET Entity,
         NEW p \in Nat \ {0},
         \A f \in F : f.born \in 1..(p - 1) /\ f.died \in 0..(p - 1),
         NEW K, K = {f \in F : f.died = 0} \ G, NEW e
  PROVE  StateIn(Committed(F, G, A, p), e, p) =
           {f.born : f \in {x \in K : x.entity = e}} \cup (IF e \in A THEN {p} ELSE {})
<1> DEFINE C == {f.born : f \in {x \in K : x.entity = e}} \cup (IF e \in A THEN {p} ELSE {})
<1>1. ASSUME NEW b \in StateIn(Committed(F, G, A, p), e, p) PROVE b \in C
  <2>1. PICK x \in Committed(F, G, A, p) :
          b = x.born /\ x.entity = e /\ x.born <= p /\ (x.died = 0 \/ x.died > p)
        BY <1>1 DEF StateIn
  <2>2. CASE x \in F \ G
    <3>1. x.died = 0
          BY <2>1, <2>2
    <3> QED
        BY <2>1, <2>2, <3>1
  <2>3. CASE \E g \in G : x = [g EXCEPT !.died = p]
    <3>1. PICK g \in G : x = [g EXCEPT !.died = p]
          BY <2>3
    <3>2. x.died = p
          BY <3>1 DEF FactSet
    <3> QED
        BY <2>1, <3>2
  <2>4. CASE \E a \in A : x = [entity |-> a, born |-> p, died |-> 0]
        BY <2>1, <2>4
  <2> QED
      BY <2>2, <2>3, <2>4 DEF Committed
<1>2. ASSUME NEW b \in C PROVE b \in StateIn(Committed(F, G, A, p), e, p)
  <2>1. CASE \E f \in K : f.entity = e /\ b = f.born
    <3>1. PICK f \in K : f.entity = e /\ b = f.born
          BY <2>1
    <3>2. f \in Committed(F, G, A, p) /\ f.died = 0 /\ f.born <= p
          BY DEF Committed
    <3> QED
        BY <3>1, <3>2 DEF StateIn
  <2>2. CASE e \in A /\ b = p
    <3> DEFINE y == [entity |-> e, born |-> p, died |-> 0]
    <3>1. y \in Committed(F, G, A, p)
          BY <2>2 DEF Committed
    <3>2. y.entity = e /\ y.born = p /\ y.died = 0
          OBVIOUS
    <3> HIDE DEF y
    <3> QED
        BY <2>2, <3>1, <3>2 DEF StateIn
  <2> QED
      BY <1>2, <2>1, <2>2
<1> QED
    BY <1>1, <1>2
-----------------------------------------------------------------------------
\* The invariant of the writers that do not move.
LEMMA OthersKeepJobInv ==
  ASSUME FactsBounded, NEW v \in Writer, JobInv(v),
         place'[v] = place[v], job'[v] = job[v], read'[v] = read[v],
         backfills' \in Nat, backfills \in Nat, backfills' >= backfills,
         Position \in Nat, Position' \in Nat, MaxPosition \in Nat,
         Position <= Position', Position' <= MaxPosition, job[v] \in JobSet,
         \A p \in 1..Position : states'[p] = states[p]
  PROVE  JobInv(v)'
<1>1. job[v].tx \in Nat
      BY DEF JobSet
<1>2. ASSUME job[v].tx \in 1..Position', place[v] \in {"materialize", "row"}
      PROVE  job[v].tx \in 1..Position /\ states'[job[v].tx] = states[job[v].tx]
      BY <1>1, <1>2 DEF JobInv
<1>3. place'[v] = "stamp" => backfills' > 0
      BY DEF JobInv
<1>4. place'[v] \in {"materialize", "row"} =>
        job'[v].tx \in 1..Position' \/ job'[v].tx > MaxPosition
      BY <1>1 DEF JobInv
<1>5. place'[v] = "row" =>
        /\ read'[v] \in ReadSet
        /\ job'[v].tx \in 1..Position' =>
             read'[v].content = states'[job'[v].tx][read'[v].entity]
      BY <1>2 DEF JobInv
<1> QED
    BY <1>3, <1>4, <1>5 DEF JobInv

\* A commit and the facts.
LEMMA CommitOnFacts ==
  ASSUME TypeOK, FactsBounded, StatesAreFacts,
         NEW w \in Writer, NEW q \in RequestSet, NEW seen \in SUBSET (Entity \X Nat),
         Commit(w, q, seen)
  PROVE  /\ facts' \subseteq FactSet /\ instants' \in Seq(Nat) /\ clock' \in Nat
         /\ states' \in Seq([Entity -> SUBSET Nat])
         /\ Position' = Position + 1 /\ Position \in Nat
         /\ \A p \in 1..Position : states'[p] = states[p]
         /\ FactsBounded' /\ StatesAreFacts'
<1> DEFINE p == Position + 1
           kept == LiveFacts \ Gone(q)
           new == [e \in Entity |->
             {f.born : f \in {x \in kept : x.entity = e}}
               \cup (IF e \in q.asserts THEN {p} ELSE {})]
<1>1. /\ p <= MaxPosition
      /\ facts' = (facts \ Gone(q))
           \cup {[f EXCEPT !.died = p] : f \in Gone(q)}
           \cup {[entity |-> e, born |-> p, died |-> 0] : e \in q.asserts}
      /\ clock' \in Now
      /\ instants' = Append(instants, clock')
      /\ states' = Append(states, new)
      BY DEF Commit
<1>2. Position \in Nat /\ Len(states) = Position
      BY DEF TypeOK, Position, FactsBounded
<1>3. clock' \in Nat
      BY <1>1, SnapshotAssumption DEF Now
<1>4. instants' \in Seq(Nat) /\ Position' = p
      BY <1>1, <1>2, <1>3 DEF TypeOK, Position
<1>5. Gone(q) \in SUBSET facts /\ q.asserts \in SUBSET Entity /\ p \in Nat \ {0}
      BY <1>2 DEF Gone, LiveFacts, RequestSet
<1>6. /\ facts \in SUBSET FactSet
      /\ \A f \in facts : f.born \in 1..(p - 1) /\ f.died \in 0..(p - 1)
      /\ \A f \in Gone(q) : f.died = 0
      BY <1>2 DEF TypeOK, FactsBounded, Gone, LiveFacts
<1>7. facts' = Committed(facts, Gone(q), q.asserts, p)
      BY <1>1 DEF Committed
<1>8. facts' \subseteq FactSet /\ \A f \in facts' : f.born \in 1..p /\ f.died \in 0..p
      BY <1>5, <1>6, <1>7, CommittedTyped
<1>9. new \in [Entity -> SUBSET Nat]
  <2>1. \A f \in kept : f.born \in Nat
        BY DEF LiveFacts, TypeOK, FactSet
  <2> QED
      BY <1>5, <2>1
<1> HIDE DEF new
<1>10. /\ states' \in Seq([Entity -> SUBSET Nat]) /\ Len(states') = p
       /\ states'[p] = new
       /\ \A r \in 1..Position : states'[r] = states[r]
      BY <1>1, <1>2, <1>9 DEF TypeOK
<1>11. FactsBounded'
  <2>1. Position' <= MaxPosition /\ Len(states)' = Position'
        BY <1>1, <1>4, <1>10
  <2>2. \A f \in facts' : f.born \in 1..Position' /\ f.died \in 0..Position'
        BY <1>4, <1>8
  <2> QED
      BY <2>1, <2>2 DEF FactsBounded
<1>12. ASSUME NEW r \in 1..Position', NEW e \in Entity
       PROVE  states'[r][e] = StateIn(facts', e, r)
  <2>1. CASE r < p
    <3>1. r \in 1..Position /\ r \in Nat
          BY <1>2, <1>4, <1>12, <2>1
    <3>2. StateIn(facts', e, r) = StateIn(facts, e, r)
          BY <1>5, <1>6, <1>7, <2>1, <3>1, CommitKeepsThePast
    <3> QED
        BY <1>10, <3>1, <3>2 DEF StatesAreFacts
  <2>2. CASE r = p
    <3>1. kept = {f \in facts : f.died = 0} \ Gone(q)
          BY DEF LiveFacts
    <3> HIDE DEF kept
    <3>2. StateIn(facts', e, p) =
            {f.born : f \in {x \in kept : x.entity = e}} \cup (IF e \in q.asserts THEN {p} ELSE {})
          BY <1>5, <1>6, <1>7, <3>1, CommitMakesTheNext
    <3> QED
        BY <1>10, <2>2, <3>2 DEF new
  <2> QED
      BY <1>2, <1>4, <2>1, <2>2
<1>13. StatesAreFacts'
       BY <1>12 DEF StatesAreFacts
<1> QED
    BY <1>2, <1>3, <1>4, <1>8, <1>10, <1>11, <1>13

\* A commit and the writer's job.
LEMMA CommitOnJob ==
  ASSUME TypeOK, NEW w \in Writer, NEW q \in RequestSet,
         NEW seen \in SUBSET (Entity \X Nat), Commit(w, q, seen),
         Position \in Nat, Position' = Position + 1, clock' \in Nat
  PROVE  /\ place' \in [Writer -> {"idle", "commit", "meta", "materialize", "row", "stamp"}]
         /\ job' \in [Writer -> JobSet]
         /\ place'[w] \in {"idle", "meta", "materialize"}
         /\ place'[w] = "materialize" => job'[w].tx = Position + 1
         /\ \A v \in Writer : v # w => place'[v] = place[v] /\ job'[v] = job[v]
<1> DEFINE next == AfterCommit(q, seen)
           own == IF KnowsAll(q) THEN Position + 1 ELSE 0
           new == CASE next = "meta" -> Job(NoRequest, seen, own, 0, 0, {})
                    [] next = "materialize" ->
                         Job(NoRequest, {}, own, Position + 1, clock', Touched(q, seen))
                    [] OTHER -> NoJob
<1>1. place' = [place EXCEPT ![w] = next] /\ job' = [job EXCEPT ![w] = new]
      BY DEF Commit, Enter
<1>2. next \in {"idle", "meta", "materialize"}
      BY DEF AfterCommit
<1>3. /\ own \in Nat /\ NoRequest \in RequestSet /\ NoJob \in JobSet
      /\ Touched(q, seen) \in SUBSET Entity
      BY NothingTyped, TouchedTyped
<1> HIDE DEF next, own
<1>4. new \in JobSet /\ (next = "materialize" => new.tx = Position + 1)
  <2>1. CASE next = "meta"
        BY <1>3, <2>1, JobTyped
  <2>2. CASE next = "materialize"
        BY <1>3, <2>2, JobTyped
  <2>3. CASE next = "idle"
        BY <1>3, <2>3
  <2> QED
      BY <1>2, <2>1, <2>2, <2>3
<1> HIDE DEF new
<1> QED
    BY <1>1, <1>2, <1>4 DEF TypeOK

LEMMA CommitPreserves ==
  ASSUME SnapInv, NEW w \in Writer, NEW q \in RequestSet,
         NEW seen \in SUBSET (Entity \X Nat), Commit(w, q, seen)
  PROVE  SnapInv'
<1>1. /\ TypeOK /\ FactsBounded /\ StatesAreFacts /\ RowsBounded /\ RowsAreExact
      /\ \A v \in Writer : JobInv(v)
      BY DEF SnapInv
<1>2. /\ facts' \subseteq FactSet /\ instants' \in Seq(Nat) /\ clock' \in Nat
      /\ states' \in Seq([Entity -> SUBSET Nat])
      /\ Position' = Position + 1 /\ Position \in Nat
      /\ \A p \in 1..Position : states'[p] = states[p]
      /\ FactsBounded' /\ StatesAreFacts'
      BY <1>1, CommitOnFacts
<1>3. /\ place' \in [Writer -> {"idle", "commit", "meta", "materialize", "row", "stamp"}]
      /\ job' \in [Writer -> JobSet]
      /\ place'[w] \in {"idle", "meta", "materialize"}
      /\ place'[w] = "materialize" => job'[w].tx = Position + 1
      /\ \A v \in Writer : v # w => place'[v] = place[v] /\ job'[v] = job[v]
      BY <1>1, <1>2, CommitOnJob
<1>4. rows' = rows /\ read' = read /\ backfills' = backfills
      BY DEF Commit
<1>5. TypeOK'
      BY <1>1, <1>2, <1>3, <1>4 DEF TypeOK
<1>6. ASSUME NEW v \in Writer PROVE JobInv(v)'
  <2>1. CASE v = w
        BY <1>2, <1>3, <2>1 DEF JobInv
  <2>2. CASE v # w
    <3>1. Position' <= MaxPosition /\ MaxPosition \in Nat
          BY <1>2, SnapshotAssumption DEF FactsBounded
    <3>2. job[v] \in JobSet /\ backfills \in Nat
          BY <1>1 DEF TypeOK
    <3>3. place'[v] = place[v] /\ job'[v] = job[v] /\ read'[v] = read[v]
          BY <1>3, <1>4, <2>2
    <3>4. Position' \in Nat /\ Position <= Position' /\ backfills' \in Nat /\ backfills' >= backfills
          BY <1>2, <1>4, <3>2
    <3> QED
        BY <1>1, <1>2, <3>1, <3>2, <3>3, <3>4, OthersKeepJobInv
  <2> QED
      BY <2>1, <2>2
<1>7. RowsBounded'
      BY <1>1, <1>2, <1>4 DEF RowsBounded
<1>8. RowsAreExact'
  <2>1. ASSUME NEW r \in rows, r.position # 0
        PROVE  StateAt(r.entity, r.position)' = StateAt(r.entity, r.position)
    <3>1. r.position \in 1..Position
          BY <1>1, <1>2, <2>1 DEF RowsBounded
    <3> QED
        BY <1>2, <3>1 DEF StateAt
  <2> QED
      BY <1>1, <1>4, <2>1 DEF RowsAreExact
<1> QED
    BY <1>2, <1>5, <1>6, <1>7, <1>8 DEF SnapInv
-----------------------------------------------------------------------------
\* The steps that commit nothing: it is enough to look at the writer that moves.
LEMMA StoreStays ==
  ASSUME SnapInv, TypeOK', NEW w \in Writer, JobInv(w)',
         \A v \in Writer : v # w =>
           place'[v] = place[v] /\ job'[v] = job[v] /\ read'[v] = read[v],
         facts' = facts, instants' = instants, states' = states, backfills' >= backfills,
         RowsBounded', RowsAreExact'
  PROVE  SnapInv'
<1>1. /\ TypeOK /\ FactsBounded /\ StatesAreFacts /\ \A v \in Writer : JobInv(v)
      BY DEF SnapInv
<1>2. Position' = Position /\ Position \in Nat /\ Position <= MaxPosition
      BY <1>1 DEF TypeOK, FactsBounded, Position
<1>3. FactsBounded' /\ StatesAreFacts'
      BY <1>1, <1>2 DEF FactsBounded, StatesAreFacts
<1>4. ASSUME NEW v \in Writer, v # w PROVE JobInv(v)'
  <2>1. place'[v] = place[v] /\ job'[v] = job[v] /\ read'[v] = read[v] /\ job[v] \in JobSet
        BY <1>1, <1>4 DEF TypeOK
  <2>2. backfills \in Nat /\ backfills' \in Nat /\ MaxPosition \in Nat
        BY <1>1, SnapshotAssumption DEF TypeOK
  <2> QED
      BY <1>1, <1>2, <2>1, <2>2, OthersKeepJobInv
<1> QED
    BY <1>3, <1>4 DEF SnapInv

\* A step that writes no row leaves the rows exact.
LEMMA RowsStay ==
  ASSUME SnapInv, rows' = rows, instants' = instants, states' = states
  PROVE  RowsBounded' /\ RowsAreExact'
BY DEF SnapInv, RowsBounded, RowsAreExact, StateAt, Position

\* What a writer has at the start of a step.
LEMMA WriterTyped ==
  ASSUME SnapInv, NEW w \in Writer
  PROVE  /\ job[w] \in JobSet /\ read[w] \in ReadSet \cup {NoRead}
         /\ backfills \in Nat /\ clock \in Nat /\ Position \in Nat
         /\ JobInv(w)
BY DEF SnapInv, TypeOK, Position

LEMMA PrepareStep == ASSUME SnapInv, NEW w \in Writer, Prepare(w) PROVE SnapInv'
<1>1. PICK q \in WriteRequests : job' = [job EXCEPT ![w] = Job(q, Seen(q), 0, 0, 0, {})]
      BY DEF Prepare
<1>2. q \in RequestSet /\ Seen(q) \in SUBSET (Entity \X Nat)
      BY RequestsTyped, SeenTyped DEF SnapInv
<1>3. Job(q, Seen(q), 0, 0, 0, {}) \in JobSet
      BY <1>2, JobTyped
<1>4. /\ facts' = facts /\ instants' = instants /\ states' = states /\ clock' = clock
      /\ rows' = rows /\ read' = read /\ backfills' = backfills
      /\ place' = [place EXCEPT ![w] = "commit"]
      BY DEF Prepare, log, Enter
<1>5. RowsBounded' /\ RowsAreExact'
      BY <1>4, RowsStay
<1>6. TypeOK'
      BY <1>1, <1>3, <1>4 DEF SnapInv, TypeOK
<1>7. JobInv(w)'
      BY <1>1, <1>3, <1>4 DEF SnapInv, TypeOK, JobInv, Position
<1> QED
    BY <1>6, <1>7, <1>1, <1>4, <1>5, StoreStays DEF SnapInv, TypeOK

LEMMA MetaStep == ASSUME SnapInv, NEW w \in Writer, Meta(w) PROVE SnapInv'
<1>1. PICK f \in facts :
        /\ f.died # 0
        /\ job' = [job EXCEPT ![w] = Job(NoRequest, {}, job[w].own, f.died, instants[f.died],
                                         EntitiesOf(job[w].seen))]
      BY DEF Meta
<1> DEFINE j == Job(NoRequest, {}, job[w].own, f.died, instants[f.died], EntitiesOf(job[w].seen))
<1>2. f.died \in 1..Position /\ f.died \in Nat /\ instants[f.died] \in Nat
  <2>1. f.died \in 0..Position /\ Position \in Nat /\ instants \in Seq(Nat)
        BY WriterTyped DEF SnapInv, TypeOK, FactsBounded
  <2>2. f.died \in 1..Len(instants)
        BY <1>1, <2>1 DEF Position
  <2> QED
      BY <2>1, <2>2 DEF Position
<1>3. /\ job[w].seen \in SUBSET (Entity \X Nat) /\ job[w].own \in Nat
      /\ EntitiesOf(job[w].seen) \in SUBSET Entity
      BY WriterTyped, TouchedTyped, NothingTyped DEF JobSet
<1>4. j \in JobSet /\ j.tx = f.died
      BY <1>2, <1>3, NothingTyped, JobTyped
<1>5. /\ facts' = facts /\ instants' = instants /\ states' = states /\ clock' = clock
      /\ rows' = rows /\ read' = read /\ backfills' = backfills
      /\ place' = [place EXCEPT ![w] = "materialize"]
      BY DEF Meta, log, Enter
<1>6. RowsBounded' /\ RowsAreExact'
      BY <1>5, RowsStay
<1>7. job' = [job EXCEPT ![w] = j]
      BY <1>1
<1> HIDE DEF j
<1>8. TypeOK'
      BY <1>2, <1>4, <1>5, <1>7 DEF SnapInv, TypeOK
<1>9. JobInv(w)'
      BY <1>2, <1>4, <1>5, <1>7 DEF SnapInv, TypeOK, JobInv, Position
<1> QED
    BY <1>8, <1>9, <1>5, <1>7, <1>6, StoreStays DEF SnapInv, TypeOK

\* What materialize reads is what the facts have at a committed transaction.
LEMMA ContentIsState ==
  ASSUME NEW e, NEW tx \in 1..Position, NEW t, Position \in Nat
  PROVE  Content(e, tx, t) = StateIn(facts, e, tx)
<1>1. PositionOf(tx) # 0
      BY DEF PositionOf
<1> QED
    BY <1>1 DEF Content, StateIn

LEMMA ContentTyped ==
  ASSUME TypeOK, NEW e, NEW tx, NEW t
  PROVE  Content(e, tx, t) \in SUBSET Nat
<1>1. \A f \in facts : f.born \in Nat
      BY DEF TypeOK, FactSet
<1> QED
    BY <1>1 DEF Content, Recorded

LEMMA ReadHistoryStep == ASSUME SnapInv, NEW w \in Writer, ReadHistory(w) PROVE SnapInv'
<1>1. PICK e \in job[w].todo :
        read' = [read EXCEPT ![w] =
                   [entity |-> e, content |-> Content(e, job[w].tx, job[w].time)]]
      BY DEF ReadHistory
<1> DEFINE h == [entity |-> e, content |-> Content(e, job[w].tx, job[w].time)]
<1>2. h \in ReadSet
  <2>1. e \in Entity
        BY WriterTyped DEF JobSet
  <2>2. Content(e, job[w].tx, job[w].time) \in SUBSET Nat
        BY ContentTyped DEF SnapInv
  <2> QED
      BY <2>1, <2>2 DEF ReadSet
<1>3. job[w].tx \in 1..Position \/ job[w].tx > MaxPosition
      BY WriterTyped DEF ReadHistory, JobInv
<1>4. ASSUME job[w].tx \in 1..Position PROVE h.content = states[job[w].tx][h.entity]
  <2>1. e \in Entity
        BY WriterTyped DEF JobSet
  <2>2. Content(e, job[w].tx, job[w].time) = StateIn(facts, e, job[w].tx)
        BY <1>4, WriterTyped, ContentIsState
  <2>3. states[job[w].tx][e] = StateIn(facts, e, job[w].tx)
        BY <1>4, <2>1 DEF SnapInv, StatesAreFacts
  <2> QED
      BY <2>2, <2>3
<1>5. /\ facts' = facts /\ instants' = instants /\ states' = states /\ clock' = clock
      /\ rows' = rows /\ job' = job /\ backfills' = backfills
      /\ place' = [place EXCEPT ![w] = "row"]
      BY DEF ReadHistory, log, Enter
<1>6. RowsBounded' /\ RowsAreExact'
      BY <1>5, RowsStay
<1>7. read' = [read EXCEPT ![w] = h]
      BY <1>1
<1> HIDE DEF h
<1>8. TypeOK'
      BY <1>2, <1>3, <1>4, <1>5, <1>7 DEF SnapInv, TypeOK
<1>9. JobInv(w)'
      BY <1>2, <1>3, <1>4, <1>5, <1>7 DEF SnapInv, TypeOK, JobInv, Position
<1> QED
    BY <1>8, <1>9, <1>5, <1>7, <1>6, StoreStays DEF SnapInv, TypeOK

LEMMA WriteRowStep == ASSUME SnapInv, NEW w \in Writer, WriteRow(w) PROVE SnapInv'
<1> DEFINE e == read[w].entity
           last == job[w].todo = {e}
           j == IF last THEN NoJob
                ELSE Job(NoRequest, {}, job[w].own, job[w].tx, job[w].time, job[w].todo \ {e})
           s == IF last THEN "idle" ELSE "materialize"
<1>1. /\ place[w] = "row"
      /\ rows' = {r \in rows : r.entity # e \/ r.tx # job[w].tx} \cup {RowOf(w)}
      /\ job' = [job EXCEPT ![w] = j]
      /\ read' = [read EXCEPT ![w] = NoRead]
      /\ place' = [place EXCEPT ![w] = s]
      /\ facts' = facts /\ instants' = instants /\ states' = states /\ clock' = clock
      /\ backfills' = backfills
      BY DEF WriteRow, Enter, log
<1>2. /\ job[w].tx \in 1..Position \/ job[w].tx > MaxPosition
      /\ read[w] \in ReadSet
      /\ job[w].tx \in 1..Position => read[w].content = states[job[w].tx][read[w].entity]
      BY <1>1, WriterTyped DEF JobInv
<1>3. j \in JobSet /\ (~ last => j.tx = job[w].tx)
  <2>1. job[w].own \in Nat /\ job[w].tx \in Nat /\ job[w].time \in Nat
        /\ job[w].todo \ {e} \in SUBSET Entity
        BY WriterTyped DEF JobSet
  <2> QED
      BY <2>1, NothingTyped, JobTyped
<1>4. RowOf(w).entity \in Entity /\ RowOf(w).position \in 0..Position
      BY <1>2, WriterTyped DEF RowOf, PositionOf, ReadSet
<1>5. ASSUME RowOf(w).position # 0
      PROVE  RowOf(w).content = StateAt(RowOf(w).entity, RowOf(w).position)
  <2>1. job[w].tx \in 1..Position /\ RowOf(w).position = job[w].tx
        BY <1>5 DEF RowOf, PositionOf
  <2> QED
      BY <1>2, <1>5, <2>1 DEF RowOf, StateAt
<1>6. RowsBounded'
      BY <1>1, <1>4 DEF SnapInv, RowsBounded, Position
<1>7. RowsAreExact'
      BY <1>1, <1>5 DEF SnapInv, RowsAreExact, StateAt
<1> HIDE DEF j
<1>8. s \in {"idle", "materialize"} /\ (s = "materialize" => ~ last)
      OBVIOUS
<1> HIDE DEF s, last
<1>9. TypeOK'
      BY <1>1, <1>2, <1>3, <1>8 DEF SnapInv, TypeOK
<1>10. JobInv(w)'
      BY <1>1, <1>2, <1>3, <1>8 DEF SnapInv, TypeOK, JobInv, Position
<1> QED
    BY <1>9, <1>10, <1>1, <1>8, <1>6, <1>7, StoreStays DEF SnapInv, TypeOK

LEMMA StopStep == ASSUME SnapInv, NEW w \in Writer, Stop(w) PROVE SnapInv'
<1>1. /\ facts' = facts /\ instants' = instants /\ states' = states /\ clock' = clock
      /\ rows' = rows /\ backfills' = backfills
      /\ place' = [place EXCEPT ![w] = "idle"]
      /\ job' = [job EXCEPT ![w] = NoJob] /\ read' = [read EXCEPT ![w] = NoRead]
      BY DEF Stop, log, Enter
<1>2. RowsBounded' /\ RowsAreExact'
      BY <1>1, RowsStay
<1>3. TypeOK'
      BY <1>1, NothingTyped DEF SnapInv, TypeOK
<1>4. JobInv(w)'
      BY <1>1, NothingTyped DEF SnapInv, TypeOK, JobInv, Position
<1> QED
    BY <1>3, <1>4, <1>1, <1>2, StoreStays DEF SnapInv, TypeOK

LEMMA FindMissingStep == ASSUME SnapInv, NEW w \in Writer, FindMissing(w) PROVE SnapInv'
<1> DEFINE j == Job(NoRequest, {}, 0, 0, 0, Missing)
<1>1. /\ facts' = facts /\ instants' = instants /\ states' = states /\ clock' = clock
      /\ rows' = rows /\ read' = read /\ backfills' = backfills + 1
      /\ place' = [place EXCEPT ![w] = "stamp"] /\ job' = [job EXCEPT ![w] = j]
      BY DEF FindMissing, log, Enter
<1>2. Missing \in SUBSET Entity
      BY DEF Missing
<1>3. j \in JobSet
      BY <1>2, NothingTyped, JobTyped
<1>4. RowsBounded' /\ RowsAreExact'
      BY <1>1, RowsStay
<1> HIDE DEF j
<1>5. backfills' \in Nat /\ backfills' >= backfills /\ backfills' > 0
  <2>1. backfills \in Nat
        BY WriterTyped
  <2> QED
      BY <1>1, <2>1
<1>6. TypeOK'
      BY <1>1, <1>3, <1>5 DEF SnapInv, TypeOK
<1>7. JobInv(w)'
      BY <1>1, <1>3, <1>5 DEF SnapInv, TypeOK, JobInv, Position
<1> QED
    BY <1>6, <1>7, <1>1, <1>5, <1>4, StoreStays DEF SnapInv, TypeOK

LEMMA StampStep == ASSUME SnapInv, NEW w \in Writer, Stamp(w) PROVE SnapInv'
<1> DEFINE j == Job(NoRequest, {}, 0, MaxPosition + backfills, clock', job[w].todo)
<1>1. /\ place[w] = "stamp" /\ clock' \in Now
      /\ facts' = facts /\ instants' = instants /\ states' = states
      /\ rows' = rows /\ read' = read /\ backfills' = backfills
      /\ place' = [place EXCEPT ![w] = "materialize"] /\ job' = [job EXCEPT ![w] = j]
      BY DEF Stamp, Enter
<1>2. clock' \in Nat
      BY <1>1, WriterTyped, SnapshotAssumption DEF Now
<1>3. backfills > 0 /\ MaxPosition + backfills \in Nat /\ MaxPosition + backfills > MaxPosition
  <2>1. backfills \in Nat /\ JobInv(w) /\ MaxPosition \in Nat
        BY WriterTyped, SnapshotAssumption
  <2>2. backfills > 0
        BY <1>1, <2>1 DEF JobInv
  <2> QED
      BY <2>1, <2>2
<1>4. job[w].todo \in SUBSET Entity
      BY WriterTyped DEF JobSet
<1>5. j \in JobSet /\ j.tx = MaxPosition + backfills
      BY <1>2, <1>3, <1>4, NothingTyped, JobTyped
<1>6. RowsBounded' /\ RowsAreExact'
      BY <1>1, RowsStay
<1> HIDE DEF j
<1>7. TypeOK'
      BY <1>1, <1>2, <1>3, <1>5 DEF SnapInv, TypeOK
<1>8. JobInv(w)'
      BY <1>1, <1>2, <1>3, <1>5 DEF SnapInv, TypeOK, JobInv, Position
<1> QED
    BY <1>7, <1>8, <1>1, <1>6, StoreStays DEF SnapInv, TypeOK

LEMMA Preserved == ASSUME SnapInv, [SnapNext]_snapVars PROVE SnapInv'
<1>1. CASE UNCHANGED snapVars
      BY <1>1 DEF snapVars, log, SnapInv, TypeOK, FactsBounded, StatesAreFacts, StateIn, JobInv,
                  RowsBounded, RowsAreExact, StateAt, Position
<1>2. ASSUME NEW w \in Writer, WriterStep(w) PROVE SnapInv'
  <2>1. CASE Write(w)
    <3>1. PICK q \in WriteRequests : Commit(w, q, {})
          BY <2>1 DEF Write
    <3>2. q \in RequestSet /\ {} \in SUBSET (Entity \X Nat)
          BY RequestsTyped DEF SnapInv
    <3> QED
        BY <3>1, <3>2, CommitPreserves
  <2>2. CASE WriteAfterReads(w)
    <3>1. job[w].request \in RequestSet /\ job[w].seen \in SUBSET (Entity \X Nat)
          BY WriterTyped DEF JobSet
    <3> QED
        BY <2>2, <3>1, CommitPreserves DEF WriteAfterReads
  <2> QED
      BY <1>2, <2>1, <2>2, PrepareStep, MetaStep, ReadHistoryStep, WriteRowStep, StopStep,
         FindMissingStep, StampStep DEF WriterStep
<1> QED
    BY <1>1, <1>2 DEF SnapNext

\* For any entities, writers, patterns, batches and bounds, and whatever fails,
\* stops, races or is backfilled, every row that has a position holds the content
\* its entity had when that position was committed.
THEOREM RowsExact == SnapSpec => []RowsAreExact
<1>1. SnapInit => SnapInv
      BY Initially
<1>2. SnapInv /\ [SnapNext]_snapVars => SnapInv'
      BY Preserved
<1>3. SnapInv => RowsAreExact
      BY DEF SnapInv
<1> QED
    BY <1>1, <1>2, <1>3, PTL DEF SnapSpec
-----------------------------------------------------------------------------
(* The rows of the writes that have returned, and what readers find by them. *)

\* The instants of the positions never run backwards, nor ahead of the clock.
InstantsInOrder ==
  /\ \A p \in 1..Position : instants[p] <= clock
  /\ \A p, q \in 1..Position : p <= q => instants[p] <= instants[q]

FactsUnique == \A f, g \in facts : Id(f) = Id(g) => f = g

\* A row is of a committed transaction, and then at its position and instant, or
\* of a backfill; a transaction has one row of an entity.
RowsTied ==
  /\ \A r \in rows :
       \/ r.tx \in 1..Position /\ r.position = r.tx /\ r.time = instants[r.tx]
       \/ r.tx > MaxPosition /\ r.position = 0
  /\ \A r, s \in rows : r.entity = s.entity /\ r.tx = s.tx => r = s

\* What a request says of the entities its commit will touch.
Known(q, seen) ==
  /\ q.op \in {"assertBatch", "retract", "retractByPattern", "transact"}
  /\ q.op # "retractByPattern" => seen = q.retracts
  /\ q.op \in {"assertBatch", "retract"} => q.pattern = {}
  /\ q.op = "retract" => q.asserts = {} /\ \E i \in q.retracts : q.retracts = {i}

\* A write that knows what it has changed (own) has every entity still to do, or
\* its row is there.  Before it has resolved its transaction, the one fact it has
\* seen is the one that its own commit retracted.
WorkInv(w) ==
  LET j == job[w] IN
  /\ place[w] = "commit" => Known(j.request, j.seen)
  /\ place[w] = "meta" /\ j.own # 0 =>
       \E f \in facts : /\ j.seen = {Id(f)} /\ f.died = j.own
                        /\ \A e \in Entity : j.own \in Changes(e) => e = f.entity
  /\ place[w] = "stamp" => j.own = 0
  /\ place[w] \in {"materialize", "row"} =>
       /\ j.tx \in 1..Position => j.time = instants[j.tx]
       /\ j.own # 0 =>
            /\ j.own = j.tx /\ j.own \in 1..Position
            /\ \A e \in Entity : j.own \in Changes(e) => e \in j.todo \/ HasRow(e, j.own)
  /\ place[w] = "row" => read[w].entity \in j.todo

WritesInv ==
  /\ InstantsInOrder /\ FactsUnique /\ RowsTied
  /\ \A w \in Writer : WorkInv(w)
  /\ returned \subseteq 1..Position /\ ReturnedWritesHaveRows

\* The last state is the live facts.
LEMMA LiveIsLast ==
  ASSUME SnapInv, NEW e \in Entity
  PROVE  StateAt(e, Position) = LiveOf(e) /\ StateIn(facts, e, Position) = LiveOf(e)
<1>1. Position \in Nat /\ \A f \in facts : f.born \in 1..Position /\ f.died \in 0..Position
  BY DEF SnapInv, TypeOK, FactsBounded, Position
<1>2. StateIn(facts, e, Position) = LiveOf(e)
  BY <1>1 DEF StateIn, LiveOf, LiveFacts
<1>3. Position # 0 => states[Position][e] = StateIn(facts, e, Position)
  BY <1>1 DEF SnapInv, StatesAreFacts
<1>4. Position = 0 => facts = {}
  BY <1>1
<1>5. Position = 0 => LiveOf(e) = {}
  BY <1>4 DEF LiveOf, LiveFacts
<1> QED BY <1>2, <1>3, <1>5 DEF StateAt

\* What an entity's changes were stays so.
LEMMA ChangesKept ==
  ASSUME Position \in Nat, Position' \in Nat, Position <= Position',
         \A p \in 1..Position : states'[p] = states[p],
         NEW e, NEW p \in 1..Position
  PROVE  p \in Changes(e)' <=> p \in Changes(e)
<1>1. StateAt(e, p)' = StateAt(e, p) /\ StateAt(e, p - 1)' = StateAt(e, p - 1)
  BY DEF StateAt
<1> QED BY <1>1 DEF Changes

\* A commit changes the entities it asserts facts of and those whose facts it retracts.
LEMMA CommitChanges ==
  ASSUME SnapInv, NEW w \in Writer, NEW q \in RequestSet, NEW seen \in SUBSET (Entity \X Nat),
         Commit(w, q, seen), NEW e \in Entity, e \notin q.asserts,
         \A f \in Gone(q) : f.entity # e
  PROVE  Position + 1 \notin Changes(e)'
<1>1. /\ Position \in Nat /\ Len(states) = Position /\ Position' = Position + 1
      /\ states \in Seq([Entity -> SUBSET Nat])
      /\ \A r \in 1..Position : states'[r] = states[r]
  BY CommitOnFacts DEF SnapInv, TypeOK, FactsBounded
<1> SUFFICES ASSUME NEW n \in Nat, n = Position PROVE n + 1 \notin Changes(e)'
  BY <1>1
<1>2. states'[n + 1] = [a \in Entity |->
        {f.born : f \in {x \in LiveFacts \ Gone(q) : x.entity = a}}
          \cup (IF a \in q.asserts THEN {n + 1} ELSE {})]
  BY <1>1 DEF Commit
<1>3. {x \in LiveFacts \ Gone(q) : x.entity = e} = {x \in LiveFacts : x.entity = e}
  OBVIOUS
<1>4. states'[n + 1][e] = LiveOf(e)
  BY <1>2, <1>3 DEF LiveOf
<1>5. StateAt(e, n + 1)' = LiveOf(e)
  BY <1>1, <1>4 DEF StateAt
<1>6. StateAt(e, n)' = StateAt(e, n)
  BY <1>1 DEF StateAt
<1>7. StateAt(e, n) = LiveOf(e) /\ n + 1 - 1 = n
  BY LiveIsLast
<1>8. StateAt(e, n + 1)' = StateAt(e, n + 1 - 1)'
  BY <1>5, <1>6, <1>7
<1> QED BY <1>8 DEF Changes
-----------------------------------------------------------------------------
LEMMA WritesInvInit == ASSUME SnapInit PROVE WritesInv
<1>1. Position = 0
  BY DEF SnapInit, Position
<1>2. InstantsInOrder /\ FactsUnique /\ RowsTied
  BY <1>1 DEF SnapInit, InstantsInOrder, FactsUnique, RowsTied
<1>3. \A w \in Writer : WorkInv(w)
  BY DEF SnapInit, WorkInv
<1> QED BY <1>2, <1>3 DEF WritesInv, ReturnedWritesHaveRows, SnapInit

\* The writers that do not move.
LEMMA WorkKept ==
  ASSUME SnapInv, NEW v \in Writer, WorkInv(v),
         place'[v] = place[v], job'[v] = job[v], read'[v] = read[v],
         Position' \in Nat, Position <= Position', Position' <= MaxPosition,
         \A p \in 1..Position : states'[p] = states[p] /\ instants'[p] = instants[p],
         \A f \in facts : f.died # 0 => f \in facts',
         \A e, p : HasRow(e, p) => HasRow(e, p)'
  PROVE  WorkInv(v)'
<1> DEFINE j == job[v]
<1>1. /\ j \in JobSet /\ j.tx \in Nat /\ j.own \in Nat /\ Position \in Nat /\ MaxPosition \in Nat
      /\ JobInv(v) /\ \A f \in facts : f.died \in 0..Position
  BY SnapshotAssumption DEF SnapInv, TypeOK, FactsBounded, JobSet, Position
<1>2. ASSUME NEW e \in Entity, NEW p \in 1..Position PROVE p \in Changes(e)' <=> p \in Changes(e)
  BY <1>1, ChangesKept
<1>3. ASSUME place[v] = "meta", j.own # 0
      PROVE  \E f \in facts' : /\ j.seen = {Id(f)} /\ f.died = j.own
                               /\ \A e \in Entity : j.own \in Changes(e)' => e = f.entity
  <2>1. PICK f \in facts : /\ j.seen = {Id(f)} /\ f.died = j.own
                           /\ \A e \in Entity : j.own \in Changes(e) => e = f.entity
    BY <1>3 DEF WorkInv
  <2>2. f \in facts' /\ j.own \in 1..Position
    BY <1>1, <1>3, <2>1
  <2> QED BY <1>2, <2>1, <2>2
<1>4. ASSUME place[v] \in {"materialize", "row"}, j.tx \in 1..Position'
      PROVE  j.tx \in 1..Position /\ j.time = instants'[j.tx]
  <2>1. j.tx \in 1..Position
    BY <1>1, <1>4 DEF JobInv
  <2> QED BY <1>4, <2>1 DEF WorkInv
<1>5. ASSUME place[v] \in {"materialize", "row"}, j.own # 0
      PROVE  /\ j.own = j.tx /\ j.own \in 1..Position'
             /\ \A e \in Entity : j.own \in Changes(e)' => e \in j.todo \/ HasRow(e, j.own)'
  BY <1>1, <1>2, <1>5 DEF WorkInv
<1> QED BY <1>3, <1>4, <1>5 DEF WorkInv

\* The step of a writer that commits nothing.
LEMMA WritesStay ==
  ASSUME SnapInv, SnapInv', WritesInv, NEW w \in Writer, WorkInv(w)',
         \A v \in Writer : v # w =>
           place'[v] = place[v] /\ job'[v] = job[v] /\ read'[v] = read[v],
         facts' = facts, instants' = instants, states' = states, clock' \in {clock, clock + 1},
         RowsTied', \A e, p : HasRow(e, p) => HasRow(e, p)',
         \A p \in returned' \ returned :
           p \in 1..Position /\ \A e \in Entity : p \in Changes(e) => HasRow(e, p)'
  PROVE  WritesInv'
<1>1. /\ Position' = Position /\ Position \in Nat /\ Position <= MaxPosition
      /\ clock \in Nat /\ clock' \in {clock, clock + 1} /\ instants \in Seq(Nat)
      /\ \A e : Changes(e)' = Changes(e)
  BY DEF Position, SnapInv, TypeOK, FactsBounded, Now, Changes, StateAt
<1>2. InstantsInOrder'
  <2>1. \A p \in 1..Position : instants[p] \in Nat
    BY <1>1 DEF Position
  <2> QED BY <1>1, <2>1 DEF WritesInv, InstantsInOrder
<1>3. FactsUnique'
  BY DEF WritesInv, FactsUnique
<1>4. \A v \in Writer : WorkInv(v)'
  BY <1>1, WorkKept DEF WritesInv
<1>5. returned' \subseteq 1..Position' /\ ReturnedWritesHaveRows'
  BY <1>1 DEF WritesInv, ReturnedWritesHaveRows
<1> QED BY <1>2, <1>3, <1>4, <1>5 DEF WritesInv

\* A step that writes no row.
LEMMA RowsStayTied ==
  ASSUME SnapInv, WritesInv, rows' = rows, Position' \in Nat, Position <= Position',
         \A p \in 1..Position : instants'[p] = instants[p]
  PROVE  RowsTied' /\ \A e, p : HasRow(e, p) => HasRow(e, p)'
<1>1. Position \in Nat
  BY DEF SnapInv, TypeOK, Position
<1>2. RowsTied'
  BY <1>1 DEF WritesInv, RowsTied
<1> QED BY <1>2 DEF HasRow

\* The requests of the capability.
LEMMA RequestsKnown ==
  ASSUME NEW q \in WriteRequests
  PROVE  Known(q, Seen(q)) /\ (~ Reads(q) => Known(q, {}))
<1>1. CASE \E S \in Together : q = Request("assertBatch", S, {}, {}, TRUE)
  BY <1>1 DEF Request, Known, Seen, Reads
<1>2. CASE \E i \in Ids : q = Request("retract", {}, {i}, {}, TRUE)
  BY <1>2 DEF Request, Known, Seen, Reads
<1>3. CASE \E p \in Patterns : q = Request("retractByPattern", {}, {}, p.entities, TRUE)
  BY <1>3 DEF Request, Known, Seen, Reads
<1>4. CASE \E S \in {{}} \cup Together, i \in Ids : q = Request("transact", S, {i}, {}, TRUE)
  BY <1>4 DEF Request, Known, Seen, Reads
<1>5. CASE \E p \in Patterns : q = Request("transact", {}, {}, p.entities, p.named)
  BY <1>5 DEF Request, Known, Seen, Reads
<1> DEFINE A == {Request("assertBatch", S, {}, {}, TRUE) : S \in Together}
           B == {Request("retract", {}, {i}, {}, TRUE) : i \in Ids}
           C == {Request("retractByPattern", {}, {}, p.entities, TRUE) : p \in Patterns}
           D == {Request("transact", S, {i}, {}, TRUE) : S \in {{}} \cup Together, i \in Ids}
           E == {Request("transact", {}, {}, p.entities, p.named) : p \in Patterns}
<1>6. q \in A \/ q \in B \/ q \in C \/ q \in D \/ q \in E
  BY DEF WriteRequests, Request
<1> QED BY <1>1, <1>2, <1>3, <1>4, <1>5, <1>6 DEF Request

\* A commit that knows what it touches: what it changes is what it will write rows
\* of, or the entity of the one fact it retracts by id.
LEMMA CommitKnows ==
  ASSUME SnapInv, NEW w \in Writer, NEW q \in RequestSet, NEW seen \in SUBSET (Entity \X Nat),
         Commit(w, q, seen), Known(q, seen), KnowsAll(q),
         NEW e \in Entity, Position + 1 \in Changes(e)'
  PROVE  /\ q.op # "retract" => e \in Touched(q, seen)
         /\ q.op = "retract" => \E f \in Gone(q) : seen = {Id(f)} /\ f.entity = e
<1>1. e \in q.asserts \/ \E f \in Gone(q) : f.entity = e
  BY CommitChanges
<1>2. q.op # "retractByPattern" /\ q.named /\ seen = q.retracts
  BY DEF KnowsAll, Known
<1>3. ASSUME q.op # "retract" PROVE e \in Touched(q, seen)
  <2>1. CASE e \in q.asserts
    BY <2>1 DEF Touched
  <2>2. ASSUME NEW f \in Gone(q), f.entity = e PROVE e \in Touched(q, seen)
    <3>1. CASE Id(f) \in q.retracts
      BY <1>2, <2>2, <3>1 DEF Touched, EntitiesOf, Id
    <3>2. CASE f.entity \in q.pattern
      BY <1>2, <1>3, <2>2, <3>2 DEF Touched, Known
    <3> QED BY <3>1, <3>2 DEF Gone
  <2> QED BY <1>1, <2>1, <2>2
<1>4. ASSUME q.op = "retract" PROVE \E f \in Gone(q) : seen = {Id(f)} /\ f.entity = e
  <2>1. q.asserts = {} /\ q.pattern = {} /\ \E i : q.retracts = {i}
    BY <1>4 DEF Known
  <2>2. PICK f \in Gone(q) : f.entity = e
    BY <1>1, <2>1
  <2>3. Id(f) \in q.retracts
    BY <2>1, <2>2 DEF Gone
  <2> QED BY <1>2, <2>1, <2>2, <2>3
<1> QED BY <1>3, <1>4
-----------------------------------------------------------------------------
\* A commit and what a writer must know after it.
LEMMA CommitFactsUnique ==
  ASSUME SnapInv, FactsUnique, NEW w \in Writer, NEW q \in RequestSet,
         NEW seen \in SUBSET (Entity \X Nat), Commit(w, q, seen)
  PROVE  FactsUnique'
<1>1. facts' = (facts \ Gone(q))
        \cup {[f EXCEPT !.died = Position + 1] : f \in Gone(q)}
        \cup {[entity |-> e, born |-> Position + 1, died |-> 0] : e \in q.asserts}
  BY DEF Commit
<1>2. /\ Position \in Nat /\ Gone(q) \subseteq facts
      /\ \A f \in facts : f \in FactSet /\ f.born # Position + 1
  BY DEF SnapInv, TypeOK, FactsBounded, Position, Gone, LiveFacts
<1> DEFINE p == Position + 1
           Old(f, g) == Id(f) = Id(g) /\ f.born # p
                        /\ f = (IF g \in Gone(q) THEN [g EXCEPT !.died = p] ELSE g)
           New(f) == f.born = p /\ f = [entity |-> f.entity, born |-> p, died |-> 0]
<1>3. ASSUME NEW f \in facts' PROVE New(f) \/ \E g \in facts : Old(f, g)
  <2>1. CASE f \in facts \ Gone(q)
    BY <1>2, <2>1
  <2>2. ASSUME NEW g \in Gone(q), f = [g EXCEPT !.died = p] PROVE Old(f, g)
    <3>1. g \in FactSet /\ g.born # p
      BY <1>2
    <3>2. f.entity = g.entity /\ f.born = g.born
      BY <2>2, <3>1 DEF FactSet
    <3> QED BY <2>2, <3>1, <3>2 DEF Id
  <2>3. CASE \E e \in q.asserts : f = [entity |-> e, born |-> p, died |-> 0]
    BY <2>3
  <2> QED BY <1>1, <1>2, <2>1, <2>2, <2>3
<1>4. ASSUME NEW f \in facts', NEW g \in facts', Id(f) = Id(g) PROVE f = g
  <2>1. f.born = g.born /\ f.entity = g.entity
    BY <1>4 DEF Id
  <2>2. CASE New(f) \/ New(g)
    <3>1. New(f) /\ New(g)
      BY <1>3, <2>1, <2>2
    <3> QED BY <2>1, <3>1
  <2>3. CASE (\E x \in facts : Old(f, x)) /\ (\E y \in facts : Old(g, y))
    <3>1. PICK x \in facts, y \in facts : Old(f, x) /\ Old(g, y)
      BY <2>3
    <3>2. x = y
      BY <1>4, <3>1 DEF FactsUnique
    <3> QED BY <3>1, <3>2
  <2> QED BY <1>3, <2>2, <2>3
<1> QED BY <1>4 DEF FactsUnique

LEMMA CommitWork ==
  ASSUME SnapInv, WritesInv, NEW w \in Writer, NEW q \in RequestSet,
         NEW seen \in SUBSET (Entity \X Nat), Known(q, seen), Commit(w, q, seen)
  PROVE  WorkInv(w)' /\ \A p \in returned' \ returned :
           p \in 1..Position' /\ \A e \in Entity : p \notin Changes(e)'
<1> SUFFICES ASSUME NEW n \in Nat, n = Position + 1
             PROVE  WorkInv(w)' /\ \A p \in returned' \ returned :
                      p \in 1..Position' /\ \A e \in Entity : p \notin Changes(e)'
  BY DEF SnapInv, TypeOK, Position
<1> DEFINE nx == AfterCommit(q, seen)
           own == IF KnowsAll(q) THEN n ELSE 0
           j == job'[w]
<1>1. /\ Position' = n /\ Position \in Nat /\ clock' \in Nat /\ instants \in Seq(Nat)
      /\ instants' = Append(instants, clock') /\ instants'[n] = clock'
      /\ clock' \in Nat
  <2>1. Position' = n /\ Position \in Nat /\ clock' \in Nat /\ instants \in Seq(Nat)
    BY CommitOnFacts DEF SnapInv, TypeOK
  <2> QED BY <2>1 DEF Commit, Position
<1>2. nx \in {"idle", "meta", "materialize"} /\ place'[w] = nx
  BY DEF Commit, Enter, AfterCommit, SnapInv, TypeOK
<1>3. /\ nx = "meta" => j = Job(NoRequest, seen, own, 0, 0, {})
      /\ nx = "materialize" => j = Job(NoRequest, {}, own, n, clock', Touched(q, seen))
  BY DEF Commit, SnapInv, TypeOK
<1>4. returned' = IF nx = "idle" /\ KnowsAll(q) /\ q.op # "retract"
                  THEN returned \cup {n} ELSE returned
  BY DEF Commit
<1>5. ASSUME KnowsAll(q), NEW e \in Entity, n \in Changes(e)'
      PROVE  /\ q.op # "retract" => e \in Touched(q, seen)
             /\ q.op = "retract" => \E f \in Gone(q) : seen = {Id(f)} /\ f.entity = e
  BY <1>5, CommitKnows
<1>6. q.op # "retract" /\ KnowsAll(q) => nx = IF Touched(q, seen) = {} THEN "idle" ELSE "materialize"
  BY DEF AfterCommit, KnowsAll
<1>7. q.op = "retract" => nx = IF Gone(q) = {} THEN "idle" ELSE "meta"
  BY DEF AfterCommit
<1>8. \A p \in returned' \ returned : p \in 1..Position' /\ \A e \in Entity : p \notin Changes(e)'
  BY <1>1, <1>4, <1>5, <1>6
<1>9. CASE nx = "meta" /\ KnowsAll(q)
  <2>1. q.op = "retract" /\ Gone(q) # {}
    BY <1>6, <1>7, <1>9
  <2>2. PICK g \in Gone(q) : TRUE
    BY <2>1
  <2>3. q.asserts = {} /\ q.pattern = {} /\ \E i \in q.retracts : q.retracts = {i}
        /\ seen = q.retracts
    BY <2>1 DEF Known
  <2>4. \A f \in Gone(q) : seen = {Id(f)}
    BY <2>3 DEF Gone
  <2> DEFINE f == [g EXCEPT !.died = n]
  <2>5. f \in facts'
    BY DEF Commit
  <2>6. g \in FactSet
    BY <2>2 DEF Gone, LiveFacts, SnapInv, TypeOK
  <2>7. f.died = n /\ f.entity = g.entity /\ f.born = g.born /\ Id(f) = Id(g)
    BY <2>6 DEF FactSet, Id
  <2>8. \A e \in Entity : n \in Changes(e)' => e = f.entity
    <3>1. ASSUME NEW e \in Entity, n \in Changes(e)' PROVE e = f.entity
      <4>1. PICK h \in Gone(q) : h.entity = e /\ seen = {Id(h)}
        BY <1>5, <1>9, <2>1, <3>1
      <4>2. Id(h) = Id(g)
        BY <2>4, <4>1
      <4> QED BY <2>7, <4>1, <4>2 DEF Id
    <3> QED BY <3>1
  <2> HIDE DEF f
  <2>9. j.seen = {Id(f)} /\ j.own = n
    BY <1>3, <1>9, <2>4, <2>7 DEF Job
  <2> QED BY <1>2, <1>8, <1>9, <2>5, <2>7, <2>8, <2>9 DEF WorkInv
<1>10. CASE nx = "meta" /\ ~ KnowsAll(q)
  <2>1. j.own = 0
    BY <1>3, <1>10 DEF Job
  <2> QED BY <1>2, <1>8, <1>10, <2>1 DEF WorkInv
<1>11. CASE nx = "materialize"
  <2>1. j.own = own /\ j.tx = n /\ j.time = clock' /\ j.todo = Touched(q, seen)
    BY <1>3, <1>11 DEF Job
  <2>2. j.own # 0 => KnowsAll(q) /\ j.own = n
    BY <2>1
  <2>3. KnowsAll(q) => q.op # "retract"
    BY <1>7, <1>11
  <2>4. n \in 1..Position' /\ place'[w] = "materialize"
    BY <1>1, <1>2, <1>11
  <2>5. ASSUME j.own # 0
        PROVE  j.own = n /\ \A e \in Entity : n \in Changes(e)' => e \in j.todo
    BY <1>5, <2>1, <2>2, <2>3, <2>5
  <2> HIDE DEF nx, own
  <2>6. WorkInv(w)'
    BY <1>1, <2>1, <2>4, <2>5 DEF WorkInv
  <2> QED BY <1>8, <2>6
<1>12. CASE nx = "idle"
  BY <1>2, <1>8, <1>12 DEF WorkInv
<1> QED BY <1>2, <1>9, <1>10, <1>11, <1>12

LEMMA CommitWrites ==
  ASSUME SnapInv, WritesInv, NEW w \in Writer, NEW q \in RequestSet,
         NEW seen \in SUBSET (Entity \X Nat), Known(q, seen), Commit(w, q, seen)
  PROVE  WritesInv'
<1>1. /\ Position' = Position + 1 /\ Position \in Nat /\ Position' <= MaxPosition
      /\ \A p \in 1..Position : states'[p] = states[p]
  BY CommitOnFacts DEF SnapInv, FactsBounded
<1>2. /\ instants \in Seq(Nat) /\ clock \in Nat /\ clock' \in {clock, clock + 1}
      /\ instants' = Append(instants, clock') /\ Len(instants) = Position
  BY DEF SnapInv, TypeOK, Commit, Now, Position
<1>3. (\A p \in 1..Position : instants'[p] = instants[p]) /\ instants'[Position + 1] = clock'
  BY <1>1, <1>2
<1>4. InstantsInOrder'
  <2>1. \A p \in 1..Position : instants[p] \in Nat /\ instants[p] <= clock
    BY <1>2 DEF WritesInv, InstantsInOrder
  <2>2. \A p \in 1..Position' : p \in 1..Position \/ p = Position + 1
    BY <1>1
  <2>3. \A p \in 1..Position' : instants'[p] <= clock'
    BY <1>2, <1>3, <2>1, <2>2
  <2>4. ASSUME NEW p \in 1..Position', NEW r \in 1..Position', p <= r
        PROVE  instants'[p] <= instants'[r]
    <3>1. CASE r = Position + 1
      BY <1>3, <2>3, <3>1
    <3>2. CASE r \in 1..Position
      <4>1. p \in 1..Position
        BY <1>1, <2>4, <3>2
      <4> QED BY <1>3, <2>4, <3>2, <4>1 DEF WritesInv, InstantsInOrder
    <3> QED BY <2>2, <3>1, <3>2
  <2> QED BY <2>3, <2>4 DEF InstantsInOrder
<1>5. FactsUnique'
  BY CommitFactsUnique DEF WritesInv
<1>6. RowsTied' /\ \A e, p : HasRow(e, p) => HasRow(e, p)'
  <2>1. rows' = rows /\ Position' \in Nat /\ Position <= Position'
    BY <1>1 DEF Commit
  <2> QED BY <1>3, <2>1, RowsStayTied
<1>7. ASSUME NEW v \in Writer, v # w PROVE WorkInv(v)'
  <2>1. place'[v] = place[v] /\ job'[v] = job[v] /\ read'[v] = read[v]
    <3>1. clock' \in Nat /\ TypeOK
      BY <1>2 DEF SnapInv
    <3>2. place'[v] = place[v] /\ job'[v] = job[v]
      BY <1>1, <1>7, <3>1, CommitOnJob
    <3> QED BY <3>2 DEF Commit
  <2>2. \A f \in facts : f.died # 0 => f \in facts'
    BY DEF Commit, Gone, LiveFacts
  <2>3. WorkInv(v)
    BY DEF WritesInv
  <2> QED BY <1>1, <1>3, <1>6, <2>1, <2>2, <2>3, WorkKept
<1>8. /\ WorkInv(w)'
      /\ \A p \in returned' \ returned : p \in 1..Position' /\ \A e \in Entity : p \notin Changes(e)'
  BY CommitWork
<1>9. returned' \subseteq 1..Position'
  <2>1. returned \subseteq 1..Position
    BY DEF WritesInv
  <2>2. 1..Position \subseteq 1..Position'
    BY <1>1
  <2> QED BY <1>8, <2>1, <2>2
<1>10. ReturnedWritesHaveRows'
  <2>1. ASSUME NEW p \in returned', NEW e \in Entity, p \in Changes(e)' PROVE HasRow(e, p)'
    <3>1. p \in returned
      BY <1>8, <2>1
    <3>2. p \in Changes(e)
      BY <1>1, <2>1, <3>1, ChangesKept DEF WritesInv
    <3> QED BY <1>6, <3>1, <3>2 DEF WritesInv, ReturnedWritesHaveRows
  <2> QED BY <2>1 DEF ReturnedWritesHaveRows
<1> QED BY <1>4, <1>5, <1>6, <1>7, <1>8, <1>9, <1>10 DEF WritesInv
-----------------------------------------------------------------------------
\* The steps that commit nothing.
LEMMA QuietWrites ==
  ASSUME SnapInv, SnapInv', WritesInv, NEW w \in Writer, WorkInv(w)',
         \A v \in Writer : v # w =>
           place'[v] = place[v] /\ job'[v] = job[v] /\ read'[v] = read[v],
         facts' = facts, instants' = instants, states' = states, clock' \in {clock, clock + 1},
         rows' = rows, returned' = returned
  PROVE  WritesInv'
<1>1. Position' = Position /\ Position \in Nat
  BY DEF SnapInv, TypeOK, Position
<1>2. RowsTied' /\ \A e, p : HasRow(e, p) => HasRow(e, p)'
  BY <1>1, RowsStayTied
<1> QED BY <1>2, WritesStay

LEMMA PrepareWrites == ASSUME SnapInv, SnapInv', WritesInv, NEW w \in Writer, Prepare(w) PROVE WritesInv'
<1>1. PICK q \in WriteRequests : job' = [job EXCEPT ![w] = Job(q, Seen(q), 0, 0, 0, {})]
  BY DEF Prepare
<1>2. /\ job'[w] = Job(q, Seen(q), 0, 0, 0, {}) /\ place'[w] = "commit"
      /\ \A v \in Writer : v # w => place'[v] = place[v] /\ job'[v] = job[v] /\ read'[v] = read[v]
  BY <1>1 DEF Prepare, Enter, SnapInv, TypeOK
<1>3. WorkInv(w)'
  BY <1>2, RequestsKnown DEF WorkInv, Job
<1> QED BY <1>2, <1>3, QuietWrites DEF Prepare, log

LEMMA MetaWrites == ASSUME SnapInv, SnapInv', WritesInv, NEW w \in Writer, Meta(w) PROVE WritesInv'
<1>1. PICK f \in facts :
        /\ Id(f) \in job[w].seen /\ f.died # 0
        /\ job' = [job EXCEPT ![w] = Job(NoRequest, {}, job[w].own, f.died, instants[f.died],
                                         EntitiesOf(job[w].seen))]
  BY DEF Meta
<1>2. /\ job'[w] = Job(NoRequest, {}, job[w].own, f.died, instants[f.died], EntitiesOf(job[w].seen))
      /\ place[w] = "meta" /\ place'[w] = "materialize"
      /\ \A v \in Writer : v # w => place'[v] = place[v] /\ job'[v] = job[v] /\ read'[v] = read[v]
  BY <1>1 DEF Meta, Enter, SnapInv, TypeOK
<1>3. /\ facts' = facts /\ instants' = instants /\ states' = states /\ clock' = clock
      /\ rows' = rows /\ returned' = returned
  BY DEF Meta, log
<1>4. \A e : Changes(e)' = Changes(e)
  BY <1>3 DEF Changes, StateAt, Position
<1>5. ASSUME job[w].own # 0
      PROVE  /\ job[w].own = f.died /\ f.died \in 1..Position
             /\ \A e \in Entity : f.died \in Changes(e) => e \in EntitiesOf(job[w].seen)
  <2>1. PICK g \in facts : /\ job[w].seen = {Id(g)} /\ g.died = job[w].own
                           /\ \A e \in Entity : job[w].own \in Changes(e) => e = g.entity
    BY <1>2, <1>5 DEF WritesInv, WorkInv
  <2>2. g = f
    BY <1>1, <2>1 DEF WritesInv, FactsUnique
  <2>3. EntitiesOf(job[w].seen) = {f.entity}
    BY <2>1, <2>2 DEF EntitiesOf, Id
  <2>4. f.died \in 0..Position /\ Position \in Nat
    BY DEF SnapInv, TypeOK, FactsBounded, Position
  <2> QED BY <1>1, <2>1, <2>2, <2>3, <2>4
<1>6. WorkInv(w)'
  <2>1. /\ job'[w].own = job[w].own /\ job'[w].tx = f.died /\ job'[w].time = instants[f.died]
        /\ job'[w].todo = EntitiesOf(job[w].seen)
    BY <1>2 DEF Job
  <2>2. Position' = Position
    BY <1>3 DEF Position
  <2> QED BY <1>2, <1>3, <1>4, <1>5, <2>1, <2>2 DEF WorkInv
<1> QED BY <1>2, <1>3, <1>6, QuietWrites

LEMMA ReadHistoryWrites ==
  ASSUME SnapInv, SnapInv', WritesInv, NEW w \in Writer, ReadHistory(w) PROVE WritesInv'
<1>1. PICK e \in job[w].todo :
        read' = [read EXCEPT ![w] =
                   [entity |-> e, content |-> Content(e, job[w].tx, job[w].time)]]
  BY DEF ReadHistory
<1>2. /\ read'[w].entity = e /\ job'[w] = job[w]
      /\ place[w] = "materialize" /\ place'[w] = "row"
      /\ \A v \in Writer : v # w => place'[v] = place[v] /\ job'[v] = job[v] /\ read'[v] = read[v]
  BY <1>1 DEF ReadHistory, Enter, SnapInv, TypeOK
<1>3. /\ facts' = facts /\ instants' = instants /\ states' = states /\ clock' = clock
      /\ rows' = rows /\ returned' = returned
  BY DEF ReadHistory, log
<1>4. /\ \A a : Changes(a)' = Changes(a) /\ \A p : HasRow(a, p)' = HasRow(a, p)
      /\ Position' = Position
  BY <1>3 DEF Changes, StateAt, Position, HasRow
<1>5. WorkInv(w)'
  BY <1>2, <1>3, <1>4 DEF WritesInv, WorkInv
<1> QED BY <1>2, <1>3, <1>5, QuietWrites

LEMMA RestWrites ==
  ASSUME SnapInv, SnapInv', WritesInv, NEW w \in Writer, Stop(w) \/ FindMissing(w) \/ Stamp(w)
  PROVE  WritesInv'
<1>1. /\ \A v \in Writer : v # w => place'[v] = place[v] /\ job'[v] = job[v] /\ read'[v] = read[v]
      /\ facts' = facts /\ instants' = instants /\ states' = states
      /\ clock' \in {clock, clock + 1} /\ rows' = rows /\ returned' = returned
  BY DEF Stop, FindMissing, Stamp, Enter, SnapInv, TypeOK, log, Now
<1>2. CASE Stop(w)
  <2>1. place'[w] = "idle"
    BY <1>2 DEF Stop, Enter, SnapInv, TypeOK
  <2>2. WorkInv(w)'
    BY <2>1 DEF WorkInv
  <2> QED BY <1>1, <2>2, QuietWrites
<1>3. CASE FindMissing(w)
  <2>1. place'[w] = "stamp" /\ job'[w].own = 0
    BY <1>3 DEF FindMissing, Enter, SnapInv, TypeOK, Job
  <2>2. WorkInv(w)'
    BY <2>1 DEF WorkInv
  <2> QED BY <1>1, <2>2, QuietWrites
<1>4. CASE Stamp(w)
  <2>1. place'[w] = "materialize" /\ job'[w].own = 0 /\ job'[w].tx = MaxPosition + backfills
        /\ place[w] = "stamp"
    BY <1>4 DEF Stamp, Enter, SnapInv, TypeOK, Job
  <2>2. job'[w].tx \notin 1..Position'
    <3>1. backfills \in Nat /\ backfills > 0 /\ MaxPosition \in Nat
      BY <2>1, WriterTyped, SnapshotAssumption DEF JobInv
    <3>2. Position' <= MaxPosition /\ Position' \in Nat
      BY DEF SnapInv, FactsBounded, TypeOK, Position
    <3> QED BY <2>1, <3>1, <3>2
  <2>3. WorkInv(w)'
    BY <2>1, <2>2 DEF WorkInv
  <2> QED BY <1>1, <2>3, QuietWrites
<1> QED BY <1>2, <1>3, <1>4

LEMMA WriteRowWrites ==
  ASSUME SnapInv, SnapInv', WritesInv, NEW w \in Writer, WriteRow(w) PROVE WritesInv'
<1> DEFINE e == read[w].entity
           last == job[w].todo = {e}
           j == job[w]
<1>1. /\ place[w] = "row"
      /\ rows' = {r \in rows : r.entity # e \/ r.tx # j.tx} \cup {RowOf(w)}
      /\ job'[w] = IF last THEN NoJob ELSE Job(NoRequest, {}, j.own, j.tx, j.time, j.todo \ {e})
      /\ place'[w] = IF last THEN "idle" ELSE "materialize"
      /\ \A v \in Writer : v # w => place'[v] = place[v] /\ job'[v] = job[v] /\ read'[v] = read[v]
      /\ facts' = facts /\ instants' = instants /\ states' = states /\ clock' = clock
      /\ returned' = IF last /\ j.own # 0 THEN returned \cup {j.own} ELSE returned
  BY DEF WriteRow, Enter, log, SnapInv, TypeOK
<1>2. /\ j.tx \in 1..Position \/ j.tx > MaxPosition
      /\ j \in JobSet /\ j.tx \in Nat /\ WorkInv(w) /\ Position \in Nat /\ MaxPosition \in Nat
      /\ Position <= MaxPosition
  BY <1>1, WriterTyped, SnapshotAssumption DEF JobInv, WritesInv, JobSet, SnapInv, FactsBounded
<1>3. /\ RowOf(w).entity = e /\ RowOf(w).tx = j.tx
      /\ j.tx \in 1..Position => RowOf(w).position = j.tx /\ RowOf(w).time = instants[j.tx]
      /\ j.tx > MaxPosition => RowOf(w).position = 0
  BY <1>1, <1>2 DEF RowOf, PositionOf, WorkInv
<1>4. /\ Position' = Position /\ \A a : Changes(a)' = Changes(a)
  BY <1>1 DEF Position, Changes, StateAt
<1>5. RowsTied'
  BY <1>1, <1>2, <1>3, <1>4 DEF WritesInv, RowsTied
<1>7. ASSUME NEW a, NEW p, HasRow(a, p) PROVE HasRow(a, p)'
  <2>1. PICK r \in rows : r.entity = a /\ r.tx = p
    BY <1>7 DEF HasRow
  <2>2. r \in rows' \/ (a = e /\ p = j.tx)
    BY <1>1, <2>1
  <2>3. CASE r \in rows'
    BY <2>1, <2>3 DEF HasRow
  <2>4. CASE a = e /\ p = j.tx
    <3>1. RowOf(w) \in rows' /\ RowOf(w).entity = a /\ RowOf(w).tx = p
      BY <1>1, <1>3, <2>4
    <3> QED BY <3>1 DEF HasRow
  <2> QED BY <2>2, <2>3, <2>4
<1>8. ASSUME j.own # 0
      PROVE  /\ j.own = j.tx /\ j.own \in 1..Position
             /\ \A a \in Entity : j.own \in Changes(a) =>
                  (a \in j.todo \ {e}) \/ \E r \in rows' : r.entity = a /\ r.tx = j.own
  <2>1. /\ j.own = j.tx /\ j.own \in 1..Position
        /\ \A a \in Entity : j.own \in Changes(a) => a \in j.todo \/ HasRow(a, j.own)
    BY <1>1, <1>2, <1>8 DEF WorkInv
  <2>2. ASSUME NEW a \in Entity, j.own \in Changes(a), a \notin j.todo \ {e}
        PROVE  \E r \in rows' : r.entity = a /\ r.tx = j.own
    <3>1. CASE a = e
      BY <1>1, <1>3, <2>1, <3>1
    <3>2. CASE a # e
      <4>1. HasRow(a, j.own)
        BY <2>1, <2>2, <3>2
      <4>2. PICK r \in rows : r.entity = a /\ r.tx = j.own
        BY <4>1 DEF HasRow
      <4> QED BY <1>1, <3>2, <4>2
    <3> QED BY <3>1, <3>2
  <2> QED BY <2>1, <2>2
<1>9. WorkInv(w)'
  <2>1. CASE last
    BY <1>1, <2>1 DEF WorkInv
  <2>2. CASE ~ last
    <3>1. /\ job'[w].own = j.own /\ job'[w].tx = j.tx /\ job'[w].time = j.time
          /\ job'[w].todo = j.todo \ {e} /\ place'[w] = "materialize"
      BY <1>1, <2>2 DEF Job
    <3>2. j.tx \in 1..Position => j.time = instants[j.tx]
      BY <1>1, <1>2 DEF WorkInv
    <3>3. job'[w].own # 0 =>
            /\ job'[w].own = job'[w].tx /\ job'[w].own \in 1..Position'
            /\ \A a \in Entity : job'[w].own \in Changes(a)' =>
                 a \in job'[w].todo \/ \E r \in rows' : r.entity = a /\ r.tx = job'[w].own
      BY <1>4, <1>8, <3>1
    <3>4. job'[w].tx \in 1..Position' => job'[w].time = instants'[job'[w].tx]
      BY <1>1, <1>4, <3>1, <3>2
    <3>5. place'[w] = "materialize"
      BY <3>1
    <3> HIDE DEF j, e, last
    <3> QED BY <3>3, <3>4, <3>5 DEF WorkInv, HasRow
  <2> QED BY <2>1, <2>2
<1>10. ASSUME NEW p \in returned' \ returned
       PROVE  p \in 1..Position /\ \A a \in Entity : p \in Changes(a) => HasRow(a, p)'
  <2>1. last /\ p = j.own /\ j.own # 0
    BY <1>1, <1>10
  <2>2. j.todo \ {e} = {}
    BY <2>1
  <2> QED BY <1>8, <2>1, <2>2 DEF HasRow
<1> QED BY <1>1, <1>5, <1>7, <1>9, <1>10, WritesStay

LEMMA WritesPreserved ==
  ASSUME SnapInv, SnapInv', WritesInv, [SnapNext]_snapVars PROVE WritesInv'
<1>1. CASE UNCHANGED snapVars
  BY <1>1 DEF snapVars, log, WritesInv, InstantsInOrder, FactsUnique, RowsTied, WorkInv,
              ReturnedWritesHaveRows, Changes, StateAt, HasRow, Position
<1>2. ASSUME NEW w \in Writer, WriterStep(w) PROVE WritesInv'
  <2>1. CASE Write(w)
    <3>1. PICK q \in WriteRequests : ~ Reads(q) /\ Commit(w, q, {})
      BY <2>1 DEF Write
    <3>2. q \in RequestSet /\ {} \in SUBSET (Entity \X Nat) /\ Known(q, {})
      BY <3>1, RequestsTyped, RequestsKnown DEF SnapInv
    <3> QED BY <3>1, <3>2, CommitWrites
  <2>2. CASE WriteAfterReads(w)
    <3>1. job[w].request \in RequestSet /\ job[w].seen \in SUBSET (Entity \X Nat)
      BY WriterTyped DEF JobSet
    <3>2. Known(job[w].request, job[w].seen)
      BY <2>2 DEF WriteAfterReads, WritesInv, WorkInv
    <3> QED BY <2>2, <3>1, <3>2, CommitWrites DEF WriteAfterReads
  <2> QED BY <1>2, <2>1, <2>2, PrepareWrites, MetaWrites, ReadHistoryWrites, WriteRowWrites,
             RestWrites DEF WriterStep
<1> QED BY <1>1, <1>2 DEF SnapNext

LEMMA WritesInductive == SnapSpec => [](SnapInv /\ WritesInv)
<1>1. SnapInit => SnapInv /\ WritesInv
  BY Initially, WritesInvInit
<1>2. SnapInv /\ WritesInv /\ [SnapNext]_snapVars => (SnapInv /\ WritesInv)'
  BY Preserved, WritesPreserved
<1> QED BY <1>1, <1>2, PTL DEF SnapSpec

\* When a write that knows what it has touched returns, every entity it changed has
\* its row, though rows are written one by one after the commit, others commit in
\* between, and the retraction it made may be resolved only afterwards.
THEOREM ReturnedWritesAreSnapshotted == SnapSpec => []ReturnedWritesHaveRows
<1>1. WritesInv => ReturnedWritesHaveRows
  BY DEF WritesInv
<1> QED BY <1>1, WritesInductive, PTL
-----------------------------------------------------------------------------
\* What readers find.

\* Between two positions at which an entity differs, there is a last change of it.
LEMMA LastDifference ==
  ASSUME Position \in Nat, NEW e, NEW b \in 0 .. Position, NEW a \in 0 .. b,
         StateAt(e, a) # StateAt(e, b)
  PROVE  \E n \in a + 1 .. b : n \in Changes(e) /\ \A q \in Changes(e) : q <= b => q <= n
<1> DEFINE S == {m \in 0 .. b : StateAt(e, m) # StateAt(e, b)}
<1>1. PICK m \in S : \A n \in S : n <= m
  <2>1. S \in SUBSET (0 .. b) /\ S # {} /\ b \in Nat
    OBVIOUS
  <2> HIDE DEF S
  <2> QED BY <2>1, GreatestOf
<1>2. m >= a /\ m < b /\ m \in Nat
  BY <1>1
<1>3. \A n \in m + 1 .. b : StateAt(e, n) = StateAt(e, b)
  BY <1>1, <1>2
<1>4. m + 1 \in Changes(e)
  <2>1. m + 1 \in 1 .. Position /\ (m + 1) - 1 = m /\ m + 1 \in m + 1 .. b
    BY <1>2
  <2>2. StateAt(e, m + 1) # StateAt(e, (m + 1) - 1)
    BY <1>1, <1>3, <2>1
  <2> QED BY <2>1, <2>2 DEF Changes
<1>5. ASSUME NEW q \in Changes(e), q <= b PROVE q <= m + 1
  <2>1. q \in 1 .. Position /\ StateAt(e, q) # StateAt(e, q - 1)
    BY DEF Changes
  <2>2. q > m + 1 => q \in m + 1 .. b /\ q - 1 \in m + 1 .. b
    BY <1>2, <1>5, <2>1
  <2> QED BY <1>2, <1>3, <2>1, <2>2
<1> QED BY <1>2, <1>4, <1>5

\* Of the rows of an entity, some among them of a transaction, one is the latest, and
\* it is of the transaction with the highest position.
LEMMA LatestExists ==
  ASSUME SnapInv, WritesInv, NEW e, NEW n \in 1 .. Position, HasRow(e, n)
  PROVE  \E r \in Current(e) : r.position >= n
<1> DEFINE S == {r.position : r \in {s \in rows : s.entity = e}}
<1>1. Position \in Nat /\ MaxPosition \in Nat /\ Position <= MaxPosition
  BY SnapshotAssumption DEF SnapInv, TypeOK, FactsBounded, Position
<1>2. PICK h \in rows : h.entity = e /\ h.tx = n
  BY DEF HasRow
<1>3. h.position = n
  BY <1>1, <1>2 DEF WritesInv, RowsTied
<1>4. PICK m \in S : \A k \in S : k <= m
  <2>1. S \in SUBSET (0 .. Position) /\ S # {}
    BY <1>2 DEF SnapInv, RowsBounded
  <2> HIDE DEF S
  <2> QED BY <1>1, <2>1, GreatestOf
<1>5. PICK r \in rows : r.entity = e /\ r.position = m
  BY <1>4
<1>6. m >= n /\ m \in Nat
  BY <1>1, <1>2, <1>3, <1>4 DEF SnapInv, RowsBounded
<1>7. r.tx = m
  BY <1>5, <1>6 DEF WritesInv, RowsTied
<1>8. ASSUME NEW s \in rows, s.entity = e PROVE Later(r, s)
  <2>1. s.position <= m /\ s.position \in Nat
    BY <1>1, <1>4, <1>8 DEF SnapInv, RowsBounded
  <2>2. CASE s.position = m
    <3>1. s.tx = m
      BY <1>6, <2>2 DEF WritesInv, RowsTied
    <3>2. s = r
      BY <1>5, <1>7, <1>8, <3>1 DEF WritesInv, RowsTied
    <3> QED BY <1>6, <1>7, <3>2 DEF Later
  <2>3. CASE s.position < m
    BY <1>5, <1>6, <2>1, <2>3 DEF Later
  <2> QED BY <1>6, <2>1, <2>2, <2>3
<1>9. r \in Current(e)
  BY <1>5, <1>8 DEF Current, LatestRow
<1> QED BY <1>5, <1>6, <1>9

\* The last change of an entity, when it differs from what it was.
LEMMA LastChange ==
  ASSUME SnapInv, WritesInv, NEW e \in Entity, NEW p \in 0 .. Position,
         StateAt(e, p) # LiveOf(e)
  PROVE  \E n \in p + 1 .. Position : n \in LastBy(e, clock)
<1>1. Position \in Nat
  BY DEF SnapInv, TypeOK, Position
<1>2. PICK n \in p + 1 .. Position :
        n \in Changes(e) /\ \A q \in Changes(e) : q <= Position => q <= n
  BY <1>1, LiveIsLast, LastDifference
<1>3. instants[n] <= clock /\ \A q \in Changes(e) : q <= Position
  BY <1>1, <1>2 DEF WritesInv, InstantsInOrder, Changes
<1> QED BY <1>2, <1>3 DEF LastBy

LEMMA ChangesFound == ASSUME SnapInv, WritesInv PROVE ChangesAreFound
<1> SUFFICES ASSUME NEW s \in rows, s.position # 0, NEW e \in Entity,
                    StateAt(e, s.position) # LiveOf(e),
                    \A p \in LastBy(e, clock) : HasRow(e, p)
             PROVE  e \in FindChanged(s.tx)
  BY DEF ChangesAreFound
<1>1. s.position \in 0 .. Position /\ Position \in Nat
  BY DEF SnapInv, RowsBounded, TypeOK, Position
<1>2. PICK n \in s.position + 1 .. Position : n \in LastBy(e, clock)
  BY <1>1, LastChange
<1>3. n \in 1 .. Position /\ HasRow(e, n)
  BY <1>1, <1>2
<1>4. PICK r \in Current(e) : r.position >= n
  BY <1>3, LatestExists
<1>5. r \in rows /\ r.position \in 0 .. Position
  BY <1>4 DEF Current, LatestRow, SnapInv, RowsBounded
<1>6. ~ Later(s, r)
  BY <1>1, <1>2, <1>4, <1>5 DEF Later
<1> QED BY <1>4, <1>6 DEF FindChanged

\* An entity that differs from what it was at a transaction is among those that have
\* changed since, once the row of its last change is there: rows that were written
\* late or twice, or backfilled, or are of the same millisecond, hide none.
THEOREM NoChangeIsMissed == SnapSpec => []ChangesAreFound
<1> QED BY WritesInductive, ChangesFound, PTL

\* What is recorded at an instant is the content at the last position that had
\* happened by then.
LEMMA RecordedAtPosition ==
  ASSUME SnapInv, WritesInv, NEW e \in Entity, NEW t, NEW h \in 0 .. Position,
         \A p \in 1 .. Position : instants[p] <= t <=> p <= h, t \in Nat
  PROVE  Recorded(e, t) = StateAt(e, h)
<1>1. /\ Position \in Nat /\ instants \in Seq(Nat)
      /\ \A f \in facts : f.born \in 1 .. Position /\ f.died \in 0 .. Position
  BY DEF SnapInv, TypeOK, FactsBounded, Position
<1>2. \A p \in 1 .. Position : instants[p] \in Nat
  BY <1>1 DEF Position
<1>3. ASSUME NEW f \in facts
      PROVE  /\ instants[f.born] <= t <=> f.born <= h
             /\ f.died # 0 => (instants[f.died] > t <=> f.died > h)
  <2>1. f.born \in 1 .. Position /\ (f.died # 0 => f.died \in 1 .. Position)
    BY <1>1
  <2> QED BY <1>2, <2>1
<1>4. Recorded(e, t) = StateIn(facts, e, h)
  BY <1>3 DEF Recorded, StateIn
<1>5. CASE h = 0
  BY <1>1, <1>4, <1>5 DEF StateIn, StateAt
<1>6. CASE h # 0
  BY <1>1, <1>4, <1>6 DEF SnapInv, StatesAreFacts, StateAt
<1> QED BY <1>5, <1>6

LEMMA AsOfAgrees ==
  ASSUME SnapInv, WritesInv, NEW e \in Entity, NEW t \in 1 .. clock, NEW p \in LastBy(e, t),
         HasRow(e, p), NEW r \in AsOf(e, t)
  PROVE  r.content = Recorded(e, t)
<1>1. /\ Position \in Nat /\ MaxPosition \in Nat /\ Position <= MaxPosition /\ t \in Nat
      /\ p \in 1 .. Position /\ instants[p] <= t
      /\ \A q \in Changes(e) : instants[q] <= t => q <= p
  <2>1. Position \in Nat /\ MaxPosition \in Nat /\ Position <= MaxPosition /\ t \in Nat
    BY SnapshotAssumption DEF SnapInv, TypeOK, FactsBounded, Position
  <2>2. p \in 1 .. Position
    BY DEF LastBy, Changes
  <2> QED BY <2>1, <2>2 DEF LastBy
<1>2. PICK s \in rows : s.entity = e /\ s.tx = p
  BY DEF HasRow
<1>3. s.position = p /\ s.time = instants[p]
  BY <1>1, <1>2 DEF WritesInv, RowsTied
<1>4. r \in rows /\ r.entity = e /\ r.time <= t /\ Later(r, s)
  BY <1>1, <1>2, <1>3 DEF AsOf, LatestRow
<1>5. r.position \in p .. Position
  BY <1>1, <1>3, <1>4 DEF Later, SnapInv, RowsBounded
<1>6. r.time = instants[r.position] /\ r.content = StateAt(e, r.position)
  BY <1>1, <1>4, <1>5 DEF WritesInv, RowsTied, SnapInv, RowsAreExact
<1> DEFINE H == {q \in 1 .. Position : instants[q] <= t}
<1>7. PICK h \in H : \A q \in H : q <= h
  <2>1. H \in SUBSET (0 .. Position) /\ H # {}
    BY <1>1
  <2> HIDE DEF H
  <2> QED BY <1>1, <2>1, GreatestOf
<1>8. \A q \in 1 .. Position : instants[q] <= t <=> q <= h
  <2>1. \A q \in 1 .. Position : q <= h => instants[q] <= instants[h]
    BY <1>7 DEF WritesInv, InstantsInOrder
  <2>2. \A q \in 1 .. Position : instants[q] \in Nat
    BY DEF SnapInv, TypeOK, Position
  <2> QED BY <1>1, <1>7, <2>1, <2>2
<1>9. r.position \in 0 .. h /\ h \in 0 .. Position
  BY <1>1, <1>4, <1>5, <1>6, <1>7, <1>8
<1>10. StateAt(e, r.position) = StateAt(e, h)
  <2> SUFFICES ASSUME StateAt(e, r.position) # StateAt(e, h) PROVE FALSE
    OBVIOUS
  <2>1. PICK n \in r.position + 1 .. h : n \in Changes(e)
    BY <1>1, <1>9, LastDifference
  <2>2. n \in 1 .. Position /\ n <= h /\ n > p
    BY <1>1, <1>5, <1>9, <2>1
  <2> QED BY <1>1, <1>8, <2>1, <2>2
<1> QED BY <1>1, <1>6, <1>8, <1>9, <1>10, RecordedAtPosition

LEMMA CurrentAgrees ==
  ASSUME SnapInv, WritesInv, NEW e \in Entity, NEW p \in LastBy(e, clock),
         HasRow(e, p), NEW r \in Current(e)
  PROVE  r.content = LiveOf(e)
<1>1. /\ Position \in Nat /\ MaxPosition \in Nat /\ Position <= MaxPosition
      /\ p \in 1 .. Position
      /\ \A q \in Changes(e) : instants[q] <= clock => q <= p
  BY SnapshotAssumption DEF SnapInv, TypeOK, FactsBounded, Position, LastBy, Changes
<1>2. PICK s \in rows : s.entity = e /\ s.tx = p
  BY DEF HasRow
<1>3. s.position = p
  BY <1>1, <1>2 DEF WritesInv, RowsTied
<1>4. r \in rows /\ r.entity = e /\ Later(r, s)
  BY <1>2 DEF Current, LatestRow
<1>5. r.position \in p .. Position /\ r.content = StateAt(e, r.position)
  BY <1>1, <1>3, <1>4 DEF Later, SnapInv, RowsBounded, RowsAreExact
<1> SUFFICES ASSUME StateAt(e, r.position) # LiveOf(e) PROVE FALSE
  BY <1>5
<1>6. PICK n \in r.position + 1 .. Position : n \in LastBy(e, clock)
  BY <1>1, <1>5, LastChange
<1> QED BY <1>1, <1>5, <1>6 DEF LastBy

\* Once the last change at a time has its row, the snapshot as of that time is what
\* the bitemporal store shows then, and the current one is the live entity.
THEOREM SnapshotsAgree == SnapSpec => []SnapshotsAgreeWithStore
<1>1. SnapInv /\ WritesInv => SnapshotsAgreeWithStore
  BY AsOfAgrees, CurrentAgrees DEF SnapshotsAgreeWithStore
<1> QED BY <1>1, WritesInductive, PTL
=============================================================================
