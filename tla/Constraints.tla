----------------------------- MODULE Constraints -----------------------------
(***************************************************************************)
(* Graph constraints: enforced when a transaction commits, and evaluated   *)
(* over a basis by the configuration layer.                                *)
(*                                                                         *)
(* A transaction that asks for enforcement loads the facts that can matter *)
(* to its rules, projects its operations onto them and compares the two at *)
(* the boundaries of their valid intervals; only then does it write.  The  *)
(* body is serialised by its backend (TripleLog), so it is one step here,  *)
(* and recorded time plays no part: the facts are those live now.          *)
(***************************************************************************)
EXTENDS Integers, Sequences, FiniteSets

CONSTANTS
  GraphRule,        \* the rules of the configuration
  RuleSet,          \* the sets of rules a transaction may ask to be enforced
  Transaction,      \* the operations a transaction may have
  Instant,          \* the valid-time instants looked at
  MaxFactId         \* bound on the facts ever asserted

(* An interval with no end. *)
Endless == 99

(* An operation of a transaction. *)
IsOperation(o) ==
  \/ o.op = "assert" /\ o.validFrom \in Instant /\ o.validTo \in Instant \cup {Endless}
  \/ o.op = "retract" /\ o.id \in Nat
  \/ o.op = "retract-pattern" /\ DOMAIN o.pattern \subseteq {"entity", "attribute", "value", "type"}

ASSUME ConstraintsAssumption ==
  /\ Instant \subseteq 0 .. Endless - 1
  /\ MaxFactId \in Nat /\ RuleSet \subseteq SUBSET GraphRule
  /\ \A rule \in GraphRule : rule.tag \in {"Required", "Cardinality", "Unique", "ReferenceTarget"}
  /\ \A operations \in Transaction :
       /\ Len(operations) \in Nat /\ DOMAIN operations = 1 .. Len(operations)
       /\ \A i \in DOMAIN operations : IsOperation(operations[i])

VARIABLES
  graph,            \* the live facts of the store
  nextFactId,
  enforced,         \* the last enforced transaction: [before, rules, after, admitted]
  reported          \* the last evaluation at a basis: [validAt, violations]

graphVars == <<graph, nextFactId, enforced, reported>>

(* No type, no value.                                                      *)
Untyped == "untyped"
ValueMissing == <<"none", "none">>

LiveAt(fact, t) == fact.validFrom <= t /\ t < fact.validTo
AtInstant(facts, t) == {f \in facts : LiveAt(f, t)}
OfEntities(facts, ids) == {f \in facts : f.entity \in ids}
OfType(facts, type) == {f \in facts : f.type = type}
SubjectsOf(facts) == {f.entity : f \in facts}

-----------------------------------------------------------------------------
(* The evaluation of rules over a set of facts.  A violation names what it *)
(* is about and how much of it there is.                                   *)

Violation(rule, subject, value, actual) ==
  [rule |-> rule, subject |-> subject, value |-> value, actual |-> actual]

WithAttribute(facts, rule) == {f \in facts : f.attribute = rule.attribute}

CountOf(facts, rule, subject) ==
  Cardinality({f \in WithAttribute(facts, rule) : f.entity = subject})

Counted(facts, rule, subjects) ==
  {Violation(rule, s, ValueMissing, CountOf(facts, rule, s)) :
     s \in {s \in subjects : CASE rule.tag = "Required" -> CountOf(facts, rule, s) = 0
                               [] rule.tag = "Cardinality" -> CountOf(facts, rule, s) > rule.max}}

Claimants(facts, rule, value) ==
  SubjectsOf({f \in WithAttribute(facts, rule) : f.value = value})

Shared(facts, rule) ==
  LET values == {f.value : f \in WithAttribute(facts, rule)}
  IN  {Violation(rule, sv[1], sv[2], Cardinality(Claimants(facts, rule, sv[2]))) :
         sv \in {sv \in SubjectsOf(facts) \X values :
                   /\ sv[1] \in Claimants(facts, rule, sv[2])
                   /\ Cardinality(Claimants(facts, rule, sv[2])) > 1}}

IsReference(value) == value[1] = "ref"

DanglingTargets(facts, visible, rule) ==
  {Violation(rule, f.entity, f.value, 1) :
     f \in {f \in WithAttribute(facts, rule) :
              ~(IsReference(f.value) /\ f.value[2] \in SubjectsOf(OfType(visible, rule.target)))}}

TypedFacts(visible, rule) == OfEntities(visible, SubjectsOf(OfType(visible, rule.type)))

ViolationsOf(visible, rule) ==
  LET typed == TypedFacts(visible, rule)
  IN  CASE rule.tag \in {"Required", "Cardinality"} -> Counted(typed, rule, SubjectsOf(typed))
        [] rule.tag = "Unique" -> Shared(typed, rule)
        [] rule.tag = "ReferenceTarget" -> DanglingTargets(typed, visible, rule)

EvaluateFacts(facts, rules, validAt) ==
  UNION {ViolationsOf(AtInstant(facts, validAt), rule) : rule \in rules}

-----------------------------------------------------------------------------
(* The facts that can matter to a set of rules, as the loader finds them.  *)

\* Bug: the subjects that the transaction itself types are left out.
LoadRelevantFactsOfStored(facts, rules, operations) ==
  LET sourceTypes == {r.type : r \in rules}
      targetTypes == {r.target : r \in {r \in rules : r.tag = "ReferenceTarget"}}
      typed == {f \in facts : f.type \in sourceTypes}
  IN  typed \cup OfEntities(facts, SubjectsOf(typed)) \cup {f \in facts : f.type \in targetTypes}

LoadRelevantFacts(facts, rules, operations) ==
  LET sourceTypes == {r.type : r \in rules}
      targetTypes == {r.target : r \in {r \in rules : r.tag = "ReferenceTarget"}}
      typed == {f \in facts : f.type \in sourceTypes}
      asserted == {o \in {operations[i] : i \in DOMAIN operations} : o.op = "assert" /\ o.type \in sourceTypes}
      sources == SubjectsOf(typed) \cup SubjectsOf(asserted)
  IN  typed \cup OfEntities(facts, sources) \cup {f \in facts : f.type \in targetTypes}

-----------------------------------------------------------------------------
(* What a transaction leaves: the evaluator's projection, and the store.   *)

FitsPattern(fact, pattern) ==
  \A field \in DOMAIN pattern : pattern[field] = fact[field]

FactFrom(operation, id) ==
  [id |-> id, entity |-> operation.entity, attribute |-> operation.attribute,
   value |-> operation.value, type |-> operation.type,
   validFrom |-> operation.validFrom, validTo |-> operation.validTo]

(* An assertion pending in the projection has an id no operation can name. *)
ProjectOne(current, o, id) ==
  CASE o.op = "assert" -> current \cup {FactFrom(o, id)}
    [] o.op = "retract" -> {f \in current : f.id # o.id}
    [] OTHER -> {f \in current : ~FitsPattern(f, o.pattern)}

(* The facts after the first n operations. *)
Projections(current, operations) ==
  LET after[n \in 0 .. Len(operations)] ==
        IF n = 0 THEN current ELSE ProjectOne(after[n - 1], operations[n], -n)
  IN  after

Project(current, operations) == Projections(current, operations)[Len(operations)]

(* The store scans the index of the pattern's fields, keeps the facts with *)
(* its value, and leaves out those of another type itself.                 *)
Scanned(facts, pattern) ==
  {f \in facts : \A field \in DOMAIN pattern \ {"type"} : pattern[field] = f[field]}

CommitOne(now, o, id) ==
  CASE o.op = "assert" -> now \cup {FactFrom(o, id)}
    [] o.op = "retract" -> {f \in now : f.id # o.id}
    [] OTHER -> now \ {f \in Scanned(now, o.pattern) :
                         "type" \in DOMAIN o.pattern => o.pattern.type = f.type}

Commits(facts, operations, first) ==
  LET after[n \in 0 .. Len(operations)] ==
        IF n = 0 THEN facts ELSE CommitOne(after[n - 1], operations[n], first + n)
  IN  after

AfterOperations(facts, operations, first) ==
  Commits(facts, operations, first)[Len(operations)]

-----------------------------------------------------------------------------

Boundaries(facts) == {f.validFrom : f \in facts} \cup ({f.validTo : f \in facts} \ {Endless})

SameViolation(v, w) == v.rule = w.rule /\ v.subject = w.subject /\ v.value = w.value

(* What is violated and was not, or is violated more than it was.          *)
WorseThan(after, before) ==
  {v \in after : \A w \in before : SameViolation(v, w) => v.actual > w.actual}

NewlyViolated(current, operations, rules) ==
  LET projected == Project(current, operations)
      At(t) == WorseThan(EvaluateFacts(projected, rules, t), EvaluateFacts(current, rules, t))
  IN  IF rules = {} THEN {} ELSE UNION {At(t) : t \in Boundaries(current \cup projected)}

-----------------------------------------------------------------------------
(* The evaluation of the configuration layer: it matches the facts of a    *)
(* type at the basis, loads those entities, and then the targets they name.*)

ReportedSubjects(seen, rule) ==
  LET subjects == SubjectsOf(OfType(seen, rule.type))
      loaded == OfEntities(seen, subjects)
      named == WithAttribute(loaded, rule)
      targets == {f.value[2] : f \in {f \in named : IsReference(f.value)}}
      validTargets == {e \in targets : \E f \in seen : f.entity = e /\ f.type = rule.target}
      repeated == {v \in {f.value : f \in loaded} : Cardinality(Claimants(loaded, rule, v)) > 1}
  IN  CASE rule.tag = "Required" -> {s \in subjects : CountOf(loaded, rule, s) = 0}
        [] rule.tag = "Cardinality" -> {s \in subjects : CountOf(loaded, rule, s) > rule.max}
        [] rule.tag = "Unique" -> UNION {Claimants(loaded, rule, v) : v \in repeated}
        [] rule.tag = "ReferenceTarget" ->
             SubjectsOf({f \in named : IsReference(f.value) => f.value[2] \notin validTargets})

EvaluateAtBasis(facts, rules, validAt) ==
  UNION {{<<rule, s>> : s \in ReportedSubjects(AtInstant(facts, validAt), rule)} : rule \in rules}

-----------------------------------------------------------------------------

NoneEnforced == [before |-> {}, rules |-> {}, after |-> {}, admitted |-> TRUE]
NothingReported == [validAt |-> 0, violations |-> {}]

ConstraintsInit ==
  /\ graph = {} /\ nextFactId = 0
  /\ enforced = NoneEnforced /\ reported = NothingReported

(* A transaction: it commits unless enforcement finds something worse.  It *)
(* names ids that it has read.                                             *)
Enforce(operations, rules) ==
  LET after == AfterOperations(graph, operations, nextFactId)
      worse == NewlyViolated(LoadRelevantFacts(graph, rules, operations), operations, rules)
  IN  /\ nextFactId + Len(operations) <= MaxFactId
      /\ \A i \in DOMAIN operations :
           operations[i].op = "retract" => operations[i].id <= nextFactId
      /\ enforced' = [before |-> graph, rules |-> rules, after |-> after, admitted |-> worse = {}]
      /\ reported' = NothingReported
      /\ IF worse = {}
         THEN graph' = after /\ nextFactId' = nextFactId + Len(operations)
         ELSE UNCHANGED <<graph, nextFactId>>

Evaluate(validAt) ==
  /\ reported' = [validAt |-> validAt,
                  violations |-> EvaluateAtBasis(graph, GraphRule, validAt)]
  /\ enforced' = NoneEnforced
  /\ UNCHANGED <<graph, nextFactId>>

(* A transaction may retract a fact by the id it has read.                 *)
Retraction(id) == <<[op |-> "retract", id |-> id]>>

ConstraintsNext ==
  \/ \E rules \in RuleSet :
       \/ \E operations \in Transaction : Enforce(operations, rules)
       \/ \E f \in graph : Enforce(Retraction(f.id), rules)
  \/ \E t \in Boundaries(graph) : Evaluate(t)

ConstraintsSpec == ConstraintsInit /\ [][ConstraintsNext]_graphVars

-----------------------------------------------------------------------------
(* The configuration layer and the commit path read the rules in the same  *)
(* way: an evaluation at a basis reports the subjects that enforcement     *)
(* would have found violated then.                                         *)
EvaluationsAgree ==
  reported # NothingReported =>
    reported.violations
      = {<<v.rule, v.subject>> : v \in EvaluateFacts(graph, GraphRule, reported.validAt)}

(* At every instant, and over everything the store holds, an enforced      *)
(* transaction commits exactly when it violates no rule anew and none      *)
(* worse: the few facts that were loaded, their projection and the         *)
(* boundaries of the intervals miss nothing and invent nothing.  And what  *)
(* the configuration layer reports at a basis are the same violations.     *)
Worsens(e, t) ==
  \E v \in EvaluateFacts(e.after, e.rules, t) :
    \A w \in EvaluateFacts(e.before, e.rules, t) : SameViolation(v, w) => v.actual > w.actual

EnforcementIsExact ==
  /\ enforced # NoneEnforced =>
       (enforced.admitted <=> \A t \in Instant : ~Worsens(enforced, t))
  /\ EvaluationsAgree

=============================================================================
