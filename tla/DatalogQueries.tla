--------------------------- MODULE DatalogQueries ---------------------------
(***************************************************************************)
(* Datalog queries: their clauses, what makes one valid, and the answer it *)
(* asks for, whatever the backend.                                         *)
(*                                                                         *)
(* Texts are numbered: entity ids, attributes, transaction ids and string  *)
(* payloads alike, since the engines compare them with one another.  A     *)
(* stored value is a type and a payload; a query sees the flattened scalar *)
(* of its family (strings, refs, blobs and JSON are one family of texts,   *)
(* numbers and datetimes one of numbers).  Queries are given as decoded    *)
(* records: the shape checks of the schema hold of every one of them.      *)
(***************************************************************************)
EXTENDS Integers, FiniteSets, Sequences, SequencesExt, Functions

CONSTANTS
  RuleName,        \* the texts that look like a rule name
  AttributeName    \* the texts that begin with a colon

ASSUME DatalogAssumption ==
  RuleName \subseteq Nat /\ AttributeName \subseteq Nat /\ RuleName \cap AttributeName = {}

-----------------------------------------------------------------------------
\* Values.

TextTypes == {"string", "ref", "blob", "json"}
NumberTypes == {"number", "datetime"}

Scalar(family, n) == [family |-> family, of |-> n]
Text(n) == Scalar("text", n)
Number(n) == Scalar("number", n)
NoValue == Scalar("null", 0)

\* tripleValueToConstant: the scalar a query sees of a stored value.
Flat(v) == Scalar(IF v.type \in TextTypes THEN "text"
                  ELSE IF v.type \in NumberTypes THEN "number" ELSE "boolean", v.of)

\* What the four positions of a pattern see of a fact.
Parts(f) == <<Text(f.entity), Text(f.attribute), Flat(f.value), Text(f.tx)>>

-----------------------------------------------------------------------------
\* Terms and clauses (schema.ts).

Term(tag, name, s) == [tag |-> tag, name |-> name, value |-> s]
Var(x) == Term("variable", x, NoValue)
Const(s) == Term("constant", "", s)
Ref(n) == Term("ref", "", Text(n))
IsVariable(t) == t.tag = "variable"

Clause(kind, op, terms, inner) == [kind |-> kind, op |-> op, terms |-> terms, inner |-> inner]
Relation(terms) == Clause("relation", "", terms, <<>>)
Predicate(op, l, r) == Clause("predicate", op, <<l, r>>, <<>>)
Not(inner) == Clause("not", "", <<>>, inner)
Or(alternatives) == Clause("or", "", <<>>, alternatives)

IsPredicate(c) == c.kind = "predicate"
IsNot(c) == c.kind = "not"
IsOr(c) == c.kind = "or"
NamesOne(t, names) == t.tag = "constant" /\ t.value.family = "text" /\ t.value.of \in names

\* A triple whose first term reads like a rule name, unless an attribute follows.
IsRuleApplication(c) ==
  /\ c.kind = "relation" /\ Len(c.terms) = 3
  /\ NamesOne(c.terms[1], RuleName) /\ ~NamesOne(c.terms[2], AttributeName)
IsPattern(c) == c.kind = "relation" /\ ~IsRuleApplication(c)
AppliedRule(c) == c.terms[1].value.of
Arguments(c) == <<c.terms[2], c.terms[3]>>

Patterns(cs) == SelectSeq(cs, IsPattern)
Applications(cs) == SelectSeq(cs, IsRuleApplication)
Predicates(cs) == SelectSeq(cs, IsPredicate)

VariablesIn(terms) == {t.name : t \in {t \in ToSet(terms) : IsVariable(t)}}
\* The variables that the value position of a pattern binds.
ValueVariables(cs) == UNION {VariablesIn(<<c.terms[3]>>) : c \in ToSet(Patterns(cs))}
RelationVariables(c) == IF IsPattern(c) THEN VariablesIn(c.terms) ELSE VariablesIn(Arguments(c))
PositiveBindings(cs) ==
  UNION {RelationVariables(c) : c \in ToSet(Patterns(cs)) \cup ToSet(Applications(cs))}
FindVariables(q) == VariablesIn(q.find)
AggregateTargets(q) == {q.aggregate[i].target : i \in DOMAIN q.aggregate}
AggregateSources(q) == {q.aggregate[i].source : i \in DOMAIN q.aggregate}
OptionalTargets(q) == {q.optional[i].variable : i \in DOMAIN q.optional}
Definitions(q, name) == SelectSeq(q.rules, LAMBDA r : r.name = name)
\* What an aggregated query groups by.
GroupBy(q) == FindVariables(q) \ (AggregateTargets(q) \cup AggregateSources(q) \cup OptionalTargets(q))
SpecOf(q, target) == q.aggregate[CHOOSE i \in DOMAIN q.aggregate : q.aggregate[i].target = target]
AttributeOf(q, x) == q.optional[CHOOSE i \in DOMAIN q.optional : q.optional[i].variable = x].attribute
\* A constant of find is a column of its own name.
Column(t) == IF IsVariable(t) THEN t.name ELSE ToString(t.value.of)

NumbersCompare(op, l, r) ==
  CASE op = ">" -> l > r [] op = ">=" -> l >= r [] op = "<" -> l < r [] op = "<=" -> l <= r
EmptyContext == [x \in {} |-> NoValue]
NoLimit == 0
NoCursor == <<>>
Slice(rows, limit, offset) ==
  SubSeq(rows, offset + 1, IF limit = NoLimit \/ offset + limit > Len(rows) THEN Len(rows) ELSE offset + limit)

-----------------------------------------------------------------------------
\* Validation (validation.ts).

Ordered == {">", ">=", "<", "<="}
IsNumeric(t, numeric) == IF IsVariable(t) THEN t.name \in numeric ELSE t.value.family = "number"

ValidPredicate(c, bound, numeric) ==
  /\ VariablesIn(c.terms) \subseteq bound
  /\ c.op \in Ordered => \A t \in ToSet(c.terms) : IsNumeric(t, numeric)

\* What a not binds is local to it.
ValidNot(c, bound, numeric) ==
  \A p \in ToSet(Predicates(c.inner)) :
     ValidPredicate(p, bound \cup UNION {VariablesIn(r.terms) : r \in ToSet(Patterns(c.inner))},
                    numeric \cup ValueVariables(c.inner))

ValidFilter(c, bound, numeric) ==
  \/ IsPattern(c)
  \/ IsPredicate(c) /\ ValidPredicate(c, bound, numeric)
  \/ IsNot(c) /\ ValidNot(c, bound, numeric)

\* [head, attribute, next] followed by [rule, next, tail], and nothing else.
ValidRecursion(body) ==
  /\ Len(body) = 2 /\ IsPattern(body[1]) /\ IsRuleApplication(body[2])
  /\ \A t \in {body[1].terms[1], body[1].terms[3], body[2].terms[2], body[2].terms[3]} : IsVariable(t)
  /\ body[1].terms[3] = body[2].terms[2]

ValidRule(r) ==
  LET patterns == Patterns(r.body) IN
  /\ patterns # <<>>
  /\ \A c \in ToSet(patterns) : Len(c.terms) = 3
  /\ IsVariable(Head(patterns).terms[1]) /\ IsVariable(Last(patterns).terms[3])
  /\ \A c \in ToSet(Applications(r.body)) : AppliedRule(c) = r.name
  /\ Applications(r.body) # <<>> => ValidRecursion(r.body)

ValidRules(q) ==
  /\ \A i \in DOMAIN q.rules : ValidRule(q.rules[i])
  /\ \A i \in DOMAIN q.rules : \E j \in DOMAIN q.rules :
        q.rules[j].name = q.rules[i].name /\ Applications(q.rules[j].body) = <<>>

ValidAggregates(q, bound) ==
  /\ AggregateSources(q) \subseteq bound
  /\ Cardinality(AggregateTargets(q)) = Len(q.aggregate)
  /\ AggregateTargets(q) \cap bound = {} /\ AggregateTargets(q) \subseteq FindVariables(q)

ValidOptional(q, bound) ==
  q.optional # <<>> =>
     /\ q.row \in bound
     /\ Cardinality(OptionalTargets(q)) = Len(q.optional)
     /\ OptionalTargets(q) \cap (bound \cup AggregateTargets(q)) = {}
     /\ OptionalTargets(q) \subseteq FindVariables(q)

\* An equality about an aggregate compares numbers.
ValidHaving(q, c, numeric) ==
  /\ VariablesIn(c.terms) \cap OptionalTargets(q) = {}
  /\ ValidPredicate(c, FindVariables(q), numeric)
  /\ \A i \in 1..2 : VariablesIn(<<c.terms[i]>>) \cap AggregateTargets(q) # {}
                        => IsNumeric(c.terms[3 - i], numeric)

ValidQuery(q) ==
  LET bound   == PositiveBindings(q.where)
      values  == ValueVariables(q.where)
      numeric == values \cup AggregateTargets(q) \cup OptionalTargets(q)
      variables == SelectSeq(q.find, IsVariable)
  IN /\ ValidRules(q)
     /\ \E c \in ToSet(q.where) : c.kind = "relation"
     /\ \A c \in ToSet(Applications(q.where)) : Definitions(q, AppliedRule(c)) # <<>>
     /\ \A c \in ToSet(q.where) :
           /\ IsPredicate(c) => ValidPredicate(c, bound, values)
           /\ IsNot(c) => ValidNot(c, bound, values)
           /\ IsOr(c) => c.inner # <<>> /\ \A a \in ToSet(c.inner) : ValidFilter(a, bound, values)
     /\ ValidAggregates(q, bound) /\ ValidOptional(q, bound)
     /\ Cardinality(FindVariables(q)) = Len(variables)
     /\ FindVariables(q) \subseteq (bound \cup AggregateTargets(q) \cup OptionalTargets(q))
     /\ FindVariables(q) \cap AggregateSources(q) = {}
     /\ q.having # <<>> => q.aggregate # <<>>
     /\ \A c \in ToSet(q.having) : ValidHaving(q, c, numeric)
     /\ \A i \in DOMAIN q.orderBy : q.orderBy[i].variable \in FindVariables(q)

-----------------------------------------------------------------------------
\* Filters of a wrapped query: a column, an operator and a scalar.

Like == {"like", "not-like", "ilike", "not-ilike"}
NullChecks == {"is-null", "is-not-null"}
ValidColumnFilter(q, f) ==
  /\ f.column \in FindVariables(q)
  /\ f.op \in NullChecks <=> f.value = NoValue
  /\ f.op \in Like => f.value.family = "text"
  /\ f.op \in Ordered => f.value.family \in {"number", "text"}
  /\ f.column \in AggregateTargets(q) /\ f.op \notin NullChecks => f.value.family = "number"

ValidWrapped(w) ==
  /\ ValidQuery(w.inner)
  /\ \A i \in DOMAIN w.filters : ValidColumnFilter(w.inner, w.filters[i])
  /\ \A i \in DOMAIN w.orderBy : w.orderBy[i].variable \in FindVariables(w.inner)

-----------------------------------------------------------------------------
\* The answer a query asks for: one choice of a fact for each pattern, and of a
\* derived pair for each application, that gives every variable one scalar.

Occurrences(terms, cells) ==
  {<<terms[i].name, cells[i]>> : i \in {i \in DOMAIN terms : IsVariable(terms[i])}}
Fits(terms, f) ==
  /\ \A i \in DOMAIN terms : ~IsVariable(terms[i]) => terms[i].value = Parts(f)[i]
  /\ \A i \in DOMAIN terms : terms[i].tag = "ref" => f.value.type = "ref"
IsBinding(pairs) == \A p, o \in pairs : p[1] = o[1] => p[2] = o[2]
BindingOf(pairs) == [x \in {p[1] : p \in pairs} |-> (CHOOSE p \in pairs : p[1] = x)[2]]

\* Bindings found by choosing one candidate for each list of terms.
ChoicesOf(candidates) ==
  LET chosen[n \in 0..Len(candidates)] ==
        IF n = 0 THEN {<<>>} ELSE {Append(cs, c) : cs \in chosen[n - 1], c \in candidates[n]}
  IN {cs \in chosen[Len(candidates)] : IsBinding(UNION {c.binds : c \in ToSet(cs)})}
PatternCandidates(facts, terms) ==
  {[binds |-> Occurrences(terms, Parts(f)), by |-> f] : f \in {f \in facts : Fits(terms, f)}}
BindingOfChoice(cs) == BindingOf(UNION {c.binds : c \in ToSet(cs)})

\* A pair is derived by a path of links from its first text to a base pair of its second.
RuleBase(facts, r) ==
  LET first == Head(SelectSeq(r.body, LAMBDA k : IsVariable(k.terms[1]))).terms[1].name
      last  == Last(SelectSeq(r.body, LAMBDA k : IsVariable(k.terms[3]))).terms[3].name
      found == ChoicesOf([i \in DOMAIN r.body |-> PatternCandidates(facts, r.body[i].terms)])
      pairs == {<<BindingOfChoice(cs)[first], BindingOfChoice(cs)[last]>> : cs \in found}
  IN {p \in pairs : p[1].family = "text" /\ p[2].family = "text"}
RulePairs(facts, q, name) ==
  LET rules == ToSet(Definitions(q, name))
      bases == {r \in rules : Applications(r.body) = <<>>}
      maxDepth == CHOOSE d \in {r.maxDepth : r \in rules} : \A r \in rules : r.maxDepth <= d
      links == {<<Text(f.entity), Flat(f.value)>> :
                  f \in {f \in facts : \E r \in rules \ bases : Fits(<<Var(""), r.body[1].terms[2], Var("")>>, f)}}
      within[n \in 0..maxDepth] ==
        IF n = 0 THEN UNION {RuleBase(facts, r) : r \in bases}
        ELSE within[n - 1] \cup {<<j[1][1], j[2][2]>> : j \in {j \in links \X within[n - 1] : j[1][2] = j[2][1]}}
  IN within[maxDepth]
ApplicationCandidates(facts, q, k) ==
  LET arguments == Arguments(k) IN
  {[binds |-> Occurrences(arguments, p), by |-> p] :
     p \in {p \in RulePairs(facts, q, AppliedRule(k)) :
              \A i \in 1..2 : ~IsVariable(arguments[i]) => arguments[i].value = p[i]}}

\* Whether a predicate, a not and an or hold of a binding; what no one binds holds of nothing.
Denotes(t, b) == IF ~IsVariable(t) THEN t.value ELSE IF t.name \in DOMAIN b THEN b[t.name] ELSE NoValue
HoldsOf(p, b) ==
  LET l == Denotes(p.terms[1], b)  r == Denotes(p.terms[2], b) IN
  /\ l # NoValue /\ r # NoValue
  /\ CASE p.op = "=" -> l = r
       [] p.op = "!=" -> l # r
       [] OTHER -> l.family = "number" /\ r.family = "number" /\ NumbersCompare(p.op, l.of, r.of)
SomeMatch(facts, clauses, b) ==
  LET patterns == SelectSeq(clauses, IsPattern)
      outer == {<<x, b[x]>> : x \in DOMAIN b}
  IN \E cs \in ChoicesOf([i \in DOMAIN patterns |-> PatternCandidates(facts, patterns[i].terms)]) :
       LET pairs == outer \cup UNION {c.binds : c \in ToSet(cs)} IN
       IsBinding(pairs) /\ \A p \in ToSet(Predicates(clauses)) : HoldsOf(p, BindingOf(pairs))
FilterOf(facts, k, b) ==
  CASE IsPredicate(k) -> HoldsOf(k, b)
    [] IsNot(k) -> ~SomeMatch(facts, k.inner, b)
    [] OTHER -> SomeMatch(facts, <<k>>, b)

Solutions(facts, q) ==
  LET ps == Patterns(q.where)  as == Applications(q.where)
      candidates == [i \in DOMAIN ps |-> PatternCandidates(facts, ps[i].terms)]
                      \o [i \in DOMAIN as |-> ApplicationCandidates(facts, q, as[i])]
  IN {cs \in ChoicesOf(candidates) :
        LET b == BindingOfChoice(cs) IN
        \A k \in ToSet(q.where) :
           /\ IsPredicate(k) \/ IsNot(k) => FilterOf(facts, k, b)
           /\ IsOr(k) => \E a \in ToSet(k.inner) : FilterOf(facts, a, b)}

\* An aggregate is over the choices: two that bind alike both count, but not for count.
AggregateOf(op, choices, x) ==
  LET ValueOf(cs) == BindingOfChoice(cs)[x]
      numbers == {cs \in choices : ValueOf(cs).family = "number"}
      ns == {ValueOf(cs).of : cs \in numbers}
      total == FoldLeft(LAMBDA n, cs : n + ValueOf(cs).of, 0, SetToSeq(numbers))
  IN IF op = "count" THEN Number(Cardinality({ValueOf(cs) : cs \in choices}))
     ELSE IF ns = {} THEN NoValue
     ELSE CASE op = "sum" -> Number(total)
            [] op = "avg" -> Number(total \div Cardinality(numbers))
            [] op = "min" -> Number(CHOOSE n \in ns : \A m \in ns : n <= m)
            [] op = "max" -> Number(CHOOSE n \in ns : \A m \in ns : n >= m)

\* The value of an optional field: nothing when the entity of the row has none.
OptionalOf(facts, q, b, x) ==
  LET found == {f \in facts : Text(f.entity) = b[q.row] /\ f.attribute = AttributeOf(q, x)}
  IN IF found = {} THEN NoValue ELSE Flat((CHOOSE f \in found : TRUE).value)

AnswerOf(facts, q) ==
  LET choices == Solutions(facts, q)
      KeyOf(cs) == [x \in GroupBy(q) |-> BindingOfChoice(cs)[x]]
      RowOf(key, group) ==
        [c \in {Column(t) : t \in ToSet(q.find)} |->
           IF c \in OptionalTargets(q) THEN OptionalOf(facts, q, key, c)
           ELSE IF c \in AggregateTargets(q) THEN AggregateOf(SpecOf(q, c).op, group, SpecOf(q, c).source)
           ELSE IF c \in DOMAIN key THEN key[c]
           ELSE (CHOOSE t \in ToSet(q.find) : Column(t) = c).value]
      rows == IF q.aggregate # <<>> /\ GroupBy(q) = {} THEN {RowOf(EmptyContext, choices)}
              ELSE {RowOf(KeyOf(cs), {other \in choices : KeyOf(other) = KeyOf(cs)}) : cs \in choices}
  IN {row \in rows : \A p \in ToSet(q.having) : HoldsOf(p, row)}

\* The order of results: numbers, booleans, texts, nothing; a direction turns each family round.
Rank(s) ==
  CASE s.family = "number" -> 0 [] s.family = "boolean" -> 1 [] s.family = "text" -> 2 [] OTHER -> 3
Sooner(l, r, direction) ==
  \/ Rank(l) < Rank(r)
  \/ Rank(l) = Rank(r) /\ (IF direction = "desc" THEN l.of > r.of ELSE l.of < r.of)
Ahead(orderBy, a, b) ==
  \E i \in DOMAIN orderBy :
     /\ Sooner(a[orderBy[i].variable], b[orderBy[i].variable], orderBy[i].direction)
     /\ \A j \in 1..(i - 1) : a[orderBy[j].variable] = b[orderBy[j].variable]

\* Rows that are the answer, each once, in the order and within the cut the query asks for.
IsTheAnswer(rows, answer, q) ==
  LET past == q.offset + (IF q.limit = NoLimit THEN Cardinality(answer) ELSE q.limit)
      end  == IF past > Cardinality(answer) THEN Cardinality(answer) ELSE past
  IN /\ ToSet(rows) \subseteq answer /\ Cardinality(ToSet(rows)) = Len(rows)
     /\ Len(rows) = IF end > q.offset THEN end - q.offset ELSE 0
     /\ \A i \in DOMAIN rows :
          /\ Cardinality({row \in answer : Ahead(q.orderBy, row, rows[i])}) < q.offset + i
          /\ Cardinality({row \in answer : ~Ahead(q.orderBy, rows[i], row)}) >= q.offset + i

\* The rows a wrapped query wants: a column with no value meets no comparison.
Meets(s, f) ==
  IF f.op \in NullChecks THEN (s = NoValue) <=> f.op = "is-null"
  ELSE /\ s.family = f.value.family
       /\ CASE f.op = "=" -> s = f.value
            [] f.op = "!=" -> s # f.value
            [] OTHER -> NumbersCompare(f.op, s.of, f.value.of)
Wanted(facts, w) ==
  {row \in AnswerOf(facts, w.inner) : \A i \in DOMAIN w.filters : Meets(row[w.filters[i].column], w.filters[i])}
=============================================================================
