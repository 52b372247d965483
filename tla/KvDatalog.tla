------------------------------ MODULE KvDatalog ------------------------------
(***************************************************************************)
(* The query engine of the key-value backends (kv/datalog): contexts bound *)
(* clause by clause through index scans.                                   *)
(*                                                                         *)
(* Contexts are a sequence, since aggregates count every one of them; an   *)
(* index scan yields its facts in some fixed order.  A scan is asked for   *)
(* here from the set of facts that are visible; what the ranges of keys    *)
(* hold is Hexastore's matter.                                             *)
(***************************************************************************)
EXTENDS DatalogQueries

CONSTANTS
  HashJoinFrom,    \* the contexts beyond which a pattern is joined by one scan (100)
  LikeMatches,     \* pairs <<text, pattern>> that LIKE matches
  ILikeMatches     \* the same for ILIKE

Bind(c, x, s) == [y \in DOMAIN c \cup {x} |-> IF y = x THEN s ELSE c[y]]
FlatMap(F(_), seq) == FlattenSeq([i \in DOMAIN seq |-> F(seq[i])])
\* The value of a term: nothing where a variable is not bound.
ResolveTerm(t, c) ==
  IF ~IsVariable(t) THEN t.value ELSE IF t.name \in DOMAIN c THEN c[t.name] ELSE NoValue

-----------------------------------------------------------------------------
\* Predicates (predicate.ts).

EvaluatePredicate(p, c) ==
  LET l == ResolveTerm(p.terms[1], c)  r == ResolveTerm(p.terms[2], c) IN
  /\ l # NoValue /\ r # NoValue
  /\ CASE p.op = "=" -> l = r
       [] p.op = "!=" -> l # r
       [] OTHER -> l.family = "number" /\ r.family = "number" /\ NumbersCompare(p.op, l.of, r.of)

FilterByPredicate(p, contexts) == SelectSeq(contexts, LAMBDA c : EvaluatePredicate(p, c))

-----------------------------------------------------------------------------
\* Patterns (pattern.ts).

\* MatchTerm: a context that agrees, extended, or none.  A ref constant is the stored type.
Agrees(t, s, c) == IF IsVariable(t) THEN t.name \in DOMAIN c => c[t.name] = s ELSE t.value = s
Extended(t, s, c) == IF IsVariable(t) /\ t.name \notin DOMAIN c THEN Bind(c, t.name, s) ELSE c

\* BindDatom: position by position, each with what the earlier ones have bound.
BindDatom(terms, f, c) ==
  FoldLeft(LAMBDA found, i :
             FlatMap(LAMBDA d :
                IF terms[i].tag = "ref"
                THEN IF f.value.type = "ref" /\ f.value.of = terms[i].value.of THEN <<d>> ELSE <<>>
                ELSE IF Agrees(terms[i], Parts(f)[i], d)
                     THEN <<Extended(terms[i], Parts(f)[i], d)>> ELSE <<>>, found),
           <<c>>, [i \in 1..Len(terms) |-> i])

Bound(t, c) == ~IsVariable(t) \/ t.name \in DOMAIN c

\* constantToScanValues: every stored encoding of a bare scalar, the one of a ref.
ScanTypes(t, c) ==
  IF t.tag = "ref" THEN <<"ref">>
  ELSE CASE ResolveTerm(t, c).family = "text" -> <<"string", "ref", "blob", "json">>
         [] ResolveTerm(t, c).family = "number" -> <<"number", "datetime">>
         [] OTHER -> <<"boolean">>

\* scanCollect: the facts of an exact pattern.  A number prints as the text of its digits.
Scan(facts, terms, c, types) ==
  SetToSeq({f \in facts :
    /\ Bound(terms[1], c) => f.entity = ResolveTerm(terms[1], c).of
    /\ Bound(terms[2], c) => f.attribute = ResolveTerm(terms[2], c).of
    /\ Bound(terms[3], c) => f.value.type \in types /\ f.value.of = ResolveTerm(terms[3], c).of})

NestedLoop(facts, terms, contexts) ==
  FlatMap(LAMBDA c :
    LET types == IF Bound(terms[3], c) THEN ScanTypes(terms[3], c) ELSE <<"any">> IN
    FlatMap(LAMBDA type : FlatMap(LAMBDA f : BindDatom(terms, f, c), Scan(facts, terms, c, {type})),
            types), contexts)

\* One scan of the attribute, looked up by the entity that each context has bound.
HashJoinable(terms, contexts) ==
  IsVariable(terms[1]) /\ terms[1].name \in DOMAIN contexts[1] /\ ~IsVariable(terms[2])
HashJoin(facts, terms, contexts) ==
  LET all == Scan(facts, <<Var(""), terms[2], Var("")>>, EmptyContext, {}) IN
  FlatMap(LAMBDA c : FlatMap(LAMBDA f : BindDatom(terms, f, c),
                             SelectSeq(all, LAMBDA f : f.entity = c[terms[1].name].of)), contexts)

ExecutePattern(facts, terms, contexts) ==
  IF Len(contexts) > HashJoinFrom /\ HashJoinable(terms, contexts)
  THEN HashJoin(facts, terms, contexts) ELSE NestedLoop(facts, terms, contexts)

-----------------------------------------------------------------------------
\* Not and or: filters of the incoming contexts (executor.ts).

InnerClausesMatch(facts, clauses, c) ==
  LET patterns == SelectSeq(clauses, LAMBDA k : ~IsPredicate(k))
      bound    == FoldLeft(LAMBDA contexts, k : ExecutePattern(facts, k.terms, contexts), <<c>>, patterns)
  IN FoldLeft(LAMBDA contexts, k : FilterByPredicate(k, contexts), bound, Predicates(clauses)) # <<>>

AlternativeMatches(facts, a, c) ==
  CASE IsPredicate(a) -> EvaluatePredicate(a, c)
    [] IsNot(a) -> ~InnerClausesMatch(facts, a.inner, c)
    [] OTHER -> ExecutePattern(facts, a.terms, <<c>>) # <<>>

ExecuteNot(facts, k, contexts) == SelectSeq(contexts, LAMBDA c : ~InnerClausesMatch(facts, k.inner, c))
ExecuteOr(facts, k, contexts) ==
  SelectSeq(contexts, LAMBDA c : \E a \in ToSet(k.inner) : AlternativeMatches(facts, a, c))

-----------------------------------------------------------------------------
\* Rules: pairs of texts, extended until nothing new is found.

RuleHead(r) ==
  LET firsts == SelectSeq([i \in DOMAIN r.body |->
                   IF IsRuleApplication(r.body[i]) THEN r.body[i].terms[2] ELSE r.body[i].terms[1]], IsVariable)
      lasts  == SelectSeq([i \in DOMAIN r.body |-> r.body[i].terms[3]], IsVariable)
  IN <<Head(firsts).name, Last(lasts).name>>

ApplyRulePairs(contexts, arguments, pairs) ==
  FlatMap(LAMBDA c : FlatMap(LAMBDA p :
     IF ~Agrees(arguments[1], Text(p[1]), c) THEN <<>>
     ELSE LET d == Extended(arguments[1], Text(p[1]), c) IN
          IF Agrees(arguments[2], Text(p[2]), d) THEN <<Extended(arguments[2], Text(p[2]), d)>> ELSE <<>>,
     pairs), contexts)

RuleBody(facts, r, pairs) ==
  FoldLeft(LAMBDA contexts, k : IF IsRuleApplication(k) THEN ApplyRulePairs(contexts, Arguments(k), pairs)
                                ELSE ExecutePattern(facts, k.terms, contexts),
           <<EmptyContext>>, r.body)

\* Only pairs of texts are kept.
Discovered(facts, r, pairs) ==
  {<<c[RuleHead(r)[1]].of, c[RuleHead(r)[2]].of>> :
     c \in {c \in ToSet(RuleBody(facts, r, pairs)) :
              c[RuleHead(r)[1]].family = "text" /\ c[RuleHead(r)[2]].family = "text"}}

\* A round looks at the pairs of the rounds before it; an empty one ends the search.
DeriveRulePairs(facts, q, name) ==
  LET rules == ToSet(Definitions(q, name))
      maxDepth == CHOOSE d \in {r.maxDepth : r \in rules} : \A r \in rules : r.maxDepth <= d
      found[depth \in 0..maxDepth] ==
        LET before == IF depth = 0 THEN <<>> ELSE found[depth - 1]
            new == (UNION {Discovered(facts, r, before) : r \in rules}) \ ToSet(before)
        IN before \o SetToSeq(new)
  IN found[maxDepth]

-----------------------------------------------------------------------------
\* The clauses of a where: positive relations first, whatever their order.

\* Bug: the clauses as they are written.
ExecutionOrderWritten(where) == where
ExecutionOrder(where) ==
  SelectSeq(where, IsPattern) \o SelectSeq(where, IsRuleApplication) \o SelectSeq(where, IsPredicate)
    \o SelectSeq(where, IsNot) \o SelectSeq(where, IsOr)

ExecuteClause(facts, q, k, contexts) ==
  CASE IsPredicate(k) -> FilterByPredicate(k, contexts)
    [] IsNot(k) -> ExecuteNot(facts, k, contexts)
    [] IsOr(k) -> ExecuteOr(facts, k, contexts)
    [] IsRuleApplication(k) ->
         ApplyRulePairs(contexts, Arguments(k), DeriveRulePairs(facts, q, AppliedRule(k)))
    [] OTHER -> ExecutePattern(facts, k.terms, contexts)

ExecuteWhere(facts, q) ==
  FoldLeft(LAMBDA contexts, k : ExecuteClause(facts, q, k, contexts),
           <<EmptyContext>>, ExecutionOrder(q.where))

-----------------------------------------------------------------------------
\* From contexts to rows: projection, aggregates, optional fields, order, cut.

Projected(find, c) ==
  [x \in {Column(t) : t \in ToSet(find)} |->
     ResolveTerm(CHOOSE t \in ToSet(find) : Column(t) = x, c)]
Distinct(rows) == SetToSeq(ToSet(rows))
Actualize(find, contexts) == Distinct([i \in DOMAIN contexts |-> Projected(find, contexts[i])])

SumOf(ns) == FoldLeft(LAMBDA a, b : a + b, 0, ns)
ComputeAggregate(op, values) ==
  LET numeric == SelectSeq(values, LAMBDA s : s.family = "number")
      ns == [i \in DOMAIN numeric |-> numeric[i].of]
  IN IF op = "count" THEN Number(Cardinality(ToSet(values)))
     ELSE IF ns = <<>> THEN NoValue
     ELSE CASE op = "sum" -> Number(SumOf(ns))
            [] op = "avg" -> Number(SumOf(ns) \div Len(ns))
            [] op = "min" -> Number(CHOOSE n \in ToSet(ns) : \A m \in ToSet(ns) : n <= m)
            [] op = "max" -> Number(CHOOSE n \in ToSet(ns) : \A m \in ToSet(ns) : n >= m)

\* Every context counts, equal ones too; no context at all is one group of an ungrouped query.
Aggregate(q, contexts) ==
  LET KeyOf(c) == [x \in GroupBy(q) |-> c[x]]
      keys == {KeyOf(c) : c \in ToSet(contexts)}
                \cup (IF contexts = <<>> /\ GroupBy(q) = {} THEN {EmptyContext} ELSE {})
      RowOf(key) ==
        LET group == SelectSeq(contexts, LAMBDA c : KeyOf(c) = key) IN
        [x \in GroupBy(q) \cup AggregateTargets(q) |->
           IF x \in GroupBy(q) THEN key[x]
           ELSE ComputeAggregate(SpecOf(q, x).op, [i \in DOMAIN group |-> group[i][SpecOf(q, x).source]])]
  IN SetToSeq({RowOf(key) : key \in keys})

\* hydrateOptionalProjection: the first fact of each field, of the entity the row names.
Hydrated(facts, q, row) ==
  LET entity == IF q.row \in DOMAIN row THEN row[q.row] ELSE NoValue
      FactsOf(a) == {f \in facts : f.entity = entity.of /\ f.attribute = a}
  IN [x \in DOMAIN row \cup OptionalTargets(q) |->
        IF x \in DOMAIN row /\ row[x] # NoValue THEN row[x]
        ELSE IF x \notin OptionalTargets(q) \/ entity.family # "text" \/ FactsOf(AttributeOf(q, x)) = {} THEN NoValue
        ELSE Flat((CHOOSE f \in FactsOf(AttributeOf(q, x)) : TRUE).value)]

\* comparePaginationValues: numbers, booleans, texts, nothing; a direction turns families round.
Category(s) ==
  CASE s.family = "number" -> 0 [] s.family = "boolean" -> 1 [] s.family = "text" -> 2 [] OTHER -> 3
Precedes(l, r, direction) ==
  \/ Category(l) < Category(r)
  \/ Category(l) = Category(r) /\ (IF direction = "desc" THEN l.of > r.of ELSE l.of < r.of)

RowPrecedes(orderBy, a, b) ==
  \E i \in DOMAIN orderBy :
     /\ Precedes(a[orderBy[i].variable], b[orderBy[i].variable], orderBy[i].direction)
     /\ \A j \in 1..(i - 1) : a[orderBy[j].variable] = b[orderBy[j].variable]
ApplyOrderBy(rows, orderBy) == SortSeq(rows, LAMBDA a, b : RowPrecedes(orderBy, a, b))

ResultRows(facts, q, contexts) ==
  LET found    == IF q.aggregate # <<>> THEN Aggregate(q, contexts) ELSE Actualize(q.find, contexts)
      hydrated == [i \in DOMAIN found |-> IF q.optional = <<>> THEN found[i] ELSE Hydrated(facts, q, found[i])]
      had      == FoldLeft(LAMBDA rows, p : FilterByPredicate(p, rows), hydrated, q.having)
  IN Slice(ApplyOrderBy(had, q.orderBy), q.limit, q.offset)

KvQuery(facts, q) == ResultRows(facts, q, ExecuteWhere(facts, q))

-----------------------------------------------------------------------------
\* Wrapped queries: filters of the result's columns, then the rows after a cursor.

CompareOrdered(l, r, op) ==
  l.family = r.family /\ l.family \in {"number", "text"} /\ NumbersCompare(op, l.of, r.of)

EvaluateWrapperFilter(row, f) ==
  LET s == row[f.column]  v == f.value IN
  IF f.op \in NullChecks THEN (s = NoValue) <=> f.op = "is-null"
  ELSE /\ s # NoValue
       /\ CASE f.op = "=" -> s = v
            [] f.op = "!=" -> s.family = v.family /\ s # v
            [] f.op \in Ordered -> CompareOrdered(s, v, f.op)
            [] f.op \in Like ->
                 /\ s.family = "text"
                 /\ (<<s.of, v.of>> \in IF f.op \in {"like", "not-like"} THEN LikeMatches ELSE ILikeMatches)
                      <=> f.op \in {"like", "ilike"}

\* Strictly after the cursor: a row equal to it has been returned.
AfterCursor(row, cursor, orderBy) ==
  \E i \in DOMAIN orderBy :
     /\ Precedes(cursor[i], row[orderBy[i].variable], orderBy[i].direction)
     /\ \A j \in 1..(i - 1) : row[orderBy[j].variable] = cursor[j]

KvWrappedRows(w, inner, cursor) ==
  LET filtered == FoldLeft(LAMBDA rows, f : SelectSeq(rows, LAMBDA r : EvaluateWrapperFilter(r, f)), inner, w.filters)
      ordered  == ApplyOrderBy(filtered, w.orderBy)
      rest     == IF cursor = NoCursor THEN ordered ELSE SelectSeq(ordered, LAMBDA r : AfterCursor(r, cursor, w.orderBy))
  IN [results |-> Slice(rest, w.limit, 0), count |-> Len(filtered)]
=============================================================================
