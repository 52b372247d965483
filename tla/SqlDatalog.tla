------------------------------ MODULE SqlDatalog ------------------------------
(***************************************************************************)
(* The query engine of the SQL backends: one SELECT over a join of the     *)
(* triples, compiled from the query (datalog/compiler.ts, wrapper.ts), and *)
(* what the statement returns under SQLite.                                *)
(*                                                                         *)
(* A row of the join is the cells of each alias: one per pattern, then one *)
(* per rule application.  The guards that the compiler puts on value types *)
(* compare family with family, so an equality of cells is one of scalars.  *)
(* SQL's third truth value only reaches a HAVING over an aggregate of      *)
(* nothing and a filter of a null column; neither keeps its row.           *)
(***************************************************************************)
EXTENDS KvDatalog

Fails == <<"compilation failed">>

Relations(q) == Patterns(q.where) \o Applications(q.where)
TermsOf(k) == IF IsPattern(k) THEN k.terms ELSE Arguments(k)
Positions(ks) == {p \in (DOMAIN ks) \X (1..4) : p[2] <= Len(ks[p[1]])}
Before(p, o) == p[1] < o[1] \/ (p[1] = o[1] /\ p[2] < o[2])
\* Where a variable occurs in lists of terms, and the first and the last of the places.
Places(x, ks) == {p \in Positions(ks) : ks[p[1]][p[2]] = Var(x)}
FirstOf(ps) == CHOOSE p \in ps : \A o \in ps : p = o \/ Before(p, o)
LastOf(ps) == CHOOSE p \in ps : \A o \in ps : p = o \/ Before(o, p)

\* The path keeps rows of equal cells apart.
Alias(f) == [cells |-> Parts(f), type |-> f.value.type, path |-> <<f>>]
Cell(row, p) == row[p[1]].cells[p[2]]
MatchesConstant(t, row, p) ==
  IF t.tag = "ref" THEN row[p[1]].type = "ref" /\ Cell(row, p) = t.value ELSE Cell(row, p) = t.value

-----------------------------------------------------------------------------
\* Rules: a recursive table with a row for every derivation.

\* compileRuleDefinition: the distinct pairs of a definition without recursion.
BasePairs(facts, r) ==
  LET terms == [i \in DOMAIN r.body |-> r.body[i].terms]
      x == Head(SelectSeq([i \in DOMAIN terms |-> terms[i][1]], IsVariable)).name
      y == Last(SelectSeq([i \in DOMAIN terms |-> terms[i][3]], IsVariable)).name
      Joined(row) == \A p \in Positions(terms) :
         LET t == terms[p[1]][p[2]] IN
         IF IsVariable(t) THEN /\ Cell(row, p) = Cell(row, FirstOf(Places(t.name, terms)))
                               /\ p[2] = 3 => row[p[1]].type \in TextTypes
         ELSE MatchesConstant(t, row, p)
  IN {<<Cell(row, FirstOf(Places(x, terms))), Cell(row, FirstOf(Places(y, terms)))>> :
        row \in {row \in [DOMAIN terms -> {Alias(f) : f \in facts}] : Joined(row)}}

\* compileRecursiveCTE: its recursive member reads the attribute and the link alone.
Extends(f, r, row) ==
  /\ f.value.type \in TextTypes
  /\ ~IsVariable(r.body[1].terms[2]) => Text(f.attribute) = r.body[1].terms[2].value
  /\ Flat(f.value) = row.cells[1]

\* A row carries the path that derived it: UNION ALL keeps the derivations apart.
RuleRows(facts, q, name) ==
  LET rules == Definitions(q, name)
      base == {i \in DOMAIN rules : Applications(rules[i].body) = <<>>}
      maxDepth == CHOOSE d \in {rules[i].maxDepth : i \in DOMAIN rules} : \A i \in DOMAIN rules : rules[i].maxDepth <= d
      Rows[depth \in 0..maxDepth] ==
        IF depth = 0 THEN UNION {{[cells |-> pair, type |-> "ref", path |-> <<i>>] : pair \in BasePairs(facts, rules[i])} : i \in base}
        ELSE UNION {{[cells |-> <<Text(f.entity), row.cells[2]>>, type |-> "ref", path |-> <<f, i>> \o row.path] :
                       f \in {f \in facts : Extends(f, rules[i], row)}} :
                    row \in Rows[depth - 1], i \in DOMAIN rules \ base}
  IN UNION {Rows[depth] : depth \in 0..maxDepth}

-----------------------------------------------------------------------------
\* WHERE: joins, predicates, NOT EXISTS, OR.

TermLists(q) == [i \in DOMAIN Relations(q) |-> TermsOf(Relations(q)[i])]
BoundAt(q, x) == FirstOf(Places(x, TermLists(q)))
Joins(facts, q) ==
  LET ks == Relations(q)
      Table(i) == IF IsPattern(ks[i]) THEN {Alias(f) : f \in facts} ELSE RuleRows(facts, q, AppliedRule(ks[i]))
      row[n \in 0..Len(ks)] ==
        IF n = 0 THEN {<<>>} ELSE {Append(rs, a) : rs \in row[n - 1], a \in Table(n)}
  IN {rs \in row[Len(ks)] : \A p \in Positions(TermLists(q)) :
        LET t == TermLists(q)[p[1]][p[2]] IN
        IF IsVariable(t) THEN Cell(rs, p) = Cell(rs, BoundAt(q, t.name)) ELSE MatchesConstant(t, rs, p)}

\* A term of a predicate: a constant, or the cell of its binding.
Operand(t, cells) == IF IsVariable(t) THEN cells[t.name] ELSE t.value
PredicateCondition(p, cells) ==
  LET l == Operand(p.terms[1], cells)  r == Operand(p.terms[2], cells) IN
  CASE p.op = "=" -> l = r
    [] p.op = "!=" -> l # r
    [] OTHER -> l.family = "number" /\ r.family = "number" /\ NumbersCompare(p.op, l.of, r.of)

Outer(q, row, x) == Cell(row, BoundAt(q, x))

\* Bug: a variable that only the not binds is not joined.
LocalJoinOuter(q, row, terms, locals) ==
  \A p \in Positions(terms) :
     LET t == terms[p[1]][p[2]] IN
     IF ~IsVariable(t) THEN MatchesConstant(t, locals, p)
     ELSE Places(t.name, TermLists(q)) # {} => Cell(locals, p) = Outer(q, row, t.name)
\* compileNotPattern: a variable meets its last place within the not, else the outer one.
LocalJoin(q, row, terms, locals) ==
  \A p \in Positions(terms) :
     LET t == terms[p[1]][p[2]]
         earlier == {o \in Places(t.name, terms) : Before(o, p)}
     IN IF ~IsVariable(t) THEN MatchesConstant(t, locals, p)
        ELSE IF earlier # {} THEN Cell(locals, p) = Cell(locals, LastOf(earlier))
        ELSE Places(t.name, TermLists(q)) # {} => Cell(locals, p) = Outer(q, row, t.name)

ExistsWithin(facts, q, row, inner) ==
  LET patterns == SelectSeq(inner, LAMBDA k : ~IsPredicate(k))
      terms == [i \in DOMAIN patterns |-> patterns[i].terms]
  IN \E locals \in [DOMAIN terms -> {Alias(f) : f \in facts}] :
       /\ LocalJoin(q, row, terms, locals)
       /\ \A p \in ToSet(Predicates(inner)) :
            PredicateCondition(p, [x \in VariablesIn(p.terms) |->
              IF Places(x, terms) # {} THEN Cell(locals, LastOf(Places(x, terms))) ELSE Outer(q, row, x)])

Condition(facts, q, row, k) ==
  LET Holds(p) == PredicateCondition(p, [x \in VariablesIn(p.terms) |-> Outer(q, row, x)]) IN
  CASE IsPredicate(k) -> Holds(k)
    [] IsNot(k) -> ~ExistsWithin(facts, q, row, k.inner)
    [] IsOr(k) -> \E a \in ToSet(k.inner) :
                     CASE IsPredicate(a) -> Holds(a)
                       [] IsNot(a) -> ~ExistsWithin(facts, q, row, a.inner)
                       [] OTHER -> ExistsWithin(facts, q, row, <<a>>)
    [] OTHER -> TRUE

WhereRows(facts, q) ==
  {row \in Joins(facts, q) : \A k \in ToSet(q.where) : Condition(facts, q, row, k)}

-----------------------------------------------------------------------------
\* SELECT DISTINCT, GROUP BY, HAVING, ORDER BY, LIMIT.

\* A value is projected by family; a rule argument or an identity as it is.
IsValueColumn(q, x) ==
  \/ x \in OptionalTargets(q)
  \/ x \notin AggregateTargets(q) /\ BoundAt(q, x)[2] = 3 /\ IsPattern(Relations(q)[BoundAt(q, x)[1]])

\* The column an aggregate reads: no number is NULL, and a text that is no number counts as 0.
NumericCell(q, x, s) ==
  IF ~IsValueColumn(q, x) THEN Number(0) ELSE IF s.family = "number" THEN s ELSE NoValue

\* cells: the source column of each row of the group.
SqlAggregate(op, q, x, cells) ==
  LET numbered == {row \in DOMAIN cells : NumericCell(q, x, cells[row]) # NoValue}
      numbers  == [row \in numbered |-> NumericCell(q, x, cells[row]).of]
      ns       == {numbers[row] : row \in numbered}
      total    == FoldFunction(LAMBDA n, sum : n + sum, 0, numbers)
  IN IF op = "count" THEN Number(Cardinality({cells[row] : row \in DOMAIN cells}))
     ELSE IF ns = {} THEN NoValue
     ELSE CASE op = "sum" -> Number(total)
            [] op = "avg" -> Number(total \div Cardinality(numbered))
            [] op = "min" -> Number(CHOOSE n \in ns : \A m \in ns : n <= m)
            [] op = "max" -> Number(CHOOSE n \in ns : \A m \in ns : n >= m)

\* The subquery of an optional field; a JSON text names no entity.
OptionalCell(facts, q, row, x) ==
  LET at == BoundAt(q, q.row)
      found == {f \in facts : /\ Text(f.entity) = Cell(row, at) /\ f.attribute = AttributeOf(q, x)
                              /\ at[2] = 3 => row[at[1]].type # "json"}
  IN IF found = {} THEN NoValue ELSE Flat((CHOOSE f \in found : TRUE).value)

Selected(facts, q, row, x) ==
  IF x \in OptionalTargets(q) THEN OptionalCell(facts, q, row, x) ELSE Outer(q, row, x)

PlainRows(facts, q, rows) ==
  {[c \in {Column(t) : t \in ToSet(q.find)} |->
      LET t == CHOOSE t \in ToSet(q.find) : Column(t) = c IN
      IF IsVariable(t) THEN Selected(facts, q, row, c) ELSE t.value] : row \in rows}

\* GROUP BY: a key and the rows that have it; without one, all the rows.
GroupKeys(q) == GroupBy(q) \cup OptionalTargets(q)
Groups(facts, q, rows) ==
  LET keyOf == [row \in rows |-> [x \in GroupKeys(q) |-> Selected(facts, q, row, x)]] IN
  IF GroupBy(q) = {} THEN {[key |-> [x \in GroupKeys(q) |-> NoValue], rows |-> rows]}
  ELSE {[key |-> keyOf[row], rows |-> {other \in rows : keyOf[other] = keyOf[row]}] : row \in rows}

GroupedRows(q, groups) ==
  LET constants == {t \in ToSet(q.find) : ~IsVariable(t)} IN
  {[c \in GroupKeys(q) \cup AggregateTargets(q) \cup {Column(t) : t \in constants} |->
      IF c \in GroupKeys(q) THEN g.key[c]
      ELSE IF c \in AggregateTargets(q)
        THEN SqlAggregate(SpecOf(q, c).op, q, SpecOf(q, c).source,
                          [row \in g.rows |-> Outer(q, row, SpecOf(q, c).source)])
      ELSE (CHOOSE t \in constants : Column(t) = c).value] : g \in groups}

\* HAVING: about an aggregate, operands are numbers; one that is NULL decides nothing.
HavingHolds(q, row, p) ==
  LET l == Operand(p.terms[1], row)  r == Operand(p.terms[2], row)
      aggregate == VariablesIn(p.terms) \cap AggregateTargets(q) # {}
      Numeric(t, s) == s.family = "number" \/ (IsVariable(t) /\ t.name \in AggregateTargets(q))
  IN IF p.op \in Ordered \/ aggregate
     THEN IF ~Numeric(p.terms[1], l) \/ ~Numeric(p.terms[2], r) THEN p.op = "!="
          ELSE l # NoValue /\ r # NoValue /\ PredicateCondition(p, row)
     ELSE PredicateCondition(p, row)

\* A value column sorts by family and has its NULLs last; SQLite puts any other NULL first.
SqlPrecedes(q, x, l, r, direction) ==
  IF ~IsValueColumn(q, x) /\ l # r /\ NoValue \in {l, r}
  THEN (l = NoValue) <=> direction = "asc"
  ELSE Precedes(l, r, direction)
SqlOrder(q, rows) ==
  SortSeq(SetToSeq(rows), LAMBDA a, b :
    \E i \in DOMAIN q.orderBy :
       LET x == q.orderBy[i].variable IN
       /\ SqlPrecedes(q, x, a[x], b[x], q.orderBy[i].direction)
       /\ \A j \in 1..(i - 1) : a[q.orderBy[j].variable] = b[q.orderBy[j].variable])

FoundRows(facts, q, rows) ==
  IF q.aggregate # <<>> THEN GroupedRows(q, Groups(facts, q, rows)) ELSE PlainRows(facts, q, rows)
Returned(q, found) ==
  Slice(SqlOrder(q, {row \in found : \A p \in ToSet(q.having) : HavingHolds(q, row, p)}), q.limit, q.offset)
SqlQuery(facts, q) == Returned(q, FoundRows(facts, q, WhereRows(facts, q)))

-----------------------------------------------------------------------------
\* Wrapped queries (wrapper.ts).  Its inner query is compiled without rules.

\* On a column of no family SQLite compares raw: a text is greater than any number.
RawCompare(op, s, v) ==
  IF op = "=" THEN s = v ELSE IF op = "!=" THEN s # v
  ELSE IF s.family = v.family THEN NumbersCompare(op, s.of, v.of)
  ELSE (op \in {">", ">="}) <=> s.family = "text"

FilterHolds(q, row, f) ==
  LET s == row[f.column]  v == f.value IN
  IF f.op \in NullChecks THEN (s = NoValue) <=> f.op = "is-null"
  ELSE /\ s # NoValue
       /\ IF f.op \in Like
          THEN s.family = "text" /\ ((<<s.of, v.of>> \in ILikeMatches) <=> f.op \in {"like", "ilike"})
          ELSE (IsValueColumn(q, f.column) => s.family = v.family) /\ RawCompare(f.op, s, v)

\* sortComponents: what a column sorts by, of a row or of a cursor; NULL is <<>>.
Components(q, x, s) ==
  LET If(family) == IF s.family = family THEN <<s.of>> ELSE <<>> IN
  IF IsValueColumn(q, x) THEN <<<<Category(s)>>, If("number"), If("boolean"), If("text")>>
  ELSE <<<<IF s = NoValue THEN 1 ELSE 0>>, IF s = NoValue THEN <<>> ELSE <<s.of>>>>
Directions(q, x, direction) ==
  IF IsValueColumn(q, x) THEN <<"asc", direction, direction, direction>> ELSE <<"asc", direction>>

SortKey(w, values) ==
  FlattenSeq([i \in DOMAIN w.orderBy |-> Components(w.inner, w.orderBy[i].variable, values[i])])
SortDirections(w) ==
  FlattenSeq([i \in DOMAIN w.orderBy |-> Directions(w.inner, w.orderBy[i].variable, w.orderBy[i].direction)])
RowKey(w, row) == SortKey(w, [i \in DOMAIN w.orderBy |-> row[w.orderBy[i].variable]])

\* compileKeysetClause: equal so far, then past the cursor; a NULL of the cursor has no successor.
KeysetHolds(w, row, cursor) ==
  LET key == RowKey(w, row)  from == SortKey(w, cursor)  directions == SortDirections(w) IN
  \E i \in DOMAIN from :
     /\ from[i] # <<>> /\ key[i] # <<>>
     /\ IF directions[i] = "asc" THEN key[i][1] > from[i][1] ELSE key[i][1] < from[i][1]
     /\ \A j \in 1..(i - 1) : key[j] = from[j]

KeyPrecedes(w, a, b) ==
  LET ka == RowKey(w, a)  kb == RowKey(w, b) IN
  \E i \in DOMAIN ka :
     /\ ka[i] # <<>> /\ kb[i] # <<>>
     /\ IF SortDirections(w)[i] = "asc" THEN ka[i][1] < kb[i][1] ELSE ka[i][1] > kb[i][1]
     /\ \A j \in 1..(i - 1) : ka[j] = kb[j]

FilteredRows(w, rows) ==
  {row \in rows : \A i \in DOMAIN w.filters : FilterHolds(w.inner, row, w.filters[i])}
RowsPast(w, cursor, rows) ==
  {row \in rows : (cursor # NoCursor /\ w.orderBy # <<>>) => KeysetHolds(w, row, cursor)}
SqlPageRows(facts, w, cursor) ==
  IF Applications(w.inner.where) # <<>> THEN Fails
  ELSE Slice(SortSeq(SetToSeq(RowsPast(w, cursor, FilteredRows(w, ToSet(SqlQuery(facts, w.inner))))),
                     LAMBDA a, b : KeyPrecedes(w, a, b)), w.limit, 0)
=============================================================================
