------------------------------ MODULE QueryPages ------------------------------
(***************************************************************************)
(* Datalog reads of a store that goes on committing: a query, and a        *)
(* wrapped query read page by page behind cursors (Pagination.ts, the      *)
(* queryPage of both layers).                                              *)
(*                                                                         *)
(* The first page reads the commit position and pins it in the cursor; a   *)
(* later one takes it from there.  The key-value engine reads clause by    *)
(* clause, and commits may fall between two clauses; the SQL engine reads  *)
(* in one statement.  Instants are commit positions here: what a clock may *)
(* do to them is KvTriples' and SqlTriples' matter.                        *)
(***************************************************************************)
EXTENDS SqlDatalog

CONSTANTS
  QpFacts,        \* what may be asserted: entity, attribute and value
  QpQueries,      \* queries
  QpPaged,        \* wrapped queries, with limits
  QpPast,         \* whether a first page may ask for an earlier instant
  QpMaxPosition   \* bound: commit positions

ASSUME QueryPagesAssumption == QpMaxPosition \in Nat

VARIABLES
  qpFacts,      \* the stored facts: tx, recorded and retracted positions
  qpPosition,   \* the current commit position
  qpAsked,      \* what is read: a query, or pages by an engine
  qpAt,         \* where the reader is: idle (before a page), reading, done
  qpClause,     \* how many clauses the contexts have been through
  qpBasis,      \* the cut of the pages, kept in the cursor
  qpContexts,   \* the contexts of the key-value engine so far
  qpCursor,     \* the values of the cursor
  qpRows        \* the rows of the pages returned
qpVars == <<qpFacts, qpPosition, qpAsked, qpAt, qpClause, qpBasis, qpContexts, qpCursor, qpRows>>

Never == QpMaxPosition + 1
\* A transaction entity is a text of its own.
TxOf(position) == 1000 + position
FactOf(f, position) == [entity |-> f.entity, attribute |-> f.attribute, value |-> f.value,
                        tx |-> TxOf(position), recorded |-> position, retracted |-> Never]
\* Bug: the basis is forgotten.
VisibleNow(facts, basis) == {f \in facts : f.retracted = Never}
\* visibleAt, applyTemporalBasis: a recorded position is preferred to an instant.
VisibleAt(facts, basis) ==
  LET cut == IF basis.position # Never THEN basis.position ELSE basis.recordedAt IN
  {f \in facts : f.recorded <= cut /\ f.retracted > cut}
CurrentFacts(facts) == {f \in facts : f.retracted = Never}

-----------------------------------------------------------------------------
\* Pagination.ts.

\* normalizePaginationOrder: the caller's order, then the projected variables it leaves out.
Projection(q) == SelectSeq(q.find, IsVariable)
NormalizedOrder(w) ==
  LET asked == FoldLeft(LAMBDA order, o : IF \E i \in DOMAIN order : order[i].variable = o.variable
                                          THEN order ELSE Append(order, o), <<>>, w.orderBy)
      rest  == SelectSeq(Projection(w.inner), LAMBDA t : ~\E i \in DOMAIN asked : asked[i].variable = t.name)
  IN asked \o [i \in DOMAIN rest |-> [variable |-> rest[i].name, direction |-> "asc"]]

\* preparePagination: one row more than the page, under the basis of the cursor.
PreparedQuery(w) == [w EXCEPT !.orderBy = NormalizedOrder(w), !.limit = w.limit + 1]
ResolvedBasis(recordedAt, position) ==
  [recordedAt |-> IF recordedAt = Never THEN position ELSE recordedAt, position |-> position]

\* finishPagination: the row too many only says that there is a next page.
PageOf(w, results) == Slice(results, w.limit, 0)
NextCursor(w, results) ==
  IF Len(results) <= w.limit THEN NoCursor
  ELSE [i \in DOMAIN NormalizedOrder(w) |-> results[w.limit][NormalizedOrder(w)[i].variable]]

-----------------------------------------------------------------------------

NoBasis == [recordedAt |-> Never, position |-> Never]
QpAsking(kind, engine, q, w, recordedAt) ==
  [kind |-> kind, engine |-> engine, query |-> q, wrapped |-> w, recordedAt |-> recordedAt]
NoWrapped == [inner |-> 0, filters |-> <<>>, orderBy |-> <<>>, limit |-> NoLimit]

QpInit ==
  /\ qpFacts \in {{FactOf(f, 0) : f \in fs} : fs \in SUBSET QpFacts}
  /\ qpPosition = 0
  /\ \/ \E q \in QpQueries : ValidQuery(q) /\ qpAsked = QpAsking("query", "both", q, NoWrapped, Never)
     \/ \E w \in QpPaged, engine \in {"kv", "sql"}, recordedAt \in {Never} \cup (IF QpPast THEN {0} ELSE {}) :
           ValidWrapped(w) /\ qpAsked = QpAsking("pages", engine, w.inner, w, recordedAt)
  /\ qpAt = "idle" /\ qpClause = 0 /\ qpBasis = NoBasis /\ qpContexts = <<>> /\ qpCursor = NoCursor /\ qpRows = <<>>

\* A commit asserts a fact, or retracts one.
QpCommit ==
  /\ qpPosition < QpMaxPosition
  /\ qpPosition' = qpPosition + 1
  /\ \/ \E f \in QpFacts :
          /\ \A g \in CurrentFacts(qpFacts) : <<g.entity, g.attribute, g.value>> # <<f.entity, f.attribute, f.value>>
          /\ qpFacts' = qpFacts \cup {FactOf(f, qpPosition + 1)}
     \/ \E f \in CurrentFacts(qpFacts) :
          qpFacts' = (qpFacts \ {f}) \cup {[f EXCEPT !.retracted = qpPosition + 1]}
  /\ UNCHANGED <<qpAsked, qpAt, qpClause, qpBasis, qpContexts, qpCursor, qpRows>>

\* Bug: each page is pinned anew.
QpPrepareAnew ==
  /\ qpAsked.kind = "pages" /\ qpAt = "idle"
  /\ qpBasis' = ResolvedBasis(qpAsked.recordedAt, qpPosition)
  /\ qpContexts' = <<EmptyContext>> /\ qpClause' = 0 /\ qpAt' = "reading"
  /\ UNCHANGED <<qpFacts, qpPosition, qpAsked, qpCursor, qpRows>>
\* queryPage: the position is read before the rows; a cursor brings its own.
QpPrepare ==
  /\ qpAsked.kind = "pages" /\ qpAt = "idle"
  /\ qpBasis' = IF qpCursor = NoCursor THEN ResolvedBasis(qpAsked.recordedAt, qpPosition) ELSE qpBasis
  /\ qpContexts' = <<EmptyContext>> /\ qpClause' = 0 /\ qpAt' = "reading"
  /\ UNCHANGED <<qpFacts, qpPosition, qpAsked, qpCursor, qpRows>>

QpRequest == PreparedQuery(qpAsked.wrapped)
QpClauses == ExecutionOrder(qpAsked.query.where)
QpVisible == VisibleAt(qpFacts, qpBasis)
QpFinish(page) ==
  /\ qpRows' = qpRows \o PageOf(qpAsked.wrapped, page)
  /\ qpCursor' = NextCursor(qpAsked.wrapped, page)
  /\ qpAt' = IF qpCursor' = NoCursor THEN "done" ELSE "idle"
  /\ qpContexts' = <<>> /\ qpClause' = 0
  /\ UNCHANGED <<qpFacts, qpPosition, qpAsked, qpBasis>>

\* executeWrappedQuery: every scan of a page is under the basis of the cursor.
QpKvClause ==
  /\ qpAsked.engine = "kv" /\ qpAt = "reading" /\ qpClause < Len(QpClauses)
  /\ qpContexts' = ExecuteClause(QpVisible, qpAsked.query, QpClauses[qpClause + 1], qpContexts)
  /\ qpClause' = qpClause + 1
  /\ UNCHANGED <<qpFacts, qpPosition, qpAsked, qpAt, qpBasis, qpCursor, qpRows>>

QpKvFinish ==
  /\ qpAsked.engine = "kv" /\ qpAt = "reading" /\ qpClause = Len(QpClauses)
  /\ QpFinish(KvWrappedRows(QpRequest, ResultRows(QpVisible, qpAsked.query, qpContexts), qpCursor).results)

\* executePage: one statement.
QpSqlFinish ==
  /\ qpAsked.engine = "sql" /\ qpAt = "reading"
  /\ QpFinish(SqlPageRows(QpVisible, QpRequest, qpCursor))

QpReads == QpPrepare \/ QpKvClause \/ QpKvFinish \/ QpSqlFinish
QpNext == QpCommit \/ QpReads
QpSpec == QpInit /\ [][QpNext]_qpVars

-----------------------------------------------------------------------------
\* Properties.

\* Whatever has been asserted and retracted, the key-value engine returns the answer
\* of the query, each row once, sorted as it asks: its scans by encoded value, its hash
\* join, its not and or as filters and its rounds of rules lose nothing and add nothing
\* (executor.ts).
KvAnswersExactly ==
  qpAsked.kind = "query" =>
    IsTheAnswer(KvQuery(CurrentFacts(qpFacts), qpAsked.query), AnswerOf(CurrentFacts(qpFacts), qpAsked.query),
                qpAsked.query)

\* The same of the compiled SELECT: its joins, type guards, NOT EXISTS, recursive table,
\* GROUP BY and HAVING (compiler.ts).
SqlAnswersExactly ==
  qpAsked.kind = "query" =>
    IsTheAnswer(SqlQuery(CurrentFacts(qpFacts), qpAsked.query), AnswerOf(CurrentFacts(qpFacts), qpAsked.query),
                qpAsked.query)

\* The pages read so far are the first of these rows, each once and in order.
BeginTheRows(pages, order, rows) ==
  /\ ToSet(pages) \subseteq rows
  /\ \A i \in 1..(Len(pages) - 1) : Ahead(order, pages[i], pages[i + 1])
  /\ \A row \in rows \ ToSet(pages) : pages = <<>> \/ Ahead(order, Last(pages), row)

\* However many commits fall between two pages, or between the position a first page
\* reads and its rows, or between two clauses of one page: the pages are, in order, the
\* answer at the position pinned, every row of it once (Pagination.ts, both layers).
PagesAreTheAnswerOnce ==
  qpAsked.kind = "pages" /\ (qpRows # <<>> \/ qpAt = "done") =>
    \E rows \in {Wanted(VisibleAt(qpFacts, qpBasis), qpAsked.wrapped)} :
       /\ BeginTheRows(qpRows, NormalizedOrder(qpAsked.wrapped), rows)
       /\ qpAt = "done" => ToSet(qpRows) = rows

\* What a clause sees of facts: that one will be retracted later is not among it.
Seen(facts) == {<<f.entity, f.attribute, f.value, f.tx>> : f \in facts}
\* Each page, and each clause of it, reads what was current when the first page read the
\* commit position, whatever has been asserted and retracted since (the cursor carries the
\* position, visibleAt and applyTemporalBasis prefer it to an instant).
PagesReadOneCut ==
  [][/\ qpBasis # NoBasis => qpBasis' = qpBasis /\ Seen(QpVisible') = Seen(QpVisible)
     /\ qpBasis = NoBasis /\ qpBasis' # NoBasis => Seen(QpVisible') = Seen(CurrentFacts(qpFacts))]_qpVars
=============================================================================
