-------------------------------- MODULE MCQueryPages --------------------------------
EXTENDS QueryPages

Value(type, n) == [type |-> type, of |-> n]
MCQpFact(e, a, v) == [entity |-> e, attribute |-> a, value |-> v]
Next1 == 11
Name == 12
Age == 13
Reaches == 21
MCAttribute == {11, 12, 13}
MCRule == {21}
MCFacts == {MCQpFact(1, Next1, Value("ref", 2)), MCQpFact(2, Next1, Value("ref", 3)), MCQpFact(2, Next1, Value("string", 1)),
            MCQpFact(1, Age, Value("number", 5)), MCQpFact(2, Age, Value("datetime", 5)), MCQpFact(2, Age, Value("number", 7)),
            MCQpFact(2, Age, Value("string", 3))}

NextA == Const(Text(Next1))
AgeA == Const(Text(Age))
P(e, a, v) == Relation(<<e, a, v>>)
X == Var("x")
Y == Var("y")
Z == Var("z")
N == Var("n")
M == Var("m")
A == Var("a")
T == Var("t")
Q0 == [find |-> <<>>, where |-> <<>>, rules |-> <<>>, aggregate |-> <<>>, having |-> <<>>, orderBy |-> <<>>,
       limit |-> NoLimit, offset |-> 0, row |-> "", optional |-> <<>>]
By(x, d) == [variable |-> x, direction |-> d]
Agg(op, s, t) == [op |-> op, source |-> s, target |-> t]
Link == [name |-> Reaches, body |-> <<P(X, NextA, Y)>>, maxDepth |-> 2]
Chain == [name |-> Reaches, body |-> <<P(X, NextA, Y), Relation(<<Const(Text(Reaches)), Y, Z>>)>>, maxDepth |-> 2]
Reach(s, t) == Relation(<<Const(Text(Reaches)), s, t>>)
Rules == <<Link, Chain>>

Find(find, where) == [Q0 EXCEPT !.find = find, !.where = where]
MCQueries ==
  {Find(<<X, N>>, <<P(X, AgeA, N)>>),
   Find(<<X, Y>>, <<P(X, NextA, Y), P(Y, AgeA, N)>>),
   Find(<<X, N>>, <<P(X, NextA, Y), P(Y, NextA, Z), P(Z, AgeA, N)>>),
   Find(<<X, A>>, <<P(X, A, Ref(2))>>),
   Find(<<X, A>>, <<P(X, A, Const(Text(3)))>>),
   Find(<<X, A>>, <<P(X, A, Const(Number(5)))>>),
   Find(<<X>>, <<P(X, A, X)>>),
   Find(<<X, Y>>, <<P(X, AgeA, N), P(Y, AgeA, N), Predicate("!=", X, Y)>>),
   Find(<<X, N, M>>, <<P(X, AgeA, N), P(X, AgeA, M), Predicate("<", N, M)>>),
   Find(<<X>>, <<P(X, NextA, Y), Not(<<P(Y, AgeA, N)>>)>>),
   Find(<<X>>, <<P(X, NextA, Y), Not(<<P(Y, AgeA, N), Predicate(">", N, Const(Number(5)))>>)>>),
   Find(<<X>>, <<Not(<<P(X, NextA, Y), P(Y, AgeA, N)>>), P(X, A, N)>>),
   Find(<<X>>, <<P(X, NextA, Y), Or(<<P(Y, AgeA, N), Predicate("=", Y, Const(Text(1)))>>)>>),
   Find(<<X, N>>, <<P(X, AgeA, N), Or(<<Not(<<P(X, NextA, Y)>>), Predicate(">=", N, Const(Number(7)))>>)>>),
   Find(<<X, N>>, <<Relation(<<X, AgeA, N, T>>), Relation(<<Y, NextA, Z, T>>)>>),
   Find(<<X>>, <<P(X, NextA, Y), P(Y, NextA, X)>>),
   [Find(<<X, Y>>, <<Reach(X, Y)>>) EXCEPT !.rules = Rules],
   [Find(<<Y>>, <<Reach(Const(Text(1)), Y), P(Y, AgeA, N)>>) EXCEPT !.rules = Rules],
   [Find(<<X>>, <<Reach(X, X)>>) EXCEPT !.rules = Rules],
   [Find(<<X, N>>, <<Reach(X, Y), P(Y, AgeA, N), Not(<<P(X, AgeA, N)>>)>>) EXCEPT !.rules = Rules],
   [Find(<<Var("c")>>, <<P(X, AgeA, N)>>) EXCEPT !.aggregate = <<Agg("count", "n", "c")>>],
   [Find(<<X, Var("s")>>, <<P(X, AgeA, N)>>) EXCEPT !.aggregate = <<Agg("sum", "n", "s")>>],
   [Find(<<X, Var("s"), Var("c")>>, <<P(X, NextA, Y), P(Y, AgeA, N)>>)
      EXCEPT !.aggregate = <<Agg("sum", "n", "s"), Agg("count", "n", "c")>>,
             !.having = <<Predicate(">=", Var("c"), Const(Number(2)))>>],
   [Find(<<Var("s"), Var("b")>>, <<P(X, AgeA, N)>>) EXCEPT !.aggregate = <<Agg("avg", "n", "s"), Agg("min", "n", "b")>>],
   [Find(<<X, Var("b")>>, <<P(X, A, N)>>)
      EXCEPT !.aggregate = <<Agg("max", "n", "b")>>, !.having = <<Predicate("=", X, Const(Text(2)))>>],
   [Find(<<X, Var("v")>>, <<P(X, NextA, Y)>>) EXCEPT !.row = "x", !.optional = <<[attribute |-> 12, variable |-> "v"]>>],
   [Find(<<N, X>>, <<P(X, A, N)>>) EXCEPT !.orderBy = <<By("n", "desc"), By("x", "asc")>>, !.limit = 2, !.offset = 1],
   [Find(<<N, X>>, <<P(X, A, N)>>) EXCEPT !.orderBy = <<By("n", "asc")>>]}

W(inner, filters, orderBy, limit) == [inner |-> inner, filters |-> filters, orderBy |-> orderBy, limit |-> limit]
Where(c, op, v) == [column |-> c, op |-> op, value |-> v]
MCPaged ==
  {W(Find(<<X, N>>, <<P(X, A, N)>>), <<>>, <<By("n", "desc")>>, 1),
   W(Find(<<X, Y, N>>, <<P(X, NextA, Y), P(Y, AgeA, N)>>), <<>>, <<>>, 1),
   W([Find(<<X, Var("v")>>, <<P(X, NextA, Y)>>) EXCEPT !.row = "x", !.optional = <<[attribute |-> 13, variable |-> "v"]>>],
     <<>>, <<By("v", "asc")>>, 1),
   W([Find(<<X, Var("s")>>, <<P(X, A, N)>>) EXCEPT !.aggregate = <<Agg("count", "n", "s")>>],
     <<Where("s", ">=", Number(1))>>, <<By("s", "desc")>>, 1),
   W(Find(<<X, N>>, <<P(X, AgeA, N)>>), <<Where("n", "!=", Number(7))>>, <<By("x", "desc"), By("n", "asc")>>, 1),
   W(Find(<<X>>, <<P(X, NextA, Y), Not(<<P(Y, AgeA, N)>>)>>), <<>>, <<>>, 1)}
MCLike == {}
(* Few of the sets of facts, for most of their consequences. *)
MCPagesInit ==
  /\ QpInit
  /\ Cardinality(qpFacts) \in IF qpAsked.kind = "pages" THEN {0, 5, 7} ELSE {0, 3, 5}
ASSUME MCQueriesAreValid == (\A q \in MCQueries : ValidQuery(q)) /\ (\A w \in MCPaged : ValidWrapped(w))
=============================================================================
