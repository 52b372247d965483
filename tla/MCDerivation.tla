---- MODULE MCDerivation ----
EXTENDS Derivation, TLC
MCFact(a, x, from, to) == [attribute |-> a, value |-> x, from |-> from, to |-> to]
MCFactKind ==
  {MCFact("p", 1, 0, 2), MCFact("p", 2, 0, 2),
   MCFact("q", 1, 0, 1), MCFact("q", 1, 1, 2), MCFact("r", 1, 0, 2)}
MCAsked == [definition : {"holders"}, basis : {0, 1}] \cup [definition : {"values"}, basis : {0}]
DerSym == Permutations(DerivedEntity) \cup Permutations(Materializer)
====
