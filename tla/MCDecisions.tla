---- MODULE MCDecisions ----
EXTENDS Decisions, SequencesExt
Ex(e, a) == [tag |-> "Exists", entity |-> e, attribute |-> a]
Bef(e, a, g) == [tag |-> "Before", entity |-> e, attribute |-> a, granularity |-> g]
Rul(k) == [tag |-> "Rule", key |-> k]
No(x) == [tag |-> "Not", exprs |-> <<x>>]
Al(s) == [tag |-> "All", exprs |-> s]
An(s) == [tag |-> "Any", exprs |-> s]
One == <<"number", 1>>
MCReads == {<<"p", "a">>, <<"q", "a">>}
MCValues == {One}
MCQuestions == {An(<<No(Rul("r")), Al(<<Bef("$subject", "a", "day"), Ex("q", "a")>>)>>)}
MCBodies == {Rul("s"), Bef("p", "a", "instant"), An(<<Rul("r"), [tag |-> "Lit", value |-> FALSE]>>)}
MCExpressions ==
  LET parts[n \in 0..3] == IF n = 0 THEN MCQuestions \cup MCBodies \cup {Rul(k) : k \in RuleKey}
                           ELSE parts[n - 1] \cup UNION {ToSet(e.exprs) : e \in {e \in parts[n - 1] : e.tag \in Composite}}
  IN parts[3]
MCHeight ==
  LET height[e \in MCExpressions] ==
        IF e.tag \in Composite THEN 1 + Max({height[e.exprs[i]] : i \in DOMAIN e.exprs}) ELSE 0
  IN height
====
