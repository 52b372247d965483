---- MODULE MCConstraints ----
EXTENDS Constraints
Rule(tag, attribute, max, target) ==
  [tag |-> tag, type |-> "T", attribute |-> attribute, max |-> max, target |-> target]
MCRules == {Rule("Required", "name", 0, "none"), Rule("Cardinality", "name", 1, "none"), Rule("Unique", "name", 0, "none"),
  Rule("ReferenceTarget", "name", 0, "U")}
Asserting(e, a, v, type, from, to) ==
  [op |-> "assert", entity |-> e, attribute |-> a, value |-> v, type |-> type, validFrom |-> from, validTo |-> to]
TextX == <<"text", "x">>
ToQ == <<"ref", "q">>
One == {Asserting("p", "name", TextX, "T", 0, Endless), Asserting("p", "name", TextX, Untyped, 1, 2),
  Asserting("q", "name", TextX, "T", 1, 2), Asserting("p", "name", ToQ, "T", 0, 2),
  Asserting("p", "tag", TextX, "T", 1, Endless), Asserting("q", "tag", TextX, "U", 0, 2)}
Pat(p) == [op |-> "retract-pattern", pattern |-> p]
MCSets == {{r} : r \in MCRules} \cup {{}, MCRules}
MCTx == {<<o>> : o \in One} \cup {<<Pat([entity |-> "p", attribute |-> "name"])>>, <<Pat([type |-> "U"])>>}
 \cup {<<[op |-> "retract", id |-> 1], Asserting("p", "name", TextX, Untyped, 1, 2)>>}
 \cup {<<Pat([entity |-> "p", attribute |-> "name"]), Asserting("p", "name", ToQ, Untyped, 0, Endless)>>}
====
