---- MODULE MCTypes ----
EXTENDS Types, SequencesExt
Prim(p) == [tag |-> "Prim", prim |-> p]
Enum(s) == [tag |-> "Enum", values |-> s]
ListOf(t) == [tag |-> "List", item |-> t]
UnionOf(s) == [tag |-> "Union", members |-> s]
Constr(b, c) == [tag |-> "Constrained", base |-> b, constraints |-> c]
Fld(t, o) == [type |-> t, optional |-> o]
Struct(f) == [tag |-> "Struct", fields |-> f]
PrimText == Prim("text")
Leaves == {[tag |-> "Any"], [tag |-> "Ref", kind |-> "form"], Enum({"", "ab"}), Enum({"ab", "d1"})} \cup {Prim(p) : p \in {"text", "number", "integer", "boolean", "date", "instant"}}
Con == {Constr(PrimText, <<<<"MinLength", 1>>>>), Constr(PrimText, <<<<"MinLength", 2>>, <<"Pattern", "a.">> >>), Constr(PrimText, <<<<"Pattern", "a.">>>>),
  Constr(PrimText, <<<<"MaxLength", 1>>>>), Constr(PrimText, <<<<"MaxLength", 1>>, <<"MinLength", 1>>>>), Constr(Prim("number"), <<<<"Max", 2>>, <<"Min", 0>>>>),
  Constr(ListOf(PrimText), <<<<"MaxLength", 1>>>>), Constr(Prim("integer"), <<<<"Min", 0>>, <<"Min", 2>>>>), Constr(UnionOf({PrimText, Enum({"ab"})}), <<<<"MinLength", 1>>>>)}
Uni == {UnionOf({PrimText, Prim("number")}), UnionOf({Enum({"ab"}), Prim("integer")}), UnionOf({Constr(PrimText, <<<<"MinLength", 1>>>>), Prim("boolean")})}
Lst == {ListOf(t) : t \in {PrimText, Enum({"ab"}), Prim("integer"), Prim("number")}}
Str == {Struct([a |-> Fld(PrimText, FALSE)]), Struct([a |-> Fld(PrimText, TRUE)]), Struct([a |-> Fld(Enum({"ab"}), FALSE)]), Struct([a |-> Fld(PrimText, FALSE), b |-> Fld(Prim("number"), TRUE)]),
  Struct([a |-> Fld(PrimText, FALSE), b |-> Fld(Prim("integer"), FALSE)]), Struct([b |-> Fld(UnionOf({PrimText, Prim("number")}), TRUE)])}
MCTypes == Leaves \cup Con \cup Uni \cup Lst \cup Str
Txt(s) == <<"text", s>>
MCTypeBodies == {Txt(""), Txt("ab"), Txt("d1"), <<"number", 1>>, <<"number", 2>>, <<"boolean", TRUE>>, <<"list", <<Txt("ab")>>>>,
  <<"struct", [a |-> Txt("")]>>, <<"struct", [a |-> Txt("ab"), b |-> <<"number", 2>>]>>}
MCLen == [t \in {"", "ab", "d1"} |-> IF t = "" THEN 0 ELSE 2]
MCMatch == {<<"a.", "ab">>}
MCTypeExprs ==
  LET parts[n \in 0..3] == IF n = 0 THEN MCTypes ELSE parts[n - 1] \cup UNION {PartsOf(t) : t \in parts[n - 1]}
  IN parts[3]
MCTypeHeight ==
  LET height[t \in MCTypeExprs] == IF PartsOf(t) = {} THEN 0 ELSE 1 + Max({height[p] : p \in PartsOf(t)})
  IN height
MCTypedValues ==
  MCTypeBodies \cup UNION {ToSet(b[2]) : b \in {b \in MCTypeBodies : b[1] = "list"}}
               \cup UNION {{b[2][n] : n \in DOMAIN b[2]} : b \in {b \in MCTypeBodies : b[1] = "struct"}}
====
