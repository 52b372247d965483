-------------------------------- MODULE MCHexastore --------------------------------
EXTENDS SqlRows, TLC

HexValue(type, of) == [type |-> type, of |-> of, extra |-> <<>>]
HexFact(e, a, v, type, from, to) ==
  [entity |-> e, attribute |-> a, value |-> v, entityType |-> type, createdBy |-> IF from = 0 THEN Nothing ELSE <<7>>,
   validFrom |-> from, validTo |-> to]
\* Texts that are prefixes of one another, one with a zero byte, one beyond ASCII.
E1 == <<98>>
E2 == <<98, 0>>
A1 == <<58, 98>>
A2 == <<58>>
Zeroed == HexValue("string", <<98, 0, 98>>)
Minus == HexValue("number", <<1, 3>>)
MCHexIds == [n \in 1..HexMaxPosition |-> <<100 + n>>]
MCHexFacts ==
  {HexFact(E1, A1, v, Nothing, 0, NoInstant) :
     v \in {Zeroed, HexValue("number", <<0, 3>>), HexValue("datetime", <<3>>), HexValue("datetime", <<-2>>), HexValue("json", <<200, 0>>),
            [type |-> "blob", of |-> <<98>>, extra |-> <<<<5>>, <<9>>, <<200>>>>]}}
    \cup {HexFact(E2, A1, HexValue("string", E1), E1, 1, 2), HexFact(E2, A2, HexValue("ref", E2), E2, 0, 1),
          HexFact(E1, A2, Minus, E2, 1, NoInstant)}
MCHexPatterns ==
  [entity : {Nothing, E1, E2}, attribute : {Nothing, A1},
   value : {AnyValue, Zeroed, Minus, HexValue("ref", E2), HexValue("datetime", <<2>>), HexValue("string", E1)}]
=============================================================================
