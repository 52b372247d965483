---------------------------- MODULE MCConfigStore ----------------------------
\* Three objects in a chain of references; schema "wide" accepts all that
\* schema "narrow" does.
EXTENDS ConfigStore, TLC

Node(s, a, r, t) == [slot |-> s, attrs |-> a, refs |-> r, schema |-> t]
Chain(a, t) == {Node(1, "a", {2}, "narrow"), Node(2, "a", {3}, "narrow"), Node(3, a, {}, t)}

MCSlot == 1..3
MCKindOf == <<"form", "form", "attribute">>
MCReleases ==
  {Chain("a", "narrow"), Chain("b", "wide"), Chain("a", "wide"),
   {Node(1, "a", {2}, "narrow")},
   {Node(3, "a", {}, "narrow"), Node(3, "b", {}, "wide")}}
MCValid == {<<"narrow", "a">>, <<"wide", "a">>, <<"wide", "b">>}
MCCompatible == {<<"narrow", "wide">>, <<"narrow", "narrow">>, <<"wide", "wide">>}
MCSymmetry == Permutations(Client)
=============================================================================
