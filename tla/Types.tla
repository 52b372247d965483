-------------------------------- MODULE Types --------------------------------
(***************************************************************************)
(* The types of configuration: what values a type accepts, and when one    *)
(* type is said to accept all that another does.  The configuration store  *)
(* trusts that verdict instead of reading the bodies it has (ConfigStore). *)
(*                                                                         *)
(* A type is a record as TypeExpr has it, its sets as sets and its         *)
(* constraints as the sequence in canonical order; the fallback of a field *)
(* leaves what is accepted alone and is left out.  A value is a pair of    *)
(* its family and its content; numbers count halves, so that the even ones *)
(* are whole.                                                              *)
(***************************************************************************)
EXTENDS Integers, Sequences, FiniteSets, FiniteSetsExt

CONSTANTS
  TypeExpr,       \* the types there are, with all their parts
  TypeHeight,     \* of each, that of its tree
  MaxTypeHeight,
  TypedValue,     \* the values there are, with all their parts
  KnownType,      \* the types that configurations are published under
  Body,           \* the bodies that are published
  TextLength,     \* the length of each text
  DateText,       \* the texts of the form of a calendar date
  PatternMatch,   \* <<regex, text>> for each text a pattern matches
  MaxPublished    \* bound on what is published

ConstraintTag == {"Pattern", "MinLength", "MaxLength", "Min", "Max"}

PartsOf(type) ==
  CASE type.tag = "List"        -> {type.item}
    [] type.tag = "Struct"      -> {type.fields[name].type : name \in DOMAIN type.fields}
    [] type.tag = "Union"       -> type.members
    [] type.tag = "Constrained" -> {type.base}
    [] OTHER                    -> {}

(* Types are finite trees, and their parts and those of values are such.   *)
ASSUME TypesAssumption ==
  /\ MaxPublished \in Nat /\ TextLength \in [DOMAIN TextLength -> Nat]
  /\ MaxTypeHeight \in Nat /\ TypeHeight \in [TypeExpr -> 0 .. MaxTypeHeight]
  /\ KnownType \subseteq TypeExpr /\ Body \subseteq TypedValue
  /\ \A type \in TypeExpr :
       /\ \A part \in PartsOf(type) : part \in TypeExpr /\ TypeHeight[part] < TypeHeight[type]
       /\ type.tag \in {"Any", "Prim", "Enum", "Ref", "List", "Struct", "Union", "Constrained"}
       /\ type.tag = "Struct" => \A name \in DOMAIN type.fields : type.fields[name].optional \in BOOLEAN
       /\ type.tag = "Constrained" =>
            /\ Len(type.constraints) \in Nat /\ DOMAIN type.constraints = 1 .. Len(type.constraints)
            /\ \A i \in DOMAIN type.constraints :
                 /\ type.constraints[i][1] \in ConstraintTag
                 /\ type.constraints[i][1] # "Pattern" => type.constraints[i][2] \in Int
  /\ \A v \in TypedValue :
       /\ v[1] = "text" => v[2] \in DOMAIN TextLength
       /\ v[1] = "number" => v[2] \in Int
       /\ v[1] = "list" => v[2] \in Seq(TypedValue)
       /\ v[1] = "struct" => \A name \in DOMAIN v[2] : v[2][name] \in TypedValue

(* Of several patterns the verdict keeps one: no type has two that differ. *)
ASSUME OnePatternAssumption ==
  \A type \in TypeExpr : type.tag = "Constrained" =>
    \A i, j \in DOMAIN type.constraints :
      type.constraints[i][1] = "Pattern" /\ type.constraints[j][1] = "Pattern" =>
        type.constraints[i][2] = type.constraints[j][2]

VARIABLES
  bodyTypes,     \* the types under which each body was published
  rechecked       \* the last answer: [asked, type, compatible, revalidated, violations]

typesVars == <<bodyTypes, rechecked>>

-----------------------------------------------------------------------------
(* What a type accepts, as the schema it is compiled to decides.           *)

PrimAccepts(prim, v) ==
  CASE prim = "text"    -> v[1] = "text"
    [] prim = "number"  -> v[1] = "number"
    [] prim = "boolean" -> v[1] = "boolean"
    [] prim = "date"    -> v[1] = "text" /\ v[2] \in DateText
    [] OTHER            -> v[1] = "number" /\ v[2] % 2 = 0    \* integer, instant

(* What has no length, or is no number, meets no bound on it.              *)
LengthOf(v) == IF v[1] = "text" THEN TextLength[v[2]] ELSE Len(v[2])

Satisfies(v, constraint) ==
  CASE constraint[1] = "Pattern"   -> <<constraint[2], v[2]>> \in PatternMatch
    [] constraint[1] = "MinLength" -> v[1] \in {"text", "list"} /\ LengthOf(v) >= constraint[2]
    [] constraint[1] = "MaxLength" -> v[1] \in {"text", "list"} /\ LengthOf(v) <= constraint[2]
    [] constraint[1] = "Min"       -> v[1] = "number" /\ v[2] >= constraint[2]
    [] OTHER                       -> v[1] = "number" /\ v[2] <= constraint[2]

(* One type, when `accepts` answers for its parts.                         *)
AcceptsBy(type, v, accepts) ==
  CASE type.tag = "Any"    -> TRUE
    [] type.tag = "Prim"   -> PrimAccepts(type.prim, v)
    [] type.tag = "Enum"   -> v[1] = "text" /\ v[2] \in type.values
    [] type.tag = "Ref"    -> v[1] = "text"
    [] type.tag = "List"   -> v[1] = "list" /\ \A i \in DOMAIN v[2] : accepts[<<type.item, v[2][i]>>]
    [] type.tag = "Struct" ->
         /\ v[1] = "struct"
         /\ DOMAIN v[2] \subseteq DOMAIN type.fields
         /\ \A name \in DOMAIN type.fields :
              IF name \in DOMAIN v[2] THEN accepts[<<type.fields[name].type, v[2][name]>>]
              ELSE type.fields[name].optional
    [] type.tag = "Union"  -> \E m \in type.members : accepts[<<m, v>>]
    [] OTHER               ->
         /\ accepts[<<type.base, v>>]
         /\ \A i \in DOMAIN type.constraints : Satisfies(v, type.constraints[i])

Accepts[call \in TypeExpr \X TypedValue] == AcceptsBy(call[1], call[2], Accepts)

-----------------------------------------------------------------------------
(* The verdict.                                                            *)

Combine(verdicts) ==
  IF "Narrows" \in verdicts THEN "Narrows"
  ELSE IF verdicts \subseteq {"Identical"} THEN "Identical" ELSE "Widens"

\* Bug: the table of widenings is read the wrong way round.
PrimSubsumesBack(from, to) == from = to \/ (from = "number" /\ to = "integer")
PrimSubsumes(from, to) == from = to \/ (from = "integer" /\ to = "number")

(* Repeated bounds intersect; of several patterns the last is kept.        *)
BoundsOf(constraints) ==
  LET tags == {constraints[i][1] : i \in DOMAIN constraints}
      Values(tag) == {constraints[i][2] : i \in {i \in DOMAIN constraints : constraints[i][1] = tag}}
      LastOf(tag) == constraints[Max({i \in DOMAIN constraints : constraints[i][1] = tag})][2]
  IN  [tag \in tags |-> CASE tag \in {"MinLength", "Min"} -> Max(Values(tag))
                          [] tag \in {"MaxLength", "Max"} -> Min(Values(tag))
                          [] OTHER -> LastOf(tag)]

(* A bound that `to` has must be met by one at least as tight in `from`.   *)
MeetsConstraint(from, tag, bound) ==
  /\ tag \in DOMAIN from
  /\ CASE tag \in {"MinLength", "Min"} -> from[tag] >= bound
       [] tag \in {"MaxLength", "Max"} -> from[tag] <= bound
       [] OTHER -> from[tag] = bound

BoundsSubsume(from, to) ==
  IF \E tag \in DOMAIN to : ~MeetsConstraint(from, tag, to[tag]) THEN "Narrows"
  ELSE IF DOMAIN from \subseteq DOMAIN to THEN "Identical" ELSE "Widens"

Base(type) == IF type.tag = "Constrained" THEN type.base ELSE type
Bounds(type) == IF type.tag = "Constrained" THEN BoundsOf(type.constraints) ELSE BoundsOf(<<>>)

(* Structs are closed, and what `to` requires `from` must require.         *)
FieldsFit(from, to) ==
  /\ DOMAIN from \subseteq DOMAIN to
  /\ \A name \in DOMAIN to :
       IF name \in DOMAIN from THEN from[name].optional => to[name].optional ELSE to[name].optional

FieldVerdict(from, to, name) ==
  IF name \notin DOMAIN from \/ from[name].optional # to[name].optional
  THEN "Widens" ELSE "Identical"

StructVerdict(from, to, subsumes) ==
  IF ~FieldsFit(from, to) THEN "Narrows"
  ELSE Combine({FieldVerdict(from, to, name) : name \in DOMAIN to}
                 \cup {subsumes[<<from[name].type, to[name].type>>] : name \in DOMAIN from \cap DOMAIN to})

Structural(from, to, subsumes) ==
  IF from.tag = "Enum" /\ to.tag = "Prim" THEN IF to.prim = "text" THEN "Widens" ELSE "Narrows"
  ELSE IF from.tag # to.tag THEN "Narrows"
  ELSE CASE from.tag = "Prim" -> IF PrimSubsumes(from.prim, to.prim) THEN "Widens" ELSE "Narrows"
         [] from.tag = "Enum" -> IF from.values \subseteq to.values THEN "Widens" ELSE "Narrows"
         [] from.tag = "List" -> subsumes[<<from.item, to.item>>]
         [] from.tag = "Struct" -> StructVerdict(from.fields, to.fields, subsumes)
         [] OTHER -> "Narrows"    \* Ref, and an unconstrained base

SubsumesBy(from, to, subsumes) ==
  LET bounds == BoundsSubsume(Bounds(from), Bounds(to))
      f == Base(from)
      t == Base(to)
  IN  IF from = to THEN "Identical"
      ELSE IF to.tag = "Any" THEN "Widens"
      ELSE IF from.tag = "Any" \/ bounds = "Narrows" THEN "Narrows"
      ELSE IF f.tag = "Union" THEN Combine({bounds} \cup {subsumes[<<m, t>>] : m \in f.members})
      ELSE IF t.tag = "Union"
      THEN IF \E m \in t.members : subsumes[<<f, m>>] # "Narrows" THEN "Widens" ELSE "Narrows"
      ELSE Combine({bounds, Structural(f, t, subsumes)})

Subsumes[pair \in TypeExpr \X TypeExpr] == SubsumesBy(pair[1], pair[2], Subsumes)

(* The verdicts on the types of the store: one is found for a known type,  *)
(* not for a body.                                                         *)
CompatibleTypes == [from \in KnownType |-> {to \in KnownType : Subsumes[<<from, to>>] # "Narrows"}]
AcceptedBy == [type \in KnownType |-> {b \in Body : Accepts[<<type, b>>]}]

-----------------------------------------------------------------------------
(* The configuration store over them: a body is decoded under the type it  *)
(* is published with, and a candidate type is rechecked in three tiers.    *)
(* A recheck changes nothing: one answer between two publications is kept. *)

NothingRechecked ==
  [asked |-> FALSE, type |-> [tag |-> "Any"], compatible |-> {}, revalidated |-> {}, violations |-> {}]

TypesInit ==
  /\ bodyTypes = [b \in Body |-> {}]
  /\ rechecked = NothingRechecked

Publish(b, type) ==
  /\ b \in AcceptedBy[type]
  /\ Cardinality(UNION {{<<c, t>> : t \in bodyTypes[c]} : c \in Body}) < MaxPublished
  /\ bodyTypes' = [bodyTypes EXCEPT ![b] = @ \cup {type}]
  /\ rechecked' = NothingRechecked

RecheckType(candidate) ==
  LET stored == {b \in Body : bodyTypes[b] # {}}
      compatible == {b \in stored : \/ candidate \in bodyTypes[b]
                                    \/ \E t \in bodyTypes[b] : candidate \in CompatibleTypes[t]}
      revalidated == (stored \ compatible) \cap AcceptedBy[candidate]
  IN  /\ ~rechecked.asked
      /\ rechecked' = [asked |-> TRUE, type |-> candidate, compatible |-> compatible,
                       revalidated |-> revalidated,
                       violations |-> stored \ (compatible \cup revalidated)]
      /\ UNCHANGED bodyTypes

TypesNext ==
  \E type \in KnownType : RecheckType(type) \/ \E b \in Body : Publish(b, type)

TypesSpec == TypesInit /\ [][TypesNext]_typesVars

-----------------------------------------------------------------------------
(* A recheck names exactly the stored bodies that the candidate type would *)
(* refuse: a verdict that one type accepts all that another does is never  *)
(* wrong about a body that no one reads again.                             *)
RecheckIsExact ==
  rechecked.asked =>
    rechecked.violations = {b \in Body \ AcceptedBy[rechecked.type] : bodyTypes[b] # {}}
=============================================================================
