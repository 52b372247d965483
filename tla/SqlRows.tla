------------------------------- MODULE SqlRows -------------------------------
(***************************************************************************)
(* The table of facts of the SQL adapters, given the same writes as the    *)
(* hexastore: a row for each fact, with a column for each kind of value,   *)
(* and the reads that each adapter turns into conditions on rows.          *)
(*                                                                         *)
(* A row is a fact whose value is in columns.  A column that is NULL is    *)
(* Nothing or NoInstant, and no comparison with it holds.  JSON is its     *)
(* text.  An adapter stores what its database can: PostgreSQL has neither  *)
(* texts with a zero byte nor fractions of a millisecond.                  *)
(***************************************************************************)
EXTENDS Hexastore

VARIABLE sqlTable    \* the table "triples"

sqlRowsVars == <<hexVars, sqlTable>>
\* A fact is valid for a while, and what it may leave out is not empty if it is there: a
\* column tells neither an empty text from an absent one, nor has one order of reading
\* the ends of no time at all.
ASSUME SqlRowsAssumption ==
  /\ IsFiniteSet(HexFacts) /\ HexValidAt \subseteq Nat
  /\ \A f \in HexFacts :
       /\ f.validFrom \in Nat /\ f.validTo \in Nat \cup {NoInstant}
       /\ f.validTo # NoInstant => f.validFrom < f.validTo
       /\ f.createdBy # <<>> /\ f.entityType # <<>>
       /\ f.value.type = "blob" => f.value.extra[3] # <<>>

Adapter == {"sqlite", "cloudflare", "postgresql"}
\* A read without a basis.
Undated == [position |-> NoInstant, recordedAt |-> NoInstant, validAt |-> NoInstant]

-----------------------------------------------------------------------------
\* Rows (queries.ts, rowToTriple).

\* A name that is empty is left out.
BlobMeta(extra) ==
  IF extra[3] \in {Nothing, <<>>} THEN <<extra[1], extra[2]>> ELSE extra

PackValue(v) ==
  LET base == [type |-> v.type, string |-> Nothing, number |-> Nothing, boolean |-> Nothing,
               datetime |-> Nothing, json |-> Nothing]
  IN CASE v.type \in {"string", "ref"} -> [base EXCEPT !.string = v.of]
       [] v.type = "number" -> [base EXCEPT !.number = v.of]
       [] v.type = "boolean" -> [base EXCEPT !.boolean = v.of]
       [] v.type = "datetime" -> [base EXCEPT !.datetime = v.of]
       [] v.type = "json" -> [base EXCEPT !.json = v.of]
       [] v.type = "blob" -> [base EXCEPT !.string = v.of, !.json = BlobMeta(v.extra)]

UnpackValue(c) ==
  LET Value(of, extra) == [type |-> c.type, of |-> of, extra |-> extra]
  IN CASE c.type \in {"string", "ref"} -> Value(c.string, <<>>)
       [] c.type = "number" -> Value(c.number, <<>>)
       [] c.type = "boolean" -> Value(c.boolean, <<>>)
       [] c.type = "datetime" -> Value(c.datetime, <<>>)
       [] c.type = "json" -> Value(c.json, <<>>)
       [] c.type = "blob" -> Value(c.string, IF Len(c.json) = 2 THEN Append(c.json, Nothing) ELSE c.json)

RowOf(d) == [d EXCEPT !.value = PackValue(@)]
TextIfAny(s) == IF s = <<>> THEN Nothing ELSE s
RowToTriple(r) ==
  [r EXCEPT !.value = UnpackValue(@), !.createdBy = TextIfAny(@), !.entityType = TextIfAny(@)]

-----------------------------------------------------------------------------
\* Conditions.

RecordedConditions(r, basis) ==
  IF basis.position # NoInstant
  THEN /\ r.recordedPosition <= basis.position
       /\ r.retractedPosition = NoInstant \/ r.retractedPosition > basis.position
  ELSE IF basis.recordedAt = NoInstant THEN r.retractedAt = NoInstant
  ELSE /\ r.recordedAt <= basis.recordedAt
       /\ r.retractedAt = NoInstant \/ r.retractedAt > basis.recordedAt

TemporalConditions(r, basis) ==
  /\ RecordedConditions(r, basis)
  /\ basis # Undated => /\ r.validFrom <= basis.validAt
                        /\ r.validTo = NoInstant \/ r.validTo > basis.validAt

ColumnOf(type) == IF type \in {"ref", "blob"} THEN "string" ELSE type
\* The value of the pattern has the type of the row's, and if its column is one of
\* those compared, is equal to it.
ValueConditions(r, v, compared) ==
  LET column == ColumnOf(v.type) IN
  /\ r.value.type = v.type
  /\ v.type \in compared => r.value[column] = PackValue(v)[column]

Rows(p, type, basis, compared) ==
  {RowToTriple(r) : r \in {r \in sqlTable :
     /\ TemporalConditions(r, basis)
     /\ p.entity # Nothing => r.entity = p.entity
     /\ p.attribute # Nothing => r.attribute = p.attribute
     /\ type # Nothing => r.entityType = type
     /\ p.value # AnyValue => ValueConditions(r, p.value, compared)}}

SqliteQuery(p, type, basis) ==
  Rows(p, type, basis, {"string", "ref", "number", "boolean", "datetime"})
CloudflareQuery(p, type, basis) ==
  Rows(p, type, basis, {"string", "ref", "number", "boolean", "datetime"})
PostgresqlQuery(p, type, basis) ==
  Rows(p, type, basis, {"string", "ref", "blob", "number", "boolean", "datetime"})

QueryBy(adapter, p, type, basis) ==
  CASE adapter = "sqlite" -> SqliteQuery(p, type, basis)
    [] adapter = "cloudflare" -> CloudflareQuery(p, type, basis)
    [] adapter = "postgresql" -> PostgresqlQuery(p, type, basis)

GetByEntities(es, basis) ==
  [e \in es |-> {RowToTriple(r) : r \in {r \in sqlTable : r.entity = e /\ TemporalConditions(r, basis)}}]

-----------------------------------------------------------------------------
\* dependencyState: when the facts of some attributes changed last, and when they
\* change next.

Latest(positions) == Max(positions \cup {0})
Earliest(instants) == IF instants = {} THEN NoInstant ELSE Min(instants)

\* The first statement.
\* Bug: a retraction counts at the position of what it retracts.
SourceOfAssertion(r, basis) ==
  IF basis.position # NoInstant /\ r.recordedPosition > basis.position THEN 0 ELSE r.recordedPosition
SourceExpression(r, basis) ==
  IF basis.position # NoInstant
  THEN IF r.recordedPosition > basis.position THEN 0
       ELSE IF r.retractedPosition # NoInstant /\ r.retractedPosition <= basis.position THEN r.retractedPosition
       ELSE r.recordedPosition
  ELSE IF basis.recordedAt # NoInstant
  THEN IF r.recordedAt > basis.recordedAt THEN 0
       ELSE IF r.retractedAt # NoInstant /\ r.retractedAt <= basis.recordedAt THEN r.retractedPosition
       ELSE r.recordedPosition
  ELSE IF r.retractedPosition # NoInstant THEN r.retractedPosition ELSE r.recordedPosition

\* The second.
NextEdge(r, validAt) ==
  IF r.validFrom > validAt THEN r.validFrom
  ELSE IF r.validTo > validAt THEN r.validTo ELSE NoInstant

SqlDependencyState(attributes, basis) ==
  LET rows == {r \in sqlTable : r.attribute \in attributes}
  IN [source |-> Latest({SourceExpression(r, basis) : r \in rows}),
      next |-> Earliest({NextEdge(r, basis.validAt) : r \in {r \in rows : RecordedConditions(r, basis)}}
                          \ {NoInstant})]

\* dependencyStateFromDatoms (KvTriplesLive.ts), over every fact of each attribute.
AssertionVisible(d, basis) ==
  IF basis.position # NoInstant THEN d.recordedPosition <= basis.position
  ELSE basis.recordedAt = NoInstant \/ d.recordedAt <= basis.recordedAt
RetractionVisible(d, basis) ==
  /\ d.retractedPosition # NoInstant
  /\ IF basis.position # NoInstant THEN d.retractedPosition <= basis.position
     ELSE basis.recordedAt = NoInstant \/ d.retractedAt <= basis.recordedAt
KvDependencyState(attributes, basis) ==
  LET Scan(a) == ScanCollect([entity |-> Nothing, attribute |-> a, value |-> AnyValue], TRUE)
      datoms == {d \in UNION {Scan(a) : a \in attributes} : AssertionVisible(d, basis)}
      gone   == {d \in datoms : RetractionVisible(d, basis)}
      edges  == UNION {{d.validFrom, d.validTo} : d \in datoms \ gone}
  IN [source |-> Latest({d.recordedPosition : d \in datoms} \cup {d.retractedPosition : d \in gone}),
      next |-> Earliest({e \in edges : e > basis.validAt})]

-----------------------------------------------------------------------------
\* Writes.

SqlRowsInit == HexInit /\ sqlTable = {}

\* insert, and batchInsert for one transaction.
Insert(f) ==
  /\ HexAssert(f) \/ HexAssertStr(f)
  /\ sqlTable' = sqlTable \cup {RowOf(DatomOf(f, hexPosition + 1))}

Retract(id) ==
  /\ HexRetract(id)
  /\ sqlTable' = {IF r.id = id /\ r.retractedAt = NoInstant
                  THEN [r EXCEPT !.retractedAt = hexPosition + 1, !.retractedPosition = hexPosition + 1,
                                 !.retractTx = HexIdAt[hexPosition + 1]]
                  ELSE r : r \in sqlTable}

SqlRowsNext ==
  /\ hexPosition < HexMaxPosition
  /\ \/ \E f \in HexFacts : Insert(f)
     \/ \E id \in DOMAIN hexMeta : Retract(id)

SqlRowsSpec == SqlRowsInit /\ [][SqlRowsNext]_sqlRowsVars

-----------------------------------------------------------------------------
\* Properties.

\* What holds at a valid instant of the facts that a cut has.
HeldAt(cut, validAt) ==
  {d \in hexFacts : /\ d.recordedPosition <= cut
                    /\ d.retractedPosition = NoInstant \/ d.retractedPosition > cut
                    /\ validAt \in d.validFrom..(IF d.validTo = NoInstant THEN validAt ELSE d.validTo - 1)}
LastEdge == Latest({f.validFrom : f \in HexFacts} \cup {f.validTo : f \in HexFacts})
ChangedUpTo(attributes, cut) ==
  LET changed == {d \in hexFacts : d.attribute \in attributes}
  IN Latest({n \in UNION {{d.recordedPosition, d.retractedPosition} : d \in changed} : n <= cut})
ChangesNext(attributes, cut, validAt) ==
  LET Of(v) == {d \in HeldAt(cut, v) : d.attribute \in attributes}
  IN Earliest({v \in (validAt + 1)..LastEdge : Of(v) # Of(v - 1)})

\* What an adapter has a column for, to store and to compare.
Stores(adapter, d) ==
  adapter = "postgresql" => /\ \A s \in {d.entity, d.attribute, d.value.of} : \A i \in DOMAIN s : s[i] # 0
                            /\ d.value.type = "datetime" => d.value.of[1] % 2 = 0
Compares(adapter, v) == v.type # "json" /\ (v.type = "blob" => adapter = "postgresql")
BySql(adapter, p, basis, wanted) ==
  {d \in QueryBy(adapter, p, Nothing, basis) : Stores(adapter, d)} = {d \in wanted : Stores(adapter, d)}

\* At a commit position, or at the instant of one; the last of them without saying so.
Bases(cut, validAt) ==
  LET At(position, recordedAt) == [position |-> position, recordedAt |-> recordedAt, validAt |-> validAt]
  IN {At(cut, cut), At(NoInstant, cut)} \cup {At(NoInstant, NoInstant) : n \in {cut} \cap {hexPosition}}
CutIsExact(cut, validAt) ==
  LET held == HeldAt(cut, validAt)
      entities == {f.entity : f \in HexFacts}
  IN \A basis \in Bases(cut, validAt) :
       /\ \A p \in HexPatterns :
            LET wanted == {d \in held : Wants(d, p, Nothing)} IN
            /\ p.value = AnyValue => MatchTemporal(p, Nothing, basis) = wanted
            /\ \A adapter \in Adapter : Compares(adapter, p.value) => BySql(adapter, p, basis, wanted)
       /\ GetByEntities(entities, basis) = [e \in entities |-> {d \in held : d.entity = e}]
       /\ \A attributes \in SUBSET {f.attribute : f \in HexFacts} :
            LET state == [source |-> ChangedUpTo(attributes, cut), next |-> ChangesNext(attributes, cut, validAt)]
            IN SqlDependencyState(attributes, basis) = state /\ KvDependencyState(attributes, basis) = state

\* A read at a commit position sees the facts of the commits up to it that none of them
\* retracted, a read at an instant the same, and each only where it is valid: over keys
\* (visibleAt) and over the rows of all three SQL adapters, with any pattern whose value
\* they compare.  And of some attributes, each backend knows the last position up to the
\* cut that changed them and the first valid instant after the one asked at which what
\* holds of them changes (dependencyState).
CutsAreExact ==
  hexFacts # {} =>
    /\ \A adapter \in Adapter, p \in HexPatterns : Compares(adapter, p.value) =>
         BySql(adapter, p, Undated, {d \in hexFacts : Wants(d, p, Nothing) /\ d.retractedAt = NoInstant})
    /\ \A cut \in 0..hexPosition, validAt \in HexValidAt : CutIsExact(cut, validAt)
=============================================================================
