------------------------------ MODULE Hexastore ------------------------------
(***************************************************************************)
(* The hexastore of the key-value backends: facts under the keys of four   *)
(* orders and of their type, found again by ranges of keys, and the META   *)
(* record each key leads to (kv/hexastore).                                *)
(*                                                                         *)
(* Keys and records are sequences of bytes, as in the code.  A text is its *)
(* UTF-8 bytes.  A float or an integer of eight bytes is one byte here,    *)
(* with the same sign and the same flips; a length and a float of a record *)
(* are one number each.  A value is a type, a payload (a sequence: a text, *)
(* a boolean, a sign and a magnitude, or half milliseconds) and what a     *)
(* blob has besides.  The decoded-fact cache is DatomCache's matter.       *)
(***************************************************************************)
EXTENDS Integers, FiniteSets, Sequences, SequencesExt

CONSTANTS
  HexFacts,        \* what may be asserted
  HexIdAt,         \* the id of the fact, and of the transaction, of each commit
  HexPatterns,     \* the patterns asked
  HexValidAt,      \* the instants of valid time asked
  HexMaxPosition   \* bound: commit positions

VARIABLES
  hexEntries,      \* the index: records of a key and a triple id
  hexMeta,         \* triple id -> the bytes of its META record
  hexPosition,     \* the commit position; instants are positions
  hexFacts         \* the facts asserted, as they should be: what is asked of the store
hexVars == <<hexEntries, hexMeta, hexPosition, hexFacts>>

Nothing == <<-1>>              \* an optional text that is absent
NoInstant == -1                \* an optional instant that is absent
AnyValue == [type |-> "any", of |-> <<>>, extra |-> <<>>]

Utf8 == Seq(0..254)           \* no byte of UTF-8 is 255
OptionalUtf8 == Utf8 \cup {Nothing}
Contents(type) ==
  CASE type = "number"   -> (0..1) \X (0..127)
    [] type = "boolean"  -> {<<b>> : b \in 0..1}
    [] type = "datetime" -> {<<t>> : t \in -256..255}
    [] OTHER             -> Utf8
Extras(type) == IF type = "blob" THEN Utf8 \X [1..1 -> Int] \X OptionalUtf8 ELSE {<<>>}
IsValue(v) ==
  /\ v \in [type : {v.type}, of : Contents(v.type), extra : Extras(v.type)]
  /\ v.type \in {"string", "number", "boolean", "datetime", "ref", "json", "blob"}

ASSUME HexAssumption ==
  /\ HexMaxPosition \in Nat
  /\ HexIdAt \in [1..HexMaxPosition -> Utf8]
  /\ \A n, m \in 1..HexMaxPosition : HexIdAt[n] = HexIdAt[m] => n = m
  /\ \A f \in HexFacts :
       /\ IsValue(f.value)
       /\ f \in [entity : Utf8, attribute : Utf8, value : {f.value}, entityType : OptionalUtf8,
                 createdBy : OptionalUtf8, validFrom : Int, validTo : Int]
  /\ \A p \in HexPatterns :
       /\ IsValue(p.value) \/ p.value = AnyValue
       /\ p \in [entity : OptionalUtf8, attribute : OptionalUtf8, value : {p.value}]

\* An index finds a number by its bits and a filter by its value, which negative zero tells apart.
ASSUME NoNegativeZeroAssumption ==
  \A x \in HexFacts \cup HexPatterns : x.value.type = "number" => x.value.of # <<1, 0>>

-----------------------------------------------------------------------------
\* Tuples (tuple.ts).

TagOf(type) ==
  CASE type = "null" -> 0 [] type = "boolean" -> 1 [] type = "number" -> 2 [] type = "string" -> 3
    [] type = "ref" -> 4 [] type = "datetime" -> 5 [] type = "json" -> 6 [] type = "blob" -> 7 [] type = "max" -> 255
Types == {"null", "boolean", "number", "string", "ref", "datetime", "json", "blob", "max"}
TypesOf(tag) == {type \in Types : TagOf(type) = tag}
Part(type, of) == [type |-> type, of |-> of]
TString(s) == Part("string", s)
TMax == Part("max", <<>>)

\* A zero byte is escaped, and a text ends with two of them.
Escaped(b) == IF b = 0 THEN <<0, 255>> ELSE <<b>>
EncodeString(s) == FlattenSeq([i \in DOMAIN s |-> Escaped(s[i])]) \o <<0, 0>>

\* A magnitude under a sign bit: all bits of a negative flip, the sign of another.
EncodeNumber(n) == IF n[1] = 1 THEN <<255 - (128 + n[2])>> ELSE <<n[2] + 128>>
DecodeNumber(byte) == IF byte < 128 THEN <<1, (255 - byte) - 128>> ELSE <<0, byte - 128>>

\* Whole milliseconds, in two's complement: negative instants sort after the others.
EncodeDatetime(t) == <<(t[1] \div 2) % 256>>
DecodeDatetime(byte) == <<2 * (IF byte >= 128 THEN byte - 256 ELSE byte)>>

EncodePart(p) ==
  <<TagOf(p.type)>> \o
    (CASE p.type \in {"string", "ref", "blob"} -> EncodeString(p.of)
       [] p.type = "number" -> EncodeNumber(p.of)
       [] p.type = "datetime" -> EncodeDatetime(p.of)
       [] p.type = "json" -> <<Len(p.of)>> \o p.of
       [] OTHER -> p.of)
EncodeTuple(parts) == FlattenSeq([i \in DOMAIN parts |-> EncodePart(parts[i])])

\* The text at an offset, and the bytes it takes: up to a zero that no 255 follows.
\* StringTurn is a turn of the loop, from what is read so far and where.
StringTurn(bytes, t) ==
  IF t.ended \/ t.at > Len(bytes) THEN t
  ELSE IF bytes[t.at] # 0 THEN [of |-> Append(t.of, bytes[t.at]), at |-> t.at + 1, ended |-> FALSE]
  ELSE IF t.at < Len(bytes) /\ bytes[t.at + 1] = 255 THEN [of |-> Append(t.of, 0), at |-> t.at + 2, ended |-> FALSE]
  ELSE [of |-> t.of, at |-> t.at + 2, ended |-> TRUE]
DecodeString(bytes, at) ==
  LET after[n \in Nat] == IF n = 0 THEN [of |-> <<>>, at |-> at, ended |-> FALSE] ELSE StringTurn(bytes, after[n - 1])
      last == after[Len(bytes) + 1]
  IN [of |-> last.of, takes |-> last.at - at]
DecodePart(bytes, at) ==
  LET type == IF TypesOf(bytes[at]) = {} THEN "unknown" ELSE CHOOSE t \in TypesOf(bytes[at]) : TRUE
      Read(of, takes) == [part |-> Part(type, of), takes |-> takes]
  IN CASE type \in {"string", "ref", "blob"} ->
            LET s == DecodeString(bytes, at + 1) IN Read(s.of, 1 + s.takes)
       [] type = "number" -> Read(DecodeNumber(bytes[at + 1]), 2)
       [] type = "datetime" -> Read(DecodeDatetime(bytes[at + 1]), 2)
       [] type = "json" -> Read(SubSeq(bytes, at + 2, at + 1 + bytes[at + 1]), 2 + bytes[at + 1])
       [] type = "boolean" -> Read(<<bytes[at + 1]>>, 2)
       [] OTHER -> Read(<<>>, 1)
TupleTurn(bytes, t) ==
  IF t.at > Len(bytes) THEN t
  ELSE LET d == DecodePart(bytes, t.at) IN [parts |-> Append(t.parts, d.part), at |-> t.at + d.takes]
DecodeTuple(bytes) ==
  LET after[n \in Nat] == IF n = 0 THEN [parts |-> <<>>, at |-> 1] ELSE TupleTurn(bytes, after[n - 1])
  IN after[Len(bytes)].parts

\* The writers of the in-memory backend, byte for byte a Latin-1 text: one loop while
\* the text is ASCII, another over its UTF-8 bytes.
EncodeStringToStrSlow(s) ==
  LET result[i \in 0..Len(s)] == IF i = 0 THEN <<>> ELSE result[i - 1] \o Escaped(s[i])
  IN result[Len(s)] \o <<0, 0>>
\* Bug: a zero byte left as it is.
EncodeStringToStrUnescaped(s) == s \o <<0, 0>>
EncodeStringToStr(s) ==
  IF \E i \in DOMAIN s : s[i] >= 128 THEN EncodeStringToStrSlow(s)
  ELSE FlattenSeq([i \in DOMAIN s |-> Escaped(s[i])]) \o <<0, 0>>
EncodeStringStr(s) == <<TagOf("string")>> \o EncodeStringToStr(s)
EncodeNumberStr(n) == <<TagOf("number")>> \o EncodeNumber(n)
EncodeDatetimeStr(t) == <<TagOf("datetime")>> \o EncodeDatetime(t)

\* valueToTuplePart, valueToPartStr (scan.ts).
ValueToTuplePart(v) == Part(v.type, v.of)
ValueToPartStr(v) ==
  CASE v.type \in {"string", "ref", "blob"} -> <<TagOf(v.type)>> \o EncodeStringToStr(v.of)
    [] v.type = "number" -> EncodeNumberStr(v.of)
    [] v.type = "datetime" -> EncodeDatetimeStr(v.of)
    [] OTHER -> EncodePart(ValueToTuplePart(v))

-----------------------------------------------------------------------------
\* Index keys and ranges (indexes.ts, scan.ts, kv/encoding.ts).

Prefix == [EAVT |-> <<1>>, AEVT |-> <<2>>, AVET |-> <<3>>, VAET |-> <<4>>, TYPE |-> <<5>>]
EavtKey(e, a, v, t, id) == Prefix.EAVT \o e \o a \o v \o t \o id
AevtKey(e, a, v, t, id) == Prefix.AEVT \o a \o e \o v \o t \o id
AvetKey(e, a, v, t, id) == Prefix.AVET \o a \o v \o e \o t \o id
VaetKey(e, a, v, t, id) == Prefix.VAET \o v \o a \o e \o t \o id
TypeKey(type, id) == Prefix.TYPE \o type \o id

\* The byte order of two keys.
KeyBefore(k, l) ==
  \E n \in 0..Len(k) : /\ n < Len(l) /\ \A i \in 1..n : k[i] = l[i]
                       /\ n = Len(k) \/ k[n + 1] < l[n + 1]
\* The next key of the same length, or one byte more when every byte is at its end.
Increment(k) ==
  LET low == {i \in DOMAIN k : k[i] < 255}
      at  == CHOOSE i \in low : \A j \in low : j <= i
  IN IF low = {} THEN [i \in 1..(Len(k) + 1) |-> IF i = 1 THEN 1 ELSE 0]
     ELSE [i \in DOMAIN k |-> IF i < at THEN k[i] ELSE IF i = at THEN k[i] + 1 ELSE 0]

\* selectIndex: the order whose first parts the pattern binds; a value alone only if a ref.
SelectIndex(p) ==
  LET ent == p.entity # Nothing  attr == p.attribute # Nothing  val == p.value # AnyValue
      Choice(index, parts) == [index |-> index, parts |-> parts]
      E == TString(p.entity)  A == TString(p.attribute)  V == ValueToTuplePart(p.value)
  IN CASE ent /\ attr /\ val -> Choice("EAVT", <<E, A, V>>)
       [] ent /\ attr /\ ~val -> Choice("EAVT", <<E, A>>)
       [] ent /\ ~attr -> Choice("EAVT", <<E>>)
       [] ~ent /\ attr /\ val -> Choice("AVET", <<A, V>>)
       [] ~ent /\ attr /\ ~val -> Choice("AEVT", <<A>>)
       [] ~ent /\ ~attr /\ p.value.type = "ref" -> Choice("VAET", <<V>>)
       [] OTHER -> Choice("EAVT", <<>>)

\* From the prefix up to the prefix and a tag no part has; or one whole order.
PrefixRange(index, parts) ==
  IF parts = <<>> THEN [start |-> Prefix[index], end |-> Increment(Prefix[index])]
  ELSE [start |-> Prefix[index] \o EncodeTuple(parts), end |-> Prefix[index] \o EncodeTuple(Append(parts, TMax))]
TypePrefixRange(type) ==
  [start |-> Prefix.TYPE \o EncodeTuple(<<TString(type)>>), end |-> Prefix.TYPE \o EncodeTuple(<<TString(type), TMax>>)]
PatternToScan(p) == PrefixRange(SelectIndex(p).index, SelectIndex(p).parts)
InRange(r) == {e.id : e \in {e \in hexEntries : ~KeyBefore(e.key, r.start) /\ KeyBefore(e.key, r.end)}}

-----------------------------------------------------------------------------
\* META records (KvTripleStore.ts).

WriteStr(s) == <<Len(s)>> \o s
WriteNullable(s) == IF s = Nothing THEN <<>> ELSE WriteStr(s)
WriteInstant(t) == IF t = NoInstant THEN <<>> ELSE <<t>>
Flag(present, bit) == IF present THEN bit ELSE 0
MetaTags == <<"string", "number", "boolean", "datetime", "ref", "json", "blob">>
MetaTag(type) == CHOOSE i \in DOMAIN MetaTags : MetaTags[i] = type

WriteValue(v) ==
  <<MetaTag(v.type)>> \o
    (CASE v.type \in {"string", "ref", "json"} -> WriteStr(v.of)
       [] v.type = "blob" -> WriteStr(v.of) \o WriteStr(v.extra[1]) \o v.extra[2]
                               \o (IF v.extra[3] = Nothing THEN <<0>> ELSE <<1>> \o WriteStr(v.extra[3]))
       [] OTHER -> v.of)

\* serializeDatom: what is optional is written only when the flags say so.
SerializeDatom(d) ==
  <<1>> \o WriteStr(d.id) \o WriteStr(d.entity) \o WriteStr(d.attribute) \o WriteValue(d.value)
    \o WriteStr(d.tx) \o <<d.recordedAt>>
    \o <<Flag(d.createdBy # Nothing, 1) + Flag(d.retractedAt # NoInstant, 2)
           + Flag(d.retractTx # Nothing, 4) + Flag(d.entityType # Nothing, 8)>>
    \o WriteNullable(d.createdBy) \o WriteInstant(d.retractedAt)
    \o WriteNullable(d.retractTx) \o WriteNullable(d.entityType)
    \o <<d.validFrom, Flag(d.validTo # NoInstant, 1)>> \o WriteInstant(d.validTo)
    \o <<d.recordedPosition, Flag(d.retractedPosition # NoInstant, 1)>> \o WriteInstant(d.retractedPosition)

\* A reader of a field: what it reads at an offset, and where the next field begins.
Read(of, next) == [of |-> of, next |-> next]
ReadStr(b, at) == Read(SubSeq(b, at + 1, at + b[at]), at + 1 + b[at])
ReadStrIf(present, b, at) == IF present THEN ReadStr(b, at) ELSE Read(Nothing, at)
ReadInstantIf(present, b, at) == IF present THEN Read(b[at], at + 1) ELSE Read(NoInstant, at)
Has(flags, bit) == (flags \div bit) % 2 = 1

ReadValue(b, at) ==
  LET type == MetaTags[b[at]]
      Value(of, extra, next) == Read([type |-> type, of |-> of, extra |-> extra], next)
  IN CASE type \in {"string", "ref", "json"} -> LET s == ReadStr(b, at + 1) IN Value(s.of, <<>>, s.next)
       [] type = "number" -> Value(<<b[at + 1], b[at + 2]>>, <<>>, at + 3)
       [] type = "blob" ->
            LET hash == ReadStr(b, at + 1)  mime == ReadStr(b, hash.next)
                name == ReadStrIf(b[mime.next + 1] # 0, b, mime.next + 2)
            IN Value(hash.of, <<mime.of, <<b[mime.next]>>, name.of>>, name.next)
       [] OTHER -> Value(<<b[at + 1]>>, <<>>, at + 2)

DeserializeDatom(b) ==
  LET id == ReadStr(b, 2)  entity == ReadStr(b, id.next)  attribute == ReadStr(b, entity.next)
      value == ReadValue(b, attribute.next)
      tx == ReadStr(b, value.next)
      flags == b[tx.next + 1]
      createdBy == ReadStrIf(Has(flags, 1), b, tx.next + 2)
      retractedAt == ReadInstantIf(Has(flags, 2), b, createdBy.next)
      retractTx == ReadStrIf(Has(flags, 4), b, retractedAt.next)
      entityType == ReadStrIf(Has(flags, 8), b, retractTx.next)
      validTo == ReadInstantIf(b[entityType.next + 1] # 0, b, entityType.next + 2)
      retractedPosition == ReadInstantIf(b[validTo.next + 1] # 0, b, validTo.next + 2)
  IN [id |-> id.of, entity |-> entity.of, attribute |-> attribute.of, value |-> value.of, tx |-> tx.of,
      recordedAt |-> b[tx.next], createdBy |-> createdBy.of, retractedAt |-> retractedAt.of,
      retractTx |-> retractTx.of, entityType |-> entityType.of, validFrom |-> b[entityType.next],
      validTo |-> validTo.of, recordedPosition |-> b[validTo.next], retractedPosition |-> retractedPosition.of]

-----------------------------------------------------------------------------
\* Reads: a range of ids, their records, and what the pattern and the basis leave.

\* valuesEqual: the two zeros are equal; a blob is its hash.
ValuesEqual(v, w) ==
  /\ v.type = w.type
  /\ v.of = w.of \/ (v.type = "number" /\ v.of[2] = 0 /\ w.of[2] = 0)
MatchesPattern(d, p) ==
  /\ p.entity # Nothing => d.entity = p.entity
  /\ p.attribute # Nothing => d.attribute = p.attribute
  /\ p.value # AnyValue => ValuesEqual(d.value, p.value)

\* visibleAt: by commit positions when the basis and the fact have them, else by instants.
RecordedVisible(d, basis) ==
  IF basis.position # NoInstant
  THEN /\ IF d.recordedPosition = 0 THEN basis.recordedAt = NoInstant \/ d.recordedAt <= basis.recordedAt
          ELSE d.recordedPosition <= basis.position
       /\ \/ d.retractedAt = NoInstant
          \/ IF d.retractedPosition = NoInstant THEN basis.recordedAt # NoInstant /\ d.retractedAt > basis.recordedAt
             ELSE d.retractedPosition > basis.position
  ELSE IF basis.recordedAt = NoInstant THEN d.retractedAt = NoInstant
  ELSE d.recordedAt <= basis.recordedAt /\ (d.retractedAt = NoInstant \/ d.retractedAt > basis.recordedAt)
HexVisibleAt(d, basis) ==
  /\ RecordedVisible(d, basis)
  /\ d.validFrom <= basis.validAt /\ (d.validTo = NoInstant \/ d.validTo > basis.validAt)

\* batchFetchMeta: the record each id leads to.
BatchFetchMeta(ids) == {DeserializeDatom(hexMeta[id]) : id \in ids \cap DOMAIN hexMeta}
ScanCollect(p, includeRetracted) ==
  {d \in BatchFetchMeta(InRange(PatternToScan(p))) :
     (includeRetracted \/ d.retractedAt = NoInstant) /\ MatchesPattern(d, p)}
ScanCollectTemporal(p, basis) == {d \in ScanCollect(p, TRUE) : HexVisibleAt(d, basis)}
GetByEntityType(type) == {d \in BatchFetchMeta(InRange(TypePrefixRange(type))) : d.retractedAt = NoInstant}

\* match (KvTriplesLive.ts): a type alone is looked up, beside other terms it filters.
MatchCurrent(p, type) ==
  IF type # Nothing /\ p.entity = Nothing /\ p.attribute = Nothing /\ p.value = AnyValue THEN GetByEntityType(type)
  ELSE {d \in ScanCollect(p, FALSE) : type # Nothing => d.entityType = type}
MatchTemporal(p, type, basis) == {d \in ScanCollectTemporal(p, basis) : type # Nothing => d.entityType = type}

-----------------------------------------------------------------------------
\* Writes.

\* An entry for each order, VAET for refs alone, and for the type when there is one.
EntriesOf(d, e, a, v, t, id, type) ==
  LET Entry(key) == [key |-> key, id |-> d.id] IN
  {Entry(EavtKey(e, a, v, t, id)), Entry(AevtKey(e, a, v, t, id)), Entry(AvetKey(e, a, v, t, id))}
    \cup (IF d.value.type = "ref" THEN {Entry(VaetKey(e, a, v, t, id))} ELSE {})
    \cup (IF d.entityType # Nothing THEN {Entry(TypeKey(type, id))} ELSE {})
BytesEntries(d) ==
  LET Bytes(s) == EncodePart(TString(s)) IN
  EntriesOf(d, Bytes(d.entity), Bytes(d.attribute), EncodePart(ValueToTuplePart(d.value)), Bytes(d.tx), Bytes(d.id),
            Bytes(d.entityType))
StrEntries(d) ==
  EntriesOf(d, EncodeStringStr(d.entity), EncodeStringStr(d.attribute), ValueToPartStr(d.value), EncodeStringStr(d.tx),
            EncodeStringStr(d.id), EncodeStringStr(d.entityType))

HexInit == hexEntries = {} /\ hexMeta = <<>> /\ hexPosition = 0 /\ hexFacts = {}

DatomOf(f, position) ==
  [id |-> HexIdAt[position], entity |-> f.entity, attribute |-> f.attribute, value |-> f.value, tx |-> HexIdAt[position],
   recordedAt |-> position, createdBy |-> f.createdBy, retractedAt |-> NoInstant, retractTx |-> Nothing,
   entityType |-> f.entityType, validFrom |-> f.validFrom, validTo |-> f.validTo,
   recordedPosition |-> position, retractedPosition |-> NoInstant]

StoreDatom(d, entries) ==
  /\ hexEntries' = hexEntries \cup entries
  /\ hexMeta' = [id \in DOMAIN hexMeta \cup {d.id} |-> IF id = d.id THEN SerializeDatom(d) ELSE hexMeta[id]]
  /\ hexFacts' = hexFacts \cup {d}
  /\ hexPosition' = hexPosition + 1
\* assert, and the batches of a backend that takes bytes.
HexAssert(f) == StoreDatom(DatomOf(f, hexPosition + 1), BytesEntries(DatomOf(f, hexPosition + 1)))
\* assertBatchStr: the batches of the in-memory backend.
HexAssertStr(f) == StoreDatom(DatomOf(f, hexPosition + 1), StrEntries(DatomOf(f, hexPosition + 1)))

\* A retraction rewrites the record; the index keeps its keys.
HexRetract(id) ==
  LET d == DeserializeDatom(hexMeta[id])
      closed == [d EXCEPT !.retractedAt = hexPosition + 1, !.retractedPosition = hexPosition + 1,
                          !.retractTx = HexIdAt[hexPosition + 1]]
  IN /\ d.retractedAt = NoInstant
     /\ hexMeta' = [hexMeta EXCEPT ![id] = SerializeDatom(closed)]
     /\ hexFacts' = {IF g.id = id THEN [g EXCEPT !.retractedAt = hexPosition + 1, !.retractedPosition = hexPosition + 1,
                                                 !.retractTx = HexIdAt[hexPosition + 1]] ELSE g : g \in hexFacts}
     /\ hexPosition' = hexPosition + 1
     /\ UNCHANGED hexEntries

-----------------------------------------------------------------------------
\* Properties.

\* What a pattern asks for, said of the facts and not of keys.
Wants(d, p, type) ==
  /\ p.entity \in {Nothing, d.entity} /\ p.attribute \in {Nothing, d.attribute}
  /\ p.value = AnyValue \/ (p.value.type = d.value.type /\ p.value.of = d.value.of)
  /\ type \in {Nothing, d.entityType}
EntityTypes == {Nothing} \cup {f.entityType : f \in HexFacts}

\* Every key says which fact it is of: read back as a tuple, it is the parts it was built
\* from, an instant in whole milliseconds (decodeTuple).
KeysReadBack ==
  \A d \in hexFacts :
     LET v == ValueToTuplePart(d.value)
         kept == IF v.type = "datetime" THEN [v EXCEPT !.of = <<2 * (v.of[1] \div 2)>>] ELSE v
     IN \E e \in hexEntries : /\ e.id = d.id /\ e.key[1] = 1
                              /\ DecodeTuple(Tail(e.key)) =
                                   <<TString(d.entity), TString(d.attribute), kept, TString(d.tx), TString(d.id)>>

\* Whichever order a pattern selects, whoever wrote the keys, and with texts that share a
\* prefix or hold a zero byte, a scan returns exactly the facts that match: its range cuts
\* off none of them and what else it meets is filtered (indexes.ts, scan.ts, tuple.ts); and
\* what it returns of each is what was asserted, and retracted, of it (serializeDatom).
ScansAreExact ==
  hexFacts # {} => KeysReadBack /\ \A p \in HexPatterns :
     /\ ScanCollect(p, TRUE) = {d \in hexFacts : Wants(d, p, Nothing)}
     /\ \A type \in (IF p.value = AnyValue THEN EntityTypes ELSE {Nothing}) :
          MatchCurrent(p, type) = {d \in hexFacts : Wants(d, p, type) /\ d.retractedAt = NoInstant}
=============================================================================
