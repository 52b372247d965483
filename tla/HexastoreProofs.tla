---------------------------- MODULE HexastoreProofs ----------------------------
(***************************************************************************)
(* Proofs about the hexastore.  What is written byte by byte is read back  *)
(* (texts, parts, tuples, META records); a range of keys holds the key of  *)
(* every fact that its pattern wants, since no part has the tag a range    *)
(* ends with; and the store keeps the keys and the record of each fact     *)
(* through every commit (HexInv).  Hence scans are exact.                  *)
(*                                                                         *)
(* Then the rows of the SQL adapters: each is read back as the fact it is  *)
(* of (RowsInv), so the conditions on rows are conditions on facts, and    *)
(* every cut and dependency state is exact.                                *)
(***************************************************************************)
EXTENDS SqlRows, SequenceTheorems, NaturalLemmas

-----------------------------------------------------------------------------
\* What stands at an offset of a sequence of bytes.

Stands(bytes, at, s) ==
  /\ at + Len(s) <= Len(bytes) + 1
  /\ \A i \in 1..Len(s) : bytes[at + i - 1] = s[i]

LEMMA StandsWhole ==
  ASSUME NEW b \in Seq(Int)
  PROVE  Stands(b, 1, b)
<1>1. Len(b) \in Nat
  OBVIOUS
<1> QED BY <1>1 DEF Stands

\* Two after one another stand where each does.
LEMMA StandsParts ==
  ASSUME NEW b \in Seq(Int), NEW at \in Nat \ {0}, NEW s \in Seq(Int), NEW t \in Seq(Int)
  PROVE  Stands(b, at, s \o t) <=> Stands(b, at, s) /\ Stands(b, at + Len(s), t)
<1>1. /\ Len(s) \in Nat /\ Len(t) \in Nat /\ Len(b) \in Nat /\ Len(s \o t) = Len(s) + Len(t)
      /\ \A i \in 1..Len(s) : (s \o t)[i] = s[i]
      /\ \A i \in 1..Len(t) : (s \o t)[Len(s) + i] = t[i]
  BY ConcatProperties
<1>2. ASSUME Stands(b, at, s \o t) PROVE Stands(b, at, s) /\ Stands(b, at + Len(s), t)
  <2>1. ASSUME NEW i \in 1..Len(s) PROVE b[at + i - 1] = s[i]
    <3>1. i \in 1..Len(s \o t)
      BY <1>1
    <3>2. b[at + i - 1] = (s \o t)[i]
      BY <1>2, <3>1 DEF Stands
    <3> QED BY <1>1, <3>2
  <2>2. ASSUME NEW i \in 1..Len(t) PROVE b[at + Len(s) + i - 1] = t[i]
    <3>1. Len(s) + i \in 1..Len(s \o t) /\ at + (Len(s) + i) - 1 = at + Len(s) + i - 1
      BY <1>1
    <3>2. b[at + (Len(s) + i) - 1] = (s \o t)[Len(s) + i]
      BY <1>2, <3>1 DEF Stands
    <3> QED BY <1>1, <3>1, <3>2
  <2>3. at + Len(s) + Len(t) <= Len(b) + 1
    BY <1>1, <1>2 DEF Stands
  <2> QED BY <1>1, <2>1, <2>2, <2>3 DEF Stands
<1>3. ASSUME Stands(b, at, s), Stands(b, at + Len(s), t) PROVE Stands(b, at, s \o t)
  <2>1. ASSUME NEW i \in 1..Len(s \o t) PROVE b[at + i - 1] = (s \o t)[i]
    <3>1. CASE i <= Len(s)
      BY <1>1, <1>3, <3>1 DEF Stands
    <3>2. CASE i > Len(s)
      <4>1. i - Len(s) \in 1..Len(t) /\ at + Len(s) + (i - Len(s)) - 1 = at + i - 1 /\ Len(s) + (i - Len(s)) = i
        BY <1>1, <3>2
      <4>2. b[at + Len(s) + (i - Len(s)) - 1] = t[i - Len(s)] /\ (s \o t)[Len(s) + (i - Len(s))] = t[i - Len(s)]
        BY <1>1, <1>3, <4>1 DEF Stands
      <4> QED BY <4>1, <4>2
    <3> QED BY <1>1, <3>1, <3>2
  <2> QED BY <1>1, <1>3, <2>1 DEF Stands
<1> QED BY <1>2, <1>3

\* What stands at an offset is the subsequence there.
LEMMA StandsIsSubSeq ==
  ASSUME NEW b \in Seq(Int), NEW at \in Nat \ {0}, NEW s \in Seq(Int), Stands(b, at, s)
  PROVE  SubSeq(b, at, at + Len(s) - 1) = s
<1>1. Len(s) \in Nat /\ Len(b) \in Nat
  OBVIOUS
<1>2. at + Len(s) - 1 \in Int /\ at \in Int /\ \A i \in at..(at + Len(s) - 1) : b[i] \in Int
  BY <1>1, LenProperties, ElementOfSeq DEF Stands
<1>3. /\ SubSeq(b, at, at + Len(s) - 1) \in Seq(Int)
      /\ Len(SubSeq(b, at, at + Len(s) - 1)) = IF at <= at + Len(s) - 1 THEN at + Len(s) - 1 - at + 1 ELSE 0
      /\ \A i \in 1..(at + Len(s) - 1 - at + 1) : SubSeq(b, at, at + Len(s) - 1)[i] = b[at + i - 1]
  BY <1>2, SubSeqProperties
<1>4. Len(SubSeq(b, at, at + Len(s) - 1)) = Len(s)
  BY <1>1, <1>3
<1>5. \A i \in 1..Len(s) : SubSeq(b, at, at + Len(s) - 1)[i] = s[i]
  BY <1>1, <1>3 DEF Stands
<1> QED BY <1>3, <1>4, <1>5, SeqEqual

LEMMA StandsOne ==
  ASSUME NEW b \in Seq(Int), NEW at \in Nat \ {0}, NEW x \in Int
  PROVE  Stands(b, at, <<x>>) <=> at <= Len(b) /\ b[at] = x
<1>1. Len(b) \in Nat /\ Len(<<x>>) = 1 /\ <<x>>[1] = x
  OBVIOUS
<1> QED BY <1>1 DEF Stands

-----------------------------------------------------------------------------
\* Sequences of sequences, one after the other.

\* f gives the first of them together, for each number of them.
Joined(ss, f) ==
  /\ f \in [0..Len(ss) -> Seq(Int)] /\ f[0] = <<>>
  /\ \A i \in 1..Len(ss) : f[i] = f[i - 1] \o ss[i]

\* A flattened sequence is what has been joined so far and one piece more.
LEMMA FlattenUnfolds ==
  ASSUME NEW ss \in Seq(Seq(Int))
  PROVE  \E f : Joined(ss, f) /\ FlattenSeq(ss) = f[Len(ss)]
<1>1. Len(ss) \in Nat /\ \A i \in 1..Len(ss) : ss[i] \in Seq(Int)
  BY ElementOfSeq
<1>2. CASE Len(ss) = 0
  <2>1. ss = <<>>
    BY <1>2, EmptySeq
  <2>2. FlattenSeq(ss) = <<>>
    BY <1>2, <2>1 DEF FlattenSeq
  <2>3. Joined(ss, [i \in 0..0 |-> <<>>])
    BY <1>2, EmptySeq DEF Joined
  <2> QED BY <1>2, <2>2, <2>3
<1>3. CASE Len(ss) # 0
  <2> DEFINE n == Len(ss)
             D == 1..n
             rank == [i \in D |-> i - 1]
             step == [i \in D |-> [g \in [D -> Seq(Int)] |-> IF i = 1 THEN ss[i] ELSE g[i - 1] \o ss[i]]]
             Is(g) == g = [i \in D |-> IF i = 1 THEN ss[i] ELSE g[i - 1] \o ss[i]]
             g0 == CHOOSE g : Is(g)
  <2>1. step \in [D -> [[D -> Seq(Int)] -> Seq(Int)]]
    <3> SUFFICES ASSUME NEW i \in D, NEW g \in [D -> Seq(Int)]
                 PROVE  (IF i = 1 THEN ss[i] ELSE g[i - 1] \o ss[i]) \in Seq(Int)
      OBVIOUS
    <3>1. i # 1 => i - 1 \in D
      BY <1>1
    <3> QED BY <1>1, <3>1, ConcatProperties
  <2>2. rank \in [D -> 0..n] /\ Seq(Int) # {} /\ n \in Nat
    BY <1>1, EmptySeq
  <2>3. ASSUME NEW i \in D, NEW f \in [D -> Seq(Int)], NEW g \in [D -> Seq(Int)],
               \A j \in D : rank[j] < rank[i] => f[j] = g[j]
        PROVE  step[i][f] = step[i][g]
    <3>1. i # 1 => i - 1 \in D /\ rank[i - 1] < rank[i]
      BY <1>1
    <3> QED BY <2>3, <3>1
  <2>4. Ranked(D, Seq(Int), n, rank, step)
    BY <2>1, <2>2, <2>3 DEF Ranked
  <2> HIDE DEF rank, step
  <2>5. PICK g \in [D -> Seq(Int)] : \A i \in D : g[i] = step[i][g]
    <3> HIDE DEF n, D
    <3> QED BY <2>4, RankedRecursion
  <2>6. Is(g)
    BY <2>5 DEF step
  <2>7. Is(g0)
    BY <2>6
  <2>8. FlattenSeq(ss) = g0[n]
    BY <1>3 DEF FlattenSeq
  <2> HIDE DEF g0
  <2>20. \A i \in D : g0[i] = IF i = 1 THEN ss[i] ELSE g0[i - 1] \o ss[i]
    BY <2>7
  <2>21. g0[1] = ss[1] /\ \A i \in D : i + 1 \in D => g0[i + 1] = g0[i] \o ss[i + 1]
    <3>1. 1 \in D /\ \A i \in D : i + 1 # 1 /\ (i + 1) - 1 = i
      BY <1>1, <1>3
    <3> QED BY <2>20, <3>1
  <2> DEFINE T == {i \in Nat : i + 1 \in D => g0[i + 1] \in Seq(Int)}
  <2>9. 0 \in T
    BY <1>1, <1>3, <2>21
  <2>10. ASSUME NEW i \in Nat, i \in T PROVE i + 1 \in T
    <3> SUFFICES ASSUME (i + 1) + 1 \in D PROVE g0[(i + 1) + 1] \in Seq(Int)
      BY DEF T
    <3>1. i + 1 \in D /\ g0[i + 1] \in Seq(Int)
      BY <1>1, <2>10
    <3>2. g0[(i + 1) + 1] = g0[i + 1] \o ss[(i + 1) + 1]
      BY <2>21, <3>1
    <3> QED BY <1>1, <3>1, <3>2, ConcatProperties
  <2>11. ASSUME NEW i \in D PROVE g0[i] \in Seq(Int)
    <3>1. Nat \subseteq T
      BY <2>9, <2>10, AllNaturals
    <3>2. i - 1 \in Nat /\ (i - 1) + 1 = i
      BY <1>1
    <3>3. i - 1 \in T
      BY <3>1, <3>2
    <3> QED BY <3>2, <3>3
  <2> DEFINE f == [i \in 0..n |-> IF i = 0 THEN <<>> ELSE g0[i]]
  <2>12. f \in [0..n -> Seq(Int)] /\ f[0] = <<>> /\ f[n] = g0[n]
    BY <1>1, <1>3, <2>11, EmptySeq
  <2>13. ASSUME NEW i \in 1..n PROVE f[i] = f[i - 1] \o ss[i]
    <3>1. CASE i = 1
      <4>1. f[1] = ss[1] /\ f[0] = <<>>
        BY <1>1, <1>3, <2>21
      <4> QED BY <1>1, <3>1, <4>1, ConcatEmptySeq
    <3>2. CASE i # 1
      <4>1. i \in D /\ i - 1 \in D /\ (i - 1) + 1 = i
        BY <1>1, <3>2
      <4>2. g0[i] = g0[i - 1] \o ss[i]
        BY <2>21, <4>1
      <4>3. f[i] = g0[i] /\ f[i - 1] = g0[i - 1]
        BY <1>1, <4>1
      <4> QED BY <4>2, <4>3
    <3> QED BY <3>1, <3>2
  <2> HIDE DEF f
  <2>14. Joined(ss, f)
    BY <2>12, <2>13 DEF Joined
  <2> QED BY <2>8, <2>12, <2>14
<1> QED BY <1>2, <1>3

\* There is one such function, also of what begins alike.
LEMMA JoinedAlike ==
  ASSUME NEW ss \in Seq(Seq(Int)), NEW tt \in Seq(Seq(Int)), NEW f, NEW g, Joined(ss, f), Joined(tt, g),
         Len(ss) <= Len(tt), \A i \in 1..Len(ss) : ss[i] = tt[i]
  PROVE  \A i \in 0..Len(ss) : f[i] = g[i]
<1>1. Len(ss) \in Nat /\ Len(tt) \in Nat
  OBVIOUS
<1> DEFINE T == {i \in Nat : i <= Len(ss) => f[i] = g[i]}
<1>2. 0 \in T
  BY DEF Joined
<1>3. ASSUME NEW i \in Nat, i \in T PROVE i + 1 \in T
  <2> SUFFICES ASSUME i + 1 <= Len(ss) PROVE f[i + 1] = g[i + 1]
    OBVIOUS
  <2>1. f[i] = g[i] /\ i + 1 \in 1..Len(ss) /\ i + 1 \in 1..Len(tt) /\ (i + 1) - 1 = i
    BY <1>1, <1>3
  <2> QED BY <2>1 DEF Joined
<1>4. Nat \subseteq T
  BY <1>2, <1>3, AllNaturals
<1> QED BY <1>1, <1>4

LEMMA FlattenIs ==
  ASSUME NEW ss \in Seq(Seq(Int)), NEW f, Joined(ss, f)
  PROVE  FlattenSeq(ss) = f[Len(ss)]
<1>1. Len(ss) \in Nat
  OBVIOUS
<1>2. PICK g : Joined(ss, g) /\ FlattenSeq(ss) = g[Len(ss)]
  BY FlattenUnfolds
<1>3. \A i \in 0..Len(ss) : f[i] = g[i]
  BY <1>1, <1>2, JoinedAlike
<1> QED BY <1>1, <1>2, <1>3

LEMMA FlattenAppend ==
  ASSUME NEW ss \in Seq(Seq(Int)), NEW s \in Seq(Int)
  PROVE  FlattenSeq(Append(ss, s)) = FlattenSeq(ss) \o s
<1> DEFINE tt == Append(ss, s)
<1>1. /\ Len(ss) \in Nat /\ tt \in Seq(Seq(Int)) /\ Len(tt) = Len(ss) + 1
      /\ \A i \in 1..Len(ss) : ss[i] = tt[i]
      /\ tt[Len(ss) + 1] = s
  BY AppendProperties
<1>2. PICK f : Joined(ss, f) /\ FlattenSeq(ss) = f[Len(ss)]
  BY FlattenUnfolds
<1>3. PICK g : Joined(tt, g) /\ FlattenSeq(tt) = g[Len(tt)]
  BY <1>1, FlattenUnfolds
<1> HIDE DEF tt
<1>4. f[Len(ss)] = g[Len(ss)]
  <2>1. Len(ss) <= Len(tt) /\ Len(ss) \in 0..Len(ss)
    BY <1>1
  <2>2. \A i \in 0..Len(ss) : f[i] = g[i]
    <3>1. /\ ss \in Seq(Seq(Int)) /\ tt \in Seq(Seq(Int)) /\ Joined(ss, f) /\ Joined(tt, g)
          /\ \A i \in 1..Len(ss) : ss[i] = tt[i]
      BY <1>1, <1>2, <1>3
    <3> HIDE DEF Joined
    <3> QED BY <2>1, <3>1, JoinedAlike
  <2> QED BY <2>1, <2>2
<1>5. g[Len(ss) + 1] = g[Len(ss)] \o s
  <2>1. Len(ss) + 1 \in 1..Len(tt) /\ (Len(ss) + 1) - 1 = Len(ss)
    BY <1>1
  <2> QED BY <1>1, <1>3, <2>1 DEF Joined
<1> QED BY <1>1, <1>2, <1>3, <1>4, <1>5 DEF tt

LEMMA FlattenFew ==
  ASSUME NEW s \in Seq(Int), NEW t \in Seq(Int), NEW u \in Seq(Int)
  PROVE  /\ FlattenSeq(<<s>>) = s
         /\ FlattenSeq(<<s, t>>) = s \o t
         /\ FlattenSeq(<<s, t, u>>) = (s \o t) \o u
<1>1. <<>> \in Seq(Seq(Int)) /\ <<s>> \in Seq(Seq(Int)) /\ <<s, t>> \in Seq(Seq(Int))
  OBVIOUS
<1>2. <<s>> = Append(<<>>, s) /\ <<s, t>> = Append(<<s>>, t)
  OBVIOUS
<1>3. <<s, t, u>> = Append(<<s, t>>, u)
  OBVIOUS
<1>5. FlattenSeq(<<>>) = <<>>
  BY EmptySeq DEF FlattenSeq
<1>6. FlattenSeq(<<s>>) = s
  <2>1. FlattenSeq(Append(<<>>, s)) = FlattenSeq(<<>>) \o s
    BY <1>1, FlattenAppend
  <2>2. <<>> \o s = s
    BY ConcatEmptySeq
  <2> QED BY <1>2, <1>5, <2>1, <2>2
<1>7. FlattenSeq(<<s, t>>) = s \o t
  BY <1>1, <1>2, <1>6, FlattenAppend
<1>8. FlattenSeq(<<s, t, u>>) = (s \o t) \o u
  BY <1>1, <1>3, <1>7, FlattenAppend
<1> QED BY <1>6, <1>7, <1>8

\* Where all of them stand, each does.
LEMMA JoinedStands ==
  ASSUME NEW ss \in Seq(Seq(Int)), NEW f, Joined(ss, f),
         NEW b \in Seq(Int), NEW at \in Nat \ {0}, Stands(b, at, f[Len(ss)])
  PROVE  \A i \in 1..Len(ss) : Stands(b, at + Len(f[i - 1]), ss[i])
<1> DEFINE T == {m \in Nat : m <= Len(ss) /\ Stands(b, at, f[m]) =>
                               \A i \in 1..m : Stands(b, at + Len(f[i - 1]), ss[i])}
<1>1. Len(ss) \in Nat /\ \A i \in 1..Len(ss) : ss[i] \in Seq(Int)
  BY ElementOfSeq
<1>2. 0 \in T
  OBVIOUS
<1>3. ASSUME NEW m \in Nat, m \in T PROVE m + 1 \in T
  <2> SUFFICES ASSUME m + 1 <= Len(ss), Stands(b, at, f[m + 1]), NEW i \in 1..(m + 1)
               PROVE  Stands(b, at + Len(f[i - 1]), ss[i])
    OBVIOUS
  <2>1. m \in 0..Len(ss) /\ m + 1 \in 1..Len(ss) /\ (m + 1) - 1 = m
    BY <1>1
  <2>2. f[m] \in Seq(Int) /\ ss[m + 1] \in Seq(Int) /\ f[m + 1] = f[m] \o ss[m + 1]
    BY <1>1, <2>1 DEF Joined
  <2>3. Stands(b, at, f[m]) /\ Stands(b, at + Len(f[m]), ss[m + 1])
    <3>1. Stands(b, at, f[m] \o ss[m + 1])
      BY <2>2
    <3> QED BY <2>2, <3>1, StandsParts
  <2>4. CASE i = m + 1
    BY <2>1, <2>3, <2>4
  <2>5. CASE i # m + 1
    <3>1. i \in 1..m /\ m <= Len(ss)
      BY <2>1, <2>5
    <3> QED BY <1>3, <2>3, <3>1
  <2> QED BY <2>4, <2>5
<1>4. Nat \subseteq T
  BY <1>2, <1>3, AllNaturals
<1>5. Len(ss) \in T
  BY <1>1, <1>4
<1> QED BY <1>1, <1>5

-----------------------------------------------------------------------------
\* Texts.

EscapedOf(s) == [i \in DOMAIN s |-> Escaped(s[i])]

LEMMA EscapedTexts ==
  ASSUME NEW s \in Utf8
  PROVE  /\ EscapedOf(s) \in Seq(Seq(Int)) /\ Len(EscapedOf(s)) = Len(s) /\ Len(s) \in Nat
         /\ \A i \in 1..Len(s) : s[i] \in 0..254 /\ EscapedOf(s)[i] = Escaped(s[i])
         /\ s \in Seq(Int)
<1>1. Len(s) \in Nat /\ DOMAIN s = 1..Len(s) /\ \A i \in 1..Len(s) : s[i] \in 0..254
  BY LenProperties, ElementOfSeq DEF Utf8
<1>2. ASSUME NEW i \in 1..Len(s) PROVE Escaped(s[i]) \in Seq(Int)
  <2>1. s[i] \in Int
    <3>1. s[i] \in 0..254
      BY <1>1
    <3>2. \A x \in 0..254 : x \in Int
      OBVIOUS
    <3> QED BY <3>1, <3>2, Zenon
  <2>2. <<0, 255>> \in Seq(Int) /\ <<s[i]>> \in Seq(Int)
    BY <2>1
  <2> QED BY <2>2 DEF Escaped
<1>3. s \in Seq(Int)
  <2>1. 0..254 \subseteq Int
    OBVIOUS
  <2> QED BY <2>1, SeqMonotonic DEF Utf8
<1>4. EscapedOf(s) \in [1..Len(s) -> Seq(Int)]
  BY <1>1, <1>2 DEF EscapedOf
<1>5. EscapedOf(s) \in Seq(Seq(Int)) /\ Len(EscapedOf(s)) = Len(s)
  BY <1>1, <1>4
<1> QED BY <1>1, <1>3, <1>5 DEF EscapedOf

\* A text is written with every zero byte escaped, and then two of them.
LEMMA EncodedText ==
  ASSUME NEW s \in Utf8
  PROVE  \E f : /\ Joined(EscapedOf(s), f) /\ f \in [0..Len(s) -> Seq(Int)]
                /\ EncodeString(s) = f[Len(s)] \o <<0, 0>>
                /\ EncodeString(s) \in Seq(Int) /\ Len(EncodeString(s)) = Len(f[Len(s)]) + 2
<1>1. PICK f : Joined(EscapedOf(s), f) /\ FlattenSeq(EscapedOf(s)) = f[Len(s)]
  BY EscapedTexts, FlattenUnfolds
<1>2. EncodeString(s) = f[Len(s)] \o <<0, 0>>
  BY <1>1 DEF EncodeString, EscapedOf
<1>3. f \in [0..Len(s) -> Seq(Int)] /\ f[Len(s)] \in Seq(Int) /\ <<0, 0>> \in Seq(Int) /\ Len(<<0, 0>>) = 2
  BY <1>1, EscapedTexts DEF Joined
<1>4. f[Len(s)] \o <<0, 0>> \in Seq(Int) /\ Len(f[Len(s)] \o <<0, 0>>) = Len(f[Len(s)]) + 2
  BY <1>3, ConcatProperties
<1> QED BY <1>1, <1>2, <1>3, <1>4

\* Both writers of the in-memory backend write what the encoder does.
LEMMA WritersAgree ==
  ASSUME NEW s \in Utf8
  PROVE  EncodeStringToStr(s) = EncodeString(s)
<1> DEFINE n == Len(s)
           Is(g) == g = [i \in 0..n |-> IF i = 0 THEN <<>> ELSE g[i - 1] \o Escaped(s[i])]
           g0 == CHOOSE g : Is(g)
<1>1. PICK f : Joined(EscapedOf(s), f) /\ FlattenSeq(EscapedOf(s)) = f[n]
  BY EscapedTexts, FlattenUnfolds
<1>2. /\ n \in Nat /\ f \in [0..n -> Seq(Int)] /\ f[0] = <<>>
      /\ \A i \in 1..n : f[i] = f[i - 1] \o Escaped(s[i])
  BY <1>1, EscapedTexts DEF Joined
<1>3. Is(f)
  <2>1. ASSUME NEW i \in 0..n PROVE f[i] = IF i = 0 THEN <<>> ELSE f[i - 1] \o Escaped(s[i])
    <3>1. i # 0 => i \in 1..n
      BY <1>2
    <3> QED BY <1>2, <3>1
  <2> QED BY <1>2, <2>1
<1>4. Is(g0)
  BY <1>3
<1>5. EncodeStringToStrSlow(s) = g0[n] \o <<0, 0>>
  BY DEF EncodeStringToStrSlow
<1> HIDE DEF g0
<1>6. g0[n] = f[n]
  <2> DEFINE T == {i \in Nat : i <= n => g0[i] = f[i]}
  <2>1. 0 \in T
    BY <1>2, <1>4
  <2>2. ASSUME NEW i \in Nat, i \in T PROVE i + 1 \in T
    <3> SUFFICES ASSUME i + 1 <= n PROVE g0[i + 1] = f[i + 1]
      OBVIOUS
    <3>1. i + 1 \in 0..n /\ i + 1 \in 1..n /\ i + 1 # 0 /\ (i + 1) - 1 = i /\ g0[i] = f[i]
      BY <1>2, <2>2
    <3>2. g0[i + 1] = g0[(i + 1) - 1] \o Escaped(s[i + 1])
      BY <1>4, <3>1
    <3>3. f[i + 1] = f[(i + 1) - 1] \o Escaped(s[i + 1])
      BY <1>2, <3>1
    <3> QED BY <3>1, <3>2, <3>3
  <2>3. Nat \subseteq T
    BY <2>1, <2>2, AllNaturals
  <2> QED BY <1>2, <2>3
<1> QED BY <1>1, <1>5, <1>6 DEF EncodeStringToStr, EncodeString, EscapedOf

\* Reading goes over a text character by character and stops behind it, whatever follows.
LEMMA TextsAreRead ==
  ASSUME NEW b \in Seq(Int), NEW at \in Nat \ {0}, NEW s \in Utf8, Stands(b, at, EncodeString(s))
  PROVE  DecodeString(b, at) = [of |-> s, takes |-> Len(EncodeString(s))]
<1> DEFINE T == [of : Seq(Int), at : Nat \ {0}, ended : BOOLEAN]
           first == [of |-> <<>>, at |-> at, ended |-> FALSE]
           step == [n \in Nat |-> [t \in T |-> StringTurn(b, t)]]
           Is(g) == g = [n \in Nat |-> IF n = 0 THEN first ELSE StringTurn(b, g[n - 1])]
           after == CHOOSE g : Is(g)
<1>1. Len(b) \in Nat /\ \A i \in 1..Len(b) : b[i] \in Int
  BY ElementOfSeq
<1>2. ASSUME NEW t \in T PROVE StringTurn(b, t) \in T
  <2>1. CASE t.ended \/ t.at > Len(b)
    BY <2>1 DEF StringTurn
  <2>2. CASE ~(t.ended \/ t.at > Len(b))
    <3>1. t.at \in 1..Len(b) /\ b[t.at] \in Int
      BY <1>1, <2>2
    <3>2. Append(t.of, b[t.at]) \in Seq(Int) /\ Append(t.of, 0) \in Seq(Int)
      BY <3>1, AppendProperties
    <3> QED BY <2>2, <3>1, <3>2 DEF StringTurn
  <2> QED BY <2>1, <2>2
<1>3. first \in T
  BY EmptySeq
<1>4. PICK g \in Iterations(T, first, step) : TRUE
  <2>1. step \in [Nat -> [T -> T]]
    BY <1>2
  <2> HIDE DEF T, first, step
  <2> QED BY <1>3, <2>1, Iterates
<1>5. Is(g)
  <2>1. g \in [Nat -> T] /\ g[0] = first /\ \A i \in Nat : g[i + 1] = step[i][g[i]]
    BY <1>4 DEF Iterations
  <2>2. ASSUME NEW n \in Nat PROVE g[n] = IF n = 0 THEN first ELSE StringTurn(b, g[n - 1])
    <3>1. CASE n = 0
      BY <2>1, <3>1
    <3>2. CASE n # 0
      <4>1. n - 1 \in Nat /\ (n - 1) + 1 = n
        BY <3>2
      <4>2. g[n] = step[n - 1][g[n - 1]] /\ g[n - 1] \in T
        BY <2>1, <4>1
      <4> QED BY <3>2, <4>1, <4>2
    <3> QED BY <3>1, <3>2
  <2> QED BY <2>1, <2>2
<1>6. Is(after)
  BY <1>5
<1>7. DecodeString(b, at) = [of |-> after[Len(b) + 1].of, takes |-> after[Len(b) + 1].at - at]
  BY DEF DecodeString
<1> HIDE DEF after
<1>8. after[0] = first /\ \A n \in Nat : after[n + 1] = StringTurn(b, after[n])
  <2>1. after[0] = first
    BY <1>6
  <2>2. ASSUME NEW n \in Nat PROVE after[n + 1] = StringTurn(b, after[n])
    <3>1. n + 1 \in Nat /\ n + 1 # 0 /\ (n + 1) - 1 = n
      OBVIOUS
    <3> QED BY <1>6, <3>1
  <2> QED BY <2>1, <2>2
<1>9. PICK f : /\ Joined(EscapedOf(s), f) /\ f \in [0..Len(s) -> Seq(Int)]
               /\ EncodeString(s) = f[Len(s)] \o <<0, 0>>
               /\ EncodeString(s) \in Seq(Int) /\ Len(EncodeString(s)) = Len(f[Len(s)]) + 2
  BY EncodedText
<1>10. /\ Len(s) \in Nat /\ s \in Seq(Int) /\ \A i \in 1..Len(s) : s[i] \in 0..254
       /\ f[0] = <<>> /\ \A i \in 1..Len(s) : f[i] = f[i - 1] \o Escaped(s[i]) /\ Escaped(s[i]) \in Seq(Int)
  <2>1. \A i \in 1..Len(s) : EscapedOf(s)[i] = Escaped(s[i]) /\ EscapedOf(s)[i] \in Seq(Int)
    BY EscapedTexts, ElementOfSeq
  <2> QED BY <1>9, <2>1, EscapedTexts DEF Joined
<1>11. Stands(b, at, f[Len(s)]) /\ Stands(b, at + Len(f[Len(s)]), <<0, 0>>)
  <2>1. Stands(b, at, f[Len(s)] \o <<0, 0>>) /\ f[Len(s)] \in Seq(Int) /\ <<0, 0>> \in Seq(Int)
    BY <1>9, <1>10
  <2> QED BY <2>1, StandsParts
<1>12. ASSUME NEW i \in 1..Len(s) PROVE Stands(b, at + Len(f[i - 1]), Escaped(s[i]))
  <2>1. \A j \in 1..Len(EscapedOf(s)) : Stands(b, at + Len(f[j - 1]), EscapedOf(s)[j])
    BY <1>9, <1>11, EscapedTexts, JoinedStands
  <2> QED BY <2>1, EscapedTexts
\* What n turns have read, as long as the text goes on.
<1> DEFINE Turned(n) == [of |-> SubSeq(s, 1, n), at |-> at + Len(f[n]), ended |-> FALSE]
           S == {n \in Nat : n <= Len(s) => after[n] = Turned(n) /\ Len(f[n]) >= n}
<1>13. 0 \in S
  <2>1. SubSeq(s, 1, 0) = <<>>
    BY SubSeqEmpty
  <2>2. Len(f[0]) = 0 /\ at + Len(f[0]) = at
    BY <1>10
  <2>3. Turned(0) = first
    BY <2>1, <2>2, Zenon
  <2>4. after[0] = Turned(0)
    BY <1>8, <2>3
  <2>5. Len(f[0]) >= 0
    BY <2>2
  <2> QED BY <2>4, <2>5
<1>14. ASSUME NEW n \in Nat, n \in S PROVE n + 1 \in S
  <2> SUFFICES ASSUME n + 1 <= Len(s) PROVE after[n + 1] = Turned(n + 1) /\ Len(f[n + 1]) >= n + 1
    OBVIOUS
  <2>1. n + 1 \in 1..Len(s) /\ n \in 0..Len(s) /\ (n + 1) - 1 = n
    BY <1>10
  <2>2. /\ after[n] = Turned(n) /\ Len(f[n]) \in Nat /\ Len(f[n]) >= n
        /\ f[n + 1] = f[n] \o Escaped(s[n + 1]) /\ s[n + 1] \in 0..254
        /\ f[n] \in Seq(Int) /\ Escaped(s[n + 1]) \in Seq(Int)
    <3>1. after[n] = Turned(n) /\ Len(f[n]) >= n
      BY <1>10, <1>14, <2>1
    <3>2. f[n] \in Seq(Int)
      BY <1>9, <2>1
    <3>3. Len(f[n]) \in Nat
      BY <3>2, LenProperties
    <3>4. f[n + 1] = f[(n + 1) - 1] \o Escaped(s[n + 1]) /\ s[n + 1] \in 0..254 /\ Escaped(s[n + 1]) \in Seq(Int)
      BY <1>10, <2>1
    <3> QED BY <2>1, <3>1, <3>2, <3>3, <3>4
  <2>9. s[n + 1] \in Int
    <3>1. \A x \in 0..254 : x \in Int
      OBVIOUS
    <3> QED BY <2>2, <3>1, Zenon
  <2>3. Len(f[n + 1]) = Len(f[n]) + Len(Escaped(s[n + 1]))
    BY <2>2, ConcatProperties
  <2>4. Stands(b, at + Len(f[n]), Escaped(s[n + 1]))
    BY <1>12, <2>1
  <2>5. SubSeq(s, 1, n + 1) = Append(SubSeq(s, 1, n), s[n + 1])
    <3>1. 1 \in 1..Len(s) /\ n + 1 \in 1..Len(s) /\ s[n + 1] \in Int
      BY <1>10, <2>1, <2>9
    <3>2. SubSeq(s, 1, n + 1) = SubSeq(s, 1, (n + 1) - 1) \o <<s[n + 1]>>
      BY <1>10, <3>1, SubSeqRecursiveSecond
    <3>3. SubSeq(s, 1, n) \in Seq(Int)
      <4>1. \A i \in 1..n : s[i] \in Int
        BY <1>10, <2>1
      <4> QED BY <4>1, SubSeqProperties
    <3>4. Append(SubSeq(s, 1, n), s[n + 1]) = SubSeq(s, 1, n) \o <<s[n + 1]>>
      BY <3>1, <3>3, AppendIsConcat
    <3> QED BY <2>1, <3>2, <3>4
  <2>6. CASE s[n + 1] = 0
    <3>1. Escaped(s[n + 1]) = <<0, 255>> /\ Len(Escaped(s[n + 1])) = 2
      BY <2>6 DEF Escaped
    <3>2. /\ at + Len(f[n]) + 2 <= Len(b) + 1
          /\ b[at + Len(f[n])] = 0 /\ b[at + Len(f[n]) + 1] = 255
      <4>1. \A i \in 1..2 : b[at + Len(f[n]) + i - 1] = <<0, 255>>[i]
        BY <2>4, <3>1 DEF Stands
      <4> QED BY <1>1, <2>2, <2>4, <3>1, <4>1 DEF Stands
    <3>3. StringTurn(b, Turned(n)) = [of |-> Append(SubSeq(s, 1, n), 0), at |-> at + Len(f[n]) + 2, ended |-> FALSE]
      <4> DEFINE t == Turned(n)
      <4>1. t.of = SubSeq(s, 1, n) /\ t.at = at + Len(f[n]) /\ t.ended = FALSE
        OBVIOUS
      <4>2. t.at < Len(b) /\ b[t.at] = 0 /\ b[t.at + 1] = 255 /\ ~(t.at > Len(b))
        BY <1>1, <2>2, <3>2, <4>1, SMTT(60)
      <4> HIDE DEF t
      <4>3. StringTurn(b, t) = [of |-> Append(t.of, 0), at |-> t.at + 2, ended |-> FALSE]
        BY <4>1, <4>2 DEF StringTurn
      <4> QED BY <4>1, <4>3 DEF t
    <3>4. Turned(n + 1) = [of |-> Append(SubSeq(s, 1, n), 0), at |-> at + Len(f[n]) + 2, ended |-> FALSE]
      <4>1. at + Len(f[n + 1]) = at + Len(f[n]) + 2
        BY <2>2, <2>3, <3>1
      <4> QED BY <2>5, <2>6, <4>1, Zenon
    <3>5. after[n + 1] = StringTurn(b, Turned(n))
      BY <1>8, <2>2, Zenon
    <3>6. Len(f[n + 1]) >= n + 1
      BY <2>2, <2>3, <3>1
    <3> QED BY <3>3, <3>4, <3>5, <3>6, Zenon
  <2>7. CASE s[n + 1] # 0
    <3>1. Escaped(s[n + 1]) = <<s[n + 1]>> /\ Len(Escaped(s[n + 1])) = 1
      BY <2>7 DEF Escaped
    <3>2. at + Len(f[n]) <= Len(b) /\ b[at + Len(f[n])] = s[n + 1]
      BY <2>2, <2>4, <3>1, StandsOne, SMTT(60)
    <3>3. StringTurn(b, Turned(n)) = [of |-> Append(SubSeq(s, 1, n), s[n + 1]), at |-> at + Len(f[n]) + 1, ended |-> FALSE]
      <4> DEFINE t == Turned(n)
      <4>1. t.of = SubSeq(s, 1, n) /\ t.at = at + Len(f[n]) /\ t.ended = FALSE
        OBVIOUS
      <4>2. b[t.at] = s[n + 1] /\ b[t.at] # 0 /\ ~(t.at > Len(b))
        BY <1>1, <2>2, <2>7, <3>2, <4>1
      <4> HIDE DEF t
      <4>3. StringTurn(b, t) = [of |-> Append(t.of, b[t.at]), at |-> t.at + 1, ended |-> FALSE]
        BY <4>1, <4>2 DEF StringTurn
      <4> QED BY <4>1, <4>2, <4>3 DEF t
    <3>4. Turned(n + 1) = [of |-> Append(SubSeq(s, 1, n), s[n + 1]), at |-> at + Len(f[n]) + 1, ended |-> FALSE]
      <4>1. at + Len(f[n + 1]) = at + Len(f[n]) + 1
        BY <2>2, <2>3, <3>1
      <4> QED BY <2>5, <4>1, Zenon
    <3>5. after[n + 1] = StringTurn(b, Turned(n))
      BY <1>8, <2>2, Zenon
    <3>6. Len(f[n + 1]) >= n + 1
      BY <2>2, <2>3, <3>1
    <3> QED BY <3>3, <3>4, <3>5, <3>6, Zenon
  <2> QED BY <2>6, <2>7
<1>15. Len(s) \in S
  <2> HIDE DEF S
  <2> QED BY <1>10, <1>13, <1>14, AllNaturals
<1> DEFINE End == [of |-> s, at |-> at + Len(f[Len(s)]) + 2, ended |-> TRUE]
<1>16. after[Len(s) + 1] = End
  <2>1. Len(f[Len(s)]) \in Nat /\ SubSeq(s, 1, Len(s)) = s
    BY <1>9, <1>10, LenProperties, SubSeqFull
  <2>2. after[Len(s)] = [of |-> s, at |-> at + Len(f[Len(s)]), ended |-> FALSE]
    <3>1. after[Len(s)] = Turned(Len(s))
      BY <1>10, <1>15
    <3> QED BY <2>1, <3>1
  <2>3. /\ at + Len(f[Len(s)]) + 2 <= Len(b) + 1
        /\ b[at + Len(f[Len(s)])] = 0 /\ b[at + Len(f[Len(s)]) + 1] = 0
    <3>1. Len(<<0, 0>>) = 2
      OBVIOUS
    <3>2. \A i \in 1..2 : b[at + Len(f[Len(s)]) + i - 1] = <<0, 0>>[i]
      BY <1>11, <3>1 DEF Stands
    <3> QED BY <1>1, <1>11, <2>1, <3>1, <3>2 DEF Stands
  <2>4. StringTurn(b, after[Len(s)]) = End
    <3> DEFINE t == after[Len(s)]
    <3>1. t.of = s /\ t.at = at + Len(f[Len(s)]) /\ t.ended = FALSE
      BY <2>2
    <3>2. b[t.at] = 0 /\ ~(b[t.at + 1] = 255) /\ ~(t.at > Len(b))
      BY <1>1, <2>1, <2>3, <3>1
    <3> HIDE DEF t
    <3>3. StringTurn(b, t) = [of |-> t.of, at |-> t.at + 2, ended |-> TRUE]
      BY <3>1, <3>2 DEF StringTurn
    <3> QED BY <3>1, <3>3 DEF t
  <2> QED BY <1>8, <1>10, <2>4
<1>17. after[Len(b) + 1] = End
  <2> DEFINE U == {n \in Nat : after[Len(s) + 1 + n] = End}
  <2>1. 0 \in U
    BY <1>10, <1>16
  <2>2. ASSUME NEW n \in Nat, n \in U PROVE n + 1 \in U
    <3>1. after[Len(s) + 1 + n] = End /\ Len(s) + 1 + n \in Nat /\ (Len(s) + 1 + n) + 1 = Len(s) + 1 + (n + 1)
      BY <1>10, <2>2
    <3>2. after[(Len(s) + 1 + n) + 1] = StringTurn(b, End)
      BY <1>8, <3>1
    <3>3. StringTurn(b, End) = End
      BY DEF StringTurn
    <3> QED BY <3>1, <3>2, <3>3
  <2>3. Nat \subseteq U
    <3> HIDE DEF U
    <3> QED BY <2>1, <2>2, AllNaturals
  <2>4. Len(b) - Len(s) \in Nat /\ Len(s) + 1 + (Len(b) - Len(s)) = Len(b) + 1
    <3>1. Len(f[Len(s)]) \in Nat /\ Len(f[Len(s)]) >= Len(s) /\ at + Len(f[Len(s)]) <= Len(b) + 1
      BY <1>9, <1>10, <1>11, <1>15, LenProperties DEF Stands
    <3> QED BY <1>1, <1>10, <3>1
  <2> QED BY <2>3, <2>4
<1>18. Len(f[Len(s)]) \in Nat
  BY <1>9, <1>10, LenProperties
<1> QED BY <1>7, <1>9, <1>17, <1>18

-----------------------------------------------------------------------------
\* Parts of a tuple.

ValueTypes == {"string", "number", "boolean", "datetime", "ref", "json", "blob"}
TextTypes == {"string", "ref", "blob"}

LEMMA TagsTell ==
  /\ \A type \in ValueTypes : TagOf(type) \in 1..7 /\ TypesOf(TagOf(type)) = {type}
  /\ TagOf("string") = 3 /\ TagOf("max") = 255
<1>1. /\ TagOf("null") = 0 /\ TagOf("boolean") = 1 /\ TagOf("number") = 2 /\ TagOf("string") = 3 /\ TagOf("ref") = 4
      /\ TagOf("datetime") = 5 /\ TagOf("json") = 6 /\ TagOf("blob") = 7 /\ TagOf("max") = 255
  BY DEF TagOf
<1>2. ASSUME NEW type \in ValueTypes, NEW other \in Types, TagOf(other) = TagOf(type) PROVE other = type
  BY <1>1, <1>2 DEF Types, ValueTypes
<1>3. ValueTypes \subseteq Types
  BY DEF Types, ValueTypes
<1>4. \A type \in ValueTypes : TypesOf(TagOf(type)) = {type}
  BY <1>2, <1>3 DEF TypesOf
<1> QED BY <1>1, <1>4 DEF ValueTypes

LEMMA ContentsAre ==
  ASSUME NEW type \in ValueTypes, NEW of \in Contents(type)
  PROVE  /\ of \in Seq(Int)
         /\ type = "number" => of = <<of[1], of[2]>> /\ of[1] \in 0..1 /\ of[2] \in 0..127
         /\ type = "boolean" => of = <<of[1]>> /\ of[1] \in 0..1
         /\ type = "datetime" => of = <<of[1]>> /\ of[1] \in -256..255
         /\ type \in TextTypes \cup {"json"} => of \in Utf8
<1>1. CASE type = "number"
  <2>1. of \in (0..1) \X (0..127)
    BY <1>1 DEF Contents
  <2>2. of = <<of[1], of[2]>> /\ of[1] \in 0..1 /\ of[2] \in 0..127
    BY <2>1
  <2>3. of[1] \in Int /\ of[2] \in Int
    BY <2>2
  <2>4. <<of[1], of[2]>> \in Seq(Int)
    BY <2>3
  <2> QED BY <1>1, <2>2, <2>4 DEF TextTypes
<1>2. CASE type = "boolean"
  <2>1. PICK x \in 0..1 : of = <<x>>
    BY <1>2 DEF Contents
  <2>2. of = <<of[1]>> /\ of[1] \in 0..1
    BY <2>1
  <2>3. of \in Seq(Int)
    BY <2>1
  <2> QED BY <1>2, <2>2, <2>3 DEF TextTypes
<1>3. CASE type = "datetime"
  <2>1. PICK x \in -256..255 : of = <<x>>
    BY <1>3 DEF Contents
  <2>2. of = <<of[1]>> /\ of[1] \in -256..255
    BY <2>1
  <2>3. of \in Seq(Int)
    BY <2>1
  <2> QED BY <1>3, <2>2, <2>3 DEF TextTypes
<1>4. CASE type \in TextTypes \cup {"json"}
  <2>1. of \in Utf8
    BY <1>4 DEF Contents, TextTypes
  <2> QED BY <1>4, <2>1, EscapedTexts DEF TextTypes
<1> QED BY <1>1, <1>2, <1>3, <1>4 DEF ValueTypes, TextTypes

\* The bytes of a part behind its tag.
BytesOf(type, of) ==
  IF type \in TextTypes THEN EncodeString(of)
  ELSE IF type = "number" THEN EncodeNumber(of)
  ELSE IF type = "datetime" THEN EncodeDatetime(of)
  ELSE IF type = "json" THEN <<Len(of)>> \o of ELSE of

\* A part begins with its tag.
LEMMA PartsBegin ==
  ASSUME NEW type \in ValueTypes, NEW of \in Contents(type)
  PROVE  /\ EncodePart(Part(type, of)) = <<TagOf(type)>> \o BytesOf(type, of)
         /\ BytesOf(type, of) \in Seq(Int) /\ <<TagOf(type)>> \in Seq(Int)
         /\ EncodePart(Part(type, of)) \in Seq(Int)
         /\ Len(EncodePart(Part(type, of))) = 1 + Len(BytesOf(type, of)) /\ Len(BytesOf(type, of)) \in Nat
         /\ EncodePart(Part(type, of))[1] \in 1..7
<1>1. EncodePart(Part(type, of)) = <<TagOf(type)>> \o BytesOf(type, of)
  BY DEF EncodePart, Part, BytesOf, TextTypes, ValueTypes
<1>2. BytesOf(type, of) \in Seq(Int)
  <2>1. CASE type \in TextTypes
    <3>1. EncodeString(of) \in Seq(Int)
      BY <2>1, ContentsAre, EncodedText
    <3> QED BY <2>1, <3>1 DEF BytesOf
  <2>2. CASE type = "number"
    <3>1. EncodeNumber(of) \in Seq(Int)
      <4>1. of[1] \in 0..1 /\ of[2] \in 0..127
        BY <2>2, ContentsAre
      <4>2. 255 - (128 + of[2]) \in Int /\ of[2] + 128 \in Int
        BY <4>1
      <4>3. <<255 - (128 + of[2])>> \in Seq(Int) /\ <<of[2] + 128>> \in Seq(Int)
        BY <4>2
      <4> QED BY <4>3 DEF EncodeNumber
    <3> QED BY <2>2, <3>1 DEF BytesOf, TextTypes
  <2>3. CASE type = "datetime"
    <3>1. EncodeDatetime(of) \in Seq(Int)
      <4>1. of[1] \in -256..255
        BY <2>3, ContentsAre
      <4>2. (of[1] \div 2) % 256 \in Int
        BY <4>1
      <4>3. <<(of[1] \div 2) % 256>> \in Seq(Int)
        BY <4>2
      <4> QED BY <4>3 DEF EncodeDatetime
    <3> QED BY <2>3, <3>1 DEF BytesOf, TextTypes
  <2>4. CASE type = "json"
    <3>1. of \in Seq(Int) /\ Len(of) \in Int
      BY ContentsAre, LenProperties
    <3>2. <<Len(of)>> \in Seq(Int)
      BY <3>1
    <3>3. <<Len(of)>> \o of \in Seq(Int)
      BY <3>1, <3>2, ConcatProperties
    <3> QED BY <2>4, <3>3 DEF BytesOf, TextTypes
  <2>5. CASE type = "boolean"
    BY <2>5, ContentsAre DEF BytesOf, TextTypes
  <2> QED BY <2>1, <2>2, <2>3, <2>4, <2>5 DEF ValueTypes, TextTypes
<1>3. TagOf(type) \in 1..7
  BY TagsTell
<1>4. <<TagOf(type)>> \in Seq(Int) /\ Len(<<TagOf(type)>>) = 1 /\ <<TagOf(type)>>[1] = TagOf(type)
  BY <1>3
<1>5. Len(BytesOf(type, of)) \in Nat
  BY <1>2, LenProperties
<1>6. /\ <<TagOf(type)>> \o BytesOf(type, of) \in Seq(Int)
      /\ Len(<<TagOf(type)>> \o BytesOf(type, of)) = 1 + Len(BytesOf(type, of))
      /\ (<<TagOf(type)>> \o BytesOf(type, of))[1] = TagOf(type)
  BY <1>2, <1>4, <1>5, ConcatProperties
<1> QED BY <1>1, <1>2, <1>3, <1>4, <1>5, <1>6

\* What a key keeps of a part: the whole milliseconds of an instant, and all of another.
KeptOf(type, of) == IF type = "datetime" THEN <<2 * (of[1] \div 2)>> ELSE of

\* A part is read back from wherever it stands, an instant in whole milliseconds.
LEMMA PartsAreRead ==
  ASSUME NEW type \in ValueTypes, NEW of \in Contents(type), NEW b \in Seq(Int), NEW at \in Nat \ {0},
         Stands(b, at, EncodePart(Part(type, of)))
  PROVE  DecodePart(b, at) = [part |-> Part(type, KeptOf(type, of)), takes |-> Len(EncodePart(Part(type, of)))]
<1>1. Stands(b, at, <<TagOf(type)>>) /\ Stands(b, at + 1, BytesOf(type, of))
  <2>1. Len(<<TagOf(type)>>) = 1
    OBVIOUS
  <2>2. Stands(b, at, <<TagOf(type)>> \o BytesOf(type, of))
    BY PartsBegin
  <2>3. Stands(b, at, <<TagOf(type)>>) /\ Stands(b, at + Len(<<TagOf(type)>>), BytesOf(type, of))
    BY <2>2, PartsBegin, StandsParts
  <2> QED BY <2>1, <2>3
<1>2. b[at] = TagOf(type)
  <2>1. TagOf(type) \in 1..7
    BY TagsTell
  <2>2. \A x \in 1..7 : x \in Int
    OBVIOUS
  <2>3. TagOf(type) \in Int
    BY <2>1, <2>2, Zenon
  <2> QED BY <1>1, <2>3, StandsOne
<1>3. (IF TypesOf(b[at]) = {} THEN "unknown" ELSE CHOOSE t \in TypesOf(b[at]) : TRUE) = type
  BY <1>2, TagsTell
<1>9. Len(EncodePart(Part(type, of))) = 1 + Len(BytesOf(type, of)) /\ Len(BytesOf(type, of)) \in Nat
  BY PartsBegin
<1>4. CASE type \in TextTypes
  <2>1. Stands(b, at + 1, EncodeString(of)) /\ of \in Utf8 /\ at + 1 \in Nat \ {0}
    BY <1>1, <1>4, ContentsAre DEF BytesOf
  <2>2. DecodeString(b, at + 1) = [of |-> of, takes |-> Len(EncodeString(of))]
    BY <2>1, TextsAreRead
  <2>4. DecodeString(b, at + 1).of = of /\ 1 + DecodeString(b, at + 1).takes = 1 + Len(EncodeString(of))
    BY <2>2
  <2> HIDE <2>2
  <2>3. DecodePart(b, at) = [part |-> Part(type, of), takes |-> 1 + Len(EncodeString(of))]
    <3>1. type \in {"string", "ref", "blob"}
      BY <1>4 DEF TextTypes
    <3> QED BY <1>3, <2>4, <3>1, Zenon DEF DecodePart
  <2> QED BY <1>4, <2>3, PartsBegin DEF BytesOf, KeptOf, TextTypes
<1>5. CASE type = "number"
  <2>1. of = <<of[1], of[2]>> /\ of[1] \in 0..1 /\ of[2] \in 0..127
    BY <1>5, ContentsAre
  <2>2. Stands(b, at + 1, EncodeNumber(of))
    BY <1>1, <1>5 DEF BytesOf, TextTypes
  <2>3. CASE of[1] = 1
    <3>1. EncodeNumber(of) = <<255 - (128 + of[2])>>
      BY <2>3 DEF EncodeNumber
    <3>7. \A x \in 0..127 : /\ 255 - (128 + x) \in Int
                             /\ \A y : y = 255 - (128 + x) => y < 128 /\ (255 - y) - 128 = x
      OBVIOUS
    <3>8. 255 - (128 + of[2]) \in Int
      BY <2>1, <3>7, Zenon
    <3>2. b[at + 1] = 255 - (128 + of[2])
      BY <2>2, <3>1, <3>8, StandsOne
    <3>3. b[at + 1] < 128 /\ (255 - b[at + 1]) - 128 = of[2]
      BY <2>1, <3>2, <3>7, ZenonT(60)
    <3>4. DecodeNumber(b[at + 1]) = of
      BY <2>1, <2>3, <3>3 DEF DecodeNumber
    <3>5. Len(BytesOf(type, of)) = 1
      BY <1>5, <3>1 DEF BytesOf, TextTypes
    <3>6. DecodePart(b, at) = [part |-> Part(type, of), takes |-> 2]
      BY <1>3, <1>5, <3>4 DEF DecodePart
    <3>10. Len(EncodePart(Part(type, of))) = 2
      BY <1>9, <3>5
    <3>101. KeptOf(type, of) = of
      BY <1>5, Zenon DEF KeptOf
    <3> QED BY <3>6, <3>10, <3>101
  <2>4. CASE of[1] # 1
    <3>1. EncodeNumber(of) = <<of[2] + 128>>
      BY <2>4 DEF EncodeNumber
    <3>7. \A x \in 0..127 : x + 128 \in Int /\ \A y : y = x + 128 => ~(y < 128) /\ y - 128 = x
      OBVIOUS
    <3>8. of[2] + 128 \in Int
      BY <2>1, <3>7, Zenon
    <3>2. b[at + 1] = of[2] + 128
      BY <2>2, <3>1, <3>8, StandsOne
    <3>3. ~(b[at + 1] < 128) /\ b[at + 1] - 128 = of[2]
      BY <2>1, <3>2, <3>7, Zenon
    <3>9. of[1] = 0
      BY <2>1, <2>4
    <3>4. DecodeNumber(b[at + 1]) = of
      BY <2>1, <3>9, <3>3 DEF DecodeNumber
    <3>5. Len(BytesOf(type, of)) = 1
      BY <1>5, <3>1 DEF BytesOf, TextTypes
    <3>6. DecodePart(b, at) = [part |-> Part(type, of), takes |-> 2]
      BY <1>3, <1>5, <3>4 DEF DecodePart
    <3>10. Len(EncodePart(Part(type, of))) = 2
      BY <1>9, <3>5
    <3>101. KeptOf(type, of) = of
      BY <1>5, Zenon DEF KeptOf
    <3> QED BY <3>6, <3>10, <3>101
  <2> QED BY <2>3, <2>4
<1>6. CASE type = "datetime"
  <2>1. of = <<of[1]>> /\ of[1] \in -256..255
    BY <1>6, ContentsAre
  <2>2. Stands(b, at + 1, <<(of[1] \div 2) % 256>>)
    BY <1>1, <1>6 DEF BytesOf, TextTypes, EncodeDatetime
  <2> DEFINE x == of[1] \div 2
  <2>3. x \in -128..127
    <3>1. \A t \in -256..255 : t \div 2 \in -128..127
      OBVIOUS
    <3> QED BY <2>1, <3>1, Zenon
  <2>4. x % 256 = (IF x >= 0 THEN x ELSE x + 256) /\ x % 256 \in Int
    <3> HIDE DEF x
    <3> QED BY <2>3
  <2>5. b[at + 1] = x % 256
    BY <2>2, <2>4, StandsOne
  <2>6. DecodeDatetime(b[at + 1]) = <<2 * x>>
    <3> HIDE DEF x
    <3>1. (IF b[at + 1] >= 128 THEN b[at + 1] - 256 ELSE b[at + 1]) = x
      BY <2>3, <2>4, <2>5
    <3> QED BY <3>1, Zenon DEF DecodeDatetime
  <2>7. Len(BytesOf(type, of)) = 1
    BY <1>6 DEF BytesOf, TextTypes, EncodeDatetime
  <2>8. DecodePart(b, at) = [part |-> Part(type, <<2 * x>>), takes |-> 2]
    BY <1>3, <1>6, <2>6 DEF DecodePart
  <2>9. Len(EncodePart(Part(type, of))) = 2
    BY <1>9, <2>7
  <2>91. KeptOf(type, of) = <<2 * x>>
    BY <1>6, Zenon DEF KeptOf
  <2> QED BY <2>8, <2>9, <2>91
<1>7. CASE type = "json"
  <2>1. of \in Seq(Int) /\ Len(of) \in Nat /\ Len(of) \in Int
    BY ContentsAre, LenProperties
  <2>2. Stands(b, at + 1, <<Len(of)>> \o of) /\ <<Len(of)>> \in Seq(Int) /\ Len(<<Len(of)>>) = 1
    BY <1>1, <1>7, <2>1 DEF BytesOf, TextTypes
  <2>3. Stands(b, at + 1, <<Len(of)>>) /\ Stands(b, at + 2, of)
    <3>3. at + 1 \in Nat \ {0}
      OBVIOUS
    <3>1. Stands(b, at + 1, <<Len(of)>>) /\ Stands(b, (at + 1) + Len(<<Len(of)>>), of)
      BY <2>1, <2>2, <3>3, StandsParts
    <3>2. (at + 1) + Len(<<Len(of)>>) = at + 2
      BY <2>2
    <3> QED BY <3>1, <3>2
  <2>4. b[at + 1] = Len(of)
    BY <2>1, <2>3, StandsOne
  <2>5. SubSeq(b, at + 2, at + 2 + Len(of) - 1) = of
    BY <2>1, <2>3, StandsIsSubSeq, SMTT(60)
  <2>6. at + 2 + Len(of) - 1 = at + 1 + b[at + 1]
    BY <2>1, <2>4
  <2>7. DecodePart(b, at) = [part |-> Part(type, of), takes |-> 2 + Len(of)]
    BY <1>3, <1>7, <2>4, <2>5, <2>6 DEF DecodePart
  <2>8. Len(BytesOf(type, of)) = 1 + Len(of)
    BY <1>7, <2>1, <2>2, ConcatProperties DEF BytesOf, TextTypes
  <2>9. Len(EncodePart(Part(type, of))) = 2 + Len(of) /\ KeptOf(type, of) = of
    BY <1>9, <1>7, <2>1, <2>8 DEF KeptOf
  <2> QED BY <2>7, <2>9
<1>8. CASE type = "boolean"
  <2>1. of = <<of[1]>> /\ of[1] \in 0..1
    BY <1>8, ContentsAre
  <2>2. Stands(b, at + 1, of) /\ BytesOf(type, of) = of
    BY <1>1, <1>8 DEF BytesOf, TextTypes
  <2>3. b[at + 1] = of[1]
    <3>1. of[1] \in Int
      BY <2>1
    <3> QED BY <2>1, <2>2, <3>1, StandsOne
  <2>4. DecodePart(b, at) = [part |-> Part(type, of), takes |-> 2]
    BY <1>3, <1>8, <2>1, <2>3 DEF DecodePart
  <2>5. Len(of) = 1
    BY <2>1
  <2>9. Len(EncodePart(Part(type, of))) = 2
    BY <1>9, <2>2, <2>5
  <2>91. KeptOf(type, of) = of
    BY <1>8, Zenon DEF KeptOf
  <2> QED BY <2>4, <2>9, <2>91
<1> QED BY <1>4, <1>5, <1>6, <1>7, <1>8 DEF ValueTypes, TextTypes

-----------------------------------------------------------------------------
\* Tuples.

\* Parts that are read one after the other, from the positions in `pos` to the end.
ReadAlong(b, S, parts, pos) ==
  /\ parts \in Seq(S) /\ Len(parts) <= Len(b) /\ pos \in [1..(Len(parts) + 1) -> Nat]
  /\ pos[1] = 1 /\ pos[Len(parts) + 1] = Len(b) + 1
  /\ \A i \in 1..Len(parts) :
       /\ pos[i] <= Len(b)
       /\ DecodePart(b, pos[i]) = [part |-> parts[i], takes |-> pos[i + 1] - pos[i]]

\* Parts that stand one after the other are read back in turn.
LEMMA TuplesAreRead ==
  ASSUME NEW b \in Seq(Int), NEW S, NEW parts, NEW pos, ReadAlong(b, S, parts, pos)
  PROVE  DecodeTuple(b) = parts
<1> DEFINE n == Len(parts)
           first == [parts |-> <<>>, at |-> 1]
           Is(g) == g = [i \in Nat |-> IF i = 0 THEN first ELSE TupleTurn(b, g[i - 1])]
           after == CHOOSE g : Is(g)
           State(i) == [parts |-> SubSeq(parts, 1, i), at |-> pos[i + 1]]
           h == [i \in Nat |-> IF i <= n THEN State(i) ELSE State(n)]
<1>1. /\ n \in Nat /\ Len(b) \in Nat /\ parts \in Seq(S) /\ pos \in [1..(n + 1) -> Nat]
      /\ pos[1] = 1 /\ pos[n + 1] = Len(b) + 1 /\ n <= Len(b)
  BY LenProperties DEF ReadAlong
<1>2. \A i \in 1..n : pos[i] <= Len(b) /\ DecodePart(b, pos[i]) = [part |-> parts[i], takes |-> pos[i + 1] - pos[i]]
  BY DEF ReadAlong
<1>4. ASSUME NEW i \in Nat, i + 1 <= n PROVE TupleTurn(b, State(i)) = State(i + 1)
  <2>1. i + 1 \in 1..n /\ (i + 1) + 1 \in 1..(n + 1) /\ i + 1 \in 1..(n + 1) /\ 1 \in 1..n
    BY <1>1, <1>4
  <2>2. pos[i + 1] \in Nat /\ pos[(i + 1) + 1] \in Nat /\ pos[i + 1] <= Len(b)
    BY <1>1, <1>2, <2>1
  <2>3. DecodePart(b, pos[i + 1]) = [part |-> parts[i + 1], takes |-> pos[(i + 1) + 1] - pos[i + 1]]
    BY <1>2, <2>1
  <2>4. SubSeq(parts, 1, i + 1) = Append(SubSeq(parts, 1, i), parts[i + 1])
    <3>1. parts[i + 1] \in S /\ (i + 1) - 1 = i
      BY <1>1, <2>1, ElementOfSeq
    <3>2. SubSeq(parts, 1, i + 1) = SubSeq(parts, 1, (i + 1) - 1) \o <<parts[i + 1]>>
      BY <1>1, <2>1, SubSeqRecursiveSecond
    <3>3. SubSeq(parts, 1, i) \in Seq(S)
      <4>1. \A j \in 1..i : parts[j] \in S
        BY <1>1, <2>1, ElementOfSeq
      <4> QED BY <4>1, SubSeqProperties
    <3>4. Append(SubSeq(parts, 1, i), parts[i + 1]) = SubSeq(parts, 1, i) \o <<parts[i + 1]>>
      BY <3>1, <3>3, AppendIsConcat
    <3> QED BY <3>1, <3>2, <3>4
  <2>5. ~(pos[i + 1] > Len(b)) /\ pos[i + 1] + (pos[(i + 1) + 1] - pos[i + 1]) = pos[(i + 1) + 1]
    BY <1>1, <2>2
  <2> DEFINE t == State(i)
             d == DecodePart(b, pos[i + 1])
  <2>6. t.at = pos[i + 1] /\ t.parts = SubSeq(parts, 1, i) /\ d.part = parts[i + 1]
        /\ d.takes = pos[(i + 1) + 1] - pos[i + 1]
    BY <2>3
  <2> HIDE DEF t, d
  <2>7. TupleTurn(b, t) = [parts |-> Append(t.parts, d.part), at |-> t.at + d.takes]
    BY <2>5, <2>6 DEF TupleTurn, d
  <2> QED BY <2>4, <2>5, <2>6, <2>7 DEF t
<1>5. TupleTurn(b, State(n)) = State(n)
  <2>1. State(n).at > Len(b)
    BY <1>1
  <2> HIDE DEF State
  <2> QED BY <2>1 DEF TupleTurn
<1>6. State(0) = first
  BY <1>1, SubSeqEmpty
<1>7. ASSUME NEW i \in Nat PROVE h[i + 1] = TupleTurn(b, h[i])
  <2> HIDE DEF State
  <2>1. CASE i + 1 <= n
    BY <1>1, <1>4, <2>1
  <2>2. CASE ~(i + 1 <= n)
    <3>1. h[i] = State(n) /\ h[i + 1] = State(n)
      BY <1>1, <2>2
    <3> QED BY <1>5, <3>1
  <2> QED BY <2>1, <2>2
<1>8. h[0] = first
  BY <1>1, <1>6
<1> HIDE DEF State
<1>9. Is(h)
  <2>1. ASSUME NEW i \in Nat PROVE h[i] = IF i = 0 THEN first ELSE TupleTurn(b, h[i - 1])
    <3>1. i # 0 => i - 1 \in Nat /\ (i - 1) + 1 = i
      OBVIOUS
    <3> HIDE DEF h, first
    <3> QED BY <1>7, <1>8, <3>1
  <2>2. h = [i \in Nat |-> h[i]]
    OBVIOUS
  <2> HIDE DEF h, first
  <2> QED BY <2>1, <2>2
<1> HIDE DEF first
<1>10. Is(after)
  <2> HIDE DEF h
  <2> QED BY <1>9
<1>11. DecodeTuple(b) = after[Len(b)].parts
  BY DEF DecodeTuple, first
<1> HIDE DEF after, h
<1>12. after[Len(b)] = h[Len(b)]
  <2> DEFINE T == {i \in Nat : after[i] = h[i]}
  <2>1. 0 \in T
    BY <1>8, <1>10
  <2>2. ASSUME NEW i \in Nat, i \in T PROVE i + 1 \in T
    <3>1. i + 1 \in Nat /\ i + 1 # 0 /\ (i + 1) - 1 = i
      OBVIOUS
    <3>2. after[i + 1] = TupleTurn(b, after[i])
      BY <1>10, <3>1
    <3> QED BY <1>7, <2>2, <3>1, <3>2
  <2>3. Nat \subseteq T
    <3> HIDE DEF T
    <3> QED BY <2>1, <2>2, AllNaturals
  <2> QED BY <1>1, <2>3
<1>13. h[Len(b)] = State(n)
  <2>1. n <= Len(b)
    BY <1>1
  <2> QED BY <1>1, <2>1 DEF h
<1>14. SubSeq(parts, 1, n) = parts
  BY <1>1, SubSeqFull
<1> QED BY <1>11, <1>12, <1>13, <1>14 DEF State

\* Five parts under the byte of an index.
KeyOf(prefix, p, q, r, s, t) == prefix \o p \o q \o r \o s \o t
Laid(k, prefix, p, q, r, s, t) ==
  /\ k \in Seq(Int) /\ Len(k) = Len(prefix) + Len(p) + Len(q) + Len(r) + Len(s) + Len(t)
  /\ Stands(k, 1, prefix) /\ Stands(k, 1 + Len(prefix), p) /\ Stands(k, 1 + Len(prefix) + Len(p), q)
  /\ Stands(k, 1 + Len(prefix) + Len(p) + Len(q), r)
  /\ Stands(k, 1 + Len(prefix) + Len(p) + Len(q) + Len(r), s)
  /\ Stands(k, 1 + Len(prefix) + Len(p) + Len(q) + Len(r) + Len(s), t)

LEMMA KeysStand ==
  ASSUME NEW prefix \in Seq(Int), NEW p \in Seq(Int), NEW q \in Seq(Int), NEW r \in Seq(Int), NEW s \in Seq(Int), NEW t \in Seq(Int)
  PROVE  Laid(KeyOf(prefix, p, q, r, s, t), prefix, p, q, r, s, t)
<1> DEFINE k1 == prefix \o p
           k2 == k1 \o q
           k3 == k2 \o r
           k4 == k3 \o s
           k == k4 \o t
<1>1. k1 \in Seq(Int) /\ Len(k1) = Len(prefix) + Len(p)
  BY ConcatProperties
<1> HIDE DEF k1
<1>2. k2 \in Seq(Int) /\ Len(k2) = Len(k1) + Len(q)
  BY <1>1, ConcatProperties
<1> HIDE DEF k2
<1>3. k3 \in Seq(Int) /\ Len(k3) = Len(k2) + Len(r)
  BY <1>2, ConcatProperties
<1> HIDE DEF k3
<1>4. k4 \in Seq(Int) /\ Len(k4) = Len(k3) + Len(s)
  BY <1>3, ConcatProperties
<1> HIDE DEF k4
<1>5. k \in Seq(Int) /\ Len(k) = Len(k4) + Len(t)
  BY <1>4, ConcatProperties
<1>15. k = k4 \o t
  OBVIOUS
<1> HIDE DEF k
<1>6. 1 \in Nat \ {0} /\ Stands(k, 1, k4 \o t)
  <2>1. Stands(k, 1, k)
    BY <1>5, StandsWhole
  <2> QED BY <1>15, <2>1
<1>7. Stands(k, 1, k4) /\ Stands(k, 1 + Len(k4), t)
  BY <1>4, <1>5, <1>6, StandsParts
<1>8. Stands(k, 1, k3) /\ Stands(k, 1 + Len(k3), s)
  BY <1>3, <1>5, <1>6, <1>7, StandsParts DEF k4
<1>9. Stands(k, 1, k2) /\ Stands(k, 1 + Len(k2), r)
  BY <1>2, <1>5, <1>6, <1>8, StandsParts DEF k3
<1>10. Stands(k, 1, k1) /\ Stands(k, 1 + Len(k1), q)
  BY <1>1, <1>5, <1>6, <1>9, StandsParts DEF k2
<1>11. Stands(k, 1, prefix) /\ Stands(k, 1 + Len(prefix), p)
  BY <1>5, <1>6, <1>10, StandsParts DEF k1
<1>12. k = KeyOf(prefix, p, q, r, s, t)
  BY <1>15 DEF k4, k3, k2, k1, KeyOf
<1>13. Len(prefix) \in Nat /\ Len(p) \in Nat /\ Len(q) \in Nat /\ Len(r) \in Nat /\ Len(s) \in Nat /\ Len(t) \in Nat
  BY LenProperties
<1>14. /\ 1 + Len(k1) = 1 + Len(prefix) + Len(p) /\ 1 + Len(k2) = 1 + Len(prefix) + Len(p) + Len(q)
       /\ 1 + Len(k3) = 1 + Len(prefix) + Len(p) + Len(q) + Len(r)
       /\ 1 + Len(k4) = 1 + Len(prefix) + Len(p) + Len(q) + Len(r) + Len(s)
       /\ Len(k) = Len(prefix) + Len(p) + Len(q) + Len(r) + Len(s) + Len(t)
  BY <1>1, <1>2, <1>3, <1>4, <1>5, <1>13
<1> QED BY <1>5, <1>7, <1>8, <1>9, <1>10, <1>11, <1>12, <1>14 DEF Laid

\* Behind that byte everything stands one place earlier.
LEMMA TailStands ==
  ASSUME NEW k \in Seq(Int), k # <<>>, NEW at \in Nat \ {0}, NEW s \in Seq(Int), Stands(k, at + 1, s)
  PROVE  Stands(Tail(k), at, s) /\ Tail(k) \in Seq(Int) /\ Len(Tail(k)) = Len(k) - 1
<1>1. /\ Tail(k) \in Seq(Int) /\ Len(Tail(k)) = Len(k) - 1 /\ \A i \in 1..Len(Tail(k)) : Tail(k)[i] = k[i + 1]
      /\ Len(s) \in Nat /\ Len(k) \in Nat
  BY HeadTailProperties, LenProperties
<1>2. at + Len(s) <= Len(Tail(k)) + 1
  BY <1>1 DEF Stands
<1>3. ASSUME NEW i \in 1..Len(s) PROVE Tail(k)[at + i - 1] = s[i]
  <2>1. at + i - 1 \in 1..Len(Tail(k)) /\ (at + i - 1) + 1 = at + 1 + i - 1
    BY <1>1, <1>2
  <2>2. k[at + 1 + i - 1] = s[i]
    BY DEF Stands
  <2> QED BY <1>1, <2>1, <2>2
<1> QED BY <1>1, <1>2, <1>3 DEF Stands

\* A part and its contents.
IsPart(p) == \E type \in ValueTypes : \E of \in Contents(type) : p = Part(type, of)
KeptPart(p) == Part(p.type, KeptOf(p.type, p.of))

\* So a key without its prefix is read back as the parts it was built from.
LEMMA KeyIsReadBack ==
  ASSUME NEW x \in Int, NEW p, NEW q, NEW r, NEW s, NEW t, IsPart(p), IsPart(q), IsPart(r), IsPart(s), IsPart(t)
  PROVE  DecodeTuple(Tail(KeyOf(<<x>>, EncodePart(p), EncodePart(q), EncodePart(r), EncodePart(s), EncodePart(t)))) =
           <<KeptPart(p), KeptPart(q), KeptPart(r), KeptPart(s), KeptPart(t)>>
<1> DEFINE E(y) == EncodePart(y)
           L(y) == Len(EncodePart(y))
           k == KeyOf(<<x>>, E(p), E(q), E(r), E(s), E(t))
           b == Tail(k)
<1>1. ASSUME NEW y, IsPart(y) PROVE E(y) \in Seq(Int) /\ L(y) \in Nat /\ L(y) >= 1
  <2>0. PICK type \in ValueTypes : \E z \in Contents(type) : y = Part(type, z)
    BY <1>1 DEF IsPart
  <2>1. PICK of \in Contents(type) : y = Part(type, of)
    BY <2>0
  <2>2. /\ EncodePart(Part(type, of)) \in Seq(Int)
        /\ Len(EncodePart(Part(type, of))) = 1 + Len(BytesOf(type, of)) /\ Len(BytesOf(type, of)) \in Nat
    BY PartsBegin
  <2>3. 1 + Len(BytesOf(type, of)) \in Nat /\ 1 + Len(BytesOf(type, of)) >= 1
    BY <2>2
  <2> QED BY <2>1, <2>2, <2>3
<1>2. ASSUME NEW y, IsPart(y), NEW at \in Nat \ {0}, b \in Seq(Int), Stands(b, at, E(y))
      PROVE  DecodePart(b, at) = [part |-> KeptPart(y), takes |-> L(y)]
  <2>0. PICK type \in ValueTypes : \E z \in Contents(type) : y = Part(type, z)
    BY <1>2 DEF IsPart
  <2>1. PICK of \in Contents(type) : y = Part(type, of)
    BY <2>0
  <2>2. y.type = type /\ y.of = of
    BY <2>1 DEF Part
  <2> HIDE DEF b
  <2>3. DecodePart(b, at) = [part |-> Part(type, KeptOf(type, of)), takes |-> L(y)]
    BY <1>2, <2>1, PartsAreRead
  <2> QED BY <2>2, <2>3 DEF KeptPart
<1>3. <<x>> \in Seq(Int) /\ Len(<<x>>) = 1
  OBVIOUS
<1>4. /\ E(p) \in Seq(Int) /\ E(q) \in Seq(Int) /\ E(r) \in Seq(Int) /\ E(s) \in Seq(Int) /\ E(t) \in Seq(Int)
      /\ L(p) \in Nat /\ L(q) \in Nat /\ L(r) \in Nat /\ L(s) \in Nat /\ L(t) \in Nat
      /\ L(p) >= 1 /\ L(q) >= 1 /\ L(r) >= 1 /\ L(s) >= 1 /\ L(t) >= 1
  BY <1>1
<1> DEFINE a1 == 1
           a2 == 1 + L(p)
           a3 == 1 + L(p) + L(q)
           a4 == 1 + L(p) + L(q) + L(r)
           a5 == 1 + L(p) + L(q) + L(r) + L(s)
           a6 == 1 + L(p) + L(q) + L(r) + L(s) + L(t)
<1>5. /\ k \in Seq(Int) /\ Len(k) = 1 + L(p) + L(q) + L(r) + L(s) + L(t)
      /\ Stands(k, 1 + 1, E(p)) /\ Stands(k, 1 + 1 + L(p), E(q)) /\ Stands(k, 1 + 1 + L(p) + L(q), E(r))
      /\ Stands(k, 1 + 1 + L(p) + L(q) + L(r), E(s)) /\ Stands(k, 1 + 1 + L(p) + L(q) + L(r) + L(s), E(t))
  <2>4. E(p) \in Seq(Int) /\ E(q) \in Seq(Int) /\ E(r) \in Seq(Int) /\ E(s) \in Seq(Int) /\ E(t) \in Seq(Int)
    BY <1>4
  <2> HIDE DEF E
  <2>5. Laid(k, <<x>>, E(p), E(q), E(r), E(s), E(t))
    BY <1>3, <2>4, KeysStand, Zenon
  <2>2. /\ k \in Seq(Int) /\ Len(k) = Len(<<x>>) + Len(E(p)) + Len(E(q)) + Len(E(r)) + Len(E(s)) + Len(E(t))
        /\ Stands(k, 1 + Len(<<x>>), E(p)) /\ Stands(k, 1 + Len(<<x>>) + Len(E(p)), E(q))
        /\ Stands(k, 1 + Len(<<x>>) + Len(E(p)) + Len(E(q)), E(r))
        /\ Stands(k, 1 + Len(<<x>>) + Len(E(p)) + Len(E(q)) + Len(E(r)), E(s))
        /\ Stands(k, 1 + Len(<<x>>) + Len(E(p)) + Len(E(q)) + Len(E(r)) + Len(E(s)), E(t))
    BY <2>5 DEF Laid
  <2>3. L(p) = Len(E(p)) /\ L(q) = Len(E(q)) /\ L(r) = Len(E(r)) /\ L(s) = Len(E(s)) /\ L(t) = Len(E(t))
    BY DEF E
  <2> HIDE DEF k, L
  <2> QED BY <1>3, <2>2, <2>3, Zenon
<1> HIDE DEF k
<1>6. /\ a1 + 1 = 1 + 1 /\ a2 + 1 = 1 + 1 + L(p) /\ a3 + 1 = 1 + 1 + L(p) + L(q)
      /\ a4 + 1 = 1 + 1 + L(p) + L(q) + L(r) /\ a5 + 1 = 1 + 1 + L(p) + L(q) + L(r) + L(s)
      /\ Len(k) = a6 /\ a6 \in Nat
      /\ a1 \in Nat \ {0} /\ a2 \in Nat \ {0} /\ a3 \in Nat \ {0} /\ a4 \in Nat \ {0} /\ a5 \in Nat \ {0}
      /\ a2 - a1 = L(p) /\ a3 - a2 = L(q) /\ a4 - a3 = L(r) /\ a5 - a4 = L(s) /\ a6 - a5 = L(t)
      /\ a1 < a6 /\ a2 < a6 /\ a3 < a6 /\ a4 < a6 /\ a5 < a6 /\ 5 < a6
  <2> HIDE DEF L
  <2>1. L(p) \in Nat /\ L(q) \in Nat /\ L(r) \in Nat /\ L(s) \in Nat /\ L(t) \in Nat
        /\ L(p) >= 1 /\ L(q) >= 1 /\ L(r) >= 1 /\ L(s) >= 1 /\ L(t) >= 1
        /\ Len(k) = 1 + L(p) + L(q) + L(r) + L(s) + L(t)
    BY <1>4, <1>5
  <2>2. /\ a1 + 1 = 1 + 1 /\ a2 + 1 = 1 + 1 + L(p) /\ a3 + 1 = 1 + 1 + L(p) + L(q)
        /\ a4 + 1 = 1 + 1 + L(p) + L(q) + L(r) /\ a5 + 1 = 1 + 1 + L(p) + L(q) + L(r) + L(s)
    BY <2>1
  <2>3. /\ a1 \in Nat \ {0} /\ a2 \in Nat \ {0} /\ a3 \in Nat \ {0} /\ a4 \in Nat \ {0} /\ a5 \in Nat \ {0}
        /\ a6 \in Nat
    BY <2>1, SMTT(60)
  <2>4. a2 - a1 = L(p) /\ a3 - a2 = L(q) /\ a4 - a3 = L(r) /\ a5 - a4 = L(s) /\ a6 - a5 = L(t)
    <3>1. \A u, v \in Nat : (u + v) - u = v
      OBVIOUS
    <3>2. a2 = a1 + L(p) /\ a3 = a2 + L(q) /\ a4 = a3 + L(r) /\ a5 = a4 + L(s) /\ a6 = a5 + L(t)
      OBVIOUS
    <3>3. a1 \in Nat /\ a2 \in Nat /\ a3 \in Nat /\ a4 \in Nat /\ a5 \in Nat
      BY <2>3
    <3> HIDE DEF a1, a2, a3, a4, a5, a6
    <3> QED BY <2>1, <3>1, <3>2, <3>3
  <2>5. a1 < a6 /\ a2 < a6 /\ a3 < a6 /\ a4 < a6 /\ a5 < a6 /\ 5 < a6
    BY <2>1
  <2>6. Len(k) = a6
    BY <2>1
  <2> QED BY <2>2, <2>3, <2>4, <2>5, <2>6
<1>7. k # <<>>
  <2>1. Len(k) # 0
    BY <1>6
  <2> QED BY <2>1
<1> HIDE DEF a1, a2, a3, a4, a5, a6
<1>8. /\ Stands(k, a1 + 1, E(p)) /\ Stands(k, a2 + 1, E(q)) /\ Stands(k, a3 + 1, E(r))
      /\ Stands(k, a4 + 1, E(s)) /\ Stands(k, a5 + 1, E(t))
  BY <1>5, <1>6
<1>9. b \in Seq(Int) /\ Len(b) = Len(k) - 1
  BY <1>4, <1>5, <1>6, <1>7, <1>8, TailStands
<1>10. /\ Stands(b, a1, E(p)) /\ Stands(b, a2, E(q)) /\ Stands(b, a3, E(r)) /\ Stands(b, a4, E(s)) /\ Stands(b, a5, E(t))
  BY <1>4, <1>5, <1>6, <1>7, <1>8, TailStands
<1>11. /\ DecodePart(b, a1) = [part |-> KeptPart(p), takes |-> L(p)]
       /\ DecodePart(b, a2) = [part |-> KeptPart(q), takes |-> L(q)]
       /\ DecodePart(b, a3) = [part |-> KeptPart(r), takes |-> L(r)]
       /\ DecodePart(b, a4) = [part |-> KeptPart(s), takes |-> L(s)]
       /\ DecodePart(b, a5) = [part |-> KeptPart(t), takes |-> L(t)]
  BY <1>2, <1>6, <1>9, <1>10
<1> HIDE DEF b, L
<1> DEFINE S == {KeptPart(p), KeptPart(q), KeptPart(r), KeptPart(s), KeptPart(t)}
           parts == <<KeptPart(p), KeptPart(q), KeptPart(r), KeptPart(s), KeptPart(t)>>
           pos == <<a1, a2, a3, a4, a5, a6>>
<1>12. parts \in Seq(S) /\ Len(parts) = 5
  OBVIOUS
<1>13. pos \in [1..6 -> Nat] /\ pos[1] = 1 /\ pos[6] = Len(b) + 1 /\ 5 <= Len(b)
  <2>1. a1 \in Nat /\ a2 \in Nat /\ a3 \in Nat /\ a4 \in Nat /\ a5 \in Nat /\ a6 \in Nat
    BY <1>6
  <2>2. a1 = 1
    BY DEF a1
  <2>3. Len(b) + 1 = a6 /\ 5 <= Len(b)
    BY <1>6, <1>9
  <2>4. pos \in [1..6 -> Nat] /\ pos[1] = a1 /\ pos[6] = a6
    BY <2>1
  <2> QED BY <2>2, <2>3, <2>4
<1>14. ASSUME NEW i \in 1..5
       PROVE  pos[i] <= Len(b) /\ DecodePart(b, pos[i]) = [part |-> parts[i], takes |-> pos[i + 1] - pos[i]]
  <2>1. CASE i = 1
    BY <1>6, <1>9, <1>11, <2>1
  <2>2. CASE i = 2
    BY <1>6, <1>9, <1>11, <2>2
  <2>3. CASE i = 3
    BY <1>6, <1>9, <1>11, <2>3
  <2>4. CASE i = 4
    BY <1>6, <1>9, <1>11, <2>4
  <2>5. CASE i = 5
    BY <1>6, <1>9, <1>11, <2>5
  <2> QED BY <2>1, <2>2, <2>3, <2>4, <2>5
<1>15. ReadAlong(b, S, parts, pos)
  <2> HIDE DEF S, parts, pos
  <2> QED BY <1>12, <1>13, <1>14 DEF ReadAlong
<1>16. DecodeTuple(b) = parts
  <2> HIDE DEF S, parts, pos
  <2> QED BY <1>9, <1>15, TuplesAreRead
<1> QED BY <1>16 DEF b, k

-----------------------------------------------------------------------------
\* Ranges of keys.

\* What begins with s and goes on with a lower byte than 255 is in the range from s ...
LEMMA InPrefixRange ==
  ASSUME NEW k \in Seq(Int), NEW s \in Seq(Int), Stands(k, 1, s), Len(s) < Len(k), k[Len(s) + 1] < 255
  PROVE  ~KeyBefore(k, s) /\ KeyBefore(k, s \o <<255>>)
<1>1. /\ Len(s) \in Nat /\ Len(k) \in Nat /\ \A i \in 1..Len(s) : s[i] \in Int /\ k[i] = s[i]
  <2>1. \A i \in 1..Len(s) : 1 + i - 1 = i /\ s[i] \in Int
    BY ElementOfSeq
  <2> QED BY <2>1, LenProperties DEF Stands
<1>2. /\ Len(s \o <<255>>) = Len(s) + 1 /\ (s \o <<255>>)[Len(s) + 1] = 255
      /\ \A i \in 1..Len(s) : (s \o <<255>>)[i] = s[i]
  <2>1. <<255>> \in Seq(Int) /\ Len(<<255>>) = 1 /\ <<255>>[1] = 255 /\ 1 \in 1..1
    OBVIOUS
  <2> QED BY <1>1, <2>1, ConcatProperties
<1>3. ASSUME KeyBefore(k, s) PROVE FALSE
  <2>1. PICK n \in 0..Len(k) : n < Len(s) /\ (n = Len(k) \/ k[n + 1] < s[n + 1])
    BY <1>3 DEF KeyBefore
  <2>2. n + 1 \in 1..Len(s) /\ n # Len(k)
    BY <1>1, <2>1
  <2>3. k[n + 1] = s[n + 1] /\ s[n + 1] \in Int
    BY <1>1, <2>2
  <2> QED BY <2>1, <2>2, <2>3
<1>4. KeyBefore(k, s \o <<255>>)
  <2>1. Len(s) \in 0..Len(k) /\ Len(s) < Len(s \o <<255>>)
    BY <1>1, <1>2
  <2>2. \A i \in 1..Len(s) : k[i] = (s \o <<255>>)[i]
    BY <1>1, <1>2
  <2>3. k[Len(s) + 1] < (s \o <<255>>)[Len(s) + 1]
    BY <1>2
  <2> QED BY <2>1, <2>2, <2>3 DEF KeyBefore
<1> QED BY <1>3, <1>4

\* ... and nothing is there that does not begin with s.
LEMMA PrefixRangeOnly ==
  ASSUME NEW k \in Seq(Int), NEW s \in Seq(Int), ~KeyBefore(k, s), KeyBefore(k, s \o << 255 >>)
  PROVE  Stands(k, 1, s)
<1> DEFINE above == s \o <<255>>
<1>1. Len(s) \in Nat /\ Len(k) \in Nat
  BY LenProperties
<1>2. /\ Len(above) = Len(s) + 1
      /\ \A i \in 1..Len(s) : above[i] = s[i]
  <2>1. <<255>> \in Seq(Int) /\ Len(<<255>>) = 1
    OBVIOUS
  <2> QED BY <1>1, <2>1, ConcatProperties
<1> HIDE DEF above
<1>3. PICK n \in 0..Len(k) : /\ n < Len(s) + 1 /\ (\A i \in 1..n : k[i] = above[i])
                             /\ n = Len(k) \/ k[n + 1] < above[n + 1]
  BY <1>2 DEF KeyBefore, above
<1>4. \A i \in 1..n : i \in 1..Len(s) /\ k[i] = s[i]
  <2>1. n \in Nat /\ n <= Len(s)
    BY <1>1, <1>3
  <2>2. \A i \in 1..n : i \in 1..Len(s)
    BY <1>1, <2>1
  <2> QED BY <1>2, <1>3, <2>2
<1>5. CASE n < Len(s)
  <2>1. n + 1 \in 1..Len(s)
    BY <1>1, <1>5
  <2>2. above[n + 1] = s[n + 1]
    BY <1>2, <2>1
  <2>4. n = Len(k) \/ k[n + 1] < s[n + 1]
    BY <1>3, <2>2
  <2>5. \A i \in 1..n : k[i] = s[i]
    BY <1>4
  <2>3. KeyBefore(k, s)
    BY <1>5, <2>4, <2>5, Zenon DEF KeyBefore
  <2> QED BY <2>3
<1>6. CASE n = Len(s)
  <2>1. \A i \in 1..Len(s) : 1 + i - 1 = i /\ k[i] = s[i]
    BY <1>4, <1>6
  <2>2. 1 + Len(s) <= Len(k) + 1
    BY <1>1, <1>3, <1>6
  <2> QED BY <2>1, <2>2 DEF Stands
<1> QED BY <1>1, <1>3, <1>5, <1>6

\* A range goes from the bytes of its parts to the same and 255.
LEMMA RangeOf ==
  ASSUME NEW S, \A x \in S : EncodePart(x) \in Seq(Int), NEW parts \in Seq(S)
  PROVE  EncodeTuple(parts) \in Seq(Int) /\ EncodeTuple(Append(parts, TMax)) = EncodeTuple(parts) \o <<255>>
<1> DEFINE ss == [i \in DOMAIN parts |-> EncodePart(parts[i])]
           more == Append(parts, TMax)
           tt == [i \in DOMAIN more |-> EncodePart(more[i])]
<1>1. Len(parts) \in Nat /\ DOMAIN parts = 1..Len(parts) /\ \A i \in 1..Len(parts) : parts[i] \in S
  BY LenProperties, ElementOfSeq
<1>2. EncodePart(TMax) = <<255>>
  <2>1. EncodePart(TMax) = <<255>> \o <<>>
    BY TagsTell DEF EncodePart, TMax, Part
  <2>2. <<255>> \in Seq(Int)
    OBVIOUS
  <2> QED BY <2>1, <2>2, ConcatEmptySeq
<1>3. ss \in [1..Len(parts) -> Seq(Int)]
  BY <1>1
<1>4. ss \in Seq(Seq(Int)) /\ Len(ss) = Len(parts)
  BY <1>1, <1>3
<1>5. <<255>> \in Seq(Int)
  OBVIOUS
<1>6. /\ Len(more) = Len(parts) + 1 /\ DOMAIN more = 1..(Len(parts) + 1)
      /\ more[Len(parts) + 1] = TMax /\ \A i \in 1..Len(parts) : more[i] = parts[i]
  <2>1. parts \in Seq(S \cup {TMax}) /\ TMax \in S \cup {TMax}
    BY SeqMonotonic
  <2>2. /\ more \in Seq(S \cup {TMax}) /\ Len(more) = Len(parts) + 1
        /\ more[Len(parts) + 1] = TMax /\ \A i \in 1..Len(parts) : more[i] = parts[i]
    BY <2>1, AppendProperties
  <2> HIDE DEF more
  <2> QED BY <2>2, LenProperties
<1>7. tt = Append(ss, <<255>>)
  <2>1. /\ Append(ss, <<255>>) \in Seq(Seq(Int)) /\ Len(Append(ss, <<255>>)) = Len(parts) + 1
        /\ Append(ss, <<255>>)[Len(parts) + 1] = <<255>> /\ \A i \in 1..Len(parts) : Append(ss, <<255>>)[i] = ss[i]
    <3> HIDE DEF ss
    <3> QED BY <1>4, <1>5, AppendProperties
  <2>2. Append(ss, <<255>>) \in [1..(Len(parts) + 1) -> Seq(Int)]
    <3> DEFINE uu == Append(ss, <<255>>)
    <3>1. uu \in Seq(Seq(Int)) /\ Len(uu) = Len(parts) + 1
      BY <2>1
    <3> HIDE DEF uu
    <3>2. uu \in [1..Len(uu) -> Seq(Int)]
      BY <3>1, LenProperties, ElementOfSeq
    <3>3. uu \in [1..(Len(parts) + 1) -> Seq(Int)]
      BY <3>1, <3>2
    <3> QED BY <3>3 DEF uu
  <2>3. ASSUME NEW i \in 1..(Len(parts) + 1) PROVE EncodePart(more[i]) = Append(ss, <<255>>)[i]
    <3>1. CASE i = Len(parts) + 1
      BY <1>2, <1>6, <2>1, <3>1
    <3>2. CASE i # Len(parts) + 1
      <4>1. i \in 1..Len(parts)
        BY <1>1, <3>2
      <4>2. more[i] = parts[i] /\ ss[i] = EncodePart(parts[i])
        BY <1>1, <1>6, <4>1
      <4> QED BY <2>1, <4>1, <4>2
    <3> QED BY <3>1, <3>2
  <2>4. tt = [i \in 1..(Len(parts) + 1) |-> EncodePart(more[i])]
    BY <1>6
  <2> HIDE DEF ss, more, tt
  <2> QED BY <2>2, <2>3, <2>4
<1>8. EncodeTuple(parts) = FlattenSeq(ss) /\ EncodeTuple(Append(parts, TMax)) = FlattenSeq(tt)
  BY DEF EncodeTuple
<1> HIDE DEF ss, tt
<1>9. FlattenSeq(Append(ss, <<255>>)) = FlattenSeq(ss) \o <<255>>
  BY <1>4, <1>5, FlattenAppend
<1>10. FlattenSeq(ss) \in Seq(Int)
  <2>1. PICK f : Joined(ss, f) /\ FlattenSeq(ss) = f[Len(ss)]
    BY <1>4, FlattenUnfolds
  <2>2. Len(ss) \in 0..Len(ss)
    BY <1>1, <1>4
  <2> QED BY <2>1, <2>2 DEF Joined
<1> QED BY <1>7, <1>8, <1>9, <1>10

\* The tuples of up to three parts.
BytesOfThree(p, q, r) == (EncodePart(p) \o EncodePart(q)) \o EncodePart(r)
LEMMA FewParts ==
  ASSUME NEW p, NEW q, NEW r, IsPart(p), IsPart(q), IsPart(r)
  PROVE  /\ EncodePart(p) \in Seq(Int) /\ Len(EncodePart(p)) \in Nat /\ Len(EncodePart(p)) >= 1
         /\ EncodePart(p)[1] \in 1..7
         /\ EncodeTuple(<<p>>) = EncodePart(p)
         /\ EncodeTuple(<<p, q>>) = EncodePart(p) \o EncodePart(q)
         /\ EncodeTuple(<<p, q, r>>) = BytesOfThree(p, q, r)
<1>1. ASSUME NEW y, IsPart(y)
      PROVE  /\ EncodePart(y) \in Seq(Int) /\ Len(EncodePart(y)) \in Nat /\ Len(EncodePart(y)) >= 1
             /\ EncodePart(y)[1] \in 1..7
  <2>0. PICK type \in ValueTypes : \E z \in Contents(type) : y = Part(type, z)
    BY <1>1 DEF IsPart
  <2>1. PICK of \in Contents(type) : y = Part(type, of)
    BY <2>0
  <2>2. /\ EncodePart(Part(type, of)) \in Seq(Int) /\ EncodePart(Part(type, of))[1] \in 1..7
        /\ Len(EncodePart(Part(type, of))) = 1 + Len(BytesOf(type, of)) /\ Len(BytesOf(type, of)) \in Nat
    BY PartsBegin
  <2>3. 1 + Len(BytesOf(type, of)) \in Nat /\ 1 + Len(BytesOf(type, of)) >= 1
    BY <2>2
  <2> QED BY <2>1, <2>2, <2>3
<1> DEFINE Bytes(parts) == [i \in DOMAIN parts |-> EncodePart(parts[i])]
<1>2. /\ Bytes(<<p>>) = <<EncodePart(p)>>
      /\ Bytes(<<p, q>>) = <<EncodePart(p), EncodePart(q)>>
      /\ Bytes(<<p, q, r>>) = <<EncodePart(p), EncodePart(q), EncodePart(r)>>
  OBVIOUS
<1>3. \A parts : EncodeTuple(parts) = FlattenSeq(Bytes(parts))
  BY DEF EncodeTuple
<1> HIDE DEF Bytes
<1>4. EncodePart(p) \in Seq(Int) /\ EncodePart(q) \in Seq(Int) /\ EncodePart(r) \in Seq(Int)
  BY <1>1
<1>5. /\ FlattenSeq(<<EncodePart(p)>>) = EncodePart(p)
      /\ FlattenSeq(<<EncodePart(p), EncodePart(q)>>) = EncodePart(p) \o EncodePart(q)
      /\ FlattenSeq(<<EncodePart(p), EncodePart(q), EncodePart(r)>>) = (EncodePart(p) \o EncodePart(q)) \o EncodePart(r)
  BY <1>4, FlattenFew, Zenon
<1> QED BY <1>1, <1>2, <1>3, <1>5 DEF BytesOfThree

\* A key is in a range.
Meets(k, r) == ~KeyBefore(k, r.start) /\ KeyBefore(k, r.end)

\* A key that begins as the prefix of a range does lies within the range, because no part has the tag 255.
LEMMA BeginsWithin ==
  ASSUME NEW k \in Seq(Int), NEW s \in Seq(Int), NEW m \in Seq(Int), Stands(k, 1, s), Stands(k, 1 + Len(s), m),
         Len(m) >= 1, m[1] \in 1..7
  PROVE  ~KeyBefore(k, s) /\ KeyBefore(k, s \o <<255>>)
<1>1. Len(s) \in Nat /\ Len(k) \in Nat /\ Len(m) \in Nat
  BY LenProperties
<1>2. Len(s) < Len(k)
  BY <1>1 DEF Stands
<1>3. k[Len(s) + 1] = m[1]
  <2>1. 1 \in 1..Len(m) /\ 1 + Len(s) + 1 - 1 = Len(s) + 1
    BY <1>1
  <2> QED BY <2>1 DEF Stands
<1>4. m[1] < 255
  <2>1. \A x \in 1..7 : x < 255
    OBVIOUS
  <2> QED BY <2>1
<1> QED BY <1>2, <1>3, <1>4, InPrefixRange

GoesFrom(range, s) == range.start = s /\ range.end = s \o <<255>>

LEMMA PrefixRangeIs ==
  ASSUME NEW S, \A x \in S : EncodePart(x) \in Seq(Int), NEW parts \in Seq(S), parts # <<>>,
         NEW index \in {"EAVT", "AEVT", "AVET", "VAET"}
  PROVE  /\ Prefix[index] \in Seq(Int) /\ EncodeTuple(parts) \in Seq(Int)
         /\ GoesFrom(PrefixRange(index, parts), Prefix[index] \o EncodeTuple(parts))
<1>1. Prefix[index] \in Seq(Int) /\ <<255>> \in Seq(Int)
  <2>1. <<1>> \in Seq(Int) /\ <<2>> \in Seq(Int) /\ <<3>> \in Seq(Int) /\ <<4>> \in Seq(Int) /\ <<255>> \in Seq(Int)
    OBVIOUS
  <2>2. Prefix["EAVT"] = <<1>> /\ Prefix["AEVT"] = <<2>> /\ Prefix["AVET"] = <<3>> /\ Prefix["VAET"] = <<4>>
    BY DEF Prefix
  <2> QED BY <2>1, <2>2
<1>2. EncodeTuple(parts) \in Seq(Int) /\ EncodeTuple(Append(parts, TMax)) = EncodeTuple(parts) \o <<255>>
  BY RangeOf
<1>3. Prefix[index] \o (EncodeTuple(parts) \o <<255>>) = (Prefix[index] \o EncodeTuple(parts)) \o <<255>>
  <2> DEFINE x == Prefix[index]
             y == EncodeTuple(parts)
             z == <<255>>
  <2>1. x \in Seq(Int) /\ y \in Seq(Int) /\ z \in Seq(Int)
    BY <1>1, <1>2
  <2> HIDE DEF x, y, z
  <2>2. (x \o y) \o z = x \o (y \o z)
    BY <2>1
  <2> QED BY <2>2 DEF x, y, z
<1> DEFINE from == Prefix[index] \o EncodeTuple(parts)
           to   == Prefix[index] \o EncodeTuple(Append(parts, TMax))
<1>4. PrefixRange(index, parts) = [start |-> from, end |-> to]
  BY DEF PrefixRange
<1>5. to = from \o <<255>>
  BY <1>2, <1>3, Zenon
<1> HIDE DEF from, to
<1>6. PrefixRange(index, parts).start = from /\ PrefixRange(index, parts).end = to
  BY <1>4
<1> QED BY <1>1, <1>2, <1>5, <1>6, Zenon DEF from, GoesFrom

\* The order of a key is its first byte.
LEMMA WholeOrder ==
  ASSUME NEW k \in Seq(Int), Len(k) >= 1, k[1] = 1
  PROVE  Meets(k, PrefixRange("EAVT", <<>>))
<1>1. Len(k) \in Nat
  BY LenProperties
<1>2. Increment(<<1>>) = <<2>>
  <2>1. {i \in DOMAIN <<1>> : <<1>>[i] < 255} = {1}
    OBVIOUS
  <2>2. (CHOOSE i \in {1} : \A j \in {1} : j <= i) = 1
    OBVIOUS
  <2>3. [i \in DOMAIN <<1>> |-> IF i < 1 THEN <<1>>[i] ELSE IF i = 1 THEN <<1>>[i] + 1 ELSE 0] = <<2>>
    OBVIOUS
  <2> QED BY <2>1, <2>2, <2>3 DEF Increment
<1>3. PrefixRange("EAVT", <<>>) = [start |-> <<1>>, end |-> <<2>>]
  BY <1>2 DEF PrefixRange, Prefix
<1>4. ASSUME KeyBefore(k, << 1 >>) PROVE FALSE
  <2>1. PICK n \in 0..Len(k) : n < Len(<<1>>) /\ (n = Len(k) \/ k[n + 1] < <<1>>[n + 1])
    BY <1>4 DEF KeyBefore
  <2>2. n = 0
    BY <2>1
  <2> QED BY <1>1, <2>1, <2>2
<1>5. KeyBefore(k, <<2>>)
  <2>1. 0 \in 0..Len(k) /\ 0 < Len(<<2>>) /\ k[0 + 1] < <<2>>[0 + 1] /\ \A i \in 1..0 : k[i] = <<2>>[i]
    BY <1>1
  <2> QED BY <2>1 DEF KeyBefore
<1> QED BY <1>3, <1>4, <1>5 DEF Meets

\* A key of five parts is in the range of its first, of its first two and of its first three.
IsWithin(k, index, p, q, r) ==
  /\ k \in Seq(Int) /\ Len(k) >= 1 /\ k[1] = Prefix[index][1]
  /\ Meets(k, PrefixRange(index, <<p>>))
  /\ Meets(k, PrefixRange(index, <<p, q>>))
  /\ Meets(k, PrefixRange(index, <<p, q, r>>))

\* A key is within the ranges of its first part, of its first two and of its first three.
LEMMA KeyIsWithin ==
  ASSUME NEW index \in {"EAVT", "AEVT", "AVET", "VAET"},
         NEW p, NEW q, NEW r, NEW s, NEW t, IsPart(p), IsPart(q), IsPart(r), IsPart(s), IsPart(t)
  PROVE  IsWithin(KeyOf(Prefix[index], EncodePart(p), EncodePart(q), EncodePart(r), EncodePart(s), EncodePart(t)),
                  index, p, q, r)
<1> DEFINE x == Prefix[index]
           k == KeyOf(x, EncodePart(p), EncodePart(q), EncodePart(r), EncodePart(s), EncodePart(t))
           S == {p, q, r}
           P == EncodePart(p)
           Q == EncodePart(q)
           R == EncodePart(r)
           T == EncodePart(s)
           U == EncodePart(t)
<1>1. ASSUME NEW y, IsPart(y)
      PROVE  EncodePart(y) \in Seq(Int) /\ Len(EncodePart(y)) \in Nat /\ Len(EncodePart(y)) >= 1 /\ EncodePart(y)[1] \in 1..7
  BY <1>1, FewParts
<1>2. /\ P \in Seq(Int) /\ Q \in Seq(Int) /\ R \in Seq(Int) /\ T \in Seq(Int) /\ U \in Seq(Int)
      /\ Len(P) \in Nat /\ Len(Q) \in Nat /\ Len(R) \in Nat /\ Len(T) \in Nat /\ Len(U) \in Nat
      /\ Len(Q) >= 1 /\ Len(R) >= 1 /\ Len(T) >= 1 /\ Q[1] \in 1..7 /\ R[1] \in 1..7 /\ T[1] \in 1..7
  BY <1>1
<1>3. x \in Seq(Int) /\ Len(x) = 1
  <2>1. /\ <<1>> \in Seq(Int) /\ <<2>> \in Seq(Int) /\ <<3>> \in Seq(Int) /\ <<4>> \in Seq(Int)
        /\ Len(<<1>>) = 1 /\ Len(<<2>>) = 1 /\ Len(<<3>>) = 1 /\ Len(<<4>>) = 1
    OBVIOUS
  <2>2. Prefix["EAVT"] = <<1>> /\ Prefix["AEVT"] = <<2>> /\ Prefix["AVET"] = <<3>> /\ Prefix["VAET"] = <<4>>
    BY DEF Prefix
  <2> QED BY <2>1, <2>2
<1>4. <<p>> \in Seq(S) /\ <<p, q>> \in Seq(S) /\ <<p, q, r>> \in Seq(S) /\ <<p>> # <<>> /\ <<p, q>> # <<>> /\ <<p, q, r>> # <<>>
  OBVIOUS
<1>5. \A y \in S : EncodePart(y) \in Seq(Int)
  BY <1>2
<1>6. EncodeTuple(<<p>>) = P /\ EncodeTuple(<<p, q>>) = P \o Q /\ EncodeTuple(<<p, q, r>>) = (P \o Q) \o R
  <2>1. EncodeTuple(<<p>>) = EncodePart(p)
    BY FewParts
  <2>2. EncodeTuple(<<p, q>>) = EncodePart(p) \o EncodePart(q)
    BY FewParts
  <2>3. EncodeTuple(<<p, q, r>>) = (EncodePart(p) \o EncodePart(q)) \o EncodePart(r)
    <3>1. EncodeTuple(<<p, q, r>>) = BytesOfThree(p, q, r)
      BY FewParts
    <3> QED BY <3>1, Zenon DEF BytesOfThree
  <2> QED BY <2>1, <2>2, <2>3
<1> DEFINE PQ == P \o Q
           PQR == PQ \o R
<1>7. PQ \in Seq(Int) /\ Len(PQ) = Len(P) + Len(Q) /\ PQR \in Seq(Int) /\ Len(PQR) = Len(P) + Len(Q) + Len(R)
  <2>1. PQ \in Seq(Int) /\ Len(PQ) = Len(P) + Len(Q)
    BY <1>2, ConcatProperties
  <2> HIDE DEF PQ
  <2>2. PQR \in Seq(Int) /\ Len(PQR) = Len(PQ) + Len(R)
    BY <1>2, <2>1, ConcatProperties, ZenonT(60)
  <2> QED BY <2>1, <2>2
<1> HIDE DEF S
<1>8. /\ GoesFrom(PrefixRange(index, <<p>>), x \o P)
      /\ GoesFrom(PrefixRange(index, <<p, q>>), x \o PQ)
      /\ GoesFrom(PrefixRange(index, <<p, q, r>>), x \o PQR)
  <2>1. ASSUME NEW parts \in Seq(S), parts # <<>>
        PROVE  GoesFrom(PrefixRange(index, parts), x \o EncodeTuple(parts))
    BY <1>5, <2>1, PrefixRangeIs, Zenon
  <2> HIDE DEF x, P, Q, R
  <2> QED BY <1>4, <1>6, <2>1, Zenon
<1>9. Laid(k, x, P, Q, R, T, U)
  <2> HIDE DEF x, P, Q, R, T, U
  <2>1. Laid(KeyOf(x, P, Q, R, T, U), x, P, Q, R, T, U)
    BY <1>2, <1>3, KeysStand, Zenon
  <2> QED BY <2>1 DEF P, Q, R, T, U
<1> HIDE DEF k, x, P, Q, R, T, U, PQ, PQR
<1>10. /\ k \in Seq(Int) /\ Len(k) = Len(x) + Len(P) + Len(Q) + Len(R) + Len(T) + Len(U)
       /\ Stands(k, 1, x) /\ Stands(k, 1 + Len(x), P) /\ Stands(k, 1 + Len(x) + Len(P), Q)
       /\ Stands(k, 1 + Len(x) + Len(P) + Len(Q), R)
       /\ Stands(k, 1 + Len(x) + Len(P) + Len(Q) + Len(R), T)
  BY <1>9 DEF Laid
<1>11. Stands(k, 1 + Len(x), PQ) /\ Stands(k, 1 + Len(x), PQR)
  <2>1. 1 + Len(x) \in Nat \ {0}
    BY <1>3
  <2>2. Stands(k, 1 + Len(x), PQ)
    BY <1>2, <1>10, <2>1, StandsParts DEF PQ
  <2>3. 1 + Len(x) + Len(PQ) = 1 + Len(x) + Len(P) + Len(Q)
    BY <1>2, <1>3, <1>7
  <2>4. Stands(k, 1 + Len(x), PQR)
    BY <1>2, <1>7, <1>10, <2>1, <2>2, <2>3, StandsParts DEF PQR
  <2> QED BY <2>2, <2>4
<1>12. /\ Stands(k, 1, x \o P) /\ Stands(k, 1, x \o PQ) /\ Stands(k, 1, x \o PQR)
       /\ x \o P \in Seq(Int) /\ x \o PQ \in Seq(Int) /\ x \o PQR \in Seq(Int)
       /\ Len(x \o P) = Len(x) + Len(P) /\ Len(x \o PQ) = Len(x) + Len(PQ) /\ Len(x \o PQR) = Len(x) + Len(PQR)
  <2>1. 1 \in Nat \ {0}
    OBVIOUS
  <2>2. /\ x \o P \in Seq(Int) /\ x \o PQ \in Seq(Int) /\ x \o PQR \in Seq(Int)
        /\ Len(x \o P) = Len(x) + Len(P) /\ Len(x \o PQ) = Len(x) + Len(PQ) /\ Len(x \o PQR) = Len(x) + Len(PQR)
    <3>1. x \o P \in Seq(Int) /\ Len(x \o P) = Len(x) + Len(P)
      BY <1>2, <1>3, ConcatProperties, ZenonT(60)
    <3>2. x \o PQ \in Seq(Int) /\ Len(x \o PQ) = Len(x) + Len(PQ)
      BY <1>7, <1>3, ConcatProperties, Zenon
    <3>3. x \o PQR \in Seq(Int) /\ Len(x \o PQR) = Len(x) + Len(PQR)
      BY <1>7, <1>3, ConcatProperties, Zenon
    <3> QED BY <3>1, <3>2, <3>3
  <2>3. Stands(k, 1, x \o P)
    BY <1>2, <1>3, <1>10, <2>1, StandsParts, Zenon
  <2>4. Stands(k, 1, x \o PQ)
    BY <1>7, <1>3, <1>10, <1>11, <2>1, StandsParts, Zenon
  <2>5. Stands(k, 1, x \o PQR)
    BY <1>7, <1>3, <1>10, <1>11, <2>1, StandsParts, Zenon
  <2> QED BY <2>2, <2>3, <2>4, <2>5
<1>13. /\ Stands(k, 1 + Len(x \o P), Q) /\ Stands(k, 1 + Len(x \o PQ), R) /\ Stands(k, 1 + Len(x \o PQR), T)
  <2>1. /\ 1 + Len(x \o P) = 1 + Len(x) + Len(P) /\ 1 + Len(x \o PQ) = 1 + Len(x) + Len(P) + Len(Q)
        /\ 1 + Len(x \o PQR) = 1 + Len(x) + Len(P) + Len(Q) + Len(R)
    BY <1>2, <1>3, <1>7, <1>12
  <2> QED BY <1>10, <2>1
<1>14. Meets(k, PrefixRange(index, <<p>>))
  <2>1. ~KeyBefore(k, x \o P) /\ KeyBefore(k, (x \o P) \o <<255>>)
    BY <1>2, <1>7, <1>10, <1>12, <1>13, BeginsWithin, Zenon
  <2> QED BY <1>8, <2>1, Zenon DEF Meets, GoesFrom
<1>15. Meets(k, PrefixRange(index, <<p, q>>))
  <2>1. ~KeyBefore(k, x \o PQ) /\ KeyBefore(k, (x \o PQ) \o <<255>>)
    BY <1>2, <1>7, <1>10, <1>12, <1>13, BeginsWithin, Zenon
  <2> QED BY <1>8, <2>1, Zenon DEF Meets, GoesFrom
<1>16. Meets(k, PrefixRange(index, <<p, q, r>>))
  <2>1. ~KeyBefore(k, x \o PQR) /\ KeyBefore(k, (x \o PQR) \o <<255>>)
    BY <1>2, <1>7, <1>10, <1>12, <1>13, BeginsWithin, Zenon
  <2> QED BY <1>8, <2>1, Zenon DEF Meets, GoesFrom
<1>17. Len(k) >= 1 /\ k[1] = x[1]
  <2>1. Len(k) \in Nat /\ 1 \in 1..Len(x) /\ 1 + 1 - 1 = 1
    BY <1>3, <1>10, LenProperties
  <2> QED BY <1>3, <1>10, <2>1 DEF Stands
<1> QED BY <1>10, <1>14, <1>15, <1>16, <1>17 DEF k, x, P, Q, R, T, U, IsWithin

-----------------------------------------------------------------------------
\* Facts and the keys they are under.

IsDatom(d) ==
  /\ d \in [id : Utf8, entity : Utf8, attribute : Utf8, value : {d.value}, tx : Utf8, recordedAt : Int,
            createdBy : OptionalUtf8, retractedAt : Int, retractTx : OptionalUtf8, entityType : OptionalUtf8,
            validFrom : Int, validTo : Int, recordedPosition : Int, retractedPosition : Int]
  /\ IsValue(d.value)

LEMMA DatomFields ==
  ASSUME NEW d, IsDatom(d)
  PROVE  /\ d.id \in Utf8 /\ d.entity \in Utf8 /\ d.attribute \in Utf8 /\ d.tx \in Utf8
         /\ d.entityType \in OptionalUtf8 /\ IsValue(d.value)
<1>1. /\ d.id \in Utf8 /\ d.entity \in Utf8 /\ d.attribute \in Utf8 /\ d.tx \in Utf8
      /\ d.entityType \in OptionalUtf8
  BY DEF IsDatom
<1> QED BY <1>1 DEF IsDatom

LEMMA ValueFields ==
  ASSUME NEW v, IsValue(v)
  PROVE  /\ v.type \in ValueTypes /\ v.of \in Contents(v.type) /\ v.extra \in Extras(v.type)
         /\ v = [type |-> v.type, of |-> v.of, extra |-> v.extra]
  BY DEF IsValue, ValueTypes

LEMMA NothingIsNoText == Nothing \notin Utf8
<1> SUFFICES ASSUME Nothing \in Utf8 PROVE FALSE
  OBVIOUS
<1>1. Nothing[1] \in 0..254
  <2>1. 1 \in 1..Len(Nothing)
    BY DEF Nothing
  <2> QED BY <2>1, ElementOfSeq DEF Utf8
<1> QED BY <1>1 DEF Nothing

LEMMA TextIsPart ==
  ASSUME NEW s \in Utf8
  PROVE  IsPart(TString(s)) /\ TString(s) = Part("string", s)
<1>1. "string" \in ValueTypes /\ s \in Contents("string")
  BY DEF ValueTypes, Contents
<1> QED BY <1>1 DEF IsPart, TString

LEMMA ValueIsPart ==
  ASSUME NEW v, IsValue(v)
  PROVE  IsPart(ValueToTuplePart(v))
  BY ValueFields DEF IsPart, ValueToTuplePart

\* The parts of the keys of a fact.
EntityPart(d) == TString(d.entity)
AttributePart(d) == TString(d.attribute)
ValuePart(d) == ValueToTuplePart(d.value)
TxPart(d) == TString(d.tx)
IdPart(d) == TString(d.id)
EavtOf(d) == KeyOf(Prefix["EAVT"], EncodePart(EntityPart(d)), EncodePart(AttributePart(d)), EncodePart(ValuePart(d)),
                   EncodePart(TxPart(d)), EncodePart(IdPart(d)))
AevtOf(d) == KeyOf(Prefix["AEVT"], EncodePart(AttributePart(d)), EncodePart(EntityPart(d)), EncodePart(ValuePart(d)),
                   EncodePart(TxPart(d)), EncodePart(IdPart(d)))
AvetOf(d) == KeyOf(Prefix["AVET"], EncodePart(AttributePart(d)), EncodePart(ValuePart(d)), EncodePart(EntityPart(d)),
                   EncodePart(TxPart(d)), EncodePart(IdPart(d)))
VaetOf(d) == KeyOf(Prefix["VAET"], EncodePart(ValuePart(d)), EncodePart(AttributePart(d)), EncodePart(EntityPart(d)),
                   EncodePart(TxPart(d)), EncodePart(IdPart(d)))
TypeKeyOf(d) == Prefix["TYPE"] \o EncodePart(TString(d.entityType)) \o EncodePart(IdPart(d))

LEMMA PartsOfDatom ==
  ASSUME NEW d, IsDatom(d)
  PROVE  IsPart(EntityPart(d)) /\ IsPart(AttributePart(d)) /\ IsPart(ValuePart(d)) /\ IsPart(TxPart(d)) /\ IsPart(IdPart(d))
<1>1. d.entity \in Utf8 /\ d.attribute \in Utf8 /\ d.tx \in Utf8 /\ d.id \in Utf8 /\ IsValue(d.value)
  BY DatomFields
<1> QED BY <1>1, TextIsPart, ValueIsPart DEF EntityPart, AttributePart, ValuePart, TxPart, IdPart

LEMMA KeysOfDatom ==
  ASSUME NEW d, IsDatom(d)
  PROVE  /\ IsWithin(EavtOf(d), "EAVT", EntityPart(d), AttributePart(d), ValuePart(d))
         /\ IsWithin(AevtOf(d), "AEVT", AttributePart(d), EntityPart(d), ValuePart(d))
         /\ IsWithin(AvetOf(d), "AVET", AttributePart(d), ValuePart(d), EntityPart(d))
         /\ IsWithin(VaetOf(d), "VAET", ValuePart(d), AttributePart(d), EntityPart(d))
<1>1. IsPart(EntityPart(d)) /\ IsPart(AttributePart(d)) /\ IsPart(ValuePart(d)) /\ IsPart(TxPart(d)) /\ IsPart(IdPart(d))
  BY PartsOfDatom
<1>2. IsWithin(EavtOf(d), "EAVT", EntityPart(d), AttributePart(d), ValuePart(d))
  BY <1>1, KeyIsWithin DEF EavtOf
<1>3. IsWithin(AevtOf(d), "AEVT", AttributePart(d), EntityPart(d), ValuePart(d))
  BY <1>1, KeyIsWithin DEF AevtOf
<1>4. IsWithin(AvetOf(d), "AVET", AttributePart(d), ValuePart(d), EntityPart(d))
  BY <1>1, KeyIsWithin DEF AvetOf
<1>5. IsWithin(VaetOf(d), "VAET", ValuePart(d), AttributePart(d), EntityPart(d))
  BY <1>1, KeyIsWithin DEF VaetOf
<1> QED BY <1>2, <1>3, <1>4, <1>5

\* The entries of a fact are its keys in the orders that it is in.
LEMMA EntriesAre ==
  ASSUME NEW d, IsDatom(d), NEW e
  PROVE  e \in BytesEntries(d) <=>
           \/ e = [key |-> EavtOf(d), id |-> d.id] \/ e = [key |-> AevtOf(d), id |-> d.id] \/ e = [key |-> AvetOf(d), id |-> d.id]
           \/ d.value.type = "ref" /\ e = [key |-> VaetOf(d), id |-> d.id]
           \/ d.entityType # Nothing /\ e = [key |-> TypeKeyOf(d), id |-> d.id]
<1> DEFINE B(s) == EncodePart(TString(s))
           E == B(d.entity)
           A == B(d.attribute)
           V == EncodePart(ValueToTuplePart(d.value))
           T == B(d.tx)
           I == B(d.id)
           Y == B(d.entityType)
<1>1. BytesEntries(d) = EntriesOf(d, E, A, V, T, I, Y)
  BY DEF BytesEntries
<1>2. /\ EavtOf(d) = EavtKey(E, A, V, T, I) /\ AevtOf(d) = AevtKey(E, A, V, T, I) /\ AvetOf(d) = AvetKey(E, A, V, T, I)
      /\ VaetOf(d) = VaetKey(E, A, V, T, I) /\ TypeKeyOf(d) = TypeKey(Y, I)
  BY DEF EavtOf, AevtOf, AvetOf, VaetOf, TypeKeyOf, EavtKey, AevtKey, AvetKey, VaetKey, TypeKey, KeyOf,
         EntityPart, AttributePart, ValuePart, TxPart, IdPart
<1> HIDE DEF E, A, V, T, I, Y
<1>3. EntriesOf(d, E, A, V, T, I, Y) =
        {[key |-> EavtKey(E, A, V, T, I), id |-> d.id], [key |-> AevtKey(E, A, V, T, I), id |-> d.id],
         [key |-> AvetKey(E, A, V, T, I), id |-> d.id]}
          \cup (IF d.value.type = "ref" THEN {[key |-> VaetKey(E, A, V, T, I), id |-> d.id]} ELSE {})
          \cup (IF d.entityType # Nothing THEN {[key |-> TypeKey(Y, I), id |-> d.id]} ELSE {})
  BY DEF EntriesOf
<1>4. e \in BytesEntries(d) <=>
        \/ e = [key |-> EavtKey(E, A, V, T, I), id |-> d.id] \/ e = [key |-> AevtKey(E, A, V, T, I), id |-> d.id]
        \/ e = [key |-> AvetKey(E, A, V, T, I), id |-> d.id]
        \/ d.value.type = "ref" /\ e = [key |-> VaetKey(E, A, V, T, I), id |-> d.id]
        \/ d.entityType # Nothing /\ e = [key |-> TypeKey(Y, I), id |-> d.id]
  BY <1>1, <1>3
<1> QED BY <1>2, <1>4, Zenon

\* A batch of the in-memory backend writes the keys that others write.
LEMMA BatchesAgree ==
  ASSUME NEW d, IsDatom(d)
  PROVE  StrEntries(d) = BytesEntries(d)
<1>1. ASSUME NEW s \in Utf8 PROVE EncodeStringStr(s) = EncodePart(TString(s))
  <2>1. EncodePart(TString(s)) = <<TagOf("string")>> \o EncodeString(s)
    BY DEF EncodePart, TString, Part
  <2> QED BY <2>1, WritersAgree DEF EncodeStringStr
<1>2. ValueToPartStr(d.value) = EncodePart(ValueToTuplePart(d.value))
  <2> DEFINE v == d.value
  <2>1. v.type \in ValueTypes /\ v.of \in Contents(v.type)
    BY DatomFields, ValueFields
  <2>2. ValueToTuplePart(v).type = v.type /\ ValueToTuplePart(v).of = v.of
    BY DEF ValueToTuplePart, Part
  <2> HIDE DEF v
  <2>3. ASSUME v.type \in TextTypes PROVE ValueToPartStr(v) = EncodePart(ValueToTuplePart(v))
    <3>1. v.of \in Utf8
      BY <2>1, <2>3, ContentsAre
    <3>2. EncodeStringToStr(v.of) = EncodeString(v.of)
      BY <3>1, WritersAgree
    <3>3. ValueToPartStr(v) = <<TagOf(v.type)>> \o EncodeStringToStr(v.of)
      BY <2>3 DEF ValueToPartStr, TextTypes
    <3>4. EncodePart(ValueToTuplePart(v)) = <<TagOf(v.type)>> \o EncodeString(v.of)
      BY <2>2, <2>3 DEF EncodePart, TextTypes
    <3> QED BY <3>2, <3>3, <3>4
  <2>4. ASSUME v.type = "number" PROVE ValueToPartStr(v) = EncodePart(ValueToTuplePart(v))
    <3>1. ValueToPartStr(v) = <<TagOf(v.type)>> \o EncodeNumber(v.of)
      BY <2>4 DEF ValueToPartStr, EncodeNumberStr
    <3>2. EncodePart(ValueToTuplePart(v)) = <<TagOf(v.type)>> \o EncodeNumber(v.of)
      BY <2>2, <2>4 DEF EncodePart
    <3> QED BY <3>1, <3>2
  <2>5. ASSUME v.type = "datetime" PROVE ValueToPartStr(v) = EncodePart(ValueToTuplePart(v))
    <3>1. ValueToPartStr(v) = <<TagOf(v.type)>> \o EncodeDatetime(v.of)
      BY <2>5 DEF ValueToPartStr, EncodeDatetimeStr
    <3>2. EncodePart(ValueToTuplePart(v)) = <<TagOf(v.type)>> \o EncodeDatetime(v.of)
      BY <2>2, <2>5 DEF EncodePart
    <3> QED BY <3>1, <3>2
  <2>6. ASSUME v.type \notin TextTypes \cup {"number", "datetime"} PROVE ValueToPartStr(v) = EncodePart(ValueToTuplePart(v))
    BY <2>6 DEF ValueToPartStr, TextTypes
  <2> QED BY <2>3, <2>4, <2>5, <2>6 DEF v
<1>3. /\ EncodeStringStr(d.entity) = EncodePart(TString(d.entity))
      /\ EncodeStringStr(d.attribute) = EncodePart(TString(d.attribute))
      /\ EncodeStringStr(d.tx) = EncodePart(TString(d.tx)) /\ EncodeStringStr(d.id) = EncodePart(TString(d.id))
  BY <1>1, DatomFields
<1>4. d.entityType # Nothing => EncodeStringStr(d.entityType) = EncodePart(TString(d.entityType))
  BY <1>1, DatomFields DEF OptionalUtf8
<1> DEFINE With(y) == EntriesOf(d, EncodePart(TString(d.entity)), EncodePart(TString(d.attribute)),
                                EncodePart(ValueToTuplePart(d.value)), EncodePart(TString(d.tx)), EncodePart(TString(d.id)), y)
<1>5. BytesEntries(d) = With(EncodePart(TString(d.entityType)))
  BY DEF BytesEntries
<1>6. StrEntries(d) = With(EncodeStringStr(d.entityType))
  BY <1>2, <1>3, Zenon DEF StrEntries
<1>7. CASE d.entityType = Nothing
  <2>1. ASSUME NEW y, NEW z PROVE With(y) = With(z)
    BY <1>7 DEF EntriesOf
  <2> HIDE DEF With
  <2> QED BY <1>5, <1>6, <2>1
<1>8. CASE d.entityType # Nothing
  BY <1>4, <1>5, <1>6, <1>8, Zenon
<1> QED BY <1>7, <1>8

IsPattern(p) ==
  /\ p.entity \in OptionalUtf8 /\ p.attribute \in OptionalUtf8
  /\ p.value = AnyValue \/ IsValue(p.value)

\* Whatever order a pattern selects, a fact that it wants has a key in the range.
LEMMA ScanMeets ==
  ASSUME NEW d, IsDatom(d), NEW p, IsPattern(p), Wants(d, p, Nothing)
  PROVE  \E e \in BytesEntries(d) : e.id = d.id /\ Meets(e.key, PatternToScan(p))
<1> DEFINE c == SelectIndex(p)
           E == EntityPart(d)
           A == AttributePart(d)
           V == ValuePart(d)
           Entry(k) == [key |-> k, id |-> d.id]
<1>1. IsPart(E) /\ IsPart(A) /\ IsPart(V) /\ IsPart(TxPart(d)) /\ IsPart(IdPart(d))
  BY PartsOfDatom
<1>2. /\ p.entity # Nothing => TString(p.entity) = E
      /\ p.attribute # Nothing => TString(p.attribute) = A
      /\ p.value # AnyValue => ValueToTuplePart(p.value) = V /\ p.value.type = d.value.type
  BY DEF Wants, EntityPart, AttributePart, ValuePart, ValueToTuplePart
<1>3. PatternToScan(p) = PrefixRange(c.index, c.parts)
  BY DEF PatternToScan
<1>4. ASSUME NEW k, Entry(k) \in BytesEntries(d), Meets(k, PatternToScan(p))
      PROVE  \E e \in BytesEntries(d) : e.id = d.id /\ Meets(e.key, PatternToScan(p))
  <2>1. Entry(k).id = d.id /\ Entry(k).key = k
    OBVIOUS
  <2> QED BY <1>4, <2>1, Zenon
<1>5. Entry(EavtOf(d)) \in BytesEntries(d) /\ Entry(AevtOf(d)) \in BytesEntries(d) /\ Entry(AvetOf(d)) \in BytesEntries(d)
      /\ (d.value.type = "ref" => Entry(VaetOf(d)) \in BytesEntries(d))
  BY EntriesAre
<1>6. /\ EavtOf(d) \in Seq(Int) /\ Len(EavtOf(d)) >= 1 /\ EavtOf(d)[1] = 1
      /\ Meets(EavtOf(d), PrefixRange("EAVT", <<E>>)) /\ Meets(EavtOf(d), PrefixRange("EAVT", <<E, A>>))
      /\ Meets(EavtOf(d), PrefixRange("EAVT", <<E, A, V>>))
  <2>1. Prefix["EAVT"][1] = 1
    BY DEF Prefix
  <2> QED BY <2>1, KeysOfDatom DEF IsWithin
<1>7. Meets(AevtOf(d), PrefixRange("AEVT", <<A>>))
  BY KeysOfDatom DEF IsWithin
<1>8. Meets(AvetOf(d), PrefixRange("AVET", <<A, V>>))
  BY KeysOfDatom DEF IsWithin
<1>9. Meets(VaetOf(d), PrefixRange("VAET", <<V>>))
  BY KeysOfDatom DEF IsWithin
<1>10. Meets(EavtOf(d), PrefixRange("EAVT", <<>>))
  BY <1>6, WholeOrder
<1> HIDE DEF E, A, V, Entry, c
<1>11. CASE p.entity # Nothing /\ p.attribute # Nothing /\ p.value # AnyValue
  <2>1. c.index = "EAVT" /\ c.parts = <<E, A, V>>
    BY <1>2, <1>11 DEF c, SelectIndex
  <2> QED BY <1>3, <1>4, <1>5, <1>6, <2>1
<1>12. CASE p.entity # Nothing /\ p.attribute # Nothing /\ p.value = AnyValue
  <2>1. c.index = "EAVT" /\ c.parts = <<E, A>>
    BY <1>2, <1>12 DEF c, SelectIndex
  <2> QED BY <1>3, <1>4, <1>5, <1>6, <2>1
<1>13. CASE p.entity # Nothing /\ p.attribute = Nothing
  <2>1. c.index = "EAVT" /\ c.parts = <<E>>
    BY <1>2, <1>13 DEF c, SelectIndex
  <2> QED BY <1>3, <1>4, <1>5, <1>6, <2>1
<1>14. CASE p.entity = Nothing /\ p.attribute # Nothing /\ p.value # AnyValue
  <2>1. c.index = "AVET" /\ c.parts = <<A, V>>
    BY <1>2, <1>14 DEF c, SelectIndex
  <2> QED BY <1>3, <1>4, <1>5, <1>8, <2>1
<1>15. CASE p.entity = Nothing /\ p.attribute # Nothing /\ p.value = AnyValue
  <2>1. c.index = "AEVT" /\ c.parts = <<A>>
    BY <1>2, <1>15 DEF c, SelectIndex
  <2> QED BY <1>3, <1>4, <1>5, <1>7, <2>1
<1>16. CASE p.entity = Nothing /\ p.attribute = Nothing /\ p.value.type = "ref"
  <2>0. p.value # AnyValue
    BY <1>16 DEF AnyValue
  <2>1. c.index = "VAET" /\ c.parts = <<V>>
    BY <1>2, <1>16, <2>0 DEF c, SelectIndex
  <2>2. d.value.type = "ref"
    BY <1>2, <1>16, <2>0
  <2> QED BY <1>3, <1>4, <1>5, <1>9, <2>1, <2>2
<1>17. CASE p.entity = Nothing /\ p.attribute = Nothing /\ p.value.type # "ref"
  <2>1. c.index = "EAVT" /\ c.parts = <<>>
    BY <1>17 DEF c, SelectIndex
  <2> QED BY <1>3, <1>4, <1>5, <1>10, <2>1
<1> QED BY <1>11, <1>12, <1>13, <1>14, <1>15, <1>16, <1>17

\* The range of a type has the keys of the facts of that type and no others.
LEMMA TypeMeets ==
  ASSUME NEW d, IsDatom(d), NEW type \in Utf8
  PROVE  (\E e \in BytesEntries(d) : Meets(e.key, TypePrefixRange(type))) <=> d.entityType = type
<1> DEFINE x == Prefix["TYPE"]
           T == EncodePart(TString(type))
           I == EncodePart(IdPart(d))
           s == x \o T
<1>1. x = <<5>> /\ x \in Seq(Int) /\ Len(x) = 1 /\ x[1] = 5
  BY DEF Prefix
<1>9. x \in Seq(Int)
  BY <1>1
<1>2. IsPart(TString(type)) /\ TString(type) = Part("string", type) /\ IsPart(IdPart(d))
  BY TextIsPart, PartsOfDatom
<1>3. /\ T \in Seq(Int) /\ Len(T) \in Nat /\ Len(T) >= 1
      /\ I \in Seq(Int) /\ Len(I) \in Nat /\ Len(I) >= 1 /\ I[1] \in 1..7
  BY <1>2, FewParts
<1>4. TypePrefixRange(type).start = s /\ TypePrefixRange(type).end = s \o <<255>>
  <2> DEFINE one == <<TString(type)>>
             from == Prefix["TYPE"] \o EncodeTuple(one)
             to == Prefix["TYPE"] \o EncodeTuple(Append(one, TMax))
  <2>1. EncodeTuple(one) = T
    BY <1>2, FewParts
  <2>2. EncodeTuple(Append(one, TMax)) = EncodeTuple(one) \o <<255>>
    <3>1. one \in Seq({TString(type)}) /\ \A y \in {TString(type)} : EncodePart(y) \in Seq(Int)
      BY <1>3
    <3> QED BY <3>1, RangeOf
  <2>3. Append(one, TMax) = <<TString(type), TMax>>
    <3>1. ASSUME NEW S, NEW y \in S, NEW z \in S PROVE Append(<<y>>, z) = <<y, z>>
      <4> DEFINE u == Append(<<y>>, z)
                 w == <<y, z>>
      <4>1. <<y>> \in Seq(S) /\ Len(<<y>>) = 1 /\ w \in Seq(S) /\ Len(w) = 2 /\ w[1] = y /\ w[2] = z
        OBVIOUS
      <4>2. u \in Seq(S) /\ Len(u) = 2 /\ u[2] = z /\ u[1] = y
        BY <4>1, AppendProperties
      <4> HIDE DEF u, w
      <4>3. \A i \in 1..Len(u) : u[i] = w[i]
        <5>1. \A i \in 1..2 : i = 1 \/ i = 2
          OBVIOUS
        <5> QED BY <4>1, <4>2, <5>1
      <4>4. u = w
        BY <4>1, <4>2, <4>3, SeqEqual
      <4> QED BY <4>4 DEF u, w
    <3>2. TString(type) \in {TString(type), TMax} /\ TMax \in {TString(type), TMax}
      OBVIOUS
    <3> QED BY <3>1, <3>2, Zenon
  <2>4. TypePrefixRange(type) = [start |-> from, end |-> to]
    BY <2>3 DEF TypePrefixRange, Prefix
  <2>5. from = s /\ to = x \o (T \o <<255>>)
    BY <2>1, <2>2, Zenon
  <2>6. x \o (T \o <<255>>) = (x \o T) \o <<255>>
    <3>1. <<255>> \in Seq(Int)
      OBVIOUS
    <3> DEFINE z == <<255>>
    <3> HIDE DEF x, T, z
    <3>2. z \in Seq(Int)
      BY <3>1 DEF z
    <3>3. x \in Seq(Int) /\ T \in Seq(Int)
      BY <1>3, <1>9
    <3>4. x \o (T \o z) = (x \o T) \o z
      BY <3>2, <3>3, ConcatAssociative, SMTT(60)
    <3> QED BY <3>4 DEF z
  <2> HIDE DEF from, to
  <2>7. TypePrefixRange(type).start = from /\ TypePrefixRange(type).end = to
    BY <2>4
  <2> QED BY <2>5, <2>6, <2>7, Zenon
<1>5. s \in Seq(Int) /\ Len(s) = 1 + Len(T) /\ 1 \in Nat \ {0} /\ 2 \in Nat \ {0}
  <2> HIDE DEF x, T
  <2>1. s \in Seq(Int) /\ Len(s) = Len(x) + Len(T)
    BY <1>1, <1>3, ConcatProperties
  <2> QED BY <1>1, <1>3, <2>1
\* The key of a type begins with the byte 5 and the type.
<1>6. ASSUME d.entityType # Nothing
      PROVE  LET Y == EncodePart(TString(d.entityType))
             IN /\ TypeKeyOf(d) \in Seq(Int) /\ d.entityType \in Utf8 /\ TString(d.entityType) = Part("string", d.entityType)
                /\ Y \in Seq(Int) /\ Stands(TypeKeyOf(d), 1, x \o Y) /\ Stands(TypeKeyOf(d), 2, Y)
                /\ Stands(TypeKeyOf(d), 1 + Len(x \o Y), I)
  <2> DEFINE Y == EncodePart(TString(d.entityType))
             h == x \o Y
             k == h \o I
  <2>1. d.entityType \in Utf8
    BY <1>6, DatomFields DEF OptionalUtf8
  <2>2. IsPart(TString(d.entityType)) /\ TString(d.entityType) = Part("string", d.entityType)
    BY <2>1, TextIsPart
  <2>3. Y \in Seq(Int)
    BY <2>2, FewParts
  <2>4. TypeKeyOf(d) = k
    BY DEF TypeKeyOf
  <2> HIDE DEF x, Y, I
  <2>5. h \in Seq(Int)
    BY <1>1, <2>3, ConcatProperties
  <2> HIDE DEF h
  <2>6. k \in Seq(Int) /\ Stands(k, 1, k)
    BY <1>3, <2>5, ConcatProperties, StandsWhole
  <2>7. Stands(k, 1, h \o I)
    BY <2>6
  <2> HIDE DEF k
  <2>8. Stands(k, 1, h) /\ Stands(k, 1 + Len(h), I)
    BY <1>3, <1>5, <2>5, <2>6, <2>7, StandsParts, Zenon
  <2>9. Stands(k, 1, x \o Y)
    BY <2>8 DEF h
  <2>10. Stands(k, 1, x) /\ Stands(k, 1 + Len(x), Y)
    BY <1>9, <1>5, <2>3, <2>6, <2>9, StandsParts, Zenon
  <2>11. 1 + Len(x) = 2
    BY <1>1
  <2> QED BY <2>1, <2>2, <2>3, <2>4, <2>6, <2>8, <2>9, <2>10, <2>11 DEF Y, h
<1>7. ASSUME d.entityType = type PROVE \E e \in BytesEntries(d) : Meets(e.key, TypePrefixRange(type))
  <2>1. d.entityType # Nothing
    BY <1>7, NothingIsNoText
  <2>2. TypeKeyOf(d) \in Seq(Int) /\ Stands(TypeKeyOf(d), 1, s) /\ Stands(TypeKeyOf(d), 1 + Len(s), I)
    BY <1>6, <1>7, <2>1
  <2> HIDE DEF s, I
  <2>3. ~KeyBefore(TypeKeyOf(d), s) /\ KeyBefore(TypeKeyOf(d), s \o <<255>>)
    BY <1>3, <1>5, <2>2, BeginsWithin, Zenon
  <2>4. Meets(TypeKeyOf(d), TypePrefixRange(type))
    BY <1>4, <2>3, Zenon DEF Meets
  <2>5. [key |-> TypeKeyOf(d), id |-> d.id] \in BytesEntries(d)
    BY <2>1, EntriesAre
  <2>6. [key |-> TypeKeyOf(d), id |-> d.id].key = TypeKeyOf(d)
    OBVIOUS
  <2> QED BY <2>4, <2>5, <2>6, Zenon
<1>8. ASSUME NEW e \in BytesEntries(d), Meets(e.key, TypePrefixRange(type)) PROVE d.entityType = type
  <2>1. ASSUME e.key \in Seq(Int) PROVE e.key[1] = 5 /\ Stands(e.key, 2, T)
    <3> HIDE DEF s
    <3>1. Stands(e.key, 1, s)
      BY <1>4, <1>5, <1>8, <2>1, PrefixRangeOnly, Zenon DEF Meets
    <3> HIDE DEF x, T
    <3>2. Stands(e.key, 1, x \o T)
      BY <3>1 DEF s
    <3>3. Stands(e.key, 1, x) /\ Stands(e.key, 1 + Len(x), T)
      BY <1>9, <1>3, <1>5, <2>1, <3>2, StandsParts, Zenon
    <3>4. e.key[1] = x[1]
      <4>1. 1 \in 1..Len(x) /\ 1 + 1 - 1 = 1
        BY <1>1
      <4> QED BY <3>3, <4>1 DEF Stands
    <3>5. 1 + Len(x) = 2
      BY <1>1
    <3> QED BY <1>1, <3>3, <3>4, <3>5
  <2>2. \A index \in {"EAVT", "AEVT", "AVET", "VAET"} : Prefix[index][1] # 5
    BY DEF Prefix
  <2>3. /\ EavtOf(d) \in Seq(Int) /\ EavtOf(d)[1] = Prefix["EAVT"][1] /\ AevtOf(d) \in Seq(Int) /\ AevtOf(d)[1] = Prefix["AEVT"][1]
        /\ AvetOf(d) \in Seq(Int) /\ AvetOf(d)[1] = Prefix["AVET"][1] /\ VaetOf(d) \in Seq(Int) /\ VaetOf(d)[1] = Prefix["VAET"][1]
    BY KeysOfDatom DEF IsWithin
  <2> HIDE DEF T, x, s, I
  <2>4. e.key # EavtOf(d) /\ e.key # AevtOf(d) /\ e.key # AvetOf(d) /\ e.key # VaetOf(d)
    BY <2>1, <2>2, <2>3
  <2>5. d.entityType # Nothing /\ e.key = TypeKeyOf(d)
    BY <2>4, EntriesAre
  <2> DEFINE Y == EncodePart(TString(d.entityType))
  <2>6. /\ TypeKeyOf(d) \in Seq(Int) /\ d.entityType \in Utf8 /\ TString(d.entityType) = Part("string", d.entityType)
        /\ Stands(TypeKeyOf(d), 2, Y)
    BY <1>6, <2>5
  <2>7. Stands(TypeKeyOf(d), 2, T)
    BY <2>1, <2>5, <2>6
  <2>8. ASSUME NEW z \in Utf8, Stands(TypeKeyOf(d), 2, EncodePart(TString(z)))
        PROVE  DecodePart(TypeKeyOf(d), 2).part.of = z
    <3>1. "string" \in ValueTypes /\ z \in Contents("string") /\ TString(z) = Part("string", z) /\ KeptOf("string", z) = z
      BY DEF ValueTypes, Contents, TString, KeptOf
    <3>2. DecodePart(TypeKeyOf(d), 2) =
            [part |-> Part("string", KeptOf("string", z)), takes |-> Len(EncodePart(Part("string", z)))]
      BY <1>5, <2>6, <2>8, <3>1, PartsAreRead
    <3> QED BY <3>1, <3>2 DEF Part
  <2>9. DecodePart(TypeKeyOf(d), 2).part.of = d.entityType /\ DecodePart(TypeKeyOf(d), 2).part.of = type
    BY <2>6, <2>7, <2>8 DEF T
  <2> QED BY <2>9
<1> QED BY <1>7, <1>8

-----------------------------------------------------------------------------
\* Records.

LEMMA StandsWithin ==
  ASSUME NEW b \in Seq(Int), NEW u \in Seq(Int), NEW s \in Seq(Int), NEW at \in Nat \ {0}, Stands(b, 1, u), Stands(u, at, s)
  PROVE  Stands(b, at, s)
<1>1. Len(b) \in Nat /\ Len(u) \in Nat /\ Len(s) \in Nat
  BY LenProperties
<1>2. at + Len(s) <= Len(b) + 1
  BY <1>1 DEF Stands
<1>3. ASSUME NEW i \in 1..Len(s) PROVE b[at + i - 1] = s[i]
  <2>1. at + i - 1 \in 1..Len(u) /\ 1 + (at + i - 1) - 1 = at + i - 1
    BY <1>1 DEF Stands
  <2>2. u[at + i - 1] = s[i] /\ b[1 + (at + i - 1) - 1] = u[at + i - 1]
    BY <2>1 DEF Stands
  <2> QED BY <2>1, <2>2
<1> QED BY <1>2, <1>3 DEF Stands

LEMMA Written ==
  /\ \A s \in Utf8 : WriteStr(s) \in Seq(Int) /\ Len(WriteStr(s)) = 1 + Len(s) /\ Len(s) \in Nat
  /\ \A s \in OptionalUtf8 : WriteNullable(s) \in Seq(Int)
  /\ \A t \in Int : WriteInstant(t) \in Seq(Int) /\ Len(WriteInstant(t)) = IF t = NoInstant THEN 0 ELSE 1
<1>1. ASSUME NEW s \in Utf8 PROVE WriteStr(s) \in Seq(Int) /\ Len(WriteStr(s)) = 1 + Len(s) /\ Len(s) \in Nat
  <2>1. s \in Seq(Int) /\ Len(s) \in Nat
    BY EscapedTexts
  <2>2. <<Len(s)>> \in Seq(Int) /\ Len(<<Len(s)>>) = 1
    BY <2>1
  <2> QED BY <2>1, <2>2, ConcatProperties DEF WriteStr
<1>2. ASSUME NEW s \in OptionalUtf8 PROVE WriteNullable(s) \in Seq(Int)
  <2>1. CASE s = Nothing
    BY <2>1, EmptySeq DEF WriteNullable
  <2>2. CASE s # Nothing
    BY <1>1, <2>2 DEF WriteNullable, OptionalUtf8
  <2> QED BY <2>1, <2>2
<1>3. ASSUME NEW t \in Int PROVE WriteInstant(t) \in Seq(Int) /\ Len(WriteInstant(t)) = IF t = NoInstant THEN 0 ELSE 1
  <2>1. <<t>> \in Seq(Int) /\ Len(<<t>>) = 1 /\ <<>> \in Seq(Int) /\ Len(<<>>) = 0
    OBVIOUS
  <2> QED BY <2>1 DEF WriteInstant
<1> QED BY <1>1, <1>2, <1>3

LEMMA StrIsRead ==
  ASSUME NEW b \in Seq(Int), NEW at \in Nat \ {0}, NEW s \in Utf8, Stands(b, at, WriteStr(s))
  PROVE  ReadStr(b, at).of = s /\ ReadStr(b, at).next = at + Len(WriteStr(s))
<1>1. s \in Seq(Int) /\ Len(s) \in Nat /\ Len(s) \in Int /\ Len(WriteStr(s)) = 1 + Len(s)
  BY EscapedTexts, Written
<1>2. <<Len(s)>> \in Seq(Int) /\ Len(<<Len(s)>>) = 1
  BY <1>1
<1>3. Stands(b, at, <<Len(s)>>) /\ Stands(b, at + 1, s)
  <2>1. Stands(b, at, <<Len(s)>> \o s)
    BY DEF WriteStr
  <2>2. Stands(b, at, <<Len(s)>>) /\ Stands(b, at + Len(<<Len(s)>>), s)
    BY <1>1, <1>2, <2>1, StandsParts, Zenon
  <2> QED BY <1>2, <2>2, Zenon
<1>4. b[at] = Len(s)
  BY <1>1, <1>3, StandsOne
<1>5. SubSeq(b, at + 1, at + 1 + Len(s) - 1) = s
  <2>1. at + 1 \in Nat \ {0}
    OBVIOUS
  <2> QED BY <1>1, <1>3, <2>1, StandsIsSubSeq, Zenon
<1>6. at + 1 + Len(s) - 1 = at + b[at] /\ at + 1 + b[at] = at + Len(WriteStr(s))
  BY <1>1, <1>4
<1>7. SubSeq(b, at + 1, at + b[at]) = s
  BY <1>5, <1>6, Zenon
<1> QED BY <1>6, <1>7 DEF ReadStr, Read

LEMMA StrIsReadIf ==
  ASSUME NEW b \in Seq(Int), NEW at \in Nat \ {0}, NEW s \in OptionalUtf8, Stands(b, at, WriteNullable(s)),
         NEW present \in BOOLEAN, present <=> s # Nothing
  PROVE  ReadStrIf(present, b, at).of = s /\ ReadStrIf(present, b, at).next = at + Len(WriteNullable(s))
<1>1. CASE s = Nothing
  <2>1. WriteNullable(s) = <<>> /\ at + Len(<<>>) = at
    BY <1>1 DEF WriteNullable
  <2> QED BY <1>1, <2>1 DEF ReadStrIf, Read
<1>2. CASE s # Nothing
  <2>1. s \in Utf8 /\ WriteNullable(s) = WriteStr(s)
    BY <1>2 DEF WriteNullable, OptionalUtf8
  <2>2. ReadStr(b, at).of = s /\ ReadStr(b, at).next = at + Len(WriteStr(s))
    BY <2>1, StrIsRead
  <2> QED BY <1>2, <2>1, <2>2 DEF ReadStrIf
<1> QED BY <1>1, <1>2

LEMMA InstantIsReadIf ==
  ASSUME NEW b \in Seq(Int), NEW at \in Nat \ {0}, NEW t \in Int, Stands(b, at, WriteInstant(t)),
         NEW present \in BOOLEAN, present <=> t # NoInstant
  PROVE  ReadInstantIf(present, b, at).of = t /\ ReadInstantIf(present, b, at).next = at + Len(WriteInstant(t))
<1>1. CASE t = NoInstant
  BY <1>1 DEF WriteInstant, ReadInstantIf, Read
<1>2. CASE t # NoInstant
  <2>1. WriteInstant(t) = <<t>> /\ Len(<<t>>) = 1
    BY <1>2 DEF WriteInstant
  <2>2. b[at] = t
    BY <2>1, StandsOne
  <2> QED BY <1>2, <2>1, <2>2 DEF ReadInstantIf, Read
<1> QED BY <1>1, <1>2

\* Each flag is a bit of its own.
LEMMA FlagsTell ==
  ASSUME NEW a \in BOOLEAN, NEW b \in BOOLEAN, NEW c \in BOOLEAN, NEW d \in BOOLEAN
  PROVE  LET f == Flag(a, 1) + Flag(b, 2) + Flag(c, 4) + Flag(d, 8)
         IN f \in Int /\ (Has(f, 1) <=> a) /\ (Has(f, 2) <=> b) /\ (Has(f, 4) <=> c) /\ (Has(f, 8) <=> d)
<1>1. \A w \in {0, 1}, x \in {0, 2}, y \in {0, 4}, z \in {0, 8} :
        /\ w + x + y + z \in Int
        /\ ((w + x + y + z) \div 1) % 2 = 1 <=> w = 1
        /\ ((w + x + y + z) \div 2) % 2 = 1 <=> x = 2
        /\ ((w + x + y + z) \div 4) % 2 = 1 <=> y = 4
        /\ ((w + x + y + z) \div 8) % 2 = 1 <=> z = 8
  OBVIOUS
<1>2. /\ Flag(a, 1) \in {0, 1} /\ Flag(b, 2) \in {0, 2} /\ Flag(c, 4) \in {0, 4} /\ Flag(d, 8) \in {0, 8}
      /\ (Flag(a, 1) = 1 <=> a) /\ (Flag(b, 2) = 2 <=> b) /\ (Flag(c, 4) = 4 <=> c) /\ (Flag(d, 8) = 8 <=> d)
  BY DEF Flag
<1> DEFINE w == Flag(a, 1)
           x == Flag(b, 2)
           y == Flag(c, 4)
           z == Flag(d, 8)
           f == w + x + y + z
<1>3. /\ w \in {0, 1} /\ x \in {0, 2} /\ y \in {0, 4} /\ z \in {0, 8}
      /\ (w = 1 <=> a) /\ (x = 2 <=> b) /\ (y = 4 <=> c) /\ (z = 8 <=> d)
  BY <1>2
<1> HIDE DEF w, x, y, z
<1>4. /\ f \in Int /\ ((f \div 1) % 2 = 1 <=> w = 1) /\ ((f \div 2) % 2 = 1 <=> x = 2)
      /\ ((f \div 4) % 2 = 1 <=> y = 4) /\ ((f \div 8) % 2 = 1 <=> z = 8)
  BY <1>1, <1>3
<1> HIDE DEF f
<1>5. f \in Int /\ (Has(f, 1) <=> a) /\ (Has(f, 2) <=> b) /\ (Has(f, 4) <=> c) /\ (Has(f, 8) <=> d)
  BY <1>3, <1>4, Zenon DEF Has
<1> QED BY <1>5 DEF f, w, x, y, z

LEMMA MetaTagsTell ==
  \A type \in ValueTypes : MetaTag(type) \in Int /\ MetaTags[MetaTag(type)] = type
<1>1. /\ DOMAIN MetaTags = 1..7 /\ MetaTags[1] = "string" /\ MetaTags[2] = "number" /\ MetaTags[3] = "boolean"
      /\ MetaTags[4] = "datetime" /\ MetaTags[5] = "ref" /\ MetaTags[6] = "json" /\ MetaTags[7] = "blob"
  BY DEF MetaTags
<1>2. ASSUME NEW type \in ValueTypes PROVE \E i \in DOMAIN MetaTags : MetaTags[i] = type
  <2>1. 1 \in 1..7 /\ 2 \in 1..7 /\ 3 \in 1..7 /\ 4 \in 1..7 /\ 5 \in 1..7 /\ 6 \in 1..7 /\ 7 \in 1..7
    OBVIOUS
  <2> QED BY <1>1, <2>1, Zenon DEF ValueTypes
<1>3. ASSUME NEW type \in ValueTypes PROVE MetaTag(type) \in DOMAIN MetaTags /\ MetaTags[MetaTag(type)] = type
  BY <1>2 DEF MetaTag
<1>4. \A i \in 1..7 : i \in Int
  OBVIOUS
<1> QED BY <1>1, <1>3, <1>4, Zenon

\* A value is read back from wherever it stands in a record.
LEMMA ValueIsRead ==
  ASSUME NEW b \in Seq(Int), NEW at \in Nat \ {0}, NEW v, IsValue(v), Stands(b, at, WriteValue(v))
  PROVE  ReadValue(b, at).of = v /\ ReadValue(b, at).next = at + Len(WriteValue(v))
<1> DEFINE type == v.type
           of == v.of
           tag == <<MetaTag(type)>>
<1>1. type \in ValueTypes /\ of \in Contents(type) /\ v.extra \in Extras(type) /\ v = [type |-> type, of |-> of, extra |-> v.extra]
  BY ValueFields
<1>2. tag \in Seq(Int) /\ Len(tag) = 1 /\ tag[1] = MetaTag(type) /\ MetaTag(type) \in Int /\ MetaTags[MetaTag(type)] = type
  <2>1. MetaTag(type) \in Int /\ MetaTags[MetaTag(type)] = type
    BY <1>1, MetaTagsTell
  <2> QED BY <2>1
<1>3. ASSUME NEW rest \in Seq(Int), WriteValue(v) = tag \o rest
      PROVE  MetaTags[b[at]] = type /\ Stands(b, at + 1, rest) /\ at + Len(WriteValue(v)) = at + 1 + Len(rest)
  <2> HIDE DEF tag
  <2>1. Stands(b, at, tag \o rest)
    BY <1>3
  <2>2. Stands(b, at, tag) /\ Stands(b, at + Len(tag), rest)
    BY <1>2, <2>1, StandsParts, Zenon
  <2>3. Len(tag \o rest) = 1 + Len(rest) /\ Len(rest) \in Nat
    BY <1>2, ConcatProperties, LenProperties, ZenonT(60)
  <2>4. b[at] = MetaTag(type)
    BY <1>2, <2>2, StandsOne DEF tag
  <2> QED BY <1>2, <1>3, <2>2, <2>3, <2>4
<1>4. type \in {"string", "ref", "json", "blob"} => of \in Utf8
  BY <1>1, ContentsAre DEF TextTypes
<1>5. at + 1 \in Nat \ {0}
  OBVIOUS
<1>6. type # "blob" => v = [type |-> type, of |-> of, extra |-> <<>>]
  BY <1>1 DEF Extras
<1>7. CASE type \in {"string", "ref", "json"}
  <2>1. WriteStr(of) \in Seq(Int) /\ of \in Utf8
    BY <1>4, <1>7, Written
  <2>2. WriteValue(v) = tag \o WriteStr(of)
    BY <1>7 DEF WriteValue
  <2>3. MetaTags[b[at]] = type /\ Stands(b, at + 1, WriteStr(of)) /\ at + Len(WriteValue(v)) = at + 1 + Len(WriteStr(of))
    BY <1>3, <2>1, <2>2
  <2>4. ReadStr(b, at + 1).of = of /\ ReadStr(b, at + 1).next = at + 1 + Len(WriteStr(of))
    BY <1>5, <2>1, <2>3, StrIsRead
  <2> HIDE DEF type, of
  <2>5. ReadValue(b, at) = Read([type |-> type, of |-> of, extra |-> <<>>], at + 1 + Len(WriteStr(of)))
    BY <1>7, <2>3, <2>4 DEF ReadValue
  <2> QED BY <1>6, <1>7, <2>3, <2>5 DEF Read
<1>8. CASE type = "number"
  <2>1. of = <<of[1], of[2]>> /\ of[1] \in Int /\ of[2] \in Int /\ of \in Seq(Int) /\ Len(of) = 2
    <3>1. of = <<of[1], of[2]>> /\ of[1] \in 0..1 /\ of[2] \in 0..127 /\ of \in Seq(Int)
      BY <1>1, <1>8, ContentsAre
    <3>2. of[1] \in Int /\ of[2] \in Int
      BY <3>1
    <3>3. Len(<<of[1], of[2]>>) = 2
      OBVIOUS
    <3> HIDE DEF of
    <3> QED BY <3>1, <3>2, <3>3
  <2>2. WriteValue(v) = tag \o of
    BY <1>8 DEF WriteValue
  <2>3. MetaTags[b[at]] = type /\ Stands(b, at + 1, of) /\ at + Len(WriteValue(v)) = at + 1 + Len(of)
    BY <1>3, <2>1, <2>2
  <2> HIDE DEF type, of
  <2>4. b[at + 1] = of[1] /\ b[at + 2] = of[2]
    <3>1. 1 \in 1..Len(of) /\ 2 \in 1..Len(of) /\ at + 1 + 1 - 1 = at + 1 /\ at + 1 + 2 - 1 = at + 2
      BY <2>1
    <3>2. b[at + 1 + 1 - 1] = of[1] /\ b[at + 1 + 2 - 1] = of[2]
      BY <2>3, <3>1 DEF Stands
    <3> QED BY <3>1, <3>2
  <2>5. ReadValue(b, at) = Read([type |-> type, of |-> <<b[at + 1], b[at + 2]>>, extra |-> <<>>], at + 3)
    BY <1>8, <2>3 DEF ReadValue
  <2>6. <<b[at + 1], b[at + 2]>> = of /\ at + Len(WriteValue(v)) = at + 3
    BY <2>1, <2>3, <2>4
  <2> QED BY <1>6, <1>8, <2>5, <2>6 DEF Read
<1>9. CASE type \in {"boolean", "datetime"}
  <2>1. of = <<of[1]>> /\ of[1] \in Int /\ of \in Seq(Int) /\ Len(of) = 1
    <3>1. of = <<of[1]>> /\ (of[1] \in 0..1 \/ of[1] \in -256..255) /\ of \in Seq(Int)
      BY <1>1, <1>9, ContentsAre
    <3>2. of[1] \in Int
      BY <3>1
    <3>3. Len(<<of[1]>>) = 1
      OBVIOUS
    <3> HIDE DEF of
    <3> QED BY <3>1, <3>2, <3>3
  <2>2. WriteValue(v) = tag \o of
    BY <1>9 DEF WriteValue
  <2>3. MetaTags[b[at]] = type /\ Stands(b, at + 1, of) /\ at + Len(WriteValue(v)) = at + 1 + Len(of)
    BY <1>3, <2>1, <2>2
  <2> HIDE DEF type, of
  <2>4. b[at + 1] = of[1]
    <3>1. 1 \in 1..Len(of) /\ at + 1 + 1 - 1 = at + 1
      BY <2>1
    <3>2. b[at + 1 + 1 - 1] = of[1]
      BY <2>3, <3>1 DEF Stands
    <3> QED BY <3>1, <3>2
  <2>5. ReadValue(b, at) = Read([type |-> type, of |-> <<b[at + 1]>>, extra |-> <<>>], at + 2)
    BY <1>9, <2>3 DEF ReadValue
  <2>6. <<b[at + 1]>> = of /\ at + Len(WriteValue(v)) = at + 2
    BY <2>1, <2>3, <2>4
  <2> QED BY <1>6, <1>9, <2>5, <2>6 DEF Read
<1>10. CASE type = "blob"
  <2> DEFINE mime == v.extra[1]
             size == v.extra[2]
             name == v.extra[3]
             named == <<IF name = Nothing THEN 0 ELSE 1>>
             h == WriteStr(of)
             m == WriteStr(mime)
             n == WriteNullable(name)
             hm == h \o m
             hms == hm \o size
             last == named \o n
             rest == hms \o last
  <2>1. mime \in Utf8 /\ size \in [1..1 -> Int] /\ name \in OptionalUtf8 /\ v.extra = <<mime, size, name>>
    BY <1>1, <1>10 DEF Extras
  <2>2. of \in Utf8 /\ h \in Seq(Int) /\ m \in Seq(Int) /\ n \in Seq(Int)
    BY <1>4, <1>10, <2>1, Written
  <2>3. size \in Seq(Int) /\ Len(size) = 1 /\ size[1] \in Int /\ size = <<size[1]>>
    <3> HIDE DEF size
    <3>1. size \in Seq(Int)
      <4>1. 1 \in Nat
        OBVIOUS
      <4> QED BY <2>1, <4>1, SeqDef
    <3>2. Len(size) = 1
      <4>1. DOMAIN size = 1..1 /\ DOMAIN size = 1..Len(size) /\ Len(size) \in Nat
        BY <2>1, <3>1, LenProperties
      <4>2. Len(size) >= 1 /\ (Len(size) > 1 => 2 \in 1..Len(size))
        BY <4>1
      <4> QED BY <4>1, <4>2
    <3> QED BY <2>1, <3>1, <3>2
  <2>4. named \in Seq(Int) /\ Len(named) = 1 /\ named[1] = (IF name = Nothing THEN 0 ELSE 1)
    OBVIOUS
  <2>5. last = IF name = Nothing THEN <<0>> ELSE <<1>> \o WriteStr(name)
    <3>1. CASE name = Nothing
      <4>1. n = <<>> /\ named = <<0>>
        BY <3>1 DEF WriteNullable
      <4>2. <<0>> \o <<>> = <<0>>
        OBVIOUS
      <4> HIDE DEF n, named
      <4> QED BY <3>1, <4>1, <4>2
    <3>2. CASE name # Nothing
      <4>1. n = WriteStr(name) /\ named = <<1>>
        BY <3>2 DEF WriteNullable
      <4> HIDE DEF n, named
      <4> QED BY <3>2, <4>1, Zenon
    <3> QED BY <3>1, <3>2
  <2>6. WriteValue(v) = tag \o rest
    <3> HIDE DEF last
    <3>1. WriteValue(v) = tag \o (h \o m \o size \o (IF name = Nothing THEN <<0>> ELSE <<1>> \o WriteStr(name)))
      BY <1>10 DEF WriteValue
    <3> QED BY <2>5, <3>1, Zenon
  <2> HIDE DEF type, of, mime, size, name, named, h, m, n
  <2>7. hm \in Seq(Int) /\ Len(hm) = Len(h) + Len(m)
    BY <2>2, ConcatProperties
  <2>8. last \in Seq(Int) /\ Len(last) = 1 + Len(n)
    <3>1. last \in Seq(Int) /\ Len(last) = Len(named) + Len(n)
      BY <2>2, <2>4, ConcatProperties, Zenon
    <3> HIDE DEF last
    <3> QED BY <2>4, <3>1
  <2> HIDE DEF hm, last
  <2>9. hms \in Seq(Int) /\ Len(hms) = Len(hm) + 1
    <3>0. size \in Seq(Int)
      BY <2>3
    <3>1. hms \in Seq(Int) /\ Len(hms) = Len(hm) + Len(size)
      BY <2>7, <3>0, ConcatProperties, Zenon
    <3> HIDE DEF hms
    <3> QED BY <2>3, <3>1
  <2> HIDE DEF hms
  <2>10. rest \in Seq(Int) /\ Len(rest) = Len(hms) + Len(last)
    BY <2>8, <2>9, ConcatProperties
  <2> HIDE DEF rest
  <2>11. MetaTags[b[at]] = type /\ Stands(b, at + 1, rest) /\ at + Len(WriteValue(v)) = at + 1 + Len(rest)
    BY <1>3, <2>6, <2>10
  <2>12. Len(h) \in Nat /\ Len(m) \in Nat /\ Len(n) \in Nat
    BY <2>2, LenProperties
  <2> DEFINE a1 == at + 1
             a2 == a1 + Len(h)
             a3 == a2 + Len(m)
             a4 == a3 + 1
             a5 == a4 + 1
  <2>13. /\ a1 \in Nat \ {0} /\ a2 \in Nat \ {0} /\ a3 \in Nat \ {0} /\ a4 \in Nat \ {0} /\ a5 \in Nat \ {0}
         /\ a3 + 1 = a4 /\ a3 + 2 = a5 /\ a1 + Len(hms) = a4 /\ a1 + Len(hm) = a3 /\ at + Len(WriteValue(v)) = a5 + Len(n)
         /\ a1 = at + 1 /\ a2 = a1 + Len(h)
    <3>1. a1 \in Nat \ {0} /\ a2 \in Nat \ {0} /\ a3 \in Nat \ {0} /\ a4 \in Nat \ {0} /\ a5 \in Nat \ {0}
      BY <2>12
    <3>2. a3 + 1 = a4 /\ a3 + 2 = a5 /\ a1 = at + 1 /\ a2 = a1 + Len(h)
      BY <2>12
    <3>3. a1 + Len(hm) = a3 /\ a1 + Len(hms) = a4
      BY <2>7, <2>9, <2>12
    <3>4. Len(rest) = Len(h) + Len(m) + 1 + 1 + Len(n)
      BY <2>7, <2>8, <2>9, <2>10, <2>12
    <3>5. at + 1 + Len(rest) = a5 + Len(n)
      BY <2>12, <3>4
    <3> QED BY <2>11, <3>1, <3>2, <3>3, <3>5
  <2> HIDE DEF a1, a2, a3, a4, a5
  <2>14. Stands(b, a1, hms) /\ Stands(b, a4, last)
    <3>1. Stands(b, a1, hms \o last)
      BY <2>11, <2>13 DEF rest
    <3>2. Stands(b, a1, hms) /\ Stands(b, a1 + Len(hms), last)
      BY <2>8, <2>9, <2>13, <3>1, StandsParts, Zenon
    <3> QED BY <2>13, <3>2
  <2>15. Stands(b, a1, hm) /\ Stands(b, a3, size)
    <3>1. Stands(b, a1, hm \o size)
      BY <2>14 DEF hms
    <3>0. size \in Seq(Int)
      BY <2>3
    <3>2. Stands(b, a1, hm) /\ Stands(b, a1 + Len(hm), size)
      BY <2>7, <3>0, <2>13, <3>1, StandsParts, Zenon
    <3> QED BY <2>13, <3>2
  <2>16. Stands(b, a1, h) /\ Stands(b, a2, m)
    <3>1. Stands(b, a1, h \o m)
      BY <2>15 DEF hm
    <3>2. Stands(b, a1, h) /\ Stands(b, a1 + Len(h), m)
      BY <2>2, <2>13, <3>1, StandsParts, Zenon
    <3> QED BY <2>13, <3>2
  <2>17. Stands(b, a4, named) /\ Stands(b, a5, n)
    <3>1. Stands(b, a4, named \o n)
      BY <2>14 DEF last
    <3>2. Stands(b, a4, named) /\ Stands(b, a4 + Len(named), n)
      BY <2>2, <2>4, <2>13, <3>1, StandsParts, Zenon
    <3>3. a4 + Len(named) = a5
      BY <2>4, <2>13 DEF a5
    <3> QED BY <3>2, <3>3
  <2>18. b[a3] = size[1] /\ b[a4] = (IF name = Nothing THEN 0 ELSE 1)
    <3>1. b[a3] = size[1]
      <4>1. 1 \in 1..Len(size) /\ a3 + 1 - 1 = a3
        BY <2>3, <2>13
      <4>2. b[a3 + 1 - 1] = size[1]
        BY <2>15, <4>1 DEF Stands
      <4> QED BY <4>1, <4>2
    <3>2. b[a4] = named[1]
      <4>1. 1 \in 1..Len(named) /\ a4 + 1 - 1 = a4
        BY <2>4, <2>13
      <4>2. b[a4 + 1 - 1] = named[1]
        BY <2>17, <4>1 DEF Stands
      <4> QED BY <4>1, <4>2
    <3> QED BY <2>4, <3>1, <3>2
  <2> DEFINE hash1 == ReadStr(b, a1)
             mime1 == ReadStr(b, hash1.next)
             name1 == ReadStrIf(b[mime1.next + 1] # 0, b, mime1.next + 2)
  <2>19. hash1.of = of /\ hash1.next = a2
    BY <2>2, <2>13, <2>16, StrIsRead DEF h
  <2>20. mime1.of = mime /\ mime1.next = a3
    <3> HIDE DEF hash1
    <3>1. ReadStr(b, a2).of = mime /\ ReadStr(b, a2).next = a2 + Len(m)
      BY <2>1, <2>13, <2>16, StrIsRead DEF m
    <3> QED BY <2>19, <3>1 DEF a3
  <2>21. name1.of = name /\ name1.next = a5 + Len(n)
    <3> HIDE DEF hash1, mime1
    <3>1. (b[a4] # 0) \in BOOLEAN /\ (b[a4] # 0 <=> name # Nothing)
      BY <2>18
    <3>2. ReadStrIf(b[a4] # 0, b, a5).of = name /\ ReadStrIf(b[a4] # 0, b, a5).next = a5 + Len(n)
      <4>1. a5 \in Nat \ {0} /\ b \in Seq(Int) /\ name \in OptionalUtf8
        BY <2>1, <2>13
      <4>2. Stands(b, a5, WriteNullable(name))
        BY <2>17 DEF n
      <4> HIDE DEF a5
      <4> QED BY <3>1, <4>1, <4>2, StrIsReadIf, Zenon DEF n
    <3> QED BY <2>13, <2>20, <3>2
  <2>22. ReadValue(b, at) = Read([type |-> type, of |-> hash1.of, extra |-> <<mime1.of, <<b[mime1.next]>>, name1.of>>], name1.next)
    BY <1>10, <2>11, <2>13 DEF ReadValue
  <2> HIDE DEF hash1, mime1, name1
  <2>23. <<mime1.of, <<b[mime1.next]>>, name1.of>> = v.extra
    BY <2>1, <2>3, <2>18, <2>20, <2>21
  <2>24. ReadValue(b, at) = Read(v, name1.next)
    BY <1>1, <2>19, <2>22, <2>23
  <2> QED BY <2>13, <2>21, <2>24 DEF Read
<1> QED BY <1>1, <1>7, <1>8, <1>9, <1>10 DEF ValueTypes

\* The pieces stand in a record one after the other.
AreLaid(k, b, p1, p2, p3, p4, p5, p6, p7, p8, p9, p10, p11) ==
  /\ b \in Seq(Int) /\ Laid(k, p1, p2, p3, p4, p5, p6) /\ Laid(b, k, p7, p8, p9, p10, p11)
  /\ \A at \in Nat \ {0}, s \in Seq(Int) : Stands(k, at, s) => Stands(b, at, s)

LEMMA PiecesStand ==
  ASSUME NEW p1 \in Seq(Int), NEW p2 \in Seq(Int), NEW p3 \in Seq(Int), NEW p4 \in Seq(Int), NEW p5 \in Seq(Int), NEW p6 \in Seq(Int),
         NEW p7 \in Seq(Int), NEW p8 \in Seq(Int), NEW p9 \in Seq(Int), NEW p10 \in Seq(Int), NEW p11 \in Seq(Int)
  PROVE  AreLaid(KeyOf(p1, p2, p3, p4, p5, p6), KeyOf(KeyOf(p1, p2, p3, p4, p5, p6), p7, p8, p9, p10, p11),
                 p1, p2, p3, p4, p5, p6, p7, p8, p9, p10, p11)
<1> DEFINE k == KeyOf(p1, p2, p3, p4, p5, p6)
           b == KeyOf(k, p7, p8, p9, p10, p11)
<1>1. Laid(k, p1, p2, p3, p4, p5, p6)
  BY KeysStand, Zenon
<1>2. k \in Seq(Int)
  BY <1>1, Zenon DEF Laid
<1> HIDE DEF k
<1>3. Laid(b, k, p7, p8, p9, p10, p11)
  BY <1>2, KeysStand, Zenon
<1> HIDE DEF b
<1>4. b \in Seq(Int) /\ Stands(b, 1, k)
  BY <1>3 DEF Laid
<1>5. \A at \in Nat \ {0}, s \in Seq(Int) : Stands(k, at, s) => Stands(b, at, s)
  BY <1>2, <1>4, StandsWithin
<1> QED BY <1>1, <1>3, <1>4, <1>5 DEF b, k, AreLaid

LEMMA ValueIsWritten ==
  ASSUME NEW v, IsValue(v)
  PROVE  WriteValue(v) \in Seq(Int)
<1> DEFINE tag == <<MetaTag(v.type)>>
<1>1. v.type \in ValueTypes /\ v.of \in Contents(v.type) /\ v.extra \in Extras(v.type)
  BY ValueFields
<1>2. tag \in Seq(Int)
  BY <1>1, MetaTagsTell
<1>3. v.of \in Seq(Int) /\ (v.type \in TextTypes \cup {"json"} => v.of \in Utf8)
  BY <1>1, ContentsAre
<1> HIDE DEF tag
<1>4. CASE v.type \in {"string", "ref", "json"}
  <2>1. WriteStr(v.of) \in Seq(Int)
    BY <1>3, <1>4, Written DEF TextTypes
  <2>2. WriteValue(v) = tag \o WriteStr(v.of)
    BY <1>4 DEF WriteValue, tag
  <2>3. tag \o WriteStr(v.of) \in Seq(Int)
    BY <1>2, <2>1, ConcatProperties, Zenon
  <2> QED BY <2>2, <2>3
<1>5. CASE v.type \in {"number", "boolean", "datetime"}
  <2>2. WriteValue(v) = tag \o v.of
    BY <1>5 DEF WriteValue, tag
  <2>3. tag \o v.of \in Seq(Int)
    BY <1>2, <1>3, ConcatProperties, Zenon
  <2> QED BY <2>2, <2>3
<1>6. CASE v.type = "blob"
  <2> DEFINE h == WriteStr(v.of)
             m == WriteStr(v.extra[1])
             z == v.extra[2]
             n == IF v.extra[3] = Nothing THEN <<0>> ELSE <<1>> \o WriteStr(v.extra[3])
  <2>1. v.extra[1] \in Utf8 /\ v.extra[2] \in [1..1 -> Int] /\ v.extra[3] \in OptionalUtf8
    BY <1>1, <1>6 DEF Extras
  <2>2. h \in Seq(Int) /\ m \in Seq(Int)
    BY <1>3, <1>6, <2>1, Written DEF TextTypes
  <2>3. z \in Seq(Int)
    <3>1. 1 \in Nat
      OBVIOUS
    <3> QED BY <2>1, <3>1, SeqDef
  <2>4. n \in Seq(Int)
    <3>1. <<0>> \in Seq(Int) /\ <<1>> \in Seq(Int)
      OBVIOUS
    <3>2. v.extra[3] # Nothing => WriteStr(v.extra[3]) \in Seq(Int)
      BY <2>1, Written DEF OptionalUtf8
    <3>3. v.extra[3] # Nothing => <<1>> \o WriteStr(v.extra[3]) \in Seq(Int)
      BY <3>1, <3>2, ConcatProperties
    <3> QED BY <3>1, <3>3
  <2>5. WriteValue(v) = tag \o (h \o m \o z \o n)
    BY <1>6 DEF WriteValue, tag
  <2> HIDE DEF h, m, z, n
  <2>6. h \o m \in Seq(Int)
    BY <2>2, ConcatProperties, Zenon
  <2>7. h \o m \o z \in Seq(Int)
    BY <2>3, <2>6, ConcatProperties, Zenon
  <2>8. h \o m \o z \o n \in Seq(Int)
    BY <2>4, <2>7, ConcatProperties, Zenon
  <2>9. tag \o (h \o m \o z \o n) \in Seq(Int)
    BY <1>2, <2>8, ConcatProperties, Zenon
  <2> QED BY <2>5, <2>9
<1> QED BY <1>1, <1>4, <1>5, <1>6 DEF ValueTypes

\* A fact is read back from its record as it was written.
LEMMA RecordsAreRead ==
  ASSUME NEW d, IsDatom(d)
  PROVE  DeserializeDatom(SerializeDatom(d)) = d
<1> DEFINE flags == Flag(d.createdBy # Nothing, 1) + Flag(d.retractedAt # NoInstant, 2)
                      + Flag(d.retractTx # Nothing, 4) + Flag(d.entityType # Nothing, 8)
           validFlag == Flag(d.validTo # NoInstant, 1)
           retractFlag == Flag(d.retractedPosition # NoInstant, 1)
           p1 == <<1>>
           p2 == WriteStr(d.id)
           p3 == WriteStr(d.entity)
           p4 == WriteStr(d.attribute)
           p5 == WriteValue(d.value)
           p6 == WriteStr(d.tx)
           p7 == <<d.recordedAt>>
           p8 == <<flags>>
           p9 == WriteNullable(d.createdBy)
           p10 == WriteInstant(d.retractedAt)
           p11 == WriteNullable(d.retractTx)
           p12 == WriteNullable(d.entityType)
           p13 == <<d.validFrom, validFlag>>
           p14 == WriteInstant(d.validTo)
           p15 == <<d.recordedPosition, retractFlag>>
           p16 == WriteInstant(d.retractedPosition)
           k == KeyOf(p1, p2, p3, p4, p5, p6)
           l == KeyOf(k, p7, p8, p9, p10, p11)
           b == KeyOf(l, p12, p13, p14, p15, p16)
<1>1. b = SerializeDatom(d)
  BY DEF SerializeDatom, KeyOf
<1>2. /\ d.id \in Utf8 /\ d.entity \in Utf8 /\ d.attribute \in Utf8 /\ IsValue(d.value) /\ d.tx \in Utf8
      /\ d.recordedAt \in Int /\ d.createdBy \in OptionalUtf8 /\ d.retractedAt \in Int /\ d.retractTx \in OptionalUtf8
      /\ d.entityType \in OptionalUtf8 /\ d.validFrom \in Int /\ d.validTo \in Int /\ d.recordedPosition \in Int
      /\ d.retractedPosition \in Int
  <2>1. /\ d.recordedAt \in Int /\ d.createdBy \in OptionalUtf8 /\ d.retractedAt \in Int /\ d.retractTx \in OptionalUtf8
        /\ d.validFrom \in Int /\ d.validTo \in Int /\ d.recordedPosition \in Int /\ d.retractedPosition \in Int
    BY DEF IsDatom
  <2> QED BY <2>1, DatomFields
<1>3. /\ flags \in Int /\ (Has(flags, 1) <=> d.createdBy # Nothing) /\ (Has(flags, 2) <=> d.retractedAt # NoInstant)
      /\ (Has(flags, 4) <=> d.retractTx # Nothing) /\ (Has(flags, 8) <=> d.entityType # Nothing)
  <2>1. /\ (d.createdBy # Nothing) \in BOOLEAN /\ (d.retractedAt # NoInstant) \in BOOLEAN
        /\ (d.retractTx # Nothing) \in BOOLEAN /\ (d.entityType # Nothing) \in BOOLEAN
    OBVIOUS
  <2> QED BY <2>1, FlagsTell, ZenonT(60)
<1>4. validFlag \in Int /\ (validFlag # 0 <=> d.validTo # NoInstant) /\ retractFlag \in Int /\ (retractFlag # 0 <=> d.retractedPosition # NoInstant)
  BY DEF Flag
<1> HIDE DEF flags, validFlag, retractFlag
<1>5. p1 \in Seq(Int) /\ Len(p1) = 1
  OBVIOUS
<1>6. p2 \in Seq(Int) /\ p3 \in Seq(Int) /\ p4 \in Seq(Int) /\ p6 \in Seq(Int)
  BY <1>2, Written
<1>7. p5 \in Seq(Int)
  BY <1>2, ValueIsWritten
<1>8. p7 \in Seq(Int) /\ p8 \in Seq(Int) /\ Len(p7) = 1 /\ Len(p8) = 1
  BY <1>2, <1>3
<1>9. p9 \in Seq(Int) /\ p10 \in Seq(Int) /\ p11 \in Seq(Int) /\ p12 \in Seq(Int) /\ p14 \in Seq(Int) /\ p16 \in Seq(Int)
  BY <1>2, Written
<1>10. p13 \in Seq(Int) /\ p15 \in Seq(Int) /\ Len(p13) = 2 /\ Len(p15) = 2
  BY <1>2, <1>4
<1>11. p7[1] = d.recordedAt /\ p8[1] = flags /\ p13[1] = d.validFrom /\ p13[2] = validFlag /\ p15[1] = d.recordedPosition /\ p15[2] = retractFlag
  OBVIOUS
<1> HIDE DEF p1, p2, p3, p4, p5, p6, p7, p8, p9, p10, p11, p12, p13, p14, p15, p16
<1>12. Len(p1) \in Nat /\ Len(p2) \in Nat /\ Len(p3) \in Nat /\ Len(p4) \in Nat /\ Len(p5) \in Nat /\ Len(p6) \in Nat /\ Len(p7) \in Nat /\ Len(p8) \in Nat
       /\ Len(p9) \in Nat /\ Len(p10) \in Nat /\ Len(p11) \in Nat /\ Len(p12) \in Nat /\ Len(p13) \in Nat /\ Len(p14) \in Nat /\ Len(p15) \in Nat /\ Len(p16) \in Nat
  BY <1>5, <1>6, <1>7, <1>8, <1>9, <1>10, LenProperties
<1>13. /\ Laid(k, p1, p2, p3, p4, p5, p6) /\ Laid(l, k, p7, p8, p9, p10, p11) /\ l \in Seq(Int)
       /\ \A at \in Nat \ {0}, s \in Seq(Int) : Stands(k, at, s) => Stands(l, at, s)
  <2>1. AreLaid(k, l, p1, p2, p3, p4, p5, p6, p7, p8, p9, p10, p11)
    BY <1>5, <1>6, <1>7, <1>8, <1>9, PiecesStand, Zenon
  <2> HIDE DEF k, l
  <2> QED BY <2>1, Zenon DEF AreLaid
<1> HIDE DEF k, l
<1>14. Laid(b, l, p12, p13, p14, p15, p16) /\ b \in Seq(Int) /\ Stands(b, 1, l)
  <2>1. Laid(b, l, p12, p13, p14, p15, p16)
    BY <1>9, <1>10, <1>13, KeysStand, Zenon
  <2> HIDE DEF b
  <2> QED BY <2>1 DEF Laid
<1> HIDE DEF b
<1>15. ASSUME NEW at \in Nat \ {0}, NEW s \in Seq(Int), Stands(l, at, s) PROVE Stands(b, at, s)
  BY <1>13, <1>14, <1>15, StandsWithin
\* Where the fields begin.
<1> DEFINE n2 == 1 + Len(p1)
           n3 == n2 + Len(p2)
           n4 == n3 + Len(p3)
           n5 == n4 + Len(p4)
           n6 == n5 + Len(p5)
           n7 == n6 + Len(p6)
           n8 == n7 + Len(p7)
           n9 == n8 + Len(p8)
           n10 == n9 + Len(p9)
           n11 == n10 + Len(p10)
           n12 == n11 + Len(p11)
           n13 == n12 + Len(p12)
           n14 == n13 + Len(p13)
           n15 == n14 + Len(p14)
           n16 == n15 + Len(p15)
           n17 == n16 + Len(p16)
<1>16. n2 \in Nat \ {0} /\ n3 \in Nat \ {0} /\ n4 \in Nat \ {0} /\ n5 \in Nat \ {0} /\ n6 \in Nat \ {0} /\ n7 \in Nat \ {0} /\ n8 \in Nat \ {0} /\ n9 \in Nat \ {0}
       /\ n10 \in Nat \ {0} /\ n11 \in Nat \ {0} /\ n12 \in Nat \ {0} /\ n13 \in Nat \ {0} /\ n14 \in Nat \ {0} /\ n15 \in Nat \ {0} /\ n16 \in Nat \ {0} /\ n17 \in Nat \ {0}
       /\ n2 = 2 /\ n8 = n7 + 1 /\ n9 = n7 + 2 /\ n14 = n13 + 2 /\ n16 = n15 + 2
  <2>2. n2 \in Nat \ {0}
    BY <1>5
  <2>3. n3 \in Nat \ {0}
    BY <1>12, <2>2
  <2>4. n4 \in Nat \ {0}
    BY <1>12, <2>3
  <2>5. n5 \in Nat \ {0}
    BY <1>12, <2>4
  <2>6. n6 \in Nat \ {0}
    BY <1>12, <2>5
  <2>7. n7 \in Nat \ {0}
    BY <1>12, <2>6
  <2>8. n8 \in Nat \ {0}
    BY <1>12, <2>7
  <2>9. n9 \in Nat \ {0}
    BY <1>12, <2>8
  <2>10. n10 \in Nat \ {0}
    BY <1>12, <2>9
  <2>11. n11 \in Nat \ {0}
    BY <1>12, <2>10
  <2>12. n12 \in Nat \ {0}
    BY <1>12, <2>11
  <2>13. n13 \in Nat \ {0}
    BY <1>12, <2>12
  <2>14. n14 \in Nat \ {0}
    BY <1>12, <2>13
  <2>15. n15 \in Nat \ {0}
    BY <1>12, <2>14
  <2>16. n16 \in Nat \ {0}
    BY <1>12, <2>15
  <2>17. n17 \in Nat \ {0}
    BY <1>12, <2>16
  <2>20. n2 = 2
    BY <1>5
  <2>21. n8 = n7 + 1 /\ n9 = n7 + 2
    <3>1. n8 = n7 + Len(p7) /\ n9 = n8 + Len(p8)
      OBVIOUS
    <3> HIDE DEF n7, n8, n9
    <3> QED BY <1>8, <2>7, <3>1
  <2>22. n14 = n13 + 2 /\ n16 = n15 + 2
    <3>1. n14 = n13 + Len(p13) /\ n16 = n15 + Len(p15)
      OBVIOUS
    <3> HIDE DEF n13, n14, n15, n16
    <3> QED BY <1>10, <2>13, <2>15, <3>1
  <2> HIDE DEF n2, n3, n4, n5, n6, n7, n8, n9, n10, n11, n12, n13, n14, n15, n16, n17
  <2> QED BY <2>2, <2>3, <2>4, <2>5, <2>6, <2>7, <2>8, <2>9, <2>10, <2>11, <2>12, <2>13, <2>14, <2>15, <2>16, <2>17, <2>20, <2>21, <2>22
<1> HIDE DEF n2, n3, n4, n5, n6, n7, n8, n9, n10, n11, n12, n13, n14, n15, n16, n17
<1>17. n7 = 1 + Len(k) /\ n12 = 1 + Len(l)
  <2>1. Len(k) = Len(p1) + Len(p2) + Len(p3) + Len(p4) + Len(p5) + Len(p6)
    BY <1>13 DEF Laid
  <2>2. Len(l) = Len(k) + Len(p7) + Len(p8) + Len(p9) + Len(p10) + Len(p11)
    BY <1>13 DEF Laid
  <2>3. n7 = 1 + Len(k)
    BY <1>12, <2>1 DEF n2, n3, n4, n5, n6, n7
  <2>4. n12 = n7 + Len(p7) + Len(p8) + Len(p9) + Len(p10) + Len(p11)
    BY DEF n8, n9, n10, n11, n12
  <2>5. Len(k) \in Nat /\ Len(l) \in Nat
    BY <1>12, <2>1, <2>2
  <2> QED BY <1>12, <2>2, <2>3, <2>4, <2>5
<1>18. /\ Stands(b, n2, p2) /\ Stands(b, n3, p3) /\ Stands(b, n4, p4) /\ Stands(b, n5, p5) /\ Stands(b, n6, p6)
  <2>1. /\ Stands(k, n2, p2) /\ Stands(k, n3, p3) /\ Stands(k, n4, p4) /\ Stands(k, n5, p5) /\ Stands(k, n6, p6)
    BY <1>13, Zenon DEF Laid, n2, n3, n4, n5, n6
  <2>2. /\ Stands(l, n2, p2) /\ Stands(l, n3, p3) /\ Stands(l, n4, p4) /\ Stands(l, n5, p5) /\ Stands(l, n6, p6)
    BY <1>6, <1>7, <1>13, <1>16, <2>1
  <2> QED BY <1>6, <1>7, <1>15, <1>16, <2>2
<1>19. /\ Stands(b, n7, p7) /\ Stands(b, n8, p8) /\ Stands(b, n9, p9) /\ Stands(b, n10, p10) /\ Stands(b, n11, p11)
  <2>1. /\ Stands(l, n7, p7) /\ Stands(l, n7 + Len(p7), p8) /\ Stands(l, n7 + Len(p7) + Len(p8), p9)
        /\ Stands(l, n7 + Len(p7) + Len(p8) + Len(p9), p10) /\ Stands(l, n7 + Len(p7) + Len(p8) + Len(p9) + Len(p10), p11)
    BY <1>13, <1>17, Zenon DEF Laid
  <2>2. /\ Stands(l, n7, p7) /\ Stands(l, n8, p8) /\ Stands(l, n9, p9) /\ Stands(l, n10, p10) /\ Stands(l, n11, p11)
    BY <2>1, Zenon DEF n8, n9, n10, n11
  <2> QED BY <1>8, <1>9, <1>15, <1>16, <2>2
<1>20. /\ Stands(b, n12, p12) /\ Stands(b, n13, p13) /\ Stands(b, n14, p14) /\ Stands(b, n15, p15) /\ Stands(b, n16, p16)
  <2>1. /\ Stands(b, n12, p12) /\ Stands(b, n12 + Len(p12), p13) /\ Stands(b, n12 + Len(p12) + Len(p13), p14)
        /\ Stands(b, n12 + Len(p12) + Len(p13) + Len(p14), p15) /\ Stands(b, n12 + Len(p12) + Len(p13) + Len(p14) + Len(p15), p16)
    BY <1>14, <1>17, Zenon DEF Laid
  <2> QED BY <2>1, Zenon DEF n13, n14, n15, n16
<1>21. ASSUME NEW at \in Nat \ {0}, NEW s \in Seq(Int), Stands(b, at, s)
       PROVE  /\ Len(s) = 1 => b[at] = s[1]
              /\ Len(s) = 2 => b[at] = s[1] /\ b[at + 1] = s[2]
  <2>1. ASSUME Len(s) >= 1 PROVE b[at] = s[1]
    <3>1. 1 \in 1..Len(s) /\ at + 1 - 1 = at
      BY <2>1, LenProperties
    <3>2. b[at + 1 - 1] = s[1]
      BY <1>21, <3>1 DEF Stands
    <3> QED BY <3>1, <3>2
  <2>2. ASSUME Len(s) = 2 PROVE b[at + 1] = s[2]
    <3>1. 2 \in 1..Len(s) /\ at + 2 - 1 = at + 1
      BY <2>2
    <3>2. b[at + 2 - 1] = s[2]
      BY <1>21, <3>1 DEF Stands
    <3> QED BY <3>1, <3>2
  <2> QED BY <2>1, <2>2
<1>22. b[n7] = d.recordedAt /\ b[n7 + 1] = flags
  <2>1. b[n7] = p7[1] /\ b[n8] = p8[1]
    BY <1>8, <1>16, <1>19, <1>21
  <2> QED BY <1>11, <1>16, <2>1
<1>23. b[n13] = d.validFrom /\ b[n13 + 1] = validFlag /\ b[n15] = d.recordedPosition /\ b[n15 + 1] = retractFlag
  <2>1. b[n13] = p13[1] /\ b[n13 + 1] = p13[2] /\ b[n15] = p15[1] /\ b[n15 + 1] = p15[2]
    BY <1>10, <1>16, <1>20, <1>21
  <2> QED BY <1>11, <2>1
\* What is read of each field, and where the next begins.
<1> DEFINE id == ReadStr(b, 2)
           entity == ReadStr(b, id.next)
           attribute == ReadStr(b, entity.next)
           value == ReadValue(b, attribute.next)
           tx == ReadStr(b, value.next)
           read == b[tx.next + 1]
           createdBy == ReadStrIf(Has(read, 1), b, tx.next + 2)
           retractedAt == ReadInstantIf(Has(read, 2), b, createdBy.next)
           retractTx == ReadStrIf(Has(read, 4), b, retractedAt.next)
           entityType == ReadStrIf(Has(read, 8), b, retractTx.next)
           validTo == ReadInstantIf(b[entityType.next + 1] # 0, b, entityType.next + 2)
           retractedPosition == ReadInstantIf(b[validTo.next + 1] # 0, b, validTo.next + 2)
<1>24. DeserializeDatom(b) =
         [id |-> id.of, entity |-> entity.of, attribute |-> attribute.of, value |-> value.of, tx |-> tx.of,
          recordedAt |-> b[tx.next], createdBy |-> createdBy.of, retractedAt |-> retractedAt.of,
          retractTx |-> retractTx.of, entityType |-> entityType.of, validFrom |-> b[entityType.next],
          validTo |-> validTo.of, recordedPosition |-> b[validTo.next], retractedPosition |-> retractedPosition.of]
  BY DEF DeserializeDatom
<1> HIDE DEF id, entity, attribute, value, tx, read, createdBy, retractedAt, retractTx, entityType, validTo, retractedPosition
<1>25. id.of = d.id /\ id.next = n3
  <2>1. Stands(b, n2, WriteStr(d.id))
    BY <1>18, <1>19, <1>20, Zenon DEF p2
  <2>2. ReadStr(b, n2).of = d.id /\ ReadStr(b, n2).next = n2 + Len(p2)
    <3>1. n2 \in Nat \ {0} /\ b \in Seq(Int)
      BY <1>14, <1>16
    <3>2. d.id \in Utf8
      BY <1>2
    <3> QED BY <2>1, <3>1, <3>2, StrIsRead, Zenon DEF p2
  <2>3. id = ReadStr(b, n2)
    BY <1>16, Zenon DEF id
  <2> QED BY <2>2, <2>3, Zenon DEF n3
<1>26. entity.of = d.entity /\ entity.next = n4
  <2>1. Stands(b, n3, WriteStr(d.entity))
    BY <1>18, <1>19, <1>20, Zenon DEF p3
  <2>2. ReadStr(b, n3).of = d.entity /\ ReadStr(b, n3).next = n3 + Len(p3)
    <3>1. n3 \in Nat \ {0} /\ b \in Seq(Int)
      BY <1>14, <1>16
    <3>2. d.entity \in Utf8
      BY <1>2
    <3> QED BY <2>1, <3>1, <3>2, StrIsRead, Zenon DEF p3
  <2>3. entity = ReadStr(b, n3)
    BY <1>25, Zenon DEF entity
  <2> QED BY <2>2, <2>3, Zenon DEF n4
<1>27. attribute.of = d.attribute /\ attribute.next = n5
  <2>1. Stands(b, n4, WriteStr(d.attribute))
    BY <1>18, <1>19, <1>20, Zenon DEF p4
  <2>2. ReadStr(b, n4).of = d.attribute /\ ReadStr(b, n4).next = n4 + Len(p4)
    <3>1. n4 \in Nat \ {0} /\ b \in Seq(Int)
      BY <1>14, <1>16
    <3>2. d.attribute \in Utf8
      BY <1>2
    <3> QED BY <2>1, <3>1, <3>2, StrIsRead, Zenon DEF p4
  <2>3. attribute = ReadStr(b, n4)
    BY <1>26, Zenon DEF attribute
  <2> QED BY <2>2, <2>3, Zenon DEF n5
<1>28. value.of = d.value /\ value.next = n6
  <2>1. Stands(b, n5, WriteValue(d.value))
    BY <1>18, <1>19, <1>20, Zenon DEF p5
  <2>2. ReadValue(b, n5).of = d.value /\ ReadValue(b, n5).next = n5 + Len(p5)
    <3>1. n5 \in Nat \ {0} /\ b \in Seq(Int)
      BY <1>14, <1>16
    <3>2. IsValue(d.value)
      BY <1>2
    <3> QED BY <2>1, <3>1, <3>2, ValueIsRead, Zenon DEF p5
  <2>3. value = ReadValue(b, n5)
    BY <1>27, Zenon DEF value
  <2> QED BY <2>2, <2>3, Zenon DEF n6
<1>29. tx.of = d.tx /\ tx.next = n7
  <2>1. Stands(b, n6, WriteStr(d.tx))
    BY <1>18, <1>19, <1>20, Zenon DEF p6
  <2>2. ReadStr(b, n6).of = d.tx /\ ReadStr(b, n6).next = n6 + Len(p6)
    <3>1. n6 \in Nat \ {0} /\ b \in Seq(Int)
      BY <1>14, <1>16
    <3>2. d.tx \in Utf8
      BY <1>2
    <3> QED BY <2>1, <3>1, <3>2, StrIsRead, Zenon DEF p6
  <2>3. tx = ReadStr(b, n6)
    BY <1>28, Zenon DEF tx
  <2> QED BY <2>2, <2>3, Zenon DEF n7
<1>30. read = flags
  BY <1>22, <1>29, Zenon DEF read
<1>31. createdBy.of = d.createdBy /\ createdBy.next = n10
  <2>1. Stands(b, n9, WriteNullable(d.createdBy))
    BY <1>18, <1>19, <1>20, Zenon DEF p9
  <2>4. (Has(flags, 1)) \in BOOLEAN /\ (Has(flags, 1) <=> d.createdBy # Nothing)
    BY <1>3 DEF Has
  <2>2. ReadStrIf(Has(flags, 1), b, n9).of = d.createdBy /\ ReadStrIf(Has(flags, 1), b, n9).next = n9 + Len(p9)
    <3>1. n9 \in Nat \ {0} /\ b \in Seq(Int)
      BY <1>14, <1>16
    <3>2. d.createdBy \in OptionalUtf8
      BY <1>2
    <3> QED BY <2>1, <2>4, <3>1, <3>2, StrIsReadIf, Zenon DEF p9
  <2>3. createdBy = ReadStrIf(Has(flags, 1), b, n9)
    BY <1>16, <1>29, <1>30, Zenon DEF createdBy
  <2> QED BY <2>2, <2>3, Zenon DEF n10
<1>32. retractedAt.of = d.retractedAt /\ retractedAt.next = n11
  <2>1. Stands(b, n10, WriteInstant(d.retractedAt))
    BY <1>18, <1>19, <1>20, Zenon DEF p10
  <2>4. (Has(flags, 2)) \in BOOLEAN /\ (Has(flags, 2) <=> d.retractedAt # NoInstant)
    BY <1>3 DEF Has
  <2>2. ReadInstantIf(Has(flags, 2), b, n10).of = d.retractedAt /\ ReadInstantIf(Has(flags, 2), b, n10).next = n10 + Len(p10)
    <3>1. n10 \in Nat \ {0} /\ b \in Seq(Int)
      BY <1>14, <1>16
    <3>2. d.retractedAt \in Int
      BY <1>2
    <3> QED BY <2>1, <2>4, <3>1, <3>2, InstantIsReadIf, Zenon DEF p10
  <2>3. retractedAt = ReadInstantIf(Has(flags, 2), b, n10)
    BY <1>31, <1>30, Zenon DEF retractedAt
  <2> QED BY <2>2, <2>3, Zenon DEF n11
<1>33. retractTx.of = d.retractTx /\ retractTx.next = n12
  <2>1. Stands(b, n11, WriteNullable(d.retractTx))
    BY <1>18, <1>19, <1>20, Zenon DEF p11
  <2>4. (Has(flags, 4)) \in BOOLEAN /\ (Has(flags, 4) <=> d.retractTx # Nothing)
    BY <1>3 DEF Has
  <2>2. ReadStrIf(Has(flags, 4), b, n11).of = d.retractTx /\ ReadStrIf(Has(flags, 4), b, n11).next = n11 + Len(p11)
    <3>1. n11 \in Nat \ {0} /\ b \in Seq(Int)
      BY <1>14, <1>16
    <3>2. d.retractTx \in OptionalUtf8
      BY <1>2
    <3> QED BY <2>1, <2>4, <3>1, <3>2, StrIsReadIf, Zenon DEF p11
  <2>3. retractTx = ReadStrIf(Has(flags, 4), b, n11)
    BY <1>32, <1>30, Zenon DEF retractTx
  <2> QED BY <2>2, <2>3, Zenon DEF n12
<1>34. entityType.of = d.entityType /\ entityType.next = n13
  <2>1. Stands(b, n12, WriteNullable(d.entityType))
    BY <1>18, <1>19, <1>20, Zenon DEF p12
  <2>4. (Has(flags, 8)) \in BOOLEAN /\ (Has(flags, 8) <=> d.entityType # Nothing)
    BY <1>3 DEF Has
  <2>2. ReadStrIf(Has(flags, 8), b, n12).of = d.entityType /\ ReadStrIf(Has(flags, 8), b, n12).next = n12 + Len(p12)
    <3>1. n12 \in Nat \ {0} /\ b \in Seq(Int)
      BY <1>14, <1>16
    <3>2. d.entityType \in OptionalUtf8
      BY <1>2
    <3> QED BY <2>1, <2>4, <3>1, <3>2, StrIsReadIf, Zenon DEF p12
  <2>3. entityType = ReadStrIf(Has(flags, 8), b, n12)
    BY <1>33, <1>30, Zenon DEF entityType
  <2> QED BY <2>2, <2>3, Zenon DEF n13
<1>35. validTo.of = d.validTo /\ validTo.next = n15
  <2>1. Stands(b, n14, WriteInstant(d.validTo))
    BY <1>18, <1>19, <1>20, Zenon DEF p14
  <2>4. (validFlag # 0) \in BOOLEAN /\ (validFlag # 0 <=> d.validTo # NoInstant)
    BY <1>4
  <2>2. ReadInstantIf(validFlag # 0, b, n14).of = d.validTo /\ ReadInstantIf(validFlag # 0, b, n14).next = n14 + Len(p14)
    <3>1. n14 \in Nat \ {0} /\ b \in Seq(Int)
      BY <1>14, <1>16
    <3>2. d.validTo \in Int
      BY <1>2
    <3> QED BY <2>1, <2>4, <3>1, <3>2, InstantIsReadIf, Zenon DEF p14
  <2>3. validTo = ReadInstantIf(validFlag # 0, b, n14)
    BY <1>16, <1>23, <1>34, Zenon DEF validTo
  <2> QED BY <2>2, <2>3, Zenon DEF n15
<1>36. retractedPosition.of = d.retractedPosition /\ retractedPosition.next = n17
  <2>1. Stands(b, n16, WriteInstant(d.retractedPosition))
    BY <1>18, <1>19, <1>20, Zenon DEF p16
  <2>4. (retractFlag # 0) \in BOOLEAN /\ (retractFlag # 0 <=> d.retractedPosition # NoInstant)
    BY <1>4
  <2>2. ReadInstantIf(retractFlag # 0, b, n16).of = d.retractedPosition /\ ReadInstantIf(retractFlag # 0, b, n16).next = n16 + Len(p16)
    <3>1. n16 \in Nat \ {0} /\ b \in Seq(Int)
      BY <1>14, <1>16
    <3>2. d.retractedPosition \in Int
      BY <1>2
    <3> QED BY <2>1, <2>4, <3>1, <3>2, InstantIsReadIf, Zenon DEF p16
  <2>3. retractedPosition = ReadInstantIf(retractFlag # 0, b, n16)
    BY <1>16, <1>23, <1>35, Zenon DEF retractedPosition
  <2> QED BY <2>2, <2>3, Zenon DEF n17
<1>37. DeserializeDatom(b) =
         [id |-> d.id, entity |-> d.entity, attribute |-> d.attribute, value |-> d.value, tx |-> d.tx,
          recordedAt |-> d.recordedAt, createdBy |-> d.createdBy, retractedAt |-> d.retractedAt,
          retractTx |-> d.retractTx, entityType |-> d.entityType, validFrom |-> d.validFrom,
          validTo |-> d.validTo, recordedPosition |-> d.recordedPosition, retractedPosition |-> d.retractedPosition]
  BY <1>22, <1>23, <1>24, <1>25, <1>26, <1>27, <1>28, <1>29, <1>31, <1>32, <1>33, <1>34, <1>35, <1>36, Zenon
<1>38. d = [id |-> d.id, entity |-> d.entity, attribute |-> d.attribute, value |-> d.value, tx |-> d.tx,
            recordedAt |-> d.recordedAt, createdBy |-> d.createdBy, retractedAt |-> d.retractedAt,
            retractTx |-> d.retractTx, entityType |-> d.entityType, validFrom |-> d.validFrom,
            validTo |-> d.validTo, recordedPosition |-> d.recordedPosition, retractedPosition |-> d.retractedPosition]
  BY DEF IsDatom
<1> QED BY <1>1, <1>37, <1>38, Zenon

-----------------------------------------------------------------------------
\* The invariant.

\* There is one fact for each commit that asserted one, with the ids of that commit.
FactsAreNamed ==
  /\ hexPosition \in 0..HexMaxPosition
  /\ \A d \in hexFacts :
       /\ IsDatom(d) /\ d.recordedPosition \in 1..hexPosition /\ d.id = HexIdAt[d.recordedPosition]
       /\ d.value.type = "number" => d.value.of # <<1, 0>>
  /\ \A d, e \in hexFacts : d.recordedPosition = e.recordedPosition => d = e
\* Each is under its id, as it is now ...
RecordsAreKept ==
  /\ DOMAIN hexMeta = {d.id : d \in hexFacts}
  /\ \A d \in hexFacts : hexMeta[d.id] = SerializeDatom(d)
\* ... and under its keys, and nothing else is.
KeysAreKept == hexEntries = UNION {BytesEntries(d) : d \in hexFacts}
HexInv == FactsAreNamed /\ RecordsAreKept /\ KeysAreKept

\* An id names one fact.
LEMMA IdsTell ==
  ASSUME FactsAreNamed, NEW d \in hexFacts, NEW e \in hexFacts, d.id = e.id
  PROVE  d = e
<1>1. /\ d.recordedPosition \in 1..HexMaxPosition /\ e.recordedPosition \in 1..HexMaxPosition
      /\ HexIdAt[d.recordedPosition] = HexIdAt[e.recordedPosition]
  <2>1. /\ d.recordedPosition \in 1..hexPosition /\ e.recordedPosition \in 1..hexPosition /\ hexPosition \in 0..HexMaxPosition
        /\ d.id = HexIdAt[d.recordedPosition] /\ e.id = HexIdAt[e.recordedPosition]
    BY DEF FactsAreNamed
  <2>2. 1..hexPosition \subseteq 1..HexMaxPosition
    BY <2>1, HexAssumption
  <2> QED BY <2>1, <2>2
<1>2. d.recordedPosition = e.recordedPosition
  BY <1>1, HexAssumption
<1> QED BY <1>2 DEF FactsAreNamed

\* The records that ids lead to are the facts of those ids.
LEMMA FetchedAre ==
  ASSUME HexInv, NEW ids
  PROVE  BatchFetchMeta(ids) = {d \in hexFacts : d.id \in ids}
<1>1. ASSUME NEW d \in hexFacts PROVE d.id \in DOMAIN hexMeta /\ DeserializeDatom(hexMeta[d.id]) = d
  <2>1. IsDatom(d) /\ hexMeta[d.id] = SerializeDatom(d) /\ d.id \in DOMAIN hexMeta
    BY DEF HexInv, FactsAreNamed, RecordsAreKept
  <2> QED BY <2>1, RecordsAreRead
<1>2. ASSUME NEW id \in DOMAIN hexMeta PROVE \E d \in hexFacts : d.id = id
  BY DEF HexInv, RecordsAreKept
<1>3. ASSUME NEW x \in BatchFetchMeta(ids) PROVE x \in {d \in hexFacts : d.id \in ids}
  <2>1. PICK id \in ids \cap DOMAIN hexMeta : x = DeserializeDatom(hexMeta[id])
    BY DEF BatchFetchMeta
  <2>2. PICK d \in hexFacts : d.id = id
    BY <1>2, <2>1
  <2>3. x = d
    BY <1>1, <2>1, <2>2
  <2> QED BY <2>1, <2>2, <2>3
<1>4. ASSUME NEW d \in hexFacts, d.id \in ids PROVE d \in BatchFetchMeta(ids)
  BY <1>1, <1>4 DEF BatchFetchMeta
<1> QED BY <1>3, <1>4

\* The ids a range leads to are those of the facts with a key in it.
LEMMA RangeLeadsTo ==
  ASSUME HexInv, NEW r, NEW d \in hexFacts
  PROVE  d.id \in InRange(r) <=> \E e \in BytesEntries(d) : Meets(e.key, r)
<1>1. \A x : x \in InRange(r) <=> \E e \in hexEntries : Meets(e.key, r) /\ x = e.id
  BY DEF InRange, Meets
<1>2. \A e : e \in hexEntries <=> \E g \in hexFacts : e \in BytesEntries(g)
  BY DEF HexInv, KeysAreKept
<1>3. ASSUME NEW g \in hexFacts, NEW e \in BytesEntries(g) PROVE e.id = g.id
  <2>1. IsDatom(g)
    BY DEF HexInv, FactsAreNamed
  <2> QED BY <2>1, EntriesAre
<1>4. ASSUME d.id \in InRange(r) PROVE \E e \in BytesEntries(d) : Meets(e.key, r)
  <2>1. PICK e \in hexEntries : Meets(e.key, r) /\ d.id = e.id
    BY <1>1, <1>4
  <2>2. PICK g \in hexFacts : e \in BytesEntries(g)
    BY <1>2, <2>1
  <2>3. g = d
    BY <1>3, <2>1, <2>2, IdsTell DEF HexInv
  <2> QED BY <2>1, <2>2, <2>3
<1>5. ASSUME NEW e \in BytesEntries(d), Meets(e.key, r) PROVE d.id \in InRange(r)
  BY <1>1, <1>2, <1>3, <1>5
<1> QED BY <1>4, <1>5

\* The filter behind a scan says what the pattern asks for.
LEMMA FilterIs ==
  ASSUME NEW d, IsDatom(d), d.value.type = "number" => d.value.of # <<1, 0>>,
         NEW p, IsPattern(p), p.value.type = "number" => p.value.of # <<1, 0>>
  PROVE  MatchesPattern(d, p) <=> Wants(d, p, Nothing)
<1>1. ASSUME IsValue(p.value) PROVE ValuesEqual(d.value, p.value) <=> p.value.type = d.value.type /\ p.value.of = d.value.of
  <2>1. ASSUME NEW v, IsValue(v), v.type = "number", v.of # <<1, 0>>, v.of[2] = 0 PROVE v.of = <<0, 0>>
    <3>1. v.of = <<v.of[1], v.of[2]>> /\ v.of[1] \in 0..1
      BY <2>1, ValueFields, ContentsAre
    <3>2. v.of[1] = 0 \/ v.of[1] = 1
      BY <3>1
    <3>3. CASE v.of[1] = 0
      BY <2>1, <3>1, <3>3, Zenon
    <3>4. CASE v.of[1] = 1
      BY <2>1, <3>1, <3>4, Zenon
    <3> QED BY <3>2, <3>3, <3>4
  <2>2. IsValue(d.value)
    BY DatomFields
  <2>3. ASSUME d.value.type = p.value.type, d.value.type = "number", d.value.of[2] = 0, p.value.of[2] = 0
        PROVE  d.value.of = p.value.of
    <3>1. d.value.of = <<0, 0>>
      BY <2>1, <2>2, <2>3
    <3>2. p.value.of = <<0, 0>>
      BY <1>1, <2>1, <2>3
    <3> QED BY <3>1, <3>2
  <2> QED BY <2>3 DEF ValuesEqual
<1>2. p.value # AnyValue => IsValue(p.value)
  BY DEF IsPattern
<1> QED BY <1>1, <1>2 DEF MatchesPattern, Wants

LEMMA PatternsAre ==
  ASSUME NEW p \in HexPatterns
  PROVE  IsPattern(p) /\ (p.value.type = "number" => p.value.of # <<1, 0>>)
<1>1. p.entity \in OptionalUtf8 /\ p.attribute \in OptionalUtf8 /\ (IsValue(p.value) \/ p.value = AnyValue)
  <2>1. p \in [entity : OptionalUtf8, attribute : OptionalUtf8, value : {p.value}] /\ (IsValue(p.value) \/ p.value = AnyValue)
    BY HexAssumption
  <2> QED BY <2>1
<1> QED BY <1>1, NoNegativeZeroAssumption DEF IsPattern

\* A scan returns the facts that the pattern asks for, current ones only or all.
LEMMA ScansAre ==
  ASSUME HexInv, NEW p, IsPattern(p), p.value.type = "number" => p.value.of # <<1, 0>>, NEW all \in BOOLEAN
  PROVE  ScanCollect(p, all) = {d \in hexFacts : Wants(d, p, Nothing) /\ (all \/ d.retractedAt = NoInstant)}
<1>1. ASSUME NEW d \in hexFacts
      PROVE  IsDatom(d) /\ (MatchesPattern(d, p) <=> Wants(d, p, Nothing))
  <2>1. IsDatom(d) /\ (d.value.type = "number" => d.value.of # <<1, 0>>)
    BY DEF HexInv, FactsAreNamed
  <2> QED BY <2>1, FilterIs
<1>2. ASSUME NEW d \in hexFacts, Wants(d, p, Nothing) PROVE d.id \in InRange(PatternToScan(p))
  <2>1. \E e \in BytesEntries(d) : e.id = d.id /\ Meets(e.key, PatternToScan(p))
    BY <1>1, <1>2, ScanMeets
  <2> QED BY <2>1, RangeLeadsTo
<1>3. BatchFetchMeta(InRange(PatternToScan(p))) = {d \in hexFacts : d.id \in InRange(PatternToScan(p))}
  BY FetchedAre
<1> QED BY <1>1, <1>2, <1>3 DEF ScanCollect

\* The index of types leads to the facts of a type.
LEMMA TypesAre ==
  ASSUME HexInv, NEW type \in Utf8
  PROVE  GetByEntityType(type) = {d \in hexFacts : d.entityType = type /\ d.retractedAt = NoInstant}
<1>1. ASSUME NEW d \in hexFacts PROVE d.id \in InRange(TypePrefixRange(type)) <=> d.entityType = type
  <2>1. IsDatom(d)
    BY DEF HexInv, FactsAreNamed
  <2> QED BY <2>1, RangeLeadsTo, TypeMeets
<1>2. BatchFetchMeta(InRange(TypePrefixRange(type))) = {d \in hexFacts : d.id \in InRange(TypePrefixRange(type))}
  BY FetchedAre
<1> QED BY <1>1, <1>2 DEF GetByEntityType

\* The key of a fact that leads with its entity is one of its entries, and says all of it.
LEMMA EavtIsRead ==
  ASSUME NEW d, IsDatom(d)
  PROVE  /\ [key |-> EavtOf(d), id |-> d.id] \in BytesEntries(d) /\ EavtOf(d)[1] = 1
         /\ DecodeTuple(Tail(EavtOf(d))) =
              <<TString(d.entity), TString(d.attribute), KeptPart(ValuePart(d)), TString(d.tx), TString(d.id)>>
<1>1. [key |-> EavtOf(d), id |-> d.id] \in BytesEntries(d)
  BY EntriesAre
<1>2. IsPart(EntityPart(d)) /\ IsPart(AttributePart(d)) /\ IsPart(ValuePart(d)) /\ IsPart(TxPart(d)) /\ IsPart(IdPart(d))
  BY PartsOfDatom
<1> DEFINE one == Prefix["EAVT"]
<1>3. one = <<1>> /\ one \in Seq(Int) /\ Len(one) = 1 /\ one[1] = 1
  BY DEF Prefix
<1>4. EavtOf(d)[1] = 1
  <2>1. IsWithin(EavtOf(d), "EAVT", EntityPart(d), AttributePart(d), ValuePart(d))
    BY KeysOfDatom
  <2>2. EavtOf(d)[1] = one[1]
    BY <2>1, Zenon DEF IsWithin
  <2> QED BY <1>3, <2>2
<1>5. DecodeTuple(Tail(EavtOf(d))) =
        <<KeptPart(EntityPart(d)), KeptPart(AttributePart(d)), KeptPart(ValuePart(d)), KeptPart(TxPart(d)), KeptPart(IdPart(d))>>
  <2>1. EavtOf(d) = KeyOf(<<1>>, EncodePart(EntityPart(d)), EncodePart(AttributePart(d)), EncodePart(ValuePart(d)),
                          EncodePart(TxPart(d)), EncodePart(IdPart(d)))
    BY <1>3, Zenon DEF EavtOf
  <2>2. 1 \in Int
    OBVIOUS
  <2>3. DecodeTuple(Tail(KeyOf(<<1>>, EncodePart(EntityPart(d)), EncodePart(AttributePart(d)), EncodePart(ValuePart(d)),
                          EncodePart(TxPart(d)), EncodePart(IdPart(d))))) =
        <<KeptPart(EntityPart(d)), KeptPart(AttributePart(d)), KeptPart(ValuePart(d)), KeptPart(TxPart(d)), KeptPart(IdPart(d))>>
    <3> HIDE DEF KeyOf, KeptPart, IsPart
    <3> QED BY <1>2, <2>2, KeyIsReadBack
  <2> QED BY <2>1, <2>3, Zenon
<1>6. ASSUME NEW s PROVE KeptPart(TString(s)) = TString(s)
  BY DEF KeptPart, KeptOf, TString, Part
<1> QED BY <1>1, <1>4, <1>5, <1>6 DEF EntityPart, AttributePart, TxPart, IdPart

LEMMA KeysAreReadBack ==
  ASSUME HexInv
  PROVE  KeysReadBack
<1>1. ASSUME NEW d \in hexFacts, NEW kept,
             kept = IF ValueToTuplePart(d.value).type = "datetime"
                    THEN [ValueToTuplePart(d.value) EXCEPT !.of = <<2 * (ValueToTuplePart(d.value).of[1] \div 2)>>]
                    ELSE ValueToTuplePart(d.value)
      PROVE  \E e \in hexEntries : /\ e.id = d.id /\ e.key[1] = 1
                                   /\ DecodeTuple(Tail(e.key)) =
                                        <<TString(d.entity), TString(d.attribute), kept, TString(d.tx), TString(d.id)>>
  <2>1. IsDatom(d)
    BY DEF HexInv, FactsAreNamed
  <2>2. KeptPart(ValuePart(d)) = kept
    BY <1>1 DEF KeptPart, KeptOf, ValuePart, ValueToTuplePart, Part
  <2> DEFINE e == [key |-> EavtOf(d), id |-> d.id]
  <2>3. e \in BytesEntries(d) /\ EavtOf(d)[1] = 1
        /\ DecodeTuple(Tail(EavtOf(d))) = <<TString(d.entity), TString(d.attribute), kept, TString(d.tx), TString(d.id)>>
    BY <2>1, <2>2, EavtIsRead, Zenon
  <2>4. e \in hexEntries
    BY <2>3 DEF HexInv, KeysAreKept
  <2>5. e.key = EavtOf(d) /\ e.id = d.id
    OBVIOUS
  <2> HIDE DEF e
  <2> QED BY <2>3, <2>4, <2>5, Zenon
<1> QED BY <1>1 DEF KeysReadBack

LEMMA InvImpliesScans ==
  ASSUME HexInv
  PROVE  ScansAreExact
<1>1. KeysReadBack
  BY KeysAreReadBack
<1>2. ASSUME NEW p \in HexPatterns
      PROVE  /\ ScanCollect(p, TRUE) = {d \in hexFacts : Wants(d, p, Nothing)}
             /\ ScanCollect(p, FALSE) = {d \in hexFacts : Wants(d, p, Nothing) /\ d.retractedAt = NoInstant}
  BY PatternsAre, ScansAre
<1>3. ASSUME NEW p \in HexPatterns, NEW type \in (IF p.value = AnyValue THEN EntityTypes ELSE {Nothing})
      PROVE  MatchCurrent(p, type) = {d \in hexFacts : Wants(d, p, type) /\ d.retractedAt = NoInstant}
  <2>1. type \in OptionalUtf8
    <3>1. \A f \in HexFacts : f.entityType \in OptionalUtf8
      <4>1. \A f \in HexFacts : f \in [entity : Utf8, attribute : Utf8, value : {f.value}, entityType : OptionalUtf8,
                 createdBy : OptionalUtf8, validFrom : Int, validTo : Int]
        BY HexAssumption
      <4> QED BY <4>1
    <3> QED BY <1>3, <3>1 DEF EntityTypes, OptionalUtf8
  <2>2. CASE type # Nothing /\ p.entity = Nothing /\ p.attribute = Nothing /\ p.value = AnyValue
    <3>1. type \in Utf8
      BY <2>1, <2>2 DEF OptionalUtf8
    <3>2. MatchCurrent(p, type) = {d \in hexFacts : d.entityType = type /\ d.retractedAt = NoInstant}
      BY <2>2, <3>1, TypesAre DEF MatchCurrent
    <3>3. \A d \in hexFacts : Wants(d, p, type) <=> d.entityType = type
      BY <2>2 DEF Wants
    <3> QED BY <3>2, <3>3
  <2>3. CASE ~(type # Nothing /\ p.entity = Nothing /\ p.attribute = Nothing /\ p.value = AnyValue)
    <3>1. MatchCurrent(p, type) = {d \in ScanCollect(p, FALSE) : type # Nothing => d.entityType = type}
      BY <2>3 DEF MatchCurrent
    <3>2. \A d \in hexFacts : Wants(d, p, type) <=> Wants(d, p, Nothing) /\ (type # Nothing => d.entityType = type)
      BY DEF Wants
    <3> QED BY <1>2, <3>1, <3>2
  <2> QED BY <2>2, <2>3
<1> QED BY <1>1, <1>2, <1>3 DEF ScansAreExact

LEMMA AssertedIsDatom ==
  ASSUME NEW f \in HexFacts, NEW n \in 1..HexMaxPosition
  PROVE  /\ IsDatom(DatomOf(f, n)) /\ DatomOf(f, n).id = HexIdAt[n] /\ DatomOf(f, n).recordedPosition = n
         /\ DatomOf(f, n).value.type = "number" => DatomOf(f, n).value.of # <<1, 0>>
<1>1. /\ IsValue(f.value)
      /\ f \in [entity : Utf8, attribute : Utf8, value : {f.value}, entityType : OptionalUtf8,
                createdBy : OptionalUtf8, validFrom : Int, validTo : Int]
  BY HexAssumption
<1>2. /\ f.entity \in Utf8 /\ f.attribute \in Utf8 /\ f.entityType \in OptionalUtf8 /\ f.createdBy \in OptionalUtf8
      /\ f.validFrom \in Int /\ f.validTo \in Int
  BY <1>1
<1>3. HexIdAt[n] \in Utf8 /\ n \in Int /\ NoInstant \in Int /\ Nothing \in OptionalUtf8
  BY HexAssumption DEF NoInstant, OptionalUtf8
<1>4. DatomOf(f, n).value = f.value /\ DatomOf(f, n).id = HexIdAt[n] /\ DatomOf(f, n).recordedPosition = n
  BY DEF DatomOf
<1>5. IsDatom(DatomOf(f, n))
  <2> DEFINE v == f.value
  <2>1. DatomOf(f, n) \in [id : Utf8, entity : Utf8, attribute : Utf8, value : {v}, tx : Utf8, recordedAt : Int,
            createdBy : OptionalUtf8, retractedAt : Int, retractTx : OptionalUtf8, entityType : OptionalUtf8,
            validFrom : Int, validTo : Int, recordedPosition : Int, retractedPosition : Int]
    BY <1>2, <1>3 DEF DatomOf
  <2> QED BY <1>1, <1>4, <2>1 DEF IsDatom
<1>6. f.value.type = "number" => f.value.of # <<1, 0>>
  BY NoNegativeZeroAssumption
<1> QED BY <1>4, <1>5, <1>6

LEMMA InitEstablishes ==
  ASSUME SqlRowsInit
  PROVE  HexInv
<1>1. 0 \in 0..HexMaxPosition
  BY HexAssumption
<1>2. hexEntries = {} /\ hexMeta = <<>> /\ hexPosition = 0 /\ hexFacts = {}
  BY DEF SqlRowsInit, HexInit
<1>3. DOMAIN hexMeta = {}
  BY <1>2
<1> QED BY <1>1, <1>2, <1>3 DEF HexInv, FactsAreNamed, RecordsAreKept, KeysAreKept

\* A new fact is of a commit, and so of an id, that no other is of.
LEMMA StoringPreserves ==
  ASSUME HexInv, hexPosition < HexMaxPosition, NEW f \in HexFacts, NEW d, d = DatomOf(f, hexPosition + 1),
         StoreDatom(d, BytesEntries(d))
  PROVE  HexInv'
<1>1. hexPosition \in Nat /\ hexPosition + 1 \in 1..HexMaxPosition /\ hexPosition + 1 \in 0..HexMaxPosition
  BY HexAssumption DEF HexInv, FactsAreNamed
<1>2. /\ IsDatom(d) /\ d.id = HexIdAt[hexPosition + 1] /\ d.recordedPosition = hexPosition + 1
      /\ d.value.type = "number" => d.value.of # <<1, 0>>
  BY <1>1, AssertedIsDatom
<1>3. /\ hexEntries' = hexEntries \cup BytesEntries(d)
      /\ hexMeta' = [id \in DOMAIN hexMeta \cup {d.id} |-> IF id = d.id THEN SerializeDatom(d) ELSE hexMeta[id]]
      /\ hexFacts' = hexFacts \cup {d}
      /\ hexPosition' = hexPosition + 1
  BY DEF StoreDatom
<1>4. ASSUME NEW g \in hexFacts
      PROVE  /\ IsDatom(g) /\ g.recordedPosition \in 1..hexPosition /\ g.id = HexIdAt[g.recordedPosition]
             /\ g.value.type = "number" => g.value.of # <<1, 0>>
             /\ g.recordedPosition \in 1..HexMaxPosition /\ g.recordedPosition # hexPosition + 1
             /\ g.recordedPosition \in 1..(hexPosition + 1)
  <2>1. /\ IsDatom(g) /\ g.recordedPosition \in 1..hexPosition /\ g.id = HexIdAt[g.recordedPosition]
        /\ g.value.type = "number" => g.value.of # <<1, 0>>
    BY DEF HexInv, FactsAreNamed
  <2>2. ASSUME NEW i \in 1..hexPosition
        PROVE  i \in 1..HexMaxPosition /\ i # hexPosition + 1 /\ i \in 1..(hexPosition + 1)
    BY <1>1, HexAssumption
  <2> QED BY <2>1, <2>2
<1>5. ASSUME NEW g \in hexFacts PROVE g.id # d.id
  <2>1. HexIdAt[g.recordedPosition] = HexIdAt[hexPosition + 1] => g.recordedPosition = hexPosition + 1
    BY <1>1, <1>4, HexAssumption
  <2> QED BY <1>2, <1>4, <2>1
<1>6. FactsAreNamed'
  <2>1. hexPosition' \in 0..HexMaxPosition /\ hexPosition + 1 \in 1..(hexPosition + 1)
    BY <1>1, <1>3
  <2>2. ASSUME NEW g \in hexFacts'
        PROVE  /\ IsDatom(g) /\ g.recordedPosition \in 1..hexPosition' /\ g.id = HexIdAt[g.recordedPosition]
               /\ g.value.type = "number" => g.value.of # <<1, 0>>
    BY <1>2, <1>3, <1>4, <2>1
  <2>3. ASSUME NEW g \in hexFacts', NEW h \in hexFacts', g.recordedPosition = h.recordedPosition PROVE g = h
    <3>1. CASE g \in hexFacts /\ h \in hexFacts
      BY <2>3, <3>1 DEF HexInv, FactsAreNamed
    <3> QED BY <1>2, <1>3, <1>4, <2>3, <3>1
  <2> QED BY <2>1, <2>2, <2>3 DEF FactsAreNamed
<1>7. RecordsAreKept'
  <2>1. DOMAIN hexMeta = {g.id : g \in hexFacts} /\ \A g \in hexFacts : hexMeta[g.id] = SerializeDatom(g)
    BY DEF HexInv, RecordsAreKept
  <2>2. DOMAIN hexMeta' = {g.id : g \in hexFacts'}
    BY <1>3, <2>1
  <2>3. ASSUME NEW g \in hexFacts' PROVE hexMeta'[g.id] = SerializeDatom(g)
    <3>1. CASE g = d
      BY <1>3, <3>1
    <3>2. CASE g \in hexFacts
      <4>1. g.id \in DOMAIN hexMeta /\ g.id # d.id
        BY <1>5, <2>1, <3>2
      <4> QED BY <1>3, <2>1, <3>2, <4>1
    <3> QED BY <1>3, <2>3, <3>1, <3>2
  <2> QED BY <2>2, <2>3 DEF RecordsAreKept
<1>8. KeysAreKept'
  <2>1. hexEntries = UNION {BytesEntries(g) : g \in hexFacts}
    BY DEF HexInv, KeysAreKept
  <2> QED BY <1>3, <2>1 DEF KeysAreKept
<1> QED BY <1>6, <1>7, <1>8 DEF HexInv

\* A retraction changes a fact, and leaves the parts that its keys are made of.
Closed(d, n) == [d EXCEPT !.retractedAt = n, !.retractedPosition = n, !.retractTx = HexIdAt[n]]

LEMMA ClosedKeepsKeys ==
  ASSUME NEW d, IsDatom(d), NEW n \in 1..HexMaxPosition
  PROVE  /\ IsDatom(Closed(d, n)) /\ Closed(d, n).id = d.id /\ Closed(d, n).recordedPosition = d.recordedPosition
         /\ Closed(d, n).value = d.value /\ BytesEntries(Closed(d, n)) = BytesEntries(d)
<1>1. d \in [id : Utf8, entity : Utf8, attribute : Utf8, value : {d.value}, tx : Utf8, recordedAt : Int,
            createdBy : OptionalUtf8, retractedAt : Int, retractTx : OptionalUtf8, entityType : OptionalUtf8,
            validFrom : Int, validTo : Int, recordedPosition : Int, retractedPosition : Int]
      /\ IsValue(d.value)
  BY DEF IsDatom
<1>2. HexIdAt[n] \in OptionalUtf8 /\ n \in Int
  BY HexAssumption DEF OptionalUtf8
<1> DEFINE v == d.value
           c == Closed(d, n)
<1>3. c \in [id : Utf8, entity : Utf8, attribute : Utf8, value : {v}, tx : Utf8, recordedAt : Int,
            createdBy : OptionalUtf8, retractedAt : Int, retractTx : OptionalUtf8, entityType : OptionalUtf8,
            validFrom : Int, validTo : Int, recordedPosition : Int, retractedPosition : Int]
  BY <1>1, <1>2 DEF Closed
<1>4. /\ c.id = d.id /\ c.entity = d.entity /\ c.attribute = d.attribute /\ c.value = d.value /\ c.tx = d.tx
      /\ c.entityType = d.entityType /\ c.recordedPosition = d.recordedPosition
  BY <1>1 DEF Closed
<1> HIDE DEF c
<1>5. IsDatom(c)
  BY <1>1, <1>3, <1>4 DEF IsDatom
<1>6. BytesEntries(c) = BytesEntries(d)
  BY <1>4, Zenon DEF BytesEntries, EntriesOf
<1> QED BY <1>4, <1>5, <1>6 DEF c

\* A retraction reads back what was asserted, and writes it again closed.
LEMMA RetractingPreserves ==
  ASSUME HexInv, hexPosition < HexMaxPosition, NEW id \in DOMAIN hexMeta, HexRetract(id)
  PROVE  HexInv'
<1> DEFINE n == hexPosition + 1
           Now(g) == IF g.id = id THEN Closed(g, n) ELSE g
<1>1. hexPosition \in Nat /\ n \in 1..HexMaxPosition /\ n \in 0..HexMaxPosition
  BY HexAssumption DEF HexInv, FactsAreNamed
<1>2. DOMAIN hexMeta = {g.id : g \in hexFacts} /\ \A g \in hexFacts : hexMeta[g.id] = SerializeDatom(g)
  BY DEF HexInv, RecordsAreKept
<1>3. PICK d \in hexFacts : d.id = id
  BY <1>2
<1>4. IsDatom(d) /\ DeserializeDatom(hexMeta[id]) = d
  <2>1. IsDatom(d) /\ hexMeta[id] = SerializeDatom(d)
    BY <1>2, <1>3 DEF HexInv, FactsAreNamed
  <2> QED BY <2>1, RecordsAreRead
<1>5. /\ hexMeta' = [hexMeta EXCEPT ![id] = SerializeDatom(Closed(DeserializeDatom(hexMeta[id]), n))]
      /\ hexFacts' = {Now(g) : g \in hexFacts}
      /\ hexPosition' = n /\ hexEntries' = hexEntries
  BY DEF HexRetract, Closed
<1>6. hexMeta' = [hexMeta EXCEPT ![id] = SerializeDatom(Closed(d, n))]
  BY <1>4, <1>5
<1> HIDE DEF n
<1>7. ASSUME NEW g \in hexFacts
      PROVE  /\ IsDatom(g) /\ g.recordedPosition \in 1..hexPosition /\ g.id = HexIdAt[g.recordedPosition]
             /\ g.value.type = "number" => g.value.of # <<1, 0>>
  BY DEF HexInv, FactsAreNamed
<1>8. ASSUME NEW g \in hexFacts
      PROVE  /\ IsDatom(Now(g)) /\ Now(g).id = g.id /\ Now(g).recordedPosition = g.recordedPosition
             /\ Now(g).value = g.value /\ BytesEntries(Now(g)) = BytesEntries(g)
  BY <1>1, <1>7, ClosedKeepsKeys
<1>9. ASSUME NEW g \in hexFacts, g.id = id PROVE Now(g) = Closed(d, n)
  BY <1>3, <1>9, IdsTell DEF HexInv
<1>10. ASSUME NEW g \in hexFacts, g.id # id PROVE Now(g) = g
  BY <1>10
<1> HIDE DEF Now
<1>11. FactsAreNamed'
  <2>1. ASSUME NEW x \in hexFacts'
        PROVE  /\ IsDatom(x) /\ x.recordedPosition \in 1..hexPosition' /\ x.id = HexIdAt[x.recordedPosition]
               /\ x.value.type = "number" => x.value.of # <<1, 0>>
    <3>1. PICK g \in hexFacts : x = Now(g)
      BY <1>5
    <3>2. g.recordedPosition \in 1..hexPosition'
      BY <1>1, <1>5, <1>7 DEF n
    <3> QED BY <1>7, <1>8, <3>1, <3>2
  <2>2. ASSUME NEW x \in hexFacts', NEW y \in hexFacts', x.recordedPosition = y.recordedPosition PROVE x = y
    <3>1. PICK g \in hexFacts : x = Now(g)
      BY <1>5
    <3>2. PICK h \in hexFacts : y = Now(h)
      BY <1>5
    <3>3. g = h
      BY <1>8, <2>2, <3>1, <3>2 DEF HexInv, FactsAreNamed
    <3> QED BY <3>1, <3>2, <3>3
  <2> QED BY <1>1, <1>5, <2>1, <2>2 DEF FactsAreNamed
<1>12. RecordsAreKept'
  <2>1. DOMAIN hexMeta' = {x.id : x \in hexFacts'}
    <3>1. DOMAIN hexMeta' = DOMAIN hexMeta
      BY <1>6
    <3>2. {x.id : x \in hexFacts'} = {Now(g).id : g \in hexFacts}
      BY <1>5
    <3>3. {Now(g).id : g \in hexFacts} = {g.id : g \in hexFacts}
      BY <1>8
    <3> QED BY <1>2, <3>1, <3>2, <3>3
  <2>2. ASSUME NEW x \in hexFacts' PROVE hexMeta'[x.id] = SerializeDatom(x)
    <3>1. PICK g \in hexFacts : x = Now(g)
      BY <1>5
    <3>2. x.id = g.id /\ g.id \in DOMAIN hexMeta /\ hexMeta[g.id] = SerializeDatom(g)
      BY <1>2, <1>8, <3>1
    <3>3. CASE g.id = id
      BY <1>6, <1>9, <3>1, <3>2, <3>3
    <3>4. CASE g.id # id
      BY <1>6, <1>10, <3>1, <3>2, <3>4
    <3> QED BY <3>3, <3>4
  <2> QED BY <2>1, <2>2 DEF RecordsAreKept
<1>13. KeysAreKept'
  <2>1. hexEntries = UNION {BytesEntries(g) : g \in hexFacts}
    BY DEF HexInv, KeysAreKept
  <2>2. {BytesEntries(x) : x \in hexFacts'} = {BytesEntries(Now(g)) : g \in hexFacts}
    BY <1>5
  <2>3. {BytesEntries(Now(g)) : g \in hexFacts} = {BytesEntries(g) : g \in hexFacts}
    BY <1>8
  <2> QED BY <1>5, <2>1, <2>2, <2>3 DEF KeysAreKept
<1> QED BY <1>11, <1>12, <1>13 DEF HexInv

LEMMA StepPreserves ==
  ASSUME HexInv, [SqlRowsNext]_sqlRowsVars
  PROVE  HexInv'
<1>1. ASSUME hexPosition < HexMaxPosition, NEW f \in HexFacts, Insert(f) PROVE HexInv'
  <2> DEFINE d == DatomOf(f, hexPosition + 1)
  <2>1. hexPosition + 1 \in 1..HexMaxPosition
    BY <1>1, HexAssumption DEF HexInv, FactsAreNamed
  <2>2. IsDatom(d)
    BY <2>1, AssertedIsDatom
  <2>3. StoreDatom(d, BytesEntries(d)) \/ StoreDatom(d, StrEntries(d))
    BY <1>1 DEF Insert, HexAssert, HexAssertStr
  <2> HIDE DEF d
  <2>4. StoreDatom(d, BytesEntries(d))
    BY <2>2, <2>3, BatchesAgree, Zenon
  <2> USE DEF d
  <2> QED BY <1>1, <2>4, StoringPreserves
<1>2. ASSUME hexPosition < HexMaxPosition, NEW id \in DOMAIN hexMeta, Retract(id) PROVE HexInv'
  BY <1>2, RetractingPreserves DEF Retract
<1>3. ASSUME UNCHANGED sqlRowsVars PROVE HexInv'
  BY <1>3 DEF HexInv, FactsAreNamed, RecordsAreKept, KeysAreKept, sqlRowsVars, hexVars
<1> QED BY <1>1, <1>2, <1>3 DEF SqlRowsNext

\* The index holds the keys of the facts there are and nothing else, and the META records are
\* those facts as they are now: for any facts, ids and number of commits.
THEOREM HexastoreInvariant == SqlRowsSpec => []HexInv
<1>1. SqlRowsInit => HexInv
  BY InitEstablishes
<1>2. HexInv /\ [SqlRowsNext]_sqlRowsVars => HexInv'
  BY StepPreserves
<1> QED BY <1>1, <1>2, PTL DEF SqlRowsSpec

\* Whichever index a pattern selects and whichever encoder wrote the keys, a scan returns exactly
\* the facts that match, each as it was asserted and retracted, and every key can be read back
\* (patternToScan, deserializeDatom, decodeTuple): for any texts, numbers, instants, types and patterns.
THEOREM ScansStayExact == SqlRowsSpec => []ScansAreExact
<1>1. HexInv => ScansAreExact
  BY InvImpliesScans
<1> QED BY <1>1, HexastoreInvariant, PTL

-----------------------------------------------------------------------------
\* Rows: the table holds the facts there are, and a row is read as the fact it was written from.

LEMMA ValuesAreUnpacked ==
  ASSUME NEW v, IsValue(v), v.type = "blob" => v.extra[3] # <<>>
  PROVE  UnpackValue(PackValue(v)) = v /\ PackValue(v).type = v.type
         /\ (v.type # "json" => PackValue(v)[ColumnOf(v.type)] = v.of)
<1>1. v.type \in ValueTypes /\ v = [type |-> v.type, of |-> v.of, extra |-> v.extra] /\ v.extra \in Extras(v.type)
  BY ValueFields
<1>2. CASE v.type \in {"string", "ref"}
  <2>1. v.extra = <<>>
    BY <1>1, <1>2 DEF Extras
  <2>2. PackValue(v) = [type |-> v.type, string |-> v.of, number |-> Nothing, boolean |-> Nothing,
                        datetime |-> Nothing, json |-> Nothing]
    BY <1>2 DEF PackValue
  <2>3. UnpackValue(PackValue(v)) = [type |-> v.type, of |-> v.of, extra |-> <<>>]
    BY <1>2, <2>2 DEF UnpackValue
  <2>4. ColumnOf(v.type) = "string"
    BY <1>2 DEF ColumnOf
  <2> QED BY <1>1, <2>1, <2>2, <2>3, <2>4
<1>3. CASE v.type = "number"
  <2>1. v.extra = <<>>
    BY <1>1, <1>3 DEF Extras
  <2>2. PackValue(v) = [type |-> v.type, string |-> Nothing, number |-> v.of, boolean |-> Nothing,
                        datetime |-> Nothing, json |-> Nothing]
    BY <1>3 DEF PackValue
  <2>3. UnpackValue(PackValue(v)) = [type |-> v.type, of |-> v.of, extra |-> <<>>]
    BY <1>3, <2>2 DEF UnpackValue
  <2>4. ColumnOf(v.type) = "number"
    BY <1>3 DEF ColumnOf
  <2> QED BY <1>1, <2>1, <2>2, <2>3, <2>4
<1>4. CASE v.type = "boolean"
  <2>1. v.extra = <<>>
    BY <1>1, <1>4 DEF Extras
  <2>2. PackValue(v) = [type |-> v.type, string |-> Nothing, number |-> Nothing, boolean |-> v.of,
                        datetime |-> Nothing, json |-> Nothing]
    BY <1>4 DEF PackValue
  <2>3. UnpackValue(PackValue(v)) = [type |-> v.type, of |-> v.of, extra |-> <<>>]
    BY <1>4, <2>2 DEF UnpackValue
  <2>4. ColumnOf(v.type) = "boolean"
    BY <1>4 DEF ColumnOf
  <2> QED BY <1>1, <2>1, <2>2, <2>3, <2>4
<1>5. CASE v.type = "datetime"
  <2>1. v.extra = <<>>
    BY <1>1, <1>5 DEF Extras
  <2>2. PackValue(v) = [type |-> v.type, string |-> Nothing, number |-> Nothing, boolean |-> Nothing,
                        datetime |-> v.of, json |-> Nothing]
    BY <1>5 DEF PackValue
  <2>3. UnpackValue(PackValue(v)) = [type |-> v.type, of |-> v.of, extra |-> <<>>]
    BY <1>5, <2>2 DEF UnpackValue
  <2>4. ColumnOf(v.type) = "datetime"
    BY <1>5 DEF ColumnOf
  <2> QED BY <1>1, <2>1, <2>2, <2>3, <2>4
<1>6. CASE v.type = "json"
  <2>1. v.extra = <<>>
    BY <1>1, <1>6 DEF Extras
  <2>2. PackValue(v) = [type |-> v.type, string |-> Nothing, number |-> Nothing, boolean |-> Nothing,
                        datetime |-> Nothing, json |-> v.of]
    BY <1>6 DEF PackValue
  <2>3. UnpackValue(PackValue(v)) = [type |-> v.type, of |-> v.of, extra |-> <<>>]
    BY <1>6, <2>2 DEF UnpackValue
  <2> QED BY <1>1, <1>6, <2>1, <2>2, <2>3
<1>7. CASE v.type = "blob"
  <2>1. v.extra \in Utf8 \X [1..1 -> Int] \X OptionalUtf8
    BY <1>1, <1>7 DEF Extras
  <2> DEFINE mime == v.extra[1]
             size == v.extra[2]
             name == v.extra[3]
             meta == BlobMeta(v.extra)
  <2>2. v.extra = <<mime, size, name>> /\ name # <<>>
    BY <1>7, <2>1
  <2>3. (IF Len(meta) = 2 THEN Append(meta, Nothing) ELSE meta) = v.extra
    <3> HIDE DEF mime, size, name
    <3>1. CASE name = Nothing
      <4>1. meta = <<v.extra[1], v.extra[2]>>
        BY <3>1 DEF BlobMeta, name
      <4>2. meta = <<mime, size>>
        BY <4>1 DEF mime, size
      <4>3. Append(<<mime, size>>, Nothing) = <<mime, size, Nothing>> /\ Len(<<mime, size>>) = 2
        <5>1. ASSUME NEW S, NEW x \in S, NEW y \in S, NEW z \in S
              PROVE  Append(<<x, y>>, z) = <<x, y, z>> /\ Len(<<x, y>>) = 2
          <6> DEFINE u == Append(<<x, y>>, z)
                     w == <<x, y, z>>
          <6>1. <<x, y>> \in Seq(S) /\ Len(<<x, y>>) = 2 /\ w \in Seq(S) /\ Len(w) = 3 /\ w[1] = x /\ w[2] = y /\ w[3] = z
            OBVIOUS
          <6>2. u \in Seq(S) /\ Len(u) = 3 /\ u[3] = z /\ u[1] = x /\ u[2] = y
            BY <6>1, AppendProperties
          <6> HIDE DEF u, w
          <6>3. \A i \in 1..Len(u) : u[i] = w[i]
            <7>1. \A i \in 1..3 : i = 1 \/ i = 2 \/ i = 3
              OBVIOUS
            <7> QED BY <6>1, <6>2, <7>1
          <6>4. u = w
            BY <6>1, <6>2, <6>3, SeqEqual
          <6> QED BY <6>1, <6>4 DEF u, w
        <5>2. mime \in {mime, size, Nothing} /\ size \in {mime, size, Nothing} /\ Nothing \in {mime, size, Nothing}
          OBVIOUS
        <5> QED BY <5>1, <5>2, Zenon
      <4> QED BY <2>2, <3>1, <4>2, <4>3
    <3>2. CASE name # Nothing
      <4>1. meta = v.extra
        BY <2>2, <3>2 DEF BlobMeta, name
      <4>2. Len(v.extra) = 3
        BY <2>2
      <4> QED BY <4>1, <4>2
    <3> QED BY <3>1, <3>2
  <2> HIDE DEF meta
  <2>4. PackValue(v) = [type |-> v.type, string |-> v.of, number |-> Nothing, boolean |-> Nothing,
                        datetime |-> Nothing, json |-> meta]
    BY <1>7 DEF PackValue, meta
  <2>5. UnpackValue(PackValue(v)) =
          [type |-> v.type, of |-> v.of, extra |-> IF Len(meta) = 2 THEN Append(meta, Nothing) ELSE meta]
    BY <1>7, <2>4 DEF UnpackValue
  <2>6. ColumnOf(v.type) = "string"
    BY <1>7 DEF ColumnOf
  <2> QED BY <1>1, <2>3, <2>4, <2>5, <2>6
<1> QED BY <1>1, <1>2, <1>3, <1>4, <1>5, <1>6, <1>7 DEF ValueTypes

LEMMA ColumnsHold ==
  ASSUME NEW v, v.type \in ValueTypes, v.type # "json"
  PROVE  PackValue(v)[ColumnOf(v.type)] = v.of
<1>1. CASE v.type \in {"string", "ref"}
  BY <1>1 DEF PackValue, ColumnOf
<1>2. CASE v.type = "number"
  BY <1>2 DEF PackValue, ColumnOf
<1>3. CASE v.type = "boolean"
  BY <1>3 DEF PackValue, ColumnOf
<1>4. CASE v.type = "datetime"
  BY <1>4 DEF PackValue, ColumnOf
<1>5. CASE v.type = "blob"
  BY <1>5 DEF PackValue, ColumnOf
<1> QED BY <1>1, <1>2, <1>3, <1>4, <1>5 DEF ValueTypes

\* What a fact has of those that may be asserted: its names, and the time it is valid for.
IsAsserted(d) ==
  /\ d.createdBy # <<>> /\ d.entityType # <<>> /\ (d.value.type = "blob" => d.value.extra[3] # <<>>)
  /\ d.validFrom \in Nat /\ d.validTo \in Nat \cup {NoInstant} /\ (d.validTo # NoInstant => d.validFrom < d.validTo)
  /\ \E f \in HexFacts : d.validFrom = f.validFrom /\ d.validTo = f.validTo

LEMMA RowIsRead ==
  ASSUME NEW d, IsDatom(d), IsAsserted(d)
  PROVE  /\ RowToTriple(RowOf(d)) = d
         /\ RowOf(d).value = PackValue(d.value)
         /\ RowOf(d).entity = d.entity /\ RowOf(d).attribute = d.attribute /\ RowOf(d).entityType = d.entityType
         /\ RowOf(d).recordedAt = d.recordedAt /\ RowOf(d).retractedAt = d.retractedAt
         /\ RowOf(d).recordedPosition = d.recordedPosition /\ RowOf(d).retractedPosition = d.retractedPosition
         /\ RowOf(d).validFrom = d.validFrom /\ RowOf(d).validTo = d.validTo
         /\ RowOf(d).id = d.id
<1>1. d = [id |-> d.id, entity |-> d.entity, attribute |-> d.attribute, value |-> d.value, tx |-> d.tx,
           recordedAt |-> d.recordedAt, createdBy |-> d.createdBy, retractedAt |-> d.retractedAt,
           retractTx |-> d.retractTx, entityType |-> d.entityType, validFrom |-> d.validFrom,
           validTo |-> d.validTo, recordedPosition |-> d.recordedPosition, retractedPosition |-> d.retractedPosition]
  BY DEF IsDatom
<1>2. RowOf(d) = [id |-> d.id, entity |-> d.entity, attribute |-> d.attribute, value |-> PackValue(d.value), tx |-> d.tx,
           recordedAt |-> d.recordedAt, createdBy |-> d.createdBy, retractedAt |-> d.retractedAt,
           retractTx |-> d.retractTx, entityType |-> d.entityType, validFrom |-> d.validFrom,
           validTo |-> d.validTo, recordedPosition |-> d.recordedPosition, retractedPosition |-> d.retractedPosition]
  BY <1>1 DEF RowOf
<1>3. UnpackValue(PackValue(d.value)) = d.value
  BY DatomFields, ValuesAreUnpacked DEF IsAsserted
<1>4. TextIfAny(d.createdBy) = d.createdBy /\ TextIfAny(d.entityType) = d.entityType
  BY DEF TextIfAny, IsAsserted
<1>5. RowToTriple(RowOf(d)) = d
  <2> DEFINE r == RowOf(d)
  <2>1. r.value = PackValue(d.value) /\ r.createdBy = d.createdBy /\ r.entityType = d.entityType
    BY <1>2
  <2>2. RowToTriple(r) = [r EXCEPT !.value = UnpackValue(r.value), !.createdBy = TextIfAny(r.createdBy), !.entityType = TextIfAny(r.entityType)]
    BY DEF RowToTriple
  <2>3. RowToTriple(r) = [r EXCEPT !.value = d.value, !.createdBy = d.createdBy, !.entityType = d.entityType]
    BY <1>3, <1>4, <2>1, <2>2
  <2> DEFINE R == [id |-> d.id, entity |-> d.entity, attribute |-> d.attribute, value |-> PackValue(d.value), tx |-> d.tx,
           recordedAt |-> d.recordedAt, createdBy |-> d.createdBy, retractedAt |-> d.retractedAt,
           retractTx |-> d.retractTx, entityType |-> d.entityType, validFrom |-> d.validFrom,
           validTo |-> d.validTo, recordedPosition |-> d.recordedPosition, retractedPosition |-> d.retractedPosition]
  <2>5. RowToTriple(r) = [R EXCEPT !.value = d.value, !.createdBy = d.createdBy, !.entityType = d.entityType]
    <3>1. r = R
      BY <1>2, Zenon
    <3> HIDE DEF r, R
    <3> QED BY <2>3, <3>1, Zenon
  <2> DEFINE x == RowToTriple(r)
             S == [id : {d.id}, entity : {d.entity}, attribute : {d.attribute}, value : {d.value}, tx : {d.tx},
                   recordedAt : {d.recordedAt}, createdBy : {d.createdBy}, retractedAt : {d.retractedAt},
                   retractTx : {d.retractTx}, entityType : {d.entityType}, validFrom : {d.validFrom},
                   validTo : {d.validTo}, recordedPosition : {d.recordedPosition},
                   retractedPosition : {d.retractedPosition}]
  <2>6. R \in [id : {d.id}, entity : {d.entity}, attribute : {d.attribute}, value : {PackValue(d.value)}, tx : {d.tx},
               recordedAt : {d.recordedAt}, createdBy : {d.createdBy}, retractedAt : {d.retractedAt},
               retractTx : {d.retractTx}, entityType : {d.entityType}, validFrom : {d.validFrom},
               validTo : {d.validTo}, recordedPosition : {d.recordedPosition},
               retractedPosition : {d.retractedPosition}]
    OBVIOUS
  <2>7. x \in S
    <3> HIDE DEF R
    <3>1. [R EXCEPT !.value = d.value, !.createdBy = d.createdBy, !.entityType = d.entityType] \in S
      BY <2>6
    <3> HIDE DEF x, S
    <3> QED BY <2>5, <3>1, Zenon DEF x
  <2> HIDE DEF r, R
  <2>4. x = [id |-> d.id, entity |-> d.entity, attribute |-> d.attribute, value |-> d.value, tx |-> d.tx,
             recordedAt |-> d.recordedAt, createdBy |-> d.createdBy, retractedAt |-> d.retractedAt,
             retractTx |-> d.retractTx, entityType |-> d.entityType, validFrom |-> d.validFrom, validTo |-> d.validTo,
             recordedPosition |-> d.recordedPosition, retractedPosition |-> d.retractedPosition]
    <3> HIDE DEF x
    <3> QED BY <2>7
  <2> HIDE DEF S
  <2> QED BY <1>1, <2>4, Zenon DEF r, x
<1> QED BY <1>2, <1>5

\* A fact is recorded, and retracted, at the instants that are the positions of the commits.
IsDated(d, now) ==
  /\ d.recordedPosition \in 1..now /\ d.recordedAt = d.recordedPosition /\ d.retractedAt = d.retractedPosition
  /\ d.retractedPosition = NoInstant \/ d.retractedPosition \in (d.recordedPosition + 1)..now
FactsAreDated == \A d \in hexFacts : IsAsserted(d) /\ IsDated(d, hexPosition)
RowsAreFacts == sqlTable = {RowOf(d) : d \in hexFacts}
RowsInv == HexInv /\ FactsAreDated /\ RowsAreFacts

LEMMA RowsInitially ==
  ASSUME SqlRowsInit
  PROVE  RowsInv
<1>1. HexInv
  BY InitEstablishes
<1> QED BY <1>1 DEF SqlRowsInit, HexInit, RowsInv, FactsAreDated, RowsAreFacts

LEMMA NewFactsAreDated ==
  ASSUME NEW f \in HexFacts, NEW n \in Nat
  PROVE  /\ IsAsserted(DatomOf(f, n)) /\ DatomOf(f, n).recordedPosition = n /\ DatomOf(f, n).recordedAt = n
         /\ DatomOf(f, n).retractedAt = NoInstant /\ DatomOf(f, n).retractedPosition = NoInstant
<1> DEFINE d == DatomOf(f, n)
<1>1. /\ d.createdBy = f.createdBy /\ d.entityType = f.entityType /\ d.value = f.value /\ d.validFrom = f.validFrom
      /\ d.validTo = f.validTo /\ d.recordedPosition = n /\ d.recordedAt = n /\ d.retractedAt = NoInstant
      /\ d.retractedPosition = NoInstant
  BY DEF DatomOf
<1>2. /\ f.validFrom \in Nat /\ f.validTo \in Nat \cup {NoInstant} /\ (f.validTo # NoInstant => f.validFrom < f.validTo)
      /\ f.createdBy # <<>> /\ f.entityType # <<>> /\ (f.value.type = "blob" => f.value.extra[3] # <<>>)
  BY SqlRowsAssumption
<1> HIDE DEF d
<1>3. IsAsserted(d)
  BY <1>1, <1>2 DEF IsAsserted
<1> QED BY <1>1, <1>3 DEF d

LEMMA StaysDated ==
  ASSUME NEW d, NEW now \in Nat, IsDated(d, now)
  PROVE  IsDated(d, now + 1)
<1>1. ASSUME NEW i \in Int, NEW j \in i..now PROVE j \in i..(now + 1)
  BY <1>1
<1>2. d.recordedPosition \in 1..now /\ d.recordedPosition + 1 \in Int
  BY DEF IsDated
<1> QED BY <1>1, <1>2 DEF IsDated

LEMMA RetractedIsDated ==
  ASSUME NEW d, NEW now \in Nat, IsDated(d, now), d.retractedAt = NoInstant,
         NEW c, c.recordedPosition = d.recordedPosition, c.recordedAt = d.recordedAt,
         c.retractedAt = now + 1, c.retractedPosition = now + 1
  PROVE  IsDated(c, now + 1)
<1>1. d.recordedPosition \in 1..now /\ d.recordedAt = d.recordedPosition
  BY DEF IsDated
<1>2. now + 1 \in (d.recordedPosition + 1)..(now + 1) /\ d.recordedPosition \in 1..(now + 1)
  BY <1>1
<1> QED BY <1>1, <1>2 DEF IsDated

LEMMA InsertKeepsRows ==
  ASSUME RowsInv, hexPosition < HexMaxPosition, NEW f \in HexFacts, Insert(f), HexInv'
  PROVE  RowsInv'
<1> DEFINE d == DatomOf(f, hexPosition + 1)
<1>1. hexPosition \in Nat /\ hexPosition + 1 \in Nat
  BY HexAssumption DEF RowsInv, HexInv, FactsAreNamed
<1>2. hexFacts' = hexFacts \cup {d} /\ hexPosition' = hexPosition + 1 /\ sqlTable' = sqlTable \cup {RowOf(d)}
  BY DEF Insert, HexAssert, HexAssertStr, StoreDatom
<1>3. /\ IsAsserted(d) /\ d.recordedPosition = hexPosition + 1 /\ d.recordedAt = hexPosition + 1
      /\ d.retractedAt = NoInstant /\ d.retractedPosition = NoInstant
  BY <1>1, NewFactsAreDated
<1> HIDE DEF d
<1>4. FactsAreDated'
  <2>1. ASSUME NEW g \in hexFacts PROVE IsAsserted(g) /\ IsDated(g, hexPosition')
    <3>1. IsAsserted(g) /\ IsDated(g, hexPosition)
      BY DEF RowsInv, FactsAreDated
    <3> QED BY <1>1, <1>2, <3>1 DEF IsDated
  <2>2. IsDated(d, hexPosition')
    BY <1>1, <1>2, <1>3 DEF IsDated
  <2> QED BY <1>2, <1>3, <2>1, <2>2 DEF FactsAreDated
<1>5. RowsAreFacts'
  BY <1>2 DEF RowsInv, RowsAreFacts
<1> QED BY <1>4, <1>5 DEF RowsInv

LEMMA RetractKeepsRows ==
  ASSUME RowsInv, hexPosition < HexMaxPosition, NEW id \in DOMAIN hexMeta, Retract(id), HexInv'
  PROVE  RowsInv'
<1> DEFINE n == hexPosition + 1
           Now(g) == IF g.id = id THEN Closed(g, n) ELSE g
           Row(r) == IF r.id = id /\ r.retractedAt = NoInstant
                     THEN [r EXCEPT !.retractedAt = n, !.retractedPosition = n, !.retractTx = HexIdAt[n]] ELSE r
<1>1. hexPosition \in Nat /\ n \in Nat /\ n \in 1..HexMaxPosition
  BY HexAssumption DEF RowsInv, HexInv, FactsAreNamed
<1>2. /\ hexFacts' = {Now(g) : g \in hexFacts} /\ hexPosition' = n /\ sqlTable' = {Row(r) : r \in sqlTable}
      /\ DeserializeDatom(hexMeta[id]).retractedAt = NoInstant
  BY DEF Retract, HexRetract, Closed
<1>3. ASSUME NEW g \in hexFacts
      PROVE  IsDatom(g) /\ IsAsserted(g) /\ IsDated(g, hexPosition)
  BY DEF RowsInv, HexInv, FactsAreNamed, FactsAreDated
<1>4. ASSUME NEW g \in hexFacts, g.id = id PROVE g.retractedAt = NoInstant
  <2>1. DeserializeDatom(hexMeta[id]) = g
    BY <1>3, <1>4, RecordsAreRead DEF RowsInv, HexInv, RecordsAreKept
  <2> QED BY <1>2, <2>1
<1>5. ASSUME NEW g \in hexFacts
      PROVE  IsAsserted(Now(g)) /\ IsDated(Now(g), n) /\ RowOf(Now(g)) = Row(RowOf(g))
  <2>1. CASE g.id # id
    <3>1. Now(g) = g
      BY <2>1
    <3>2. RowOf(g).id = g.id
      BY <1>3, RowIsRead
    <3>3. Row(RowOf(g)) = RowOf(g)
      BY <2>1, <3>2
    <3>4. IsDated(g, n)
      BY <1>1, <1>3, StaysDated
    <3> QED BY <1>3, <3>1, <3>3, <3>4
  <2>2. CASE g.id = id
    <3>1. Now(g) = Closed(g, n)
      BY <2>2
    <3>2. g \in [id : Utf8, entity : Utf8, attribute : Utf8, value : {g.value}, tx : Utf8, recordedAt : Int,
                 createdBy : OptionalUtf8, retractedAt : Int, retractTx : OptionalUtf8, entityType : OptionalUtf8,
                 validFrom : Int, validTo : Int, recordedPosition : Int, retractedPosition : Int]
      BY <1>3 DEF IsDatom
    <3> DEFINE c == Closed(g, n)
    <3>3. /\ c.createdBy = g.createdBy /\ c.entityType = g.entityType /\ c.value = g.value
          /\ c.validFrom = g.validFrom /\ c.validTo = g.validTo
          /\ c.recordedPosition = g.recordedPosition /\ c.recordedAt = g.recordedAt
          /\ c.retractedAt = n /\ c.retractedPosition = n
      BY <3>2 DEF Closed
    <3>4. RowOf(c) = Row(RowOf(g))
      <4>1. RowOf(g).id = id /\ RowOf(g).retractedAt = NoInstant
        BY <1>3, <1>4, <2>2, RowIsRead
      <4>2. Row(RowOf(g)) = [RowOf(g) EXCEPT !.retractedAt = n, !.retractedPosition = n, !.retractTx = HexIdAt[n]]
        BY <4>1
      <4>3. RowOf(c) = [c EXCEPT !.value = PackValue(c.value)]
        BY DEF RowOf
      <4>4. RowOf(c) = [RowOf(g) EXCEPT !.retractedAt = n, !.retractedPosition = n, !.retractTx = HexIdAt[n]]
        BY <3>2, <3>3, <4>3 DEF RowOf, Closed
      <4> QED BY <4>2, <4>4
    <3> HIDE DEF c
    <3>5. IsAsserted(c)
      BY <1>3, <3>3 DEF IsAsserted
    <3>6. IsDated(c, n)
      BY <1>1, <1>3, <1>4, <2>2, <3>3, RetractedIsDated
    <3> QED BY <3>1, <3>4, <3>5, <3>6 DEF c
  <2> QED BY <2>1, <2>2
<1> HIDE DEF Now, Row
<1>6. FactsAreDated'
  <2>1. ASSUME NEW x \in hexFacts' PROVE IsAsserted(x) /\ IsDated(x, n)
    <3>1. PICK g \in hexFacts : x = Now(g)
      BY <1>2
    <3> QED BY <1>5, <3>1
  <2> QED BY <1>2, <2>1 DEF FactsAreDated
<1>7. RowsAreFacts'
  <2>1. sqlTable = {RowOf(g) : g \in hexFacts}
    BY DEF RowsInv, RowsAreFacts
  <2>2. sqlTable' = {Row(RowOf(g)) : g \in hexFacts}
    BY <1>2, <2>1
  <2>3. {RowOf(x) : x \in hexFacts'} = {RowOf(Now(g)) : g \in hexFacts}
    BY <1>2
  <2> QED BY <1>5, <2>2, <2>3 DEF RowsAreFacts
<1> QED BY <1>6, <1>7 DEF RowsInv

LEMMA RowsStep ==
  ASSUME RowsInv, [SqlRowsNext]_sqlRowsVars
  PROVE  RowsInv'
<1>1. HexInv'
  BY StepPreserves DEF RowsInv
<1>2. ASSUME UNCHANGED sqlRowsVars PROVE RowsInv'
  BY <1>1, <1>2 DEF RowsInv, FactsAreDated, RowsAreFacts, IsDated, sqlRowsVars, hexVars
<1> QED BY <1>1, <1>2, InsertKeepsRows, RetractKeepsRows DEF SqlRowsNext

-----------------------------------------------------------------------------
\* Reads at a basis.

\* Conditions on a row are conditions on its fact.
LEMMA RowConditions ==
  ASSUME NEW d, IsDatom(d), IsAsserted(d), NEW basis
  PROVE  /\ RecordedConditions(RowOf(d), basis) <=> RecordedConditions(d, basis)
         /\ TemporalConditions(RowOf(d), basis) <=> TemporalConditions(d, basis)
<1>1. /\ RowOf(d).recordedAt = d.recordedAt /\ RowOf(d).retractedAt = d.retractedAt
      /\ RowOf(d).recordedPosition = d.recordedPosition /\ RowOf(d).retractedPosition = d.retractedPosition
      /\ RowOf(d).validFrom = d.validFrom /\ RowOf(d).validTo = d.validTo
  BY RowIsRead
<1> DEFINE r == RowOf(d)
<1> HIDE DEF r
<1>2. RecordedConditions(r, basis) <=> RecordedConditions(d, basis)
  BY <1>1, Zenon DEF RecordedConditions, r
<1>3. TemporalConditions(r, basis) <=> TemporalConditions(d, basis)
  BY <1>1, <1>2, Zenon DEF TemporalConditions, r
<1> QED BY <1>2, <1>3 DEF r

\* The types whose column every adapter compares.
ComparedByAll == {"string", "ref", "number", "boolean", "datetime"}

\* An adapter reads the facts that its conditions are met by, where it compares the value asked for.
LEMMA QueriesAre ==
  ASSUME RowsInv, NEW adapter \in Adapter, NEW p \in HexPatterns, Compares(adapter, p.value), NEW basis
  PROVE  QueryBy(adapter, p, Nothing, basis) = {d \in hexFacts : Wants(d, p, Nothing) /\ TemporalConditions(d, basis)}
<1>1. PICK compared : /\ QueryBy(adapter, p, Nothing, basis) = Rows(p, Nothing, basis, compared)
                      /\ p.value # AnyValue => p.value.type \in compared
  <2>1. IsPattern(p)
    BY PatternsAre
  <2>2. p.value # AnyValue => p.value.type \in ValueTypes
    BY <2>1, ValueFields DEF IsPattern
  <2>3. CASE adapter = "postgresql"
    <3>1. QueryBy(adapter, p, Nothing, basis) = Rows(p, Nothing, basis, ComparedByAll \cup {"blob"})
      <4>1. ComparedByAll \cup {"blob"} = {"string", "ref", "blob", "number", "boolean", "datetime"}
        BY DEF ComparedByAll
      <4>2. QueryBy(adapter, p, Nothing, basis) = PostgresqlQuery(p, Nothing, basis)
        BY <2>3 DEF QueryBy
      <4> QED BY <4>1, <4>2, Zenon DEF PostgresqlQuery
    <3>2. p.value # AnyValue => p.value.type \in ComparedByAll \cup {"blob"}
      BY <2>2 DEF Compares, ValueTypes, ComparedByAll
    <3> QED BY <3>1, <3>2, Zenon
  <2>4. CASE adapter # "postgresql"
    <3>1. QueryBy(adapter, p, Nothing, basis) = Rows(p, Nothing, basis, ComparedByAll)
      BY <2>4, Zenon DEF QueryBy, SqliteQuery, CloudflareQuery, Adapter, ComparedByAll
    <3>2. p.value # AnyValue => p.value.type \in ComparedByAll
      BY <2>2, <2>4 DEF Compares, ValueTypes, ComparedByAll
    <3> QED BY <3>1, <3>2, Zenon
  <2> QED BY <2>3, <2>4
<1> DEFINE Asked(r) == /\ TemporalConditions(r, basis)
                       /\ p.entity # Nothing => r.entity = p.entity
                       /\ p.attribute # Nothing => r.attribute = p.attribute
                       /\ Nothing # Nothing => r.entityType = Nothing
                       /\ p.value # AnyValue => ValueConditions(r, p.value, compared)
<1>2. Rows(p, Nothing, basis, compared) = {RowToTriple(r) : r \in {r \in sqlTable : Asked(r)}}
  BY DEF Rows
<1>3. ASSUME NEW d \in hexFacts
      PROVE  RowToTriple(RowOf(d)) = d /\ (Asked(RowOf(d)) <=> Wants(d, p, Nothing) /\ TemporalConditions(d, basis))
  <2>1. IsDatom(d) /\ IsAsserted(d)
    BY DEF RowsInv, HexInv, FactsAreNamed, FactsAreDated
  <2>2. /\ RowToTriple(RowOf(d)) = d /\ RowOf(d).value = PackValue(d.value)
        /\ RowOf(d).entity = d.entity /\ RowOf(d).attribute = d.attribute
    BY <2>1, RowIsRead
  <2>3. TemporalConditions(RowOf(d), basis) <=> TemporalConditions(d, basis)
    BY <2>1, RowConditions
  <2>4. ASSUME p.value # AnyValue
        PROVE  ValueConditions(RowOf(d), p.value, compared) <=> p.value.type = d.value.type /\ p.value.of = d.value.of
    <3>1. IsValue(p.value) /\ IsValue(d.value) /\ (d.value.type = "blob" => d.value.extra[3] # <<>>)
      BY <2>1, <2>4, PatternsAre, DatomFields DEF IsPattern, IsAsserted
    <3>2. PackValue(d.value).type = d.value.type /\ (d.value.type # "json" => PackValue(d.value)[ColumnOf(d.value.type)] = d.value.of)
      BY <3>1, ValuesAreUnpacked
    <3>3. p.value.type # "json" /\ p.value.type \in compared
      BY <1>1, <2>4 DEF Compares
    <3>4. PackValue(p.value)[ColumnOf(p.value.type)] = p.value.of
      BY <3>1, <3>3, ColumnsHold, ValueFields
    <3> DEFINE w == p.value
               v == d.value
    <3>5. ValueConditions(RowOf(d), w, compared) <=> PackValue(v).type = w.type /\ PackValue(v)[ColumnOf(w.type)] = w.of
      BY <2>2, <3>3, <3>4, Zenon DEF ValueConditions
    <3> HIDE DEF w, v
    <3>6. w.type # "json" /\ PackValue(v).type = v.type /\ (v.type # "json" => PackValue(v)[ColumnOf(v.type)] = v.of)
      BY <3>2, <3>3 DEF w, v
    <3>7. ValueConditions(RowOf(d), w, compared) <=> w.type = v.type /\ w.of = v.of
      BY <3>5, <3>6
    <3> QED BY <3>7 DEF w, v
  <2>5. Wants(d, p, Nothing) <=>
          /\ p.entity # Nothing => d.entity = p.entity
          /\ p.attribute # Nothing => d.attribute = p.attribute
          /\ p.value # AnyValue => p.value.type = d.value.type /\ p.value.of = d.value.of
    BY DEF Wants
  <2> QED BY <2>2, <2>3, <2>4, <2>5
<1>4. sqlTable = {RowOf(d) : d \in hexFacts}
  BY DEF RowsInv, RowsAreFacts
<1> HIDE DEF Asked
<1> QED BY <1>1, <1>2, <1>3, <1>4

LEMMA LookupsAre ==
  ASSUME RowsInv, NEW es, NEW basis
  PROVE  GetByEntities(es, basis) = [e \in es |-> {d \in hexFacts : d.entity = e /\ TemporalConditions(d, basis)}]
<1>1. ASSUME NEW d \in hexFacts
      PROVE  /\ RowToTriple(RowOf(d)) = d /\ RowOf(d).entity = d.entity
             /\ TemporalConditions(RowOf(d), basis) <=> TemporalConditions(d, basis)
  <2>1. IsDatom(d) /\ IsAsserted(d)
    BY DEF RowsInv, HexInv, FactsAreNamed, FactsAreDated
  <2> QED BY <2>1, RowIsRead, RowConditions
<1>2. sqlTable = {RowOf(d) : d \in hexFacts}
  BY DEF RowsInv, RowsAreFacts
<1>3. ASSUME NEW e
      PROVE  {RowToTriple(r) : r \in {r \in sqlTable : r.entity = e /\ TemporalConditions(r, basis)}} =
               {d \in hexFacts : d.entity = e /\ TemporalConditions(d, basis)}
  BY <1>1, <1>2
<1> QED BY <1>3, Zenon DEF GetByEntities

\* What is recorded at a basis of a cut is what the commits up to the cut left.
LeftBy(d, cut) == d.recordedPosition <= cut /\ (d.retractedPosition = NoInstant \/ d.retractedPosition > cut)
IsValid(d, at) == d.validFrom <= at /\ (d.validTo = NoInstant \/ d.validTo > at)

LEMMA HeldIs ==
  ASSUME RowsInv, NEW cut, NEW at \in Nat
  PROVE  HeldAt(cut, at) = {d \in hexFacts : LeftBy(d, cut) /\ IsValid(d, at)}
<1>1. ASSUME NEW d \in hexFacts
      PROVE  at \in d.validFrom..(IF d.validTo = NoInstant THEN at ELSE d.validTo - 1) <=> IsValid(d, at)
  <2>1. d.validFrom \in Nat /\ d.validTo \in Nat \cup {NoInstant}
    BY DEF RowsInv, FactsAreDated, IsAsserted
  <2>2. CASE d.validTo = NoInstant
    BY <2>1, <2>2 DEF IsValid
  <2>3. CASE d.validTo # NoInstant
    BY <2>1, <2>3 DEF IsValid
  <2> QED BY <2>2, <2>3
<1> QED BY <1>1, Zenon DEF HeldAt, LeftBy

LEMMA BasesAgree ==
  ASSUME RowsInv, NEW cut \in 0..hexPosition, NEW at \in Nat, NEW basis \in Bases(cut, at), NEW d \in hexFacts
  PROVE  /\ RecordedConditions(d, basis) <=> LeftBy(d, cut)
         /\ RecordedVisible(d, basis) <=> LeftBy(d, cut)
         /\ AssertionVisible(d, basis) <=> d.recordedPosition <= cut
         /\ RetractionVisible(d, basis) <=> d.retractedPosition # NoInstant /\ d.retractedPosition <= cut
         /\ TemporalConditions(d, basis) <=> LeftBy(d, cut) /\ IsValid(d, at)
         /\ HexVisibleAt(d, basis) <=> LeftBy(d, cut) /\ IsValid(d, at)
         /\ basis.validAt = at
<1>1. /\ d.recordedPosition \in 1..hexPosition /\ d.recordedAt = d.recordedPosition /\ d.retractedAt = d.retractedPosition
      /\ d.retractedPosition = NoInstant \/ d.retractedPosition \in (d.recordedPosition + 1)..hexPosition
  BY DEF RowsInv, FactsAreDated, IsDated
<1>2. hexPosition \in Nat /\ cut \in Nat /\ cut <= hexPosition /\ cut # NoInstant
  BY HexAssumption DEF RowsInv, HexInv, FactsAreNamed, NoInstant
<1>3. \/ basis = [position |-> cut, recordedAt |-> cut, validAt |-> at]
      \/ basis = [position |-> NoInstant, recordedAt |-> cut, validAt |-> at]
      \/ basis = [position |-> NoInstant, recordedAt |-> NoInstant, validAt |-> at] /\ cut = hexPosition
  BY DEF Bases
<1>4. \/ basis.position = cut /\ basis.recordedAt = cut
      \/ basis.position = NoInstant /\ basis.recordedAt = cut
      \/ basis.position = NoInstant /\ basis.recordedAt = NoInstant /\ cut = hexPosition
  BY <1>3
<1>5. basis.validAt = at /\ basis # Undated
  <2>1. basis.validAt = at
    BY <1>3
  <2>2. Undated.validAt = NoInstant /\ at # NoInstant
    BY DEF Undated, NoInstant
  <2> QED BY <2>1, <2>2
<1> DEFINE rec == d.recordedPosition
           ret == d.retractedPosition
           pos == basis.position
           inst == basis.recordedAt
<1>6. /\ RecordedConditions(d, basis) <=>
           (IF pos # NoInstant THEN rec <= pos /\ (ret = NoInstant \/ ret > pos)
            ELSE IF inst = NoInstant THEN ret = NoInstant
            ELSE rec <= inst /\ (ret = NoInstant \/ ret > inst))
      /\ RecordedVisible(d, basis) <=>
           (IF pos # NoInstant THEN rec <= pos /\ (ret = NoInstant \/ ret > pos)
            ELSE IF inst = NoInstant THEN ret = NoInstant
            ELSE rec <= inst /\ (ret = NoInstant \/ ret > inst))
      /\ AssertionVisible(d, basis) <=> IF pos # NoInstant THEN rec <= pos ELSE inst = NoInstant \/ rec <= inst
      /\ RetractionVisible(d, basis) <=>
           ret # NoInstant /\ IF pos # NoInstant THEN ret <= pos ELSE inst = NoInstant \/ ret <= inst
  <2>1. rec # 0
    BY <1>1, <1>2
  <2> QED BY <1>1, <2>1 DEF RecordedConditions, RecordedVisible, AssertionVisible, RetractionVisible
<1> HIDE DEF rec, ret, pos, inst
<1>7. /\ rec \in 1..hexPosition /\ (ret = NoInstant \/ ret \in (rec + 1)..hexPosition)
      /\ \/ pos = cut /\ inst = cut
         \/ pos = NoInstant /\ inst = cut
         \/ pos = NoInstant /\ inst = NoInstant /\ cut = hexPosition
  BY <1>1, <1>4 DEF rec, ret, pos, inst
<1>8. /\ RecordedConditions(d, basis) <=> rec <= cut /\ (ret = NoInstant \/ ret > cut)
      /\ RecordedVisible(d, basis) <=> rec <= cut /\ (ret = NoInstant \/ ret > cut)
      /\ AssertionVisible(d, basis) <=> rec <= cut
      /\ RetractionVisible(d, basis) <=> ret # NoInstant /\ ret <= cut
  BY <1>2, <1>6, <1>7
<1>9. /\ RecordedConditions(d, basis) <=> LeftBy(d, cut)
      /\ RecordedVisible(d, basis) <=> LeftBy(d, cut)
  BY <1>8 DEF LeftBy, rec, ret
<1>10. /\ TemporalConditions(d, basis) <=> LeftBy(d, cut) /\ IsValid(d, at)
       /\ HexVisibleAt(d, basis) <=> LeftBy(d, cut) /\ IsValid(d, at)
  BY <1>5, <1>9 DEF TemporalConditions, HexVisibleAt, IsValid
<1> QED BY <1>5, <1>8, <1>9, <1>10 DEF rec, ret

-----------------------------------------------------------------------------
\* The latest and the earliest of what is in a set.

LEMMA LatestIs ==
  ASSUME NEW b \in Nat, NEW S \in SUBSET (-1..b)
  PROVE  Latest(S) \in S \cup {0} /\ \A n \in S \cup {0} : n <= Latest(S)
<1> DEFINE T == S \cup {0}
           P == {n \in T : n >= 0}
<1>1. P \in SUBSET (0..b) /\ P # {}
  <2>1. \A n \in T : n \in -1..b
    OBVIOUS
  <2>2. 0 \in T
    OBVIOUS
  <2> HIDE DEF T
  <2>3. \A n \in T : n >= 0 => n \in 0..b
    BY <2>1
  <2> QED BY <2>2, <2>3
<1>2. PICK m \in P : \A n \in P : n <= m
  BY <1>1, GreatestOf
<1>3. m \in T /\ \A n \in T : m >= n
  BY <1>1, <1>2
<1>4. Max(T) \in T /\ \A n \in T : Max(T) >= n
  <2> HIDE DEF T, P
  <2>1. \E x \in T : \A y \in T : x >= y
    BY <1>3
  <2> QED BY <2>1, Zenon DEF Max
<1>5. \A n \in T : n <= Max(T)
  <2>1. \A n \in T : n \in Int
    OBVIOUS
  <2> QED BY <1>4, <2>1
<1> QED BY <1>4, <1>5 DEF Latest

LEMMA SameLatest ==
  ASSUME NEW b \in Nat, NEW S \in SUBSET (-1..b), NEW R \in SUBSET (-1..b),
         \A n \in S : \E m \in R \cup {0} : n <= m,
         \A n \in R : \E m \in S \cup {0} : n <= m
  PROVE  Latest(S) = Latest(R)
<1>1. /\ Latest(S) \in S \cup {0} /\ \A n \in S \cup {0} : n <= Latest(S)
      /\ Latest(R) \in R \cup {0} /\ \A n \in R \cup {0} : n <= Latest(R)
  BY LatestIs
<1>2. S \cup {0} \subseteq Int /\ R \cup {0} \subseteq Int
  OBVIOUS
<1> DEFINE s == Latest(S)
           r == Latest(R)
<1> HIDE DEF s, r
<1>3. s \in Int /\ r \in Int
  BY <1>1, <1>2 DEF s, r
<1>4. s <= r
  BY <1>1, <1>2, <1>3 DEF s, r
<1>5. r <= s
  BY <1>1, <1>2, <1>3 DEF s, r
<1> QED BY <1>3, <1>4, <1>5 DEF s, r

LEMMA EarliestIs ==
  ASSUME NEW S \in SUBSET Nat, S # {}
  PROVE  Earliest(S) \in S /\ \A n \in S : Earliest(S) <= n
<1>1. \E m \in S : \A n \in S : m =< n
  BY LeastOf
<1> QED BY <1>1, Zenon DEF Earliest, Min

LEMMA SameEarliest ==
  ASSUME NEW S \in SUBSET Nat, NEW R \in SUBSET Nat,
         \A n \in S : \E m \in R : m <= n,
         \A n \in R : \E m \in S : m <= n
  PROVE  Earliest(S) = Earliest(R)
<1>1. CASE S = {} \/ R = {}
  BY <1>1
<1>2. CASE S # {} /\ R # {}
  <2>1. /\ Earliest(S) \in S /\ \A n \in S : Earliest(S) <= n
        /\ Earliest(R) \in R /\ \A n \in R : Earliest(R) <= n
    BY <1>2, EarliestIs
  <2> DEFINE s == Earliest(S)
             r == Earliest(R)
  <2> HIDE DEF s, r
  <2>2. s \in Nat /\ r \in Nat
    BY <2>1 DEF s, r
  <2>3. s <= r
    BY <2>1, <2>2 DEF s, r
  <2>4. r <= s
    BY <2>1, <2>2 DEF s, r
  <2> QED BY <2>2, <2>3, <2>4 DEF s, r
<1> QED BY <1>1, <1>2

\* Finitely many naturals have a bound.
LEMMA Bounded ==
  ASSUME NEW n \in Nat, NEW h \in [1..n -> Nat]
  PROVE  \E b \in Nat : \A i \in 1..n : h[i] <= b
<1> DEFINE S == {k \in Nat : \A g \in [1..k -> Nat] : \E b \in Nat : \A i \in 1..k : g[i] <= b}
<1>1. 0 \in S
  OBVIOUS
<1>2. ASSUME NEW k \in Nat, k \in S PROVE k + 1 \in S
  <2>1. ASSUME NEW g \in [1..(k + 1) -> Nat] PROVE \E b \in Nat : \A i \in 1..(k + 1) : g[i] <= b
    <3> DEFINE u == [i \in 1..k |-> g[i]]
    <3>1. u \in [1..k -> Nat] /\ g[k + 1] \in Nat
      OBVIOUS
    <3>2. PICK b \in Nat : \A i \in 1..k : u[i] <= b
      BY <1>2, <3>1
    <3>3. \A i \in 1..k : g[i] \in Nat /\ g[i] <= b
      BY <3>2
    <3>4. \A i \in 1..(k + 1) : g[i] <= b + g[k + 1]
      <4>1. ASSUME NEW i \in 1..(k + 1) PROVE g[i] <= b + g[k + 1]
        <5>1. CASE i \in 1..k
          BY <3>1, <3>3, <5>1
        <5>2. CASE i = k + 1
          BY <3>1, <5>2
        <5> QED BY <5>1, <5>2
      <4> QED BY <4>1
    <3>5. b + g[k + 1] \in Nat
      BY <3>1
    <3> QED BY <3>4, <3>5, Zenon
  <2>2. k + 1 \in Nat
    OBVIOUS
  <2> QED BY <2>1, <2>2, Zenon
<1> HIDE DEF S
<1>3. n \in S
  BY <1>1, <1>2, AllNaturals
<1> QED BY <1>3 DEF S

LEMMA EdgesHaveALast ==
  /\ LastEdge \in Nat
  /\ \A f \in HexFacts : f.validFrom <= LastEdge /\ f.validTo <= LastEdge
<1> DEFINE Of(f) == f.validFrom + (IF f.validTo = NoInstant THEN 0 ELSE f.validTo)
           T == {f.validFrom : f \in HexFacts} \cup {f.validTo : f \in HexFacts}
<1>1. ASSUME NEW f \in HexFacts
      PROVE  f.validFrom \in Nat /\ f.validTo \in Nat \cup {NoInstant} /\ Of(f) \in Nat /\ f.validFrom <= Of(f) /\ f.validTo <= Of(f)
  <2>1. f.validFrom \in Nat /\ f.validTo \in Nat \cup {NoInstant}
    BY SqlRowsAssumption
  <2> DEFINE x == f.validFrom
             y == f.validTo
  <2>2. x + (IF y = NoInstant THEN 0 ELSE y) \in Nat /\ x <= x + (IF y = NoInstant THEN 0 ELSE y)
        /\ y <= x + (IF y = NoInstant THEN 0 ELSE y)
    <3> HIDE DEF x, y
    <3>1. x \in Nat /\ y \in Nat \cup {-1}
      BY <2>1 DEF x, y, NoInstant
    <3> QED BY <3>1 DEF NoInstant
  <2> QED BY <2>1, <2>2
<1> HIDE DEF Of
<1>2. PICK b \in Nat : \A f \in HexFacts : Of(f) <= b
  <2>1. PICK n \in Nat : ExistsSurjection(1..n, HexFacts)
    BY SqlRowsAssumption, FS_NatSurjection
  <2>2. PICK g \in [1..n -> HexFacts] : \A f \in HexFacts : \E i \in 1..n : g[i] = f
    BY <2>1 DEF ExistsSurjection, Surjection
  <2> DEFINE h == [i \in 1..n |-> Of(g[i])]
  <2>3. h \in [1..n -> Nat]
    BY <1>1, <2>2
  <2> HIDE DEF h
  <2>4. PICK b \in Nat : \A i \in 1..n : h[i] <= b
    BY <2>3, Bounded
  <2>5. \A i \in 1..n : Of(g[i]) <= b
    BY <2>4 DEF h
  <2>6. \A f \in HexFacts : Of(f) <= b
    BY <2>2, <2>5
  <2> QED BY <2>6
<1>3. T \in SUBSET (-1..b)
  <2>1. ASSUME NEW f \in HexFacts PROVE f.validFrom \in -1..b /\ f.validTo \in -1..b
    BY <1>1, <1>2 DEF NoInstant
  <2> QED BY <2>1
<1> HIDE DEF T
<1>4. Latest(T) \in T \cup {0} /\ \A n \in T \cup {0} : n <= Latest(T)
  BY <1>3, LatestIs
<1>5. LastEdge = Latest(T)
  BY DEF LastEdge, T
<1>6. Latest(T) \in Nat
  <2>1. Latest(T) \in T \cup {0} /\ 0 <= Latest(T)
    BY <1>4
  <2> DEFINE l == Latest(T)
  <2> HIDE DEF l
  <2>2. l \in T \cup {0} /\ 0 <= l
    BY <2>1 DEF l
  <2>3. l \in Nat
    BY <1>3, <2>2
  <2> QED BY <2>3 DEF l
<1>7. \A f \in HexFacts : f.validFrom \in T /\ f.validTo \in T
  BY DEF T
<1> QED BY <1>4, <1>5, <1>6, <1>7

-----------------------------------------------------------------------------
\* What is known of some attributes: the last change up to a cut, and the next after an instant.

Of(attributes) == {d \in hexFacts : d.attribute \in attributes}
\* The position a fact counts at: of its retraction, when the cut has that.
Told(d, cut) ==
  IF d.recordedPosition > cut THEN 0
  ELSE IF d.retractedPosition # NoInstant /\ d.retractedPosition <= cut THEN d.retractedPosition ELSE d.recordedPosition

LEMMA DatesOf ==
  ASSUME RowsInv, NEW d \in hexFacts
  PROVE  /\ d.recordedPosition \in 1..hexPosition /\ d.recordedAt = d.recordedPosition
         /\ d.retractedAt = d.retractedPosition
         /\ d.retractedPosition = NoInstant \/ d.retractedPosition \in (d.recordedPosition + 1)..hexPosition
         /\ d.validFrom \in Nat /\ d.validTo \in Nat \cup {NoInstant} /\ (d.validTo # NoInstant => d.validFrom < d.validTo)
         /\ d.validFrom <= LastEdge /\ d.validTo <= LastEdge /\ LastEdge \in Nat /\ hexPosition \in Nat
<1>1. IsAsserted(d) /\ IsDated(d, hexPosition)
  BY DEF RowsInv, FactsAreDated
<1>2. d.validFrom <= LastEdge /\ d.validTo <= LastEdge
  BY <1>1, EdgesHaveALast DEF IsAsserted
<1>3. hexPosition \in Nat
  BY DEF RowsInv, HexInv, FactsAreNamed
<1> QED BY <1>1, <1>2, <1>3, EdgesHaveALast DEF IsAsserted, IsDated

LEMMA ToldBySql ==
  ASSUME RowsInv, NEW cut \in 0..hexPosition, NEW at \in Nat, NEW basis \in Bases(cut, at), NEW d \in hexFacts
  PROVE  SourceExpression(d, basis) = Told(d, cut)
<1>1. /\ d.recordedPosition \in 1..hexPosition /\ d.recordedAt = d.recordedPosition /\ d.retractedAt = d.retractedPosition
      /\ d.retractedPosition = NoInstant \/ d.retractedPosition \in (d.recordedPosition + 1)..hexPosition
      /\ hexPosition \in Nat
  BY DatesOf
<1>2. cut \in Nat /\ cut <= hexPosition /\ cut # NoInstant
  BY <1>1 DEF NoInstant
<1>3. \/ basis = [position |-> cut, recordedAt |-> cut, validAt |-> at]
      \/ basis = [position |-> NoInstant, recordedAt |-> cut, validAt |-> at]
      \/ basis = [position |-> NoInstant, recordedAt |-> NoInstant, validAt |-> at] /\ cut = hexPosition
  BY DEF Bases
<1> DEFINE rec == d.recordedPosition
           ret == d.retractedPosition
           pos == basis.position
           inst == basis.recordedAt
<1>4. \/ pos = cut /\ inst = cut
      \/ pos = NoInstant /\ inst = cut
      \/ pos = NoInstant /\ inst = NoInstant /\ cut = hexPosition
  BY <1>3
<1>5. SourceExpression(d, basis) =
        IF pos # NoInstant
        THEN IF rec > pos THEN 0 ELSE IF ret # NoInstant /\ ret <= pos THEN ret ELSE rec
        ELSE IF inst # NoInstant
        THEN IF rec > inst THEN 0 ELSE IF ret # NoInstant /\ ret <= inst THEN ret ELSE rec
        ELSE IF ret # NoInstant THEN ret ELSE rec
  BY <1>1, Zenon DEF SourceExpression
<1>6. Told(d, cut) = IF rec > cut THEN 0 ELSE IF ret # NoInstant /\ ret <= cut THEN ret ELSE rec
  BY DEF Told
<1>7. rec \in 1..hexPosition /\ (ret = NoInstant \/ ret \in (rec + 1)..hexPosition)
  BY <1>1
<1> HIDE DEF rec, ret, pos, inst
<1> QED BY <1>1, <1>2, <1>4, <1>5, <1>6, <1>7

\* The rows of some attributes are their facts', and so is what a scan of each finds.
LEMMA ScannedFor ==
  ASSUME RowsInv, NEW attributes \in SUBSET {f.attribute : f \in HexFacts}
  PROVE  UNION {ScanCollect([entity |-> Nothing, attribute |-> a, value |-> AnyValue], TRUE) : a \in attributes}
           = Of(attributes)
<1>1. ASSUME NEW a \in attributes
      PROVE  ScanCollect([entity |-> Nothing, attribute |-> a, value |-> AnyValue], TRUE) = {d \in hexFacts : d.attribute = a}
  <2> DEFINE p == [entity |-> Nothing, attribute |-> a, value |-> AnyValue]
  <2>1. a \in Utf8
    <3>1. \A f \in HexFacts : f \in [entity : Utf8, attribute : Utf8, value : {f.value}, entityType : OptionalUtf8,
                                     createdBy : OptionalUtf8, validFrom : Int, validTo : Int]
      BY HexAssumption
    <3>2. \A f \in HexFacts : f.attribute \in Utf8
      BY <3>1
    <3> QED BY <3>2
  <2>2. p.entity = Nothing /\ p.attribute = a /\ p.value = AnyValue /\ p.value.type = "any"
    BY DEF AnyValue
  <2> HIDE DEF p
  <2>3. IsPattern(p)
    BY <2>1, <2>2 DEF IsPattern, OptionalUtf8
  <2>4. p.value.type = "number" => p.value.of # <<1, 0>>
    BY <2>2
  <2>5. HexInv
    BY DEF RowsInv
  <2>6. TRUE \in BOOLEAN
    OBVIOUS
  <2>7. ScanCollect(p, TRUE) = {d \in hexFacts : Wants(d, p, Nothing) /\ (TRUE \/ d.retractedAt = NoInstant)}
    BY <2>3, <2>4, <2>5, <2>6, ScansAre
  <2>8. a # Nothing
    BY <2>1, NothingIsNoText
  <2>9. \A d \in hexFacts : Wants(d, p, Nothing) <=> d.attribute = a
    BY <2>2, <2>8 DEF Wants
  <2>10. ScanCollect(p, TRUE) = {d \in hexFacts : d.attribute = a}
    BY <2>7, <2>9
  <2> QED BY <2>10 DEF p
<1>2. ASSUME NEW d
      PROVE  d \in UNION {ScanCollect([entity |-> Nothing, attribute |-> a, value |-> AnyValue], TRUE) : a \in attributes}
               <=> d \in Of(attributes)
  <2>1. d \in UNION {ScanCollect([entity |-> Nothing, attribute |-> a, value |-> AnyValue], TRUE) : a \in attributes}
          <=> \E a \in attributes : d \in ScanCollect([entity |-> Nothing, attribute |-> a, value |-> AnyValue], TRUE)
    OBVIOUS
  <2>2. d \in Of(attributes) <=> \E a \in attributes : d \in {g \in hexFacts : g.attribute = a}
    BY DEF Of
  <2> QED BY <1>1, <2>1, <2>2
<1> QED BY <1>2

LEMMA RowsOf ==
  ASSUME RowsInv, NEW attributes
  PROVE  {r \in sqlTable : r.attribute \in attributes} = {RowOf(d) : d \in Of(attributes)}
<1>1. \A d \in hexFacts : RowOf(d).attribute = d.attribute
  BY RowIsRead DEF RowsInv, HexInv, FactsAreNamed, FactsAreDated
<1> QED BY <1>1 DEF RowsInv, RowsAreFacts, Of

LEMMA SourcesAgree ==
  ASSUME RowsInv, NEW cut \in 0..hexPosition, NEW at \in Nat, NEW basis \in Bases(cut, at),
         NEW attributes \in SUBSET {f.attribute : f \in HexFacts}
  PROVE  /\ SqlDependencyState(attributes, basis).source = ChangedUpTo(attributes, cut)
         /\ KvDependencyState(attributes, basis).source = ChangedUpTo(attributes, cut)
<1> DEFINE D == Of(attributes)
           T == {Told(d, cut) : d \in D}
           datoms == {d \in D : AssertionVisible(d, basis)}
           gone == {d \in datoms : RetractionVisible(d, basis)}
           K == {d.recordedPosition : d \in datoms} \cup {d.retractedPosition : d \in gone}
           C == {n \in UNION {{d.recordedPosition, d.retractedPosition} : d \in D} : n <= cut}
<1>1. hexPosition \in Nat /\ cut \in Nat /\ cut <= hexPosition
  BY DEF RowsInv, HexInv, FactsAreNamed
<1>2. ASSUME NEW d \in D
      PROVE  /\ d.recordedPosition \in 1..hexPosition
             /\ d.retractedPosition = -1 \/ d.retractedPosition \in (d.recordedPosition + 1)..hexPosition
             /\ AssertionVisible(d, basis) <=> d.recordedPosition <= cut
             /\ RetractionVisible(d, basis) <=> d.retractedPosition # -1 /\ d.retractedPosition <= cut
             /\ Told(d, cut) = IF d.recordedPosition > cut THEN 0
                               ELSE IF d.retractedPosition # -1 /\ d.retractedPosition <= cut THEN d.retractedPosition
                               ELSE d.recordedPosition
  <2>1. d \in hexFacts
    BY DEF Of
  <2> QED BY <2>1, DatesOf, BasesAgree DEF NoInstant, Told
<1>3. SqlDependencyState(attributes, basis).source = Latest(T)
  <2>1. {SourceExpression(r, basis) : r \in {r \in sqlTable : r.attribute \in attributes}} = T
    <3>1. ASSUME NEW d \in D PROVE SourceExpression(RowOf(d), basis) = Told(d, cut)
      <4>1. d \in hexFacts /\ IsDatom(d) /\ IsAsserted(d)
        BY DEF Of, RowsInv, HexInv, FactsAreNamed, FactsAreDated
      <4>2. /\ RowOf(d).recordedAt = d.recordedAt /\ RowOf(d).retractedAt = d.retractedAt
            /\ RowOf(d).recordedPosition = d.recordedPosition /\ RowOf(d).retractedPosition = d.retractedPosition
        BY <4>1, RowIsRead
      <4> DEFINE r == RowOf(d)
      <4> HIDE DEF r
      <4>3. SourceExpression(r, basis) = SourceExpression(d, basis)
        BY <4>2, Zenon DEF SourceExpression, r
      <4>4. SourceExpression(d, basis) = Told(d, cut)
        BY <4>1, ToldBySql
      <4> QED BY <4>3, <4>4 DEF r
    <3>2. {r \in sqlTable : r.attribute \in attributes} = {RowOf(d) : d \in D}
      BY RowsOf
    <3> HIDE DEF D
    <3> QED BY <3>1, <3>2
  <2> HIDE DEF T
  <2> QED BY <2>1, Zenon DEF SqlDependencyState
<1>4. KvDependencyState(attributes, basis).source = Latest(K)
  <2>1. UNION {ScanCollect([entity |-> Nothing, attribute |-> a, value |-> AnyValue], TRUE) : a \in attributes} = D
    BY ScannedFor
  <2> HIDE DEF D
  <2> QED BY <2>1 DEF KvDependencyState
<1>5. ChangedUpTo(attributes, cut) = Latest(C)
  BY DEF ChangedUpTo, Of
<1> HIDE DEF D
<1>6. T \in SUBSET (-1..hexPosition) /\ K \in SUBSET (-1..hexPosition) /\ C \in SUBSET (-1..hexPosition)
  <2>1. ASSUME NEW d \in D
        PROVE  Told(d, cut) \in -1..hexPosition /\ d.recordedPosition \in -1..hexPosition /\ d.retractedPosition \in -1..hexPosition
    BY <1>1, <1>2
  <2> QED BY <2>1
<1>7. Latest(T) = Latest(C)
  <2>1. ASSUME NEW n \in T PROVE \E m \in C \cup {0} : n <= m
    <3>1. PICK d \in D : n = Told(d, cut)
      OBVIOUS
    <3>2. n = 0 \/ (n \in {d.recordedPosition, d.retractedPosition} /\ n <= cut)
      BY <1>1, <1>2, <3>1
    <3>3. n \in C \cup {0} /\ n <= n
      BY <1>6, <3>2
    <3> QED BY <3>3, Zenon
  <2>2. ASSUME NEW n \in C PROVE \E m \in T \cup {0} : n <= m
    <3>1. PICK d \in D : n \in {d.recordedPosition, d.retractedPosition} /\ n <= cut
      OBVIOUS
    <3>2. n = -1 \/ n <= Told(d, cut)
      BY <1>1, <1>2, <3>1
    <3>3. Told(d, cut) \in T
      OBVIOUS
    <3>4. 0 \in T \cup {0} /\ (n = -1 => n <= 0)
      OBVIOUS
    <3> QED BY <3>2, <3>3, <3>4
  <2> HIDE DEF T, C
  <2> QED BY <1>1, <1>6, <2>1, <2>2, SameLatest
<1>8. Latest(K) = Latest(C)
  <2>1. ASSUME NEW n \in K PROVE \E m \in C \cup {0} : n <= m
    <3>1. PICK d \in D : n \in {d.recordedPosition, d.retractedPosition} /\ n <= cut
      BY <1>2
    <3>2. n \in C /\ n \in Int
      BY <1>6, <3>1
    <3> QED BY <3>2
  <2>2. ASSUME NEW n \in C PROVE \E m \in K \cup {0} : n <= m
    <3>1. PICK d \in D : n \in {d.recordedPosition, d.retractedPosition} /\ n <= cut
      OBVIOUS
    <3>2. CASE n = d.recordedPosition
      <4>1. n \in K /\ n \in Int
        BY <1>2, <1>6, <3>1, <3>2
      <4> QED BY <4>1
    <3>3. CASE n = d.retractedPosition /\ n # -1
      <4>1. d.recordedPosition <= cut
        BY <1>1, <1>2, <3>1, <3>3
      <4>2. n \in K /\ n \in Int
        BY <1>2, <1>6, <3>1, <3>3, <4>1
      <4> QED BY <4>2
    <3>4. CASE n = -1
      BY <3>4
    <3> QED BY <3>1, <3>2, <3>3, <3>4
  <2> HIDE DEF K, C
  <2> QED BY <1>1, <1>6, <2>1, <2>2, SameLatest
<1> QED BY <1>3, <1>4, <1>5, <1>7, <1>8

\* Where what is valid begins or ends.
Edges(facts) == UNION {{d.validFrom, d.validTo} : d \in facts}
LeftOf(attributes, cut) == {d \in Of(attributes) : LeftBy(d, cut)}

LEMMA ValidityChanges ==
  ASSUME RowsInv, NEW d \in hexFacts, NEW at \in Nat \ {0}
  PROVE  (IsValid(d, at) <=> ~IsValid(d, at - 1)) <=> at = d.validFrom \/ at = d.validTo
<1>1. d.validFrom \in Nat /\ d.validTo \in Nat \cup {-1} /\ (d.validTo # -1 => d.validFrom < d.validTo)
  BY DatesOf DEF NoInstant
<1> DEFINE from == d.validFrom
           to == d.validTo
<1>2. /\ IsValid(d, at) <=> from <= at /\ (to = -1 \/ to > at)
      /\ IsValid(d, at - 1) <=> from <= at - 1 /\ (to = -1 \/ to > at - 1)
  BY DEF IsValid, NoInstant
<1>3. from \in Nat /\ to \in Nat \cup {-1} /\ (to # -1 => from < to)
  BY <1>1
<1> HIDE DEF from, to
<1> QED BY <1>2, <1>3 DEF from, to

LEMMA NextsAgree ==
  ASSUME RowsInv, NEW cut \in 0..hexPosition, NEW at \in Nat, NEW basis \in Bases(cut, at),
         NEW attributes \in SUBSET {f.attribute : f \in HexFacts}
  PROVE  /\ SqlDependencyState(attributes, basis).next = ChangesNext(attributes, cut, at)
         /\ KvDependencyState(attributes, basis).next = ChangesNext(attributes, cut, at)
<1> DEFINE D == Of(attributes)
           C == LeftOf(attributes, cut)
           E == {e \in Edges(C) : e > at}
           Q == {NextEdge(d, at) : d \in C} \ {NoInstant}
<1>1. hexPosition \in Nat /\ cut \in Nat /\ cut <= hexPosition
  BY DEF RowsInv, HexInv, FactsAreNamed
<1>2. C = {d \in D : LeftBy(d, cut)}
  BY DEF LeftOf
<1>3. \A d \in D : d \in hexFacts
  BY DEF Of
<1>4. \A d \in C : d \in hexFacts
  BY <1>2, <1>3
<1>5. SqlDependencyState(attributes, basis).next = Earliest(Q)
  <2>1. basis.validAt = at
    BY DEF Bases
  <2>2. {NextEdge(r, at) : r \in {r \in {r \in sqlTable : r.attribute \in attributes} : RecordedConditions(r, basis)}}
          = {NextEdge(d, at) : d \in C}
    <3>1. {r \in sqlTable : r.attribute \in attributes} = {RowOf(d) : d \in D}
      BY RowsOf
    <3>2. ASSUME NEW d \in D
          PROVE  NextEdge(RowOf(d), at) = NextEdge(d, at) /\ (RecordedConditions(RowOf(d), basis) <=> LeftBy(d, cut))
      <4>1. d \in hexFacts /\ IsDatom(d) /\ IsAsserted(d)
        BY DEF Of, RowsInv, HexInv, FactsAreNamed, FactsAreDated
      <4>2. RowOf(d).validFrom = d.validFrom /\ RowOf(d).validTo = d.validTo
        BY <4>1, RowIsRead
      <4>3. NextEdge(RowOf(d), at) = NextEdge(d, at)
        BY <4>2, Zenon DEF NextEdge
      <4>4. RecordedConditions(RowOf(d), basis) <=> RecordedConditions(d, basis)
        BY <4>1, RowConditions
      <4>5. RecordedConditions(d, basis) <=> LeftBy(d, cut)
        BY <4>1, BasesAgree
      <4> QED BY <4>3, <4>4, <4>5
    <3> HIDE DEF D, C
    <3> QED BY <1>2, <3>1, <3>2
  <2>3. SqlDependencyState(attributes, basis).next =
          Earliest({NextEdge(r, at) : r \in {r \in {r \in sqlTable : r.attribute \in attributes} : RecordedConditions(r, basis)}}
                     \ {NoInstant})
    BY <2>1, Zenon DEF SqlDependencyState
  <2> HIDE DEF C
  <2> QED BY <2>2, <2>3, Zenon
<1>6. KvDependencyState(attributes, basis).next = Earliest(E)
  <2>1. UNION {ScanCollect([entity |-> Nothing, attribute |-> a, value |-> AnyValue], TRUE) : a \in attributes} = D
    BY ScannedFor
  <2> DEFINE datoms == {d \in D : AssertionVisible(d, basis)}
             gone == {d \in datoms : RetractionVisible(d, basis)}
  <2>2. datoms \ gone = C
    <3>1. ASSUME NEW d \in D PROVE (AssertionVisible(d, basis) /\ ~RetractionVisible(d, basis)) <=> LeftBy(d, cut)
      <4>1. /\ AssertionVisible(d, basis) <=> d.recordedPosition <= cut
            /\ RetractionVisible(d, basis) <=> d.retractedPosition # NoInstant /\ d.retractedPosition <= cut
        BY <1>3, BasesAgree
      <4>2. d.recordedPosition \in 1..hexPosition
            /\ (d.retractedPosition = NoInstant \/ d.retractedPosition \in (d.recordedPosition + 1)..hexPosition)
        BY <1>3, DatesOf
      <4> QED BY <1>1, <4>1, <4>2 DEF LeftBy
    <3> HIDE DEF D, C
    <3> QED BY <1>2, <3>1
  <2>3. basis.validAt = at
    BY DEF Bases
  <2>4. KvDependencyState(attributes, basis).next =
          Earliest({e \in UNION {{d.validFrom, d.validTo} : d \in datoms \ gone} : e > at})
    <3> HIDE DEF D
    <3> QED BY <2>1, <2>3 DEF KvDependencyState
  <2> HIDE DEF datoms, gone, C
  <2> QED BY <2>2, <2>4, Zenon DEF Edges
<1>7. ASSUME NEW d \in C
      PROVE  /\ d.validFrom \in Nat /\ d.validTo \in Nat \cup {-1} /\ (d.validTo # -1 => d.validFrom < d.validTo)
             /\ d.validFrom <= LastEdge /\ d.validTo <= LastEdge /\ LastEdge \in Nat
  BY <1>4, DatesOf DEF NoInstant
<1>8. \A e : e \in Edges(C) <=> \E d \in C : e = d.validFrom \/ e = d.validTo
  BY DEF Edges
<1> HIDE DEF C
<1>9. E \in SUBSET Nat /\ Q \in SUBSET Nat
  <2>1. ASSUME NEW d \in C PROVE NextEdge(d, at) \in Nat \cup {-1}
    BY <1>7, <2>1 DEF NextEdge, NoInstant
  <2>2. ASSUME NEW e \in E PROVE e \in Nat
    BY <1>7, <1>8
  <2> QED BY <2>1, <2>2 DEF NoInstant
<1>10. Earliest(Q) = Earliest(E)
  <2>1. ASSUME NEW q \in Q PROVE \E e \in E : e <= q
    <3>1. PICK d \in C : q = NextEdge(d, at) /\ q # -1
      BY DEF NoInstant
    <3>2. (q = d.validFrom \/ q = d.validTo) /\ q > at
      BY <1>7, <3>1 DEF NextEdge, NoInstant
    <3>3. q \in E /\ q \in Nat
      BY <1>8, <1>9, <3>2
    <3> QED BY <3>3
  <2>2. ASSUME NEW e \in E PROVE \E q \in Q : q <= e
    <3>1. PICK d \in C : (e = d.validFrom \/ e = d.validTo) /\ e > at
      BY <1>8
    <3>2. NextEdge(d, at) <= e /\ NextEdge(d, at) # -1
      BY <1>7, <3>1 DEF NextEdge, NoInstant
    <3>3. NextEdge(d, at) \in Q
      BY <3>2 DEF NoInstant
    <3> QED BY <3>2, <3>3
  <2> HIDE DEF Q, E
  <2> QED BY <1>9, <2>1, <2>2, SameEarliest
<1>11. ChangesNext(attributes, cut, at) = Earliest(E)
  <2> DEFINE At(v) == {d \in HeldAt(cut, v) : d.attribute \in attributes}
             S == {v \in (at + 1)..LastEdge : At(v) # At(v - 1)}
  <2>1. ASSUME NEW v \in Nat PROVE At(v) = {d \in C : IsValid(d, v)}
    <3>1. HeldAt(cut, v) = {d \in hexFacts : LeftBy(d, cut) /\ IsValid(d, v)}
      BY HeldIs
    <3> QED BY <3>1 DEF C, LeftOf, Of
  <2>2. ASSUME NEW v \in Nat \ {0} PROVE At(v) # At(v - 1) <=> v \in Edges(C)
    <3>1. At(v) = {d \in C : IsValid(d, v)} /\ At(v - 1) = {d \in C : IsValid(d, v - 1)}
      BY <2>1
    <3>2. \A d \in C : (IsValid(d, v) <=> ~IsValid(d, v - 1)) <=> v = d.validFrom \/ v = d.validTo
      BY <1>4, ValidityChanges
    <3>3. At(v) # At(v - 1) <=> \E d \in C : (IsValid(d, v) <=> ~IsValid(d, v - 1))
      <4> HIDE DEF At
      <4> QED BY <3>1
    <3> QED BY <1>8, <3>2, <3>3
  <2>3. S = E
    <3>1. ASSUME NEW v \in S PROVE v \in E
      <4>1. v \in Nat \ {0} /\ v > at
        BY EdgesHaveALast
      <4> QED BY <2>2, <4>1
    <3>2. ASSUME NEW e \in E PROVE e \in S
      <4>1. e \in Edges(C) /\ e > at /\ e \in Nat
        BY <1>9
      <4>2. e <= LastEdge /\ LastEdge \in Nat
        BY <1>7, <1>8, <4>1
      <4>3. e \in (at + 1)..LastEdge /\ e \in Nat \ {0}
        BY <4>1, <4>2
      <4> QED BY <2>2, <4>1, <4>3
    <3> HIDE DEF S, E
    <3> QED BY <3>1, <3>2
  <2>4. ChangesNext(attributes, cut, at) = Earliest(S)
    BY DEF ChangesNext
  <2> HIDE DEF S, E
  <2> QED BY <2>3, <2>4
<1> QED BY <1>5, <1>6, <1>10, <1>11

-----------------------------------------------------------------------------
\* Every cut is exact.

LEMMA MatchesAre ==
  ASSUME RowsInv, NEW cut \in 0..hexPosition, NEW at \in Nat, NEW basis \in Bases(cut, at), NEW p \in HexPatterns
  PROVE  MatchTemporal(p, Nothing, basis) = {d \in HeldAt(cut, at) : Wants(d, p, Nothing)}
<1>1. ScanCollect(p, TRUE) = {d \in hexFacts : Wants(d, p, Nothing)}
  <2>1. HexInv /\ IsPattern(p) /\ (p.value.type = "number" => p.value.of # <<1, 0>>) /\ TRUE \in BOOLEAN
    BY PatternsAre DEF RowsInv
  <2>2. ScanCollect(p, TRUE) = {d \in hexFacts : Wants(d, p, Nothing) /\ (TRUE \/ d.retractedAt = NoInstant)}
    BY <2>1, ScansAre
  <2> QED BY <2>2
<1>2. \A d \in hexFacts : HexVisibleAt(d, basis) <=> LeftBy(d, cut) /\ IsValid(d, at)
  BY BasesAgree
<1>3. HeldAt(cut, at) = {d \in hexFacts : LeftBy(d, cut) /\ IsValid(d, at)}
  BY HeldIs
<1>4. MatchTemporal(p, Nothing, basis) = {d \in ScanCollect(p, TRUE) : HexVisibleAt(d, basis)}
  BY DEF MatchTemporal, ScanCollectTemporal
<1> QED BY <1>1, <1>2, <1>3, <1>4

LEMMA ReadsAre ==
  ASSUME RowsInv, NEW cut \in 0..hexPosition, NEW at \in Nat, NEW basis \in Bases(cut, at),
         NEW adapter \in Adapter, NEW p \in HexPatterns, Compares(adapter, p.value)
  PROVE  BySql(adapter, p, basis, {d \in HeldAt(cut, at) : Wants(d, p, Nothing)})
<1>1. QueryBy(adapter, p, Nothing, basis) = {d \in hexFacts : Wants(d, p, Nothing) /\ TemporalConditions(d, basis)}
  BY QueriesAre
<1>2. \A d \in hexFacts : TemporalConditions(d, basis) <=> LeftBy(d, cut) /\ IsValid(d, at)
  BY BasesAgree
<1>3. HeldAt(cut, at) = {d \in hexFacts : LeftBy(d, cut) /\ IsValid(d, at)}
  BY HeldIs
<1>4. QueryBy(adapter, p, Nothing, basis) = {d \in HeldAt(cut, at) : Wants(d, p, Nothing)}
  BY <1>1, <1>2, <1>3
<1> QED BY <1>4, Zenon DEF BySql

LEMMA UndatedReadsAre ==
  ASSUME RowsInv, NEW adapter \in Adapter, NEW p \in HexPatterns, Compares(adapter, p.value)
  PROVE  BySql(adapter, p, Undated, {d \in hexFacts : Wants(d, p, Nothing) /\ d.retractedAt = NoInstant})
<1>1. QueryBy(adapter, p, Nothing, Undated) = {d \in hexFacts : Wants(d, p, Nothing) /\ TemporalConditions(d, Undated)}
  BY QueriesAre
<1>2. \A d \in hexFacts : TemporalConditions(d, Undated) <=> d.retractedAt = NoInstant
  <2>1. Undated.position = NoInstant /\ Undated.recordedAt = NoInstant
    BY DEF Undated
  <2> QED BY <2>1, Zenon DEF TemporalConditions, RecordedConditions
<1>3. QueryBy(adapter, p, Nothing, Undated) = {d \in hexFacts : Wants(d, p, Nothing) /\ d.retractedAt = NoInstant}
  BY <1>1, <1>2
<1> QED BY <1>3, Zenon DEF BySql

LEMMA EntitiesAre ==
  ASSUME RowsInv, NEW cut \in 0..hexPosition, NEW at \in Nat, NEW basis \in Bases(cut, at), NEW es
  PROVE  GetByEntities(es, basis) = [e \in es |-> {d \in HeldAt(cut, at) : d.entity = e}]
<1>1. GetByEntities(es, basis) = [e \in es |-> {d \in hexFacts : d.entity = e /\ TemporalConditions(d, basis)}]
  BY LookupsAre
<1>2. \A d \in hexFacts : TemporalConditions(d, basis) <=> LeftBy(d, cut) /\ IsValid(d, at)
  BY BasesAgree
<1>3. HeldAt(cut, at) = {d \in hexFacts : LeftBy(d, cut) /\ IsValid(d, at)}
  BY HeldIs
<1>4. ASSUME NEW e \in es
      PROVE  {d \in hexFacts : d.entity = e /\ TemporalConditions(d, basis)} = {d \in HeldAt(cut, at) : d.entity = e}
  BY <1>2, <1>3
<1> QED BY <1>1, <1>4, Zenon

LEMMA StatesAre ==
  ASSUME RowsInv, NEW cut \in 0..hexPosition, NEW at \in Nat, NEW basis \in Bases(cut, at),
         NEW attributes \in SUBSET {f.attribute : f \in HexFacts},
         NEW state, state = [source |-> ChangedUpTo(attributes, cut), next |-> ChangesNext(attributes, cut, at)]
  PROVE  SqlDependencyState(attributes, basis) = state /\ KvDependencyState(attributes, basis) = state
<1>1. /\ SqlDependencyState(attributes, basis).source = ChangedUpTo(attributes, cut)
      /\ KvDependencyState(attributes, basis).source = ChangedUpTo(attributes, cut)
  BY SourcesAgree
<1>2. /\ SqlDependencyState(attributes, basis).next = ChangesNext(attributes, cut, at)
      /\ KvDependencyState(attributes, basis).next = ChangesNext(attributes, cut, at)
  BY NextsAgree
<1>3. SqlDependencyState(attributes, basis)
        = [source |-> SqlDependencyState(attributes, basis).source, next |-> SqlDependencyState(attributes, basis).next]
  BY DEF SqlDependencyState
<1>4. KvDependencyState(attributes, basis)
        = [source |-> KvDependencyState(attributes, basis).source, next |-> KvDependencyState(attributes, basis).next]
  BY DEF KvDependencyState
<1> QED BY <1>1, <1>2, <1>3, <1>4, Zenon

LEMMA InvImpliesCuts ==
  ASSUME RowsInv
  PROVE  CutsAreExact
<1>1. ASSUME NEW cut \in 0..hexPosition, NEW at \in HexValidAt PROVE CutIsExact(cut, at)
  <2>1. at \in Nat
    BY SqlRowsAssumption
  <2> DEFINE entities == {f.entity : f \in HexFacts}
             All == SUBSET {f.attribute : f \in HexFacts}
             state(attributes) ==
               [source |-> ChangedUpTo(attributes, cut), next |-> ChangesNext(attributes, cut, at)]
             wanted(p) == {d \in HeldAt(cut, at) : Wants(d, p, Nothing)}
  <2>2. ASSUME NEW basis \in Bases(cut, at)
        PROVE  /\ \A p \in HexPatterns :
                    /\ p.value = AnyValue => MatchTemporal(p, Nothing, basis) = wanted(p)
                    /\ \A adapter \in Adapter : Compares(adapter, p.value) => BySql(adapter, p, basis, wanted(p))
               /\ GetByEntities(entities, basis) = [e \in entities |-> {d \in HeldAt(cut, at) : d.entity = e}]
               /\ \A attributes \in All :
                    SqlDependencyState(attributes, basis) = state(attributes)
                    /\ KvDependencyState(attributes, basis) = state(attributes)
    <3>1. ASSUME NEW p \in HexPatterns PROVE MatchTemporal(p, Nothing, basis) = wanted(p)
      BY <2>1, MatchesAre
    <3>2. ASSUME NEW p \in HexPatterns, NEW adapter \in Adapter, Compares(adapter, p.value)
          PROVE  BySql(adapter, p, basis, wanted(p))
      BY <2>1, <3>2, ReadsAre
    <3>3. GetByEntities(entities, basis) = [e \in entities |-> {d \in HeldAt(cut, at) : d.entity = e}]
      <4> HIDE DEF entities
      <4> QED BY <2>1, EntitiesAre
    <3>4. ASSUME NEW attributes \in All
          PROVE  SqlDependencyState(attributes, basis) = state(attributes)
                 /\ KvDependencyState(attributes, basis) = state(attributes)
      BY <2>1, StatesAre, ZenonT(60)
    <3> QED BY <3>1, <3>2, <3>3, <3>4, Zenon
  <2> QED BY <2>2, Zenon DEF CutIsExact
<1>2. \A adapter \in Adapter, p \in HexPatterns : Compares(adapter, p.value) =>
        BySql(adapter, p, Undated, {d \in hexFacts : Wants(d, p, Nothing) /\ d.retractedAt = NoInstant})
  BY UndatedReadsAre
<1> QED BY <1>1, <1>2, Zenon DEF CutsAreExact

\* A read at a commit position, or at the instant of one, is exact over keys and over the
\* rows of each SQL adapter, whatever may be asserted and asked for: the table holds a row
\* for each fact, which is read back as that fact, and the conditions an adapter puts on
\* rows say which of them the commits up to the cut left and are valid (queries.ts,
\* visibleAt).  And both backends tell of any attributes the last position that changed
\* them and the next valid instant at which they change (dependencyState).
THEOREM CutsStayExact == SqlRowsSpec => []CutsAreExact
<1>1. SqlRowsInit => RowsInv
  BY RowsInitially
<1>2. RowsInv /\ [SqlRowsNext]_sqlRowsVars => RowsInv'
  BY RowsStep
<1>3. RowsInv => CutsAreExact
  BY InvImpliesCuts
<1> QED BY <1>1, <1>2, <1>3, PTL DEF SqlRowsSpec
=============================================================================
