--------------------------- MODULE FeedClientsProofs ---------------------------
(***************************************************************************)
(* Proofs about those who follow the changes of a store and about the      *)
(* databases it is kept in: consumers and their checkpoint, subscriptions, *)
(* change watches, the history of an entity, the database manager and the  *)
(* answers kept of a configuration's rules, for any workers, clients,      *)
(* entities, pages, names, rules and inputs.                               *)
(***************************************************************************)
EXTENDS ConsumerCheckpoint, Subscriptions, FdbSubscriptions, EntityHistory, Databases, Decisions,
        FiniteSetTheorems, SequenceTheorems, NaturalLemmas, TLAPS

-----------------------------------------------------------------------------
(* ConsumerCheckpoint: however workers race, stop and lose replies, the    *)
(* checkpoint has one position, never goes back, never passes an           *)
(* unprocessed envelope, and advance answers truthfully.                   *)

\* Some live position is at least, or beyond, p.
Reached(p) == \E m \in marks : m.value >= p
Passed(p) == \E m \in marks : m.value > p

\* w has read a page and does not know the outcome of advancing over it.
Requesting(w) == pc[w] \in Requested \/ answer[w] = "failed"

\* One live position, claimed with the first one, beyond processed envelopes only.
CheckpointInv ==
  /\ \A m, n \in marks : m = n
  /\ \A m \in marks : m.at \in 1..position /\ m.value \in 1..position
  /\ claimed <=> marks # {}
  /\ NothingSkipped

\* The page of w is what lies between its positions, and has been processed.
PageInv(w) ==
  /\ Requesting(w) => /\ IsLastOf(nextp[w], page[w]) /\ expected[w] < nextp[w]
                      /\ \A q \in feed : expected[w] < q /\ q <= nextp[w] => q \in page[w]
  /\ Requesting(w) /\ pc[w] # "process" => page[w] \subseteq processed

\* What w has read of the checkpoint is the stored one or lies behind it.
CursorInv(w) ==
  /\ pc[w] = "page" \/ Requesting(w) => expected[w] = 0 \/ Reached(expected[w])
  /\ pc[w] = "init" => expected[w] = 0
  /\ pc[w] = "move" => /\ loaded[w].value = expected[w]
                       /\ loaded[w] \in marks \/ Passed(expected[w])
  /\ pc[w] = "winner" => Passed(expected[w])
  /\ pc[w] = "stored" => Reached(nextp[w])

AnswerInv(w) ==
  /\ pc[w] # "done" => answer[w] = "none"
  /\ answer[w] \notin {"invalid", "corrupt"}
  /\ answer[w] = "ok" => Reached(nextp[w])
  /\ answer[w] = "conflict" => Passed(expected[w])

WorkerInv(w) == PageInv(w) /\ CursorInv(w) /\ AnswerInv(w)

\* The inductive invariant.
ConsumerInv == TypeOK /\ CheckpointInv /\ \A w \in Worker : WorkerInv(w)

\* What every step does to the checkpoint: a live position stays or gives way to
\* a later one.
Forward == \A m \in marks : m \in marks' \/ \E n \in marks' : n.value > m.value

local(w) == <<pc[w], expected[w], page[w], nextp[w], loaded[w], answer[w]>>

\* With one live position at most the checkpoint is not corrupt, and it is what
\* readLoaded finds.
LEMMA CurrentIsTheMark ==
  ASSUME CheckpointInv
  PROVE  /\ ~Corrupt /\ Cardinality(marks) <= 1
         /\ Absent => Current = NoMark
         /\ ~Absent => Current \in marks /\ marks = {Current}
<1>1. CASE marks = {}
      BY <1>1, FS_EmptySet DEF Corrupt, Absent, Current
<1>2. CASE marks # {}
  <2>1. PICK m \in marks : TRUE
        BY <1>2
  <2>2. marks = {m}
        BY <2>1 DEF CheckpointInv
  <2>3. Cardinality(marks) = 1
        BY <2>2, FS_Singleton
  <2> QED
      BY <2>2, <2>3 DEF Corrupt, Absent, Current
<1> QED
    BY <1>1, <1>2

\* A page leaves out nothing that comes before one of its envelopes.
LEMMA PageIsPrefix ==
  ASSUME TypeOK, NEW p \in Nat, NEW r \in Page(p), NEW q \in After(p), q <= r
  PROVE  q \in Page(p)
<1> DEFINE Upto(x) == {y \in After(p) : y <= x}
<1>1. position \in Nat /\ After(p) \subseteq 1..position
      BY DEF TypeOK, After
<1>2. IsFiniteSet(Upto(r))
      BY <1>1, FS_Interval, FS_Subset, Upto(r) \in SUBSET (1..position)
<1>3. q \in Int /\ r \in Int
      BY <1>1 DEF Page
<1>4. Upto(q) \in SUBSET Upto(r)
      BY <1>1, <1>3
<1>5. /\ Cardinality(Upto(q)) <= Cardinality(Upto(r))
      /\ Cardinality(Upto(q)) \in Nat /\ Cardinality(Upto(r)) \in Nat
      BY <1>2, <1>4, FS_Subset, FS_CardinalityType
<1>6. Cardinality(Upto(r)) <= PageLimit
      BY DEF Page
<1> QED
    BY <1>5, <1>6, CheckpointAssumption DEF Page

\* The initial state satisfies the invariant: nothing is stored or asked.
THEOREM InitInv == Init => ConsumerInv
<1> SUFFICES ASSUME Init PROVE ConsumerInv
    OBVIOUS
<1>1. TypeOK
  <2>1. \A w \in Worker : pc[w] = "idle" /\ loaded[w] \in Mark
        BY DEF Init, Mark, NoMark
  <2>2. 0 \in 0..MaxCrashes /\ 0 \in 0..MaxLost
        BY CheckpointAssumption
  <2> QED
      BY <2>1, <2>2 DEF Init, TypeOK, PC, Mark, NoMark, Requested
<1>2. CheckpointInv
      BY DEF Init, CheckpointInv, NothingSkipped
<1>3. \A w \in Worker : WorkerInv(w)
      BY DEF Init, WorkerInv, PageInv, CursorInv, AnswerInv, Requesting, Requested
<1> QED
    BY <1>1, <1>2, <1>3 DEF ConsumerInv
-----------------------------------------------------------------------------
(* Steps *)

\* A worker is not disturbed by the steps of others: the checkpoint only goes
\* forward and new envelopes lie beyond the current position.
LEMMA OthersUndisturbed ==
  ASSUME ConsumerInv, NEW v \in Worker, UNCHANGED local(v), Forward,
         processed \subseteq processed', marks' \subseteq Mark,
         \A q \in feed' : q \in feed \/ q = position + 1
  PROVE  WorkerInv(v)'
<1> USE DEF ConsumerInv, WorkerInv, TypeOK, local
<1>1. ASSUME NEW p \in Nat
      PROVE  /\ Reached(p) => Reached(p)'
             /\ Passed(p) => Passed(p)'
      BY <1>1 DEF Reached, Passed, Forward, Mark
<1>2. Requesting(v)' <=> Requesting(v)
      BY DEF Requesting
<1>3. expected[v] \in Nat /\ nextp[v] \in Nat /\ expected'[v] = expected[v] /\ nextp'[v] = nextp[v]
      OBVIOUS
<1>4. ASSUME Requesting(v) PROVE nextp[v] < position + 1
      BY <1>4 DEF PageInv, IsLastOf
<1>5. PageInv(v)'
  <2>1. ASSUME Requesting(v), NEW q \in feed', expected[v] < q, q <= nextp[v]
        PROVE  q \in page[v]
    <3>1. q \in feed
          BY <1>3, <1>4, <2>1
    <3>2. PageInv(v)
          OBVIOUS
    <3> QED
        BY <2>1, <3>1, <3>2 DEF PageInv
  <2>2. page'[v] = page[v] /\ (pc'[v] = pc[v])
        OBVIOUS
  <2>3. Requesting(v) => IsLastOf(nextp[v], page[v])' /\ expected'[v] < nextp'[v]
        BY <1>3, <2>2 DEF PageInv, IsLastOf
  <2> QED
      BY <1>2, <1>3, <2>1, <2>2, <2>3 DEF PageInv
<1>6. CursorInv(v)'
  <2>1. ASSUME pc[v] = "move", loaded[v] \in marks
        PROVE  loaded[v] \in marks' \/ Passed(expected[v])'
        BY <2>1 DEF CursorInv, Forward, Passed
  <2> QED
      BY <1>1, <1>2, <1>3, <2>1 DEF CursorInv, Reached, Passed
<1>7. AnswerInv(v)'
      BY <1>1, <1>3 DEF AnswerInv, Reached, Passed
<1> QED
    BY <1>5, <1>6, <1>7

\* A step of w that leaves the store as it is.
LEMMA QuietStep ==
  ASSUME ConsumerInv, NEW w \in Worker, UNCHANGED backend, processed \subseteq processed',
         \A v \in Worker \ {w} : UNCHANGED local(v), TypeOK', WorkerInv(w)'
  PROVE  ConsumerInv'
<1>1. Forward /\ marks' \subseteq Mark /\ \A q \in feed' : q \in feed
      BY DEF backend, Forward, ConsumerInv, TypeOK
<1>2. \A v \in Worker \ {w} : WorkerInv(v)'
      BY <1>1, OthersUndisturbed
<1>3. CheckpointInv'
      BY DEF backend, ConsumerInv, CheckpointInv, NothingSkipped
<1> QED
    BY <1>2, <1>3 DEF ConsumerInv

\* An application's envelope lies beyond the checkpoint and every page.
LEMMA WriteKeepsInv == ASSUME ConsumerInv, Write PROVE ConsumerInv'
<1> USE DEF Write, request, faults
<1>1. TypeOK'
      BY DEF ConsumerInv, TypeOK
<1>2. CheckpointInv'
      BY DEF ConsumerInv, CheckpointInv, NothingSkipped, TypeOK
<1>3. Forward /\ marks' \subseteq Mark
      BY DEF Forward, ConsumerInv, TypeOK
<1>4. \A v \in Worker : WorkerInv(v)'
      BY <1>3, OthersUndisturbed DEF local
<1> QED
    BY <1>1, <1>2, <1>4 DEF ConsumerInv

LEMMA GetKeepsInv == ASSUME ConsumerInv, NEW w \in Worker, Get(w) PROVE ConsumerInv'
<1> USE DEF Get, Goto, faults
<1>1. Current \in Mark /\ (Absent => Current = NoMark) /\ (~Absent => Current \in marks)
      BY CurrentIsTheMark DEF ConsumerInv, TypeOK, Mark, NoMark
<1>2. /\ pc'[w] = "page" /\ answer'[w] = "none" /\ expected'[w] = Current.value
      /\ marks' = marks /\ \A v \in Worker \ {w} : UNCHANGED local(v)
      BY DEF ConsumerInv, TypeOK, backend, local
<1>3. TypeOK'
      BY <1>1, <1>2 DEF ConsumerInv, TypeOK, Mark, PC, backend, Requested
<1>4. WorkerInv(w)'
  <2>1. expected'[w] = 0 \/ Reached(expected[w])'
        BY <1>1, <1>2 DEF Reached, NoMark, Mark
  <2> QED
      BY <1>2, <2>1 DEF WorkerInv, PageInv, CursorInv, AnswerInv, Requesting, Requested
<1> QED
    BY <1>2, <1>3, <1>4, QuietStep

LEMMA ReadPageKeepsInv == ASSUME ConsumerInv, NEW w \in Worker, ReadPage(w) PROVE ConsumerInv'
<1> USE DEF ReadPage, Goto, faults
<1>1. PICK q \in 1..position : /\ IsLastOf(q, Page(expected[w]))
                               /\ nextp' = [nextp EXCEPT ![w] = q]
      OBVIOUS
<1>2. /\ pc'[w] = "process" /\ page'[w] = Page(expected[w]) /\ nextp'[w] = q
      /\ UNCHANGED <<backend, processed, expected[w], answer[w]>>
      /\ \A v \in Worker \ {w} : UNCHANGED local(v)
      BY <1>1 DEF ConsumerInv, TypeOK, local
<1>3. Page(expected[w]) \subseteq feed /\ \A r \in Page(expected[w]) : expected[w] < r
      BY DEF Page, After
<1>4. TypeOK'
      BY <1>1, <1>2, <1>3 DEF ConsumerInv, TypeOK, PC, backend, Requested, IsLastOf
<1>5. WorkerInv(w)'
  <2>1. ASSUME NEW r \in feed, expected[w] < r, r <= q
        PROVE  r \in Page(expected[w])
        BY <1>1, <2>1, PageIsPrefix DEF IsLastOf, ConsumerInv, TypeOK, After
  <2>2. /\ IsLastOf(nextp[w], page[w])' /\ expected'[w] < nextp'[w]
        /\ \A r \in feed' : expected'[w] < r /\ r <= nextp'[w] => r \in page'[w]
        BY <1>1, <1>2, <1>3, <2>1 DEF IsLastOf, backend
  <2>3. expected'[w] = 0 \/ Reached(expected[w])'
        BY <1>2 DEF ConsumerInv, WorkerInv, CursorInv, Reached, backend
  <2>4. answer'[w] = "none"
        BY <1>2 DEF ConsumerInv, WorkerInv, AnswerInv
  <2> QED
      BY <1>2, <2>2, <2>3, <2>4 DEF WorkerInv, PageInv, CursorInv, AnswerInv, Requesting
<1> QED
    BY <1>2, <1>4, <1>5, QuietStep

LEMMA ProcessKeepsInv == ASSUME ConsumerInv, NEW w \in Worker, Process(w) PROVE ConsumerInv'
<1> USE DEF Process, Goto, request
<1>1. /\ pc[w] = "process" /\ pc'[w] = "load" /\ processed' = processed \cup page[w]
      /\ UNCHANGED <<backend, expected, page, nextp, answer>>
      /\ \A v \in Worker \ {w} : UNCHANGED local(v)
      BY DEF ConsumerInv, TypeOK, local
<1>2. TypeOK'
      BY <1>1 DEF ConsumerInv, TypeOK, PC, backend, faults, Requested
<1>3. WorkerInv(w)'
      BY <1>1 DEF ConsumerInv, WorkerInv, PageInv, CursorInv, AnswerInv, Requesting, Requested,
                  Reached, IsLastOf, backend
<1> QED
    BY <1>1, <1>2, <1>3, QuietStep

\* The four outcomes of reading the checkpoint; of a bad request and a corrupt
\* checkpoint there are none.
LEMMA LoadKeepsInv == ASSUME ConsumerInv, NEW w \in Worker, Load(w) PROVE ConsumerInv'
<1> USE DEF Goto, Return
<1>1. /\ pc[w] = "load" /\ answer[w] = "none" /\ WorkerInv(w) /\ loaded'[w] = Current
      /\ UNCHANGED <<backend, processed, faults, request>>
      /\ \A v \in Worker \ {w} : UNCHANGED local(v)
      BY DEF Load, ConsumerInv, TypeOK, WorkerInv, AnswerInv, local, request
<1>2. /\ Current \in Mark /\ ~Corrupt /\ (Absent => Current = NoMark /\ ~claimed)
      /\ ~Absent => Current \in marks /\ marks = {Current}
      BY CurrentIsTheMark DEF ConsumerInv, TypeOK, Mark, NoMark, CheckpointInv, Absent
<1>3. /\ nextp[w] \in page[w] /\ expected[w] < nextp[w] /\ nextp[w] <= position
      /\ expected[w] \in Nat /\ nextp[w] \in Nat /\ position \in Nat
      BY <1>1 DEF ConsumerInv, TypeOK, WorkerInv, PageInv, Requesting, Requested, IsLastOf
<1>4. \/ /\ Absent /\ expected[w] = 0
         /\ pc'[w] = "init" /\ answer'[w] = "none"
      \/ /\ ~Absent /\ Current.value = expected[w]
         /\ pc'[w] = "move" /\ answer'[w] = "none"
      \/ /\ ~Absent /\ Current.value = nextp[w]
         /\ pc'[w] = "done" /\ answer'[w] = "ok"
      \/ /\ Current.value # expected[w]
         /\ pc'[w] = "done" /\ answer'[w] = "conflict"
      BY <1>1, <1>2, <1>3 DEF Load, ConsumerInv, TypeOK, NoMark
<1>5. expected[w] = 0 \/ Reached(expected[w])
      BY <1>1 DEF WorkerInv, CursorInv, Requesting, Requested
<1>6. TypeOK'
      BY <1>1, <1>2, <1>4 DEF Load, ConsumerInv, TypeOK, PC, backend, faults, request, Requested
<1>7. PageInv(w)'
      BY <1>1, <1>4 DEF WorkerInv, PageInv, Requesting, Requested, IsLastOf, backend, request
<1>8. Current.value # expected[w] => Passed(expected[w])
      BY <1>2, <1>3, <1>5 DEF Passed, Reached, Mark, NoMark, Absent
<1>9. CursorInv(w)' /\ AnswerInv(w)'
      BY <1>1, <1>2, <1>3, <1>4, <1>5, <1>8
      DEF CursorInv, AnswerInv, Requesting, Requested, Reached, Passed, backend, request, Mark
<1> QED
    BY <1>1, <1>6, <1>7, <1>9, QuietStep DEF WorkerInv

\* Whoever finds the checkpoint claimed or moved is behind another worker.
LEMMA LostKeepsInv ==
  ASSUME ConsumerInv, NEW w \in Worker, InitializeLost(w) \/ MoveLost(w)
  PROVE  ConsumerInv'
<1> USE DEF InitializeLost, MoveLost, Goto
<1>1. /\ pc[w] \in {"init", "move"} /\ pc'[w] = "winner"
      /\ UNCHANGED <<backend, processed, faults, request, loaded, answer>>
      /\ \A v \in Worker \ {w} : UNCHANGED local(v)
      BY DEF ConsumerInv, TypeOK, local, request
<1>2. TypeOK'
      BY <1>1 DEF ConsumerInv, TypeOK, PC, backend, faults, request, Requested
<1>3. Passed(expected[w])
  <2>1. CASE InitializeLost(w)
        BY <2>1 DEF ConsumerInv, CheckpointInv, TypeOK, WorkerInv, CursorInv, Passed
  <2>2. CASE MoveLost(w)
        BY <2>2 DEF ConsumerInv, WorkerInv, CursorInv
  <2> QED
      BY <2>1, <2>2
<1>4. WorkerInv(w)'
      BY <1>1, <1>3 DEF ConsumerInv, WorkerInv, PageInv, CursorInv, AnswerInv, Requesting,
                        Requested, Reached, Passed, IsLastOf, backend, request
<1> QED
    BY <1>1, <1>2, <1>4, QuietStep

LEMMA AnswerKeepsInv ==
  ASSUME ConsumerInv, NEW w \in Worker, Winner(w) \/ Stored(w)
  PROVE  ConsumerInv'
<1> USE DEF Goto, Return
<1>1. /\ pc[w] \in {"winner", "stored"} /\ answer[w] = "none"
      /\ UNCHANGED <<backend, processed, faults, request, loaded>>
      /\ \A v \in Worker \ {w} : UNCHANGED local(v)
      BY DEF Winner, Stored, ConsumerInv, TypeOK, WorkerInv, AnswerInv, local, request
<1>2. ~Corrupt /\ (~Absent => Current \in marks)
      BY CurrentIsTheMark DEF ConsumerInv
<1>3. /\ pc[w] = "winner" => Passed(expected[w])
      /\ pc[w] = "stored" => Reached(nextp[w])
      BY DEF ConsumerInv, WorkerInv, CursorInv
<1>4. \/ /\ Reached(nextp[w])
         /\ <<pc'[w], answer'[w]>> \in {<<"stored", "none">>, <<"done", "ok">>}
      \/ /\ Passed(expected[w])
         /\ pc'[w] = "done" /\ answer'[w] = "conflict"
  <2>1. CASE Winner(w)
    <3>1. nextp[w] \in Nat /\ (~Absent /\ Current.value = nextp[w] => Reached(nextp[w]))
          BY <1>2 DEF ConsumerInv, TypeOK, Reached
    <3>2. \/ /\ ~Absent /\ Current.value = nextp[w]
             /\ pc' = [pc EXCEPT ![w] = "stored"] /\ answer' = answer
          \/ pc' = [pc EXCEPT ![w] = "done"] /\ answer' = [answer EXCEPT ![w] = "conflict"]
          BY <1>2, <2>1 DEF Winner
    <3> QED
        BY <1>1, <1>3, <2>1, <3>1, <3>2 DEF Winner, ConsumerInv, TypeOK
  <2>2. CASE Stored(w)
        BY <1>1, <1>2, <1>3, <2>2 DEF Stored, ConsumerInv, TypeOK, Reached, Absent
  <2> QED
      BY <2>1, <2>2
<1>5. TypeOK'
      BY <1>1, <1>4 DEF Winner, Stored, ConsumerInv, TypeOK, PC, backend, faults, request, Requested
<1>6. WorkerInv(w)'
      BY <1>1, <1>4 DEF ConsumerInv, WorkerInv, PageInv, CursorInv, AnswerInv, Requesting,
                        Requested, Reached, Passed, IsLastOf, backend, request
<1> QED
    BY <1>1, <1>5, <1>6, QuietStep

LEMMA RestartKeepsInv ==
  ASSUME ConsumerInv, NEW w \in Worker, Crash(w) \/ Retry(w)
  PROVE  ConsumerInv'
<1> USE DEF Crash, Retry, Goto
<1>1. /\ UNCHANGED <<backend, processed, lost, request, loaded>>
      /\ \/ /\ pc[w] # "done"
            /\ pc'[w] = "idle" /\ answer'[w] = answer[w]
         \/ /\ pc[w] = "done" /\ answer[w] = "failed"
            /\ pc'[w] = "load" /\ answer'[w] = "none"
      /\ \A v \in Worker \ {w} : UNCHANGED local(v)
      BY DEF ConsumerInv, TypeOK, local, request, faults
<1>2. crashes' \in 0..MaxCrashes
      BY CheckpointAssumption DEF ConsumerInv, TypeOK, faults
<1>3. WorkerInv(w)'
      BY <1>1 DEF ConsumerInv, WorkerInv, PageInv, CursorInv, AnswerInv, Requesting,
                  Requested, Reached, Passed, IsLastOf, backend, request
<1>4. TypeOK'
      BY <1>1, <1>2, <1>3
      DEF ConsumerInv, TypeOK, PC, backend, request, WorkerInv, PageInv, Requesting, Requested,
          IsLastOf
<1> QED
    BY <1>1, <1>3, <1>4, QuietStep

\* The first write and a compare-and-retract both leave exactly the position of
\* w's request, which lies beyond what they found, and whose page is processed.
LEMMA CommitKeepsInv ==
  ASSUME ConsumerInv, NEW w \in Worker, Initialize(w) \/ Move(w)
  PROVE  ConsumerInv' /\ Forward
<1> DEFINE mark == [at |-> position + 1, value |-> nextp[w]]
<1> USE DEF Initialize, Move, CommitMark
<1>1. /\ pc[w] \in {"init", "move"} /\ answer[w] = "none"
      /\ position' = position + 1 /\ feed' = feed /\ claimed' = TRUE
      /\ UNCHANGED <<processed, crashes, request, loaded>>
      BY DEF ConsumerInv, CheckpointInv, WorkerInv, AnswerInv
<1>2. /\ <<pc'[w], answer'[w]>> \in {<<"stored", "none">>, <<"done", "failed">>}
      /\ lost' \in 0..MaxLost
      /\ pc' \in [Worker -> PC] /\ pc' = [pc EXCEPT ![w] = pc'[w]]
      /\ answer' = [answer EXCEPT ![w] = answer'[w]]
  <2>1. /\ pc \in [Worker -> PC] /\ lost \in 0..MaxLost /\ MaxLost \in Nat
        /\ answer = [v \in Worker |-> answer[v]]
        BY CheckpointAssumption DEF ConsumerInv, TypeOK
  <2>2. \/ /\ pc' = [pc EXCEPT ![w] = "stored"] /\ lost' = lost /\ answer' = answer
        \/ /\ pc' = [pc EXCEPT ![w] = "done"] /\ lost < MaxLost /\ lost' = lost + 1
           /\ answer' = [answer EXCEPT ![w] = "failed"]
        BY DEF Committed, Goto, Return
  <2>3. lost' \in 0..MaxLost
        BY <2>1, <2>2
  <2>4. answer' = [answer EXCEPT ![w] = answer'[w]]
        BY <2>1, <2>2
  <2> QED
      BY <1>1, <2>1, <2>2, <2>3, <2>4 DEF PC
<1>3. \A v \in Worker \ {w} : UNCHANGED local(v)
      BY <1>1, <1>2 DEF ConsumerInv, TypeOK, local, request
<1>4. /\ IsLastOf(nextp[w], page[w]) /\ expected[w] < nextp[w]
      /\ \A q \in feed : expected[w] < q /\ q <= nextp[w] => q \in page[w]
      /\ page[w] \subseteq processed
      /\ nextp[w] \in 1..position /\ position \in Nat /\ expected[w] \in Nat
      BY <1>1 DEF ConsumerInv, TypeOK, WorkerInv, PageInv, Requesting, Requested, IsLastOf
<1>5. /\ pc[w] = "init" => marks = {} /\ expected[w] = 0
      /\ pc[w] = "move" => marks = {loaded[w]} /\ loaded[w].value = expected[w]
      BY DEF ConsumerInv, CheckpointInv, WorkerInv, CursorInv
<1>6. marks' = {mark}
      BY <1>1, <1>5
<1>7. Forward
      BY <1>1, <1>4, <1>5, <1>6 DEF Forward
<1>8. NothingSkipped'
  <2> SUFFICES ASSUME NEW q \in feed, q <= nextp[w] PROVE q \in processed
      BY <1>1, <1>6 DEF NothingSkipped
  <2>1. CASE expected[w] < q
        BY <1>4, <2>1
  <2>2. CASE ~(expected[w] < q)
    <3>1. q \in Nat /\ q >= 1 /\ q <= expected[w]
          BY <1>4, <2>2 DEF ConsumerInv, TypeOK
    <3> QED
        BY <1>1, <1>4, <1>5, <3>1 DEF ConsumerInv, CheckpointInv, NothingSkipped
  <2> QED
      BY <2>1, <2>2
<1>9. CheckpointInv'
      BY <1>1, <1>4, <1>6, <1>8 DEF CheckpointInv
<1>10. TypeOK'
  <2>1. marks' \subseteq Mark /\ position' \in Nat
        BY <1>1, <1>4, <1>6 DEF Mark
  <2>2. nextp'[w] \in page'[w] /\ UNCHANGED <<nextp, page, expected>>
        BY <1>1, <1>4 DEF IsLastOf, request
  <2>3. feed' \subseteq 1..position' /\ processed' \subseteq feed'
        BY <1>1, <1>4 DEF ConsumerInv, TypeOK
  <2>4. \A v \in Worker : pc'[v] \in Requested => nextp'[v] \in page'[v]
        BY <1>2, <2>2 DEF ConsumerInv, TypeOK
  <2>5. answer' \in [Worker -> {"none", "ok", "conflict", "invalid", "corrupt", "failed"}]
        BY <1>2 DEF ConsumerInv, TypeOK
  <2> QED
      BY <1>1, <1>2, <2>1, <2>2, <2>3, <2>4, <2>5 DEF ConsumerInv, TypeOK
<1>11. WorkerInv(w)'
  <2>1. Reached(nextp[w])'
        BY <1>1, <1>4, <1>6 DEF Reached, request
  <2>2. Reached(expected[w])'
        BY <1>1, <1>4, <1>6 DEF Reached, request
  <2>3. PageInv(w)'
        BY <1>1, <1>2, <1>4 DEF PageInv, IsLastOf, request
  <2>4. CursorInv(w)' /\ AnswerInv(w)'
        BY <1>2, <2>1, <2>2 DEF CursorInv, AnswerInv
  <2> QED
      BY <2>3, <2>4 DEF WorkerInv
<1>12. \A v \in Worker \ {w} : WorkerInv(v)'
  <2>1. marks' \subseteq Mark
        BY <1>10 DEF TypeOK
  <2> QED
      BY <1>1, <1>3, <1>7, <2>1, OthersUndisturbed
<1> QED
    BY <1>7, <1>9, <1>10, <1>11, <1>12 DEF ConsumerInv

\* A step that changes nothing keeps the invariant.
LEMMA StutterKeepsInv == ASSUME ConsumerInv, UNCHANGED vars PROVE ConsumerInv'
<1> USE DEF vars, backend, faults, request
<1>1. TypeOK' /\ CheckpointInv'
      BY DEF ConsumerInv, TypeOK, CheckpointInv, NothingSkipped
<1>2. \A w \in Worker : WorkerInv(w)'
      BY DEF ConsumerInv, WorkerInv, PageInv, CursorInv, AnswerInv, Requesting, Reached, Passed,
             IsLastOf
<1> QED
    BY <1>1, <1>2 DEF ConsumerInv

\* Every step keeps the invariant and takes the checkpoint forward.
THEOREM StepKeepsInv == ConsumerInv /\ [Next]_vars => ConsumerInv' /\ Forward
<1> SUFFICES ASSUME ConsumerInv, [Next]_vars PROVE ConsumerInv' /\ Forward
    OBVIOUS
<1>1. CASE UNCHANGED vars \/ Quiet
  <2>1. UNCHANGED vars
        BY <1>1 DEF Quiet
  <2> QED
      BY <2>1, StutterKeepsInv DEF vars, backend, Forward
<1>2. CASE Write
      BY <1>2, WriteKeepsInv DEF Write, Forward
<1>3. ASSUME NEW w \in Worker, Initialize(w) \/ Move(w)
      PROVE  ConsumerInv' /\ Forward
      BY <1>3, CommitKeepsInv
<1>4. ASSUME NEW w \in Worker, Get(w)
      PROVE  ConsumerInv' /\ Forward
      BY <1>4, GetKeepsInv DEF Get, backend, Forward
<1>5. ASSUME NEW w \in Worker, ReadPage(w)
      PROVE  ConsumerInv' /\ Forward
      BY <1>5, ReadPageKeepsInv DEF ReadPage, backend, Forward
<1>6. ASSUME NEW w \in Worker, Process(w)
      PROVE  ConsumerInv' /\ Forward
      BY <1>6, ProcessKeepsInv DEF Process, backend, Forward
<1>7. ASSUME NEW w \in Worker, Load(w)
      PROVE  ConsumerInv' /\ Forward
      BY <1>7, LoadKeepsInv DEF Load, backend, Forward
<1>8. ASSUME NEW w \in Worker, InitializeLost(w) \/ MoveLost(w)
      PROVE  ConsumerInv' /\ Forward
      BY <1>8, LostKeepsInv DEF InitializeLost, MoveLost, backend, Forward
<1>9. ASSUME NEW w \in Worker, Winner(w) \/ Stored(w)
      PROVE  ConsumerInv' /\ Forward
      BY <1>9, AnswerKeepsInv DEF Winner, Stored, backend, Forward
<1>10. ASSUME NEW w \in Worker, Crash(w) \/ Retry(w)
       PROVE  ConsumerInv' /\ Forward
       BY <1>10, RestartKeepsInv DEF Crash, Retry, backend, Forward
<1> QED
    BY <1>1, <1>2, <1>3, <1>4, <1>5, <1>6, <1>7, <1>8, <1>9, <1>10 DEF Next, WorkerStep
-----------------------------------------------------------------------------
(* Theorems *)

\* ConsumerInv holds throughout: what workers of one consumer know of the
\* checkpoint and of their pages stays true whatever the others do.
THEOREM Inductive == Spec => []ConsumerInv
<1>1. ConsumerInv /\ [Next]_vars => ConsumerInv'
      BY StepKeepsInv
<1> QED
    BY <1>1, InitInv, PTL DEF Spec

\* Every variable keeps its type and a request names envelopes of the feed.
THEOREM TypeCorrect == Spec => []TypeOK
<1>1. ConsumerInv => TypeOK
      BY DEF ConsumerInv
<1> QED
    BY <1>1, Inductive, PTL

\* Concurrent first writes and moves never leave two live positions, and no call
\* of advance finds the checkpoint corrupt or its request invalid.
THEOREM CheckpointHasOnePosition == Spec => []OneLivePosition
<1>1. ConsumerInv => OneLivePosition
      BY CurrentIsTheMark DEF ConsumerInv, OneLivePosition, WorkerInv, AnswerInv
<1> QED
    BY <1>1, Inductive, PTL

\* Delivery is at least once: advance never acknowledges an envelope that no
\* worker has processed, whatever restarts and whatever reply is lost.
THEOREM NoEnvelopeIsSkipped == Spec => []NothingSkipped
<1>1. ConsumerInv => NothingSkipped
      BY DEF ConsumerInv, CheckpointInv
<1> QED
    BY <1>1, Inductive, PTL

\* What advance answers is so: "ok" means acknowledged, "conflict" overtaken.
THEOREM AnswersCanBeTrusted == Spec => []AnswersAreTrue
<1>1. ConsumerInv => AnswersAreTrue
      BY DEF ConsumerInv, WorkerInv, AnswerInv, AnswersAreTrue, Reached, Passed
<1> QED
    BY <1>1, Inductive, PTL

\* No step takes the checkpoint back.
THEOREM CheckpointNeverMovesBack == Spec => NeverMovesBack
<1>1. ConsumerInv /\ [Next]_vars =>
        [\A m \in marks : \E n \in marks' : n.value >= m.value]_vars
  <2> SUFFICES ASSUME ConsumerInv, Forward, ConsumerInv',
                      NEW m \in marks
               PROVE  \E n \in marks' : n.value >= m.value
      BY StepKeepsInv
  <2>1. marks \subseteq Mark /\ marks' \subseteq Mark
        BY DEF ConsumerInv, TypeOK
  <2> QED
      BY <2>1 DEF Forward, Mark
<1> QED
    BY <1>1, Inductive, PTL DEF Spec, NeverMovesBack

-----------------------------------------------------------------------------
(* Subscriptions: what the filters keep of the changes that a query reads, *)
(* and what the hub keeps of those who are connected.                      *)

AnyQuery == [patterns : SUBSET Pattern, arguments : SUBSET SubscribedEntity]

-----------------------------------------------------------------------------
\* The filters.

LEMMA AttributesAreNoVariables == \A a \in QueryAttribute : a # Var
BY DEF QueryAttribute, TypeOfAttribute, Var

\* The pattern that matches leaves its attribute in the dependencies, or has a
\* variable there (extract-dependencies.ts).
LEMMA ReadPatternsAreDependencies ==
  ASSUME NEW q \in AnyQuery, Named(q), NEW x \in Change, NEW p \in q.patterns,
         p.attribute \in {Var, x.attribute}
  PROVE  \/ p.attribute = Var /\ ExtractDependencies(q).dynamic
         \/ /\ p.attribute = x.attribute /\ p.attribute # Var /\ HasColon(p.attribute)
            /\ x.attribute \in ExtractDependencies(q).attributes
<1>1. CASE p.attribute = Var
  BY <1>1 DEF ExtractDependencies
<1>2. CASE p.attribute # Var
  <2>1. p.attribute = x.attribute /\ HasColon(p.attribute)
    BY <1>2 DEF Named
  <2>2. x.attribute \in ExtractDependencies(q).attributes
    BY <1>2, <2>1 DEF ExtractDependencies
  <2>3. QED BY <1>2, <2>1, <2>2
<1>3. QED BY <1>1, <1>2

\* checkInvalidation passes every change that a pattern of the query matches.
LEMMA InvalidationPasses ==
  ASSUME NEW q \in AnyQuery, Discoverable(q), NEW x \in Change, Reads(q, x)
  PROVE  CheckInvalidation(ExtractDependencies(q), x)
<1> DEFINE d == ExtractDependencies(q)
           type == TypeOfAttribute[x.attribute]
<1>1. Named(q) /\ (d.dynamic => d.types = {} /\ (d.attributes = {} \/ q.arguments = {}))
  BY DEF Discoverable
<1>2. PICK p \in q.patterns : p.attribute \in {Var, x.attribute} /\ p.entity \in {Var, x.entity}
  BY DEF Reads
<1>3. CASE p.attribute = Var
  <2>1. d.dynamic
    BY <1>3 DEF ExtractDependencies
  <2>2. d.types = {}
    BY <1>1, <2>1
  <2>3. d.attributes # {} => d.boundTypes = {}
    <3>1. SUFFICES ASSUME d.attributes # {} PROVE d.boundTypes = {}
      OBVIOUS
    <3>2. q.arguments = {}
      BY <1>1, <2>1, <3>1
    <3>3. \A r \in q.patterns : ~ (r.attribute # Var /\ HasColon(r.attribute) /\ Typed(r.attribute))
      BY <2>2 DEF ExtractDependencies
    <3>4. QED BY <3>2, <3>3 DEF ExtractDependencies
  <2>4. QED
    BY <2>1, <2>2, <2>3 DEF CheckInvalidation, ScopedTo
<1>4. CASE p.attribute # Var
  <2>1. p.attribute = x.attribute /\ HasColon(p.attribute) /\ x.attribute \in d.attributes
    BY <1>1, <1>2, <1>4, ReadPatternsAreDependencies
  <2>2. type # "none" => type \in d.types
    BY <1>4, <2>1 DEF ExtractDependencies, Typed
  <2>3. type # "none" /\ type \notin d.unboundTypes => p.entity # Var
    BY <1>4, <2>1 DEF ExtractDependencies, Typed
  <2>4. p.entity # Var => x.entity \in d.boundIds
    BY <1>2, <1>4, <2>1 DEF ExtractDependencies
  <2>5. QED
    BY <2>1, <2>2, <2>3, <2>4 DEF CheckInvalidation, ScopedTo
<1>5. QED BY <1>3, <1>4

\* The topic tree finds the subscription under a topic of every such change.
LEMMA TopicsMeet ==
  ASSUME NEW q \in AnyQuery, Discoverable(q), NEW x \in Change, Reads(q, x)
  PROVE  TopicsFor(ExtractDependencies(q)) \cap CandidateTopics(x) # {}
<1> DEFINE d == ExtractDependencies(q)
<1>1. Named(q) /\ (d.dynamic => d.types = {})
  BY DEF Discoverable
<1>2. PICK p \in q.patterns : p.attribute \in {Var, x.attribute}
  BY DEF Reads
<1>3. CASE d.dynamic
  <2>1. <<"*", "*">> \in TopicsFor(d)
    BY <1>1, <1>3 DEF TopicsFor
  <2>2. QED BY <2>1 DEF CandidateTopics
<1>4. CASE x.attribute \in d.attributes
  <2>1. <<TopicType(x.attribute), x.attribute>> \in TopicsFor(d)
    BY <1>4 DEF TopicsFor
  <2>2. QED BY <2>1 DEF CandidateTopics
<1>5. QED BY <1>1, <1>2, <1>3, <1>4, ReadPatternsAreDependencies

\* The keys an event sets in FoundationDB meet the keys its readers watch.
LEMMA KeysAlwaysMeet ==
  ASSUME NEW q \in AnyQuery, Named(q)
  PROVE  KeysMeet(q)
<1> DEFINE d == ExtractDependencies(q)
<1>1. SUFFICES ASSUME NEW x \in Change, Reads(q, x)
               PROVE  KeysForChange(x) \cap KeysForDependencies(d) # {}
  BY DEF KeysMeet
<1>2. PICK p \in q.patterns : p.attribute \in {Var, x.attribute}
  BY <1>1 DEF Reads
<1>3. CASE d.dynamic
  <2>1. <<"global">> \in KeysForDependencies(d)
    BY <1>3 DEF KeysForDependencies
  <2>2. QED BY <2>1 DEF KeysForChange
<1>4. CASE x.attribute \in d.attributes
  <2>1. <<"attr", x.attribute>> \in KeysForDependencies(d)
    BY <1>4 DEF KeysForDependencies
  <2>2. QED BY <2>1 DEF KeysForChange
<1>5. QED BY <1>2, <1>3, <1>4, ReadPatternsAreDependencies

-----------------------------------------------------------------------------
\* The hub.

\* What a registry and its tree are when those who are connected have filled them.
Sound(reg, connected) ==
  /\ \A s \in DOMAIN reg.queries : s[1] \in connected /\ reg.queries[s] \in HubQuery
  /\ {e.id : e \in reg.tree} = DOMAIN reg.queries

HubInv ==
  /\ Sound(Registered, clients)
  /\ listed => clients # {} \/ timer

LEMMA EveryQueryHasATopic == \A d : TopicsFor(d) # {}
BY DEF TopicsFor

LEMMA RegisterKeepsSound ==
  ASSUME NEW reg, NEW tree, NEW connected, NEW c \in connected, NEW i, NEW q \in HubQuery,
         Sound([queries |-> reg, tree |-> tree], connected)
  PROVE  Sound(Register(reg, tree, Id(c, i), q), connected)
<1> DEFINE s == Id(c, i)
           r == Register(reg, tree, s, q)
           topics == TopicsFor(ExtractDependencies(q))
<1>1. r.queries = [t \in DOMAIN reg \cup {s} |-> IF t = s THEN q ELSE reg[t]]
      /\ r.tree = {e \in tree : e.id # s} \cup {[topic |-> t, id |-> s] : t \in topics}
  BY DEF Register
<1>2. \A t \in DOMAIN r.queries : t[1] \in connected /\ r.queries[t] \in HubQuery
  BY <1>1 DEF Sound, Id
<1>3. {e.id : e \in {[topic |-> t, id |-> s] : t \in topics}} = {s}
  <2> HIDE DEF s, topics
  <2>1. PICK t \in topics : TRUE
    BY EveryQueryHasATopic DEF topics
  <2>2. \A u \in topics : [topic |-> u, id |-> s].id = s
    OBVIOUS
  <2>3. QED BY <2>1, <2>2
<1>4. {e.id : e \in {e \in tree : e.id # s}} = DOMAIN reg \ {s}
  BY DEF Sound
<1>5. {e.id : e \in r.tree} = (DOMAIN reg \ {s}) \cup {s}
  BY <1>1, <1>3, <1>4
<1>6. QED BY <1>1, <1>2, <1>5 DEF Sound

LEMMA RemovalKeepsSound ==
  ASSUME NEW c, Sound(Registered, clients)
  PROVE  Sound(RemoveConnection(c), clients \ {c})
<1>1. DOMAIN RemoveConnection(c).queries = {s \in DOMAIN registered : s[1] # c}
  BY DEF RemoveConnection, Without, SubscriptionsOf, Subscriptions
<1>2. \A s \in DOMAIN RemoveConnection(c).queries : RemoveConnection(c).queries[s] = registered[s]
  BY <1>1 DEF RemoveConnection, Without
<1>3. {e.id : e \in RemoveConnection(c).tree} = {s \in DOMAIN registered : s[1] # c}
  BY DEF RemoveConnection, Sound, Registered
<1>4. QED BY <1>1, <1>2, <1>3 DEF Sound, Registered

LEMMA DisconnectingKeepsSound ==
  ASSUME NEW gone, NEW connected, NEW reg, NEW late,
         Sound(reg, connected), Disconnected(gone, connected, reg, late)
  PROVE  /\ Sound(Registered, clients)'
         /\ listed' => clients' # {} \/ late
<1>1. DOMAIN registered' = {s \in DOMAIN reg.queries : s[1] \notin gone}
  BY DEF Disconnected, Without
<1>2. \A s \in DOMAIN registered' : s[1] \in clients' /\ registered'[s] \in HubQuery
  BY <1>1 DEF Disconnected, Without, Sound
<1>3. {e.id : e \in topicTree'} = DOMAIN registered'
  BY <1>1 DEF Disconnected, Sound
<1>4. QED BY <1>2, <1>3 DEF Disconnected, Sound, Registered

LEMMA HubInvInit == HubInit => HubInv
BY DEF HubInit, HubInv, Sound, Registered

LEMMA HubInvStep == HubInv /\ [HubNext]_hubVars => HubInv'
<1> SUFFICES ASSUME HubInv, [HubNext]_hubVars PROVE HubInv'
  OBVIOUS
<1>0. Sound(Registered, clients) /\ (listed => clients # {} \/ timer)
  BY DEF HubInv
<1>a. ASSUME NEW c \in Connection, NEW reg, Sound(reg, clients \cup {c}), Opened(c, reg) PROVE HubInv'
  BY <1>a, DisconnectingKeepsSound DEF Opened, HubInv
<1>1. ASSUME NEW c \in Connection, Connect(c) PROVE HubInv'
  <2>1. Sound(RemoveConnection(c), clients \cup {c})
    BY <1>0, RemovalKeepsSound DEF Sound
  <2>2. QED BY <1>1, <1>a, <2>1 DEF Connect
<1>2. ASSUME NEW c \in Connection, NEW i \in QueryId, Resume(c, i) PROVE HubInv'
  <2> DEFINE reg == RemoveConnection(c)
  <2>1. PICK q \in HubQuery : Opened(c, Register(reg.queries, reg.tree, Id(c, i), q))
    BY <1>2 DEF Resume
  <2>2. Sound([queries |-> reg.queries, tree |-> reg.tree], clients \cup {c})
    BY <1>0, RemovalKeepsSound DEF Sound
  <2>3. Sound(Register(reg.queries, reg.tree, Id(c, i), q), clients \cup {c})
    BY <2>2, RegisterKeepsSound
  <2>4. QED BY <2>1, <2>3, <1>a
<1>3. ASSUME NEW c \in Connection, Disconnect(c) PROVE HubInv'
  BY <1>0, <1>3, DisconnectingKeepsSound DEF Disconnect, HubInv
<1>4. ASSUME NEW c \in Connection, NEW i \in QueryId, Subscribe(c, i) PROVE HubInv'
  <2>1. PICK q \in HubQuery, fails \in BOOLEAN :
          Disconnected(IF fails THEN {c} ELSE {}, clients, Register(registered, topicTree, Id(c, i), q), timer)
    BY <1>4 DEF Subscribe
  <2>2. Sound(Register(registered, topicTree, Id(c, i), q), clients)
    BY <1>0, <1>4, RegisterKeepsSound DEF Subscribe, Registered
  <2>3. timer' = timer
    BY <1>4 DEF Subscribe
  <2>4. QED BY <2>1, <2>2, <2>3, DisconnectingKeepsSound DEF HubInv
<1>5. ASSUME NEW c \in Connection, NEW i \in QueryId, Unsubscribe(c, i) PROVE HubInv'
  <2>1. /\ DOMAIN registered' = DOMAIN registered \ {Id(c, i)}
        /\ \A s \in DOMAIN registered' : registered'[s] = registered[s]
    BY <1>5 DEF Unsubscribe, Without
  <2>2. {e.id : e \in topicTree'} = DOMAIN registered'
    BY <1>0, <1>5, <2>1 DEF Unsubscribe, Sound, Registered
  <2>3. Sound(Registered, clients)'
    BY <1>0, <1>5, <2>1, <2>2 DEF Unsubscribe, Sound, Registered
  <2>4. QED BY <1>0, <1>5, <2>3 DEF Unsubscribe, HubInv
<1>6. ASSUME NEW x \in HubChange, Emit(x) PROVE HubInv'
  BY <1>0, <1>6 DEF Emit, HubInv, Sound, Registered
<1>7. ASSUME Flush PROVE HubInv'
  BY <1>0, <1>7, DisconnectingKeepsSound DEF Flush, HubInv
<1>8. ASSUME Dispose PROVE HubInv'
  BY <1>8 DEF Dispose, HubInv, Sound, Registered
<1>9. ASSUME UNCHANGED hubVars PROVE HubInv'
  BY <1>0, <1>9 DEF hubVars, HubInv, Sound, Registered
<1>10. QED
  BY <1>1, <1>2, <1>3, <1>4, <1>5, <1>6, <1>7, <1>8, <1>9 DEF HubNext

LEMMA HubInductive == HubSpec => []HubInv
BY HubInvInit, HubInvStep, PTL DEF HubSpec

-----------------------------------------------------------------------------
\* Whoever connects, subscribes, fails or is disposed of, in whatever order: a database
\* is listed only while somebody is connected or a flush is due, every subscription belongs
\* to somebody connected, and the topic tree holds the subscriptions that are registered
\* and no others, for any connections, queries and changes (SyncHub.ts, TopicTree.ts).
THEOREM NothingIsLeftBehind == HubSpec => []NothingOutlivesItsClients
<1>1. HubInv => NothingOutlivesItsClients
  BY DEF HubInv, Sound, Registered, NothingOutlivesItsClients, Subscriptions
<1>2. QED BY <1>1, HubInductive, PTL

\* For every set of queries over the sample of attributes and entities: neither filter
\* drops a change that a pattern of a subscribed query matches, and the keys of the change
\* meet those of the query (invalidation.ts, TopicTree.ts, FdbSubscriptions.ts).
THEOREM FiltersDropNothingRead == HubSpec => []FiltersKeepWhatIsRead
<1>1. HubInv => FiltersKeepWhatIsRead
  <2>1. SUFFICES ASSUME HubInv, NEW s \in DOMAIN registered
                 PROVE  /\ Discoverable(registered[s]) => FiltersKeep(registered[s])
                        /\ Named(registered[s]) => KeysMeet(registered[s])
    BY DEF FiltersKeepWhatIsRead, Subscriptions
  <2>2. registered[s] \in AnyQuery
    BY <2>1, SubscriptionAssumption DEF HubInv, Sound, Registered, AnyQuery
  <2>3. Discoverable(registered[s]) => FiltersKeep(registered[s])
    BY <2>2, InvalidationPasses, TopicsMeet DEF FiltersKeep
  <2>4. QED BY <2>2, <2>3, KeysAlwaysMeet
<1>2. QED BY <1>1, HubInductive, PTL

-----------------------------------------------------------------------------
(* Databases: no connection that is closed stays in the cache, and no      *)
(* access entry outlives the name it is for.                               *)
(*                                                                         *)
(* A connection has one owner after another.  Whoever builds it holds it   *)
(* alone; once cached it is cached under one name; and whoever has read    *)
(* the cache in order to close what is there knows it by that same name.   *)
(* So the name under which a connection is closed is the one from which    *)
(* the closing fibre goes on to remove it.                                 *)

Built == 1..connections
Step == {"idle", "find", "build", "cache", "count", "open", "counted", "register", "insert",
         "delete", "close", "remove", "unregister", "drop", "closeAll", "clearAccess",
         "clearNames", "dropAll", "cleanup", "cleaned", "grant", "clear"}
Call == [at : Step, name : Name, then : {"return", "clear", "register"},
         holds : Built \cup {NoConnection}, closing : [Name -> Built \cup {NoConnection}]]

DatabasesTypeOK ==
  /\ connections \in Nat /\ closed \subseteq Built
  /\ cached \in [Name -> Built \cup {NoConnection}]
  /\ call \in [Fibre -> Call]

(* A fibre that has built a connection and has not given it away yet.      *)
Owns(f) == call[f].at \in {"cache", "counted"}

Owned ==
  \A f \in Fibre : Owns(f) =>
    /\ call[f].holds \in Built \ closed
    /\ \A n \in Name : cached[n] # call[f].holds
    /\ \A g \in Fibre : /\ g # f /\ Owns(g) => call[g].holds # call[f].holds
                        /\ \A n \in Name : call[g].closing[n] # call[f].holds

OneName ==
  \A m, n \in Name : cached[m] # NoConnection =>
    /\ cached[m] = cached[n] => m = n
    /\ \A f \in Fibre : cached[m] = call[f].closing[n] => m = n

DatabasesInv == DatabasesTypeOK /\ Owned /\ OneName /\ ClosedConnectionsLeave

-----------------------------------------------------------------------------
(* A call at rest.                                                         *)
LEMMA RestingTyped ==
  ASSUME NEW n \in Name
  PROVE  /\ Idle(n) \in Call /\ NoCall \in Call
         /\ \A m \in Name : Idle(n).closing[m] = NoConnection /\ NoCall.closing[m] = NoConnection
  BY DatabasesAssumption DEF Idle, NoCall, Call, Step

(* What a fibre does that opens and caches nothing, and closes nothing but *)
(* a connection of its own.                                                *)
Keeps(f) ==
  /\ UNCHANGED <<connections, cached>>
  /\ closed' = closed \/ (Owns(f) /\ closed' = closed \cup {call[f].holds})

Unmoved(f) ==
  /\ Keeps(f)
  /\ \A g \in Fibre \ {f} : call'[g] = call[g]
  /\ call'[f].at \notin {"cache", "counted"}
  /\ \A n \in Name : call'[f].closing[n] \in {call[f].closing[n], cached[n], NoConnection}
  /\ call[f].at \notin {"remove", "cleaned", "closeAll"}

LEMMA QuietKeeps ==
  ASSUME DatabasesInv, NEW f \in Fibre, Unmoved(f)
  PROVE  (Owned /\ OneName /\ ClosedConnectionsLeave)'
<1> USE DatabasesAssumption
<1>1. Owned'
  <2> SUFFICES ASSUME NEW g \in Fibre, Owns(g)'
               PROVE  (/\ call[g].holds \in Built \ closed
                       /\ \A n \in Name : cached[n] # call[g].holds
                       /\ \A h \in Fibre : /\ h # g /\ Owns(h) => call[h].holds # call[g].holds
                                           /\ \A n \in Name : call[h].closing[n] # call[g].holds)'
    BY DEF Owned
  <2>1. g # f /\ call'[g] = call[g] /\ Owns(g)
    BY DEF Unmoved, Owns
  <2>2. call[g].holds \in Nat
    BY <2>1 DEF DatabasesInv, Owned, DatabasesTypeOK, Built
  <2> QED
    BY <2>1, <2>2 DEF DatabasesInv, Owned, Unmoved, Keeps, Owns, Built
<1>2. OneName'
  BY DEF DatabasesInv, OneName, Unmoved, Keeps
<1>3. ClosedConnectionsLeave'
  BY DEF DatabasesInv, Owned, ClosedConnectionsLeave, Removes, At, Unmoved, Keeps
<1> QED
  BY <1>1, <1>2, <1>3

-----------------------------------------------------------------------------
(* How a call goes on, or ends.                                            *)
LEMMA GoesOn ==
  ASSUME DatabasesInv, NEW f \in Fibre, Keeps(f),
         call[f].at \notin {"remove", "cleaned", "closeAll"},
         \/ Returns(f) \/ Continues(f)
         \/ \E step \in Step \ {"cache", "counted"} : Goes(f, step)
  PROVE  DatabasesInv'
<1> USE DatabasesAssumption
<1> PICK n0 \in Name : n0 = CHOOSE n \in Name : TRUE
  OBVIOUS
<1>1. /\ NoCall \in Call /\ NoCall.at = "idle" /\ \A m \in Name : NoCall.closing[m] = NoConnection
  BY RestingTyped DEF NoCall, Idle
<1>2. DatabasesTypeOK' /\ Unmoved(f)
  <2>1. CASE Returns(f)
    BY <1>1, <2>1 DEF DatabasesInv, DatabasesTypeOK, Returns, Unmoved, Keeps, Owned, Call, Built
  <2>2. ASSUME NEW step \in Step \ {"cache", "counted"}, Goes(f, step)
        PROVE  DatabasesTypeOK' /\ Unmoved(f)
    <3>1. call[f] \in Call /\ call' = [call EXCEPT ![f] = [call[f] EXCEPT !.at = step]]
      BY <2>2 DEF DatabasesInv, DatabasesTypeOK, Goes
    <3>2. /\ [call[f] EXCEPT !.at = step] \in Call
          /\ [call[f] EXCEPT !.at = step].at = step
          /\ [call[f] EXCEPT !.at = step].closing = call[f].closing
      BY <3>1 DEF Call
    <3> QED
      BY <3>1, <3>2 DEF DatabasesInv, DatabasesTypeOK, Unmoved, Keeps, Owned, Call, Built
  <2>3. CASE Continues(f)
    <3>1. call[f].then \in {"return", "clear", "register"}
      BY DEF DatabasesInv, DatabasesTypeOK, Call
    <3> QED
      BY <2>1, <2>2, <2>3, <3>1 DEF Continues, Step
  <2> QED
    BY <2>1, <2>2, <2>3
<1> QED
  BY <1>2, QuietKeeps DEF DatabasesInv

(* How a client begins one.                                                *)
LEMMA Beginning ==
  ASSUME DatabasesInv, NEW f \in Fibre, Keeps(f), NEW n \in Name,
         NEW step \in Step \ {"cache", "counted"}, NEW then \in {"return", "clear", "register"},
         Begins(f, step, n, then)
  PROVE  DatabasesInv'
<1> USE DatabasesAssumption
<1>1. Idle(n) \in Call /\ \A m \in Name : Idle(n).closing[m] = NoConnection
  BY RestingTyped
<1>2. DatabasesTypeOK' /\ Unmoved(f)
  BY <1>1 DEF DatabasesInv, DatabasesTypeOK, Begins, At, Unmoved, Keeps, Owned, Call, Built
<1> QED
  BY <1>2, QuietKeeps DEF DatabasesInv

-----------------------------------------------------------------------------
(* A connection that is built is held by nobody else.                      *)
LEMMA BuildingKeeps ==
  ASSUME DatabasesInv, NEW c \in Fibre, call[c].at \in {"build", "open"},
         NEW step \in {"cache", "counted"},
         connections' = connections + 1, UNCHANGED <<closed, cached>>,
         call' = [call EXCEPT ![c].at = step, ![c].holds = connections + 1]
  PROVE  DatabasesInv'
<1> USE DatabasesAssumption
<1> DEFINE now == [call[c] EXCEPT !.at = step, !.holds = connections + 1]
<1>1. /\ call[c] \in Call /\ connections \in Nat /\ closed \subseteq 1..connections
      /\ cached \in [Name -> Built \cup {NoConnection}]
      /\ call \in [Fibre -> Call] /\ call' = [call EXCEPT ![c] = now]
  BY DEF DatabasesInv, DatabasesTypeOK, Built
<1>2. now.at = step /\ now.holds = connections + 1 /\ now.closing = call[c].closing /\ now.name = call[c].name
      /\ now.then = call[c].then
  BY <1>1 DEF Call
<1>3. Built \subseteq Built' /\ connections + 1 \in Built' /\ connections + 1 \notin Built
      /\ connections + 1 # NoConnection
  BY <1>1 DEF Built
<1>4. Call \subseteq Call'
  BY <1>3 DEF Call
<1>5. now \in Call'
  BY <1>1, <1>2, <1>3, <1>4 DEF Call, Step
<1>6. DatabasesTypeOK'
  <2>1. call' \in [Fibre -> Call']
    BY <1>1, <1>4, <1>5
  <2>2. cached' \in [Name -> Built' \cup {NoConnection}]
    BY <1>1, <1>3
  <2> QED
    BY <2>1, <2>2, <1>1, <1>3 DEF DatabasesTypeOK, Built
<1>7. Owned'
  <2>1. \A g \in Fibre, n \in Name : /\ call[g].closing[n] \in Built \cup {NoConnection}
                                     /\ call'[g].closing[n] = call[g].closing[n]
    BY <1>1, <1>2 DEF Call
  <2>2. \A g \in Fibre \ {c} : call'[g] = call[g]
    BY <1>1
  <2>3. call'[c].holds = connections + 1
    BY <1>1, <1>2
  <2>4. \A g \in Fibre \ {c} : Owns(g)' => Owns(g) /\ call[g].holds \in Built
    BY <2>2 DEF Owns, DatabasesInv, Owned
  <2>5. \A n \in Name : cached[n] # connections + 1
    BY <1>1, <1>3
  <2> SUFFICES ASSUME NEW g \in Fibre, Owns(g)'
               PROVE  (/\ call[g].holds \in Built \ closed
                       /\ \A n \in Name : cached[n] # call[g].holds
                       /\ \A h \in Fibre : /\ h # g /\ Owns(h) => call[h].holds # call[g].holds
                                           /\ \A n \in Name : call[h].closing[n] # call[g].holds)'
    BY DEF Owned
  <2>6. CASE g = c
    BY <2>1, <2>2, <2>3, <2>4, <2>5, <2>6, <1>1, <1>3 DEF Built
  <2>7. CASE g # c
    BY <2>1, <2>2, <2>3, <2>4, <2>5, <2>7, <1>1, <1>3 DEF Built, DatabasesInv, Owned
  <2> QED
    BY <2>6, <2>7
<1>8. OneName' /\ ClosedConnectionsLeave'
  <2>1. \A g \in Fibre : call'[g].closing = call[g].closing
    BY <1>1, <1>2
  <2>2. \A g \in Fibre, n \in Name : Removes(g, n) => Removes(g, n)'
    BY <1>1, <1>2 DEF Removes, At
  <2>3. OneName'
    <3> SUFFICES ASSUME NEW m \in Name, NEW n \in Name, cached'[m] # NoConnection
                 PROVE  /\ cached'[m] = cached'[n] => m = n
                        /\ \A f \in Fibre : cached'[m] = call'[f].closing[n] => m = n
      BY DEF OneName
    <3>1. cached' = cached /\ OneName
      BY DEF DatabasesInv
    <3>2. ASSUME NEW f \in Fibre, cached'[m] = call'[f].closing[n]
          PROVE  m = n
      <4>1. cached[m] = call[f].closing[n] /\ cached[m] # NoConnection
        BY <2>1, <3>1, <3>2
      <4> QED
        BY <4>1, <3>1 DEF OneName
    <3> QED
      BY <3>1, <3>2 DEF OneName
  <2> QED
    BY <2>2, <2>3 DEF DatabasesInv, ClosedConnectionsLeave
<1> QED
  BY <1>6, <1>7, <1>8 DEF DatabasesInv

(* It enters the cache alone, under the name it was built for.             *)
LEMMA CachingKeeps ==
  ASSUME DatabasesInv, NEW c \in Fibre, Cache(c)
  PROVE  DatabasesInv'
<1> USE DatabasesAssumption
<1>1. PICK n0 \in Name : n0 = CHOOSE n \in Name : TRUE
  OBVIOUS
<1>2. /\ NoCall \in Call /\ NoCall.at = "idle" /\ \A m \in Name : NoCall.closing[m] = NoConnection
  BY <1>1, RestingTyped DEF NoCall, Idle
<1>3. /\ Owns(c) /\ call[c].name \in Name /\ call[c].holds \in Built \ closed
      /\ UNCHANGED <<connections, closed>>
      /\ cached' = [cached EXCEPT ![call[c].name] = call[c].holds]
      /\ call' = [call EXCEPT ![c] = NoCall]
  BY DEF DatabasesInv, DatabasesTypeOK, Owned, Owns, Cache, At, Returns, Call
<1>4. DatabasesTypeOK'
  BY <1>2, <1>3 DEF DatabasesInv, DatabasesTypeOK, Built, Call
<1>5. Owned'
  BY <1>2, <1>3 DEF DatabasesInv, DatabasesTypeOK, Owned, Owns, Built
<1>6. OneName'
  BY <1>2, <1>3 DEF DatabasesInv, DatabasesTypeOK, Owned, OneName, Owns, Built
<1>7. ClosedConnectionsLeave'
  BY <1>2, <1>3 DEF DatabasesInv, DatabasesTypeOK, Owned, ClosedConnectionsLeave, Removes, At, Owns, Built
<1> QED
  BY <1>4, <1>5, <1>6, <1>7 DEF DatabasesInv

-----------------------------------------------------------------------------
(* A connection closed by another than its builder is one that was cached: *)
(* whoever closes it goes on to remove its name.                           *)
LEMMA ClosingKeeps ==
  ASSUME DatabasesInv, NEW f \in Fibre, NEW n \in Name, NEW k,
         k \in {cached[n], call[f].closing[n]}, k # NoConnection,
         UNCHANGED <<connections, cached>>, closed' = closed \cup {k},
         NEW now \in Call, call' = [call EXCEPT ![f] = now],
         now.at \in {"remove", "cleaned", "closeAll"},
         now.at # "closeAll" => now.name = n,
         \A m \in Name : now.closing[m] \in {call[f].closing[m], NoConnection},
         call[f].at \in {"close", "cleanup", "closeAll"},
         call[f].at = "closeAll" => now.at = "closeAll"
  PROVE  DatabasesInv'
<1> USE DatabasesAssumption
<1>1. k \in Built /\ call \in [Fibre -> Call] /\ call[f].closing[n] \in Built \cup {NoConnection}
  BY DEF DatabasesInv, DatabasesTypeOK, Call
<1>2. call'[f] = now /\ \A g \in Fibre \ {f} : call'[g] = call[g]
  BY <1>1
<1>3. DatabasesTypeOK'
  BY <1>1 DEF DatabasesInv, DatabasesTypeOK, Call, Built
<1>4. Owned'
  <2> SUFFICES ASSUME NEW g \in Fibre, Owns(g)'
               PROVE  (/\ call[g].holds \in Built \ closed
                       /\ \A m \in Name : cached[m] # call[g].holds
                       /\ \A h \in Fibre : /\ h # g /\ Owns(h) => call[h].holds # call[g].holds
                                           /\ \A m \in Name : call[h].closing[m] # call[g].holds)'
    BY DEF Owned
  <2>1. g # f /\ call'[g] = call[g] /\ Owns(g)
    BY <1>2 DEF Owns
  <2>2. call[g].holds \in Built \ closed /\ call[g].holds # NoConnection /\ call[g].holds # k
    BY <2>1, <1>1 DEF DatabasesInv, DatabasesTypeOK, Owned, Built
  <2>3. \A h \in Fibre : /\ h # g /\ Owns(h)' => call'[h].holds # call[g].holds
                        /\ \A m \in Name : call'[h].closing[m] # call[g].holds
    BY <2>1, <2>2, <1>2 DEF DatabasesInv, Owned, Owns
  <2> QED
    BY <2>1, <2>2, <2>3 DEF DatabasesInv, Owned, Built
<1>5. OneName'
  BY <1>2 DEF DatabasesInv, OneName
<1>6. ClosedConnectionsLeave'
  <2> SUFFICES ASSUME NEW m \in Name, cached[m] \in closed \cup {k}
               PROVE  \E g \in Fibre : Removes(g, m)'
    BY DEF ClosedConnectionsLeave
  <2>1. CASE cached[m] = k
    <3>1. m = n
      BY <2>1 DEF DatabasesInv, OneName
    <3> QED
      BY <3>1, <1>2 DEF Removes, At
  <2>2. CASE cached[m] \in closed
    <3>1. PICK g \in Fibre : Removes(g, m)
      BY <2>2 DEF DatabasesInv, ClosedConnectionsLeave
    <3>2. CASE g = f
      BY <3>1, <3>2, <1>2 DEF Removes, At
    <3>3. CASE g # f
      BY <3>1, <3>3, <1>2 DEF Removes, At
    <3> QED
      BY <3>2, <3>3
  <2> QED
    BY <2>1, <2>2
<1> QED
  BY <1>3, <1>4, <1>5, <1>6 DEF DatabasesInv

(* The names that leave the cache are those the fibre had to remove.       *)
LEMMA RemovingKeeps ==
  ASSUME DatabasesInv, NEW f \in Fibre, UNCHANGED <<connections, closed>>,
         NEW now \in Call, call' = [call EXCEPT ![f] = now],
         now.at \notin {"cache", "counted"},
         \A m \in Name : now.closing[m] \in {call[f].closing[m], NoConnection},
         cached' \in [Name -> Built \cup {NoConnection}],
         \A m \in Name : cached'[m] \in {cached[m], NoConnection},
         \A m \in Name : Removes(f, m) => cached'[m] = NoConnection
  PROVE  DatabasesInv'
<1> USE DatabasesAssumption
<1>1. call'[f] = now /\ (\A g \in Fibre \ {f} : call'[g] = call[g]) /\ closed \subseteq Built
      /\ connections \in Nat
  BY DEF DatabasesInv, DatabasesTypeOK
<1>2. DatabasesTypeOK'
  BY DEF DatabasesInv, DatabasesTypeOK, Call, Built
<1>3. Owned'
  <2> SUFFICES ASSUME NEW g \in Fibre, Owns(g)'
               PROVE  (/\ call[g].holds \in Built \ closed
                       /\ \A m \in Name : cached[m] # call[g].holds
                       /\ \A h \in Fibre : /\ h # g /\ Owns(h) => call[h].holds # call[g].holds
                                           /\ \A m \in Name : call[h].closing[m] # call[g].holds)'
    BY DEF Owned
  <2>1. g # f /\ call'[g] = call[g] /\ Owns(g)
    BY <1>1 DEF Owns
  <2>2. call[g].holds \in Built \ closed /\ call[g].holds # NoConnection
    BY <2>1 DEF DatabasesInv, DatabasesTypeOK, Owned, Built
  <2> QED
    BY <2>1, <2>2, <1>1 DEF DatabasesInv, Owned, Owns, Built
<1>4. OneName'
  BY <1>1 DEF DatabasesInv, OneName
<1>5. ClosedConnectionsLeave'
  <2> SUFFICES ASSUME NEW m \in Name, cached'[m] \in closed
               PROVE  \E g \in Fibre : Removes(g, m)'
    BY DEF ClosedConnectionsLeave
  <2>1. cached'[m] = cached[m] /\ cached'[m] # NoConnection
    <3>1. Built \subseteq Nat
      BY <1>1 DEF Built
    <3>2. cached'[m] # NoConnection
      BY <1>1, <3>1
    <3> QED
      BY <3>2
  <2>2. PICK g \in Fibre : Removes(g, m)
    BY <2>1 DEF DatabasesInv, ClosedConnectionsLeave
  <2>3. g # f
    BY <2>1, <2>2
  <2> QED
    BY <1>1, <2>2, <2>3 DEF Removes, At
<1> QED
  BY <1>2, <1>3, <1>4, <1>5 DEF DatabasesInv

(* Whoever is to close connections reads them from the cache.              *)
LEMMA ReadingKeeps ==
  ASSUME DatabasesInv, NEW f \in Fibre, NEW step \in {"closeAll", "cleanup"}, NEW chosen \in SUBSET Name,
         ReadsCache(f, step, chosen)
  PROVE  DatabasesInv'
<1> USE DatabasesAssumption
<1> DEFINE read == [n \in Name |-> IF n \in chosen THEN cached[n] ELSE NoConnection]
           now == [call[f] EXCEPT !.at = step, !.closing = read]
<1>1. call[f] \in Call /\ cached \in [Name -> Built \cup {NoConnection}] /\ call \in [Fibre -> Call]
  BY DEF DatabasesInv, DatabasesTypeOK
<1>2. now \in Call /\ now.at = step /\ now.closing = read
  BY <1>1 DEF Call, Step
<1>3. call' = [call EXCEPT ![f] = now] /\ call[f].at = "idle" /\ UNCHANGED poolVars
  BY DEF ReadsCache, At
<1>4. DatabasesTypeOK' /\ Unmoved(f)
  BY <1>1, <1>2, <1>3 DEF DatabasesInv, DatabasesTypeOK, Unmoved, Keeps, poolVars, Call, Built
<1> QED
  BY <1>4, QuietKeeps DEF DatabasesInv

-----------------------------------------------------------------------------
(* The steps of the calls.                                                 *)
LEMMA UseKeeps ==
  ASSUME DatabasesInv, NEW c \in Client,
         (\E n \in Name : BeginUse(c, n)) \/ Find(c) \/ Build(c) \/ Cache(c)
  PROVE  DatabasesInv'
<1> c \in Fibre
  BY DEF Fibre
<1>1. ASSUME NEW n \in Name, BeginUse(c, n) PROVE DatabasesInv'
  <2>1. CASE UNCHANGED <<poolVars, call>>
    BY <2>1 DEF DatabasesInv, DatabasesTypeOK, Owned, OneName, ClosedConnectionsLeave, Owns, Removes, At, Built, Call, poolVars
  <2>2. CASE Begins(c, "find", n, "return")
    BY <1>1, <2>2, Beginning DEF BeginUse, Keeps, poolVars, Step
  <2> QED
    BY <1>1, <2>1, <2>2 DEF BeginUse
<1>2. CASE Find(c)
  BY <1>2, GoesOn DEF Find, At, Keeps, poolVars, Step
<1>3. CASE Build(c)
  <2>1. CASE Returns(c) /\ UNCHANGED connections
    BY <1>3, <2>1, GoesOn DEF Build, At, Keeps
  <2>2. CASE ~(Returns(c) /\ UNCHANGED connections)
    BY <1>3, <2>2, BuildingKeeps DEF Build, At
  <2> QED
    BY <2>1, <2>2
<1>4. CASE Cache(c)
  BY <1>4, CachingKeeps
<1> QED
  BY <1>1, <1>2, <1>3, <1>4

LEMMA CountKeeps ==
  ASSUME DatabasesInv, NEW c \in Client,
         (\E n \in Name : BeginCount(c, n, "return") \/ BeginCount(c, n, "clear"))
           \/ Count(c) \/ Open(c) \/ CountRead(c) \/ Clear(c)
  PROVE  DatabasesInv'
<1> c \in Fibre
  BY DEF Fibre
<1>1. ASSUME NEW n \in Name, NEW then \in {"return", "clear"}, BeginCount(c, n, then) PROVE DatabasesInv'
  BY <1>1, Beginning DEF BeginCount, Keeps, poolVars, Step
<1>2. CASE Count(c)
  BY <1>2, GoesOn DEF Count, At, Keeps, poolVars, Step
<1>3. CASE Open(c)
  <2>1. CASE Continues(c) /\ UNCHANGED connections
    BY <1>3, <2>1, GoesOn DEF Open, At, Keeps
  <2>2. CASE ~(Continues(c) /\ UNCHANGED connections)
    BY <1>3, <2>2, BuildingKeeps DEF Open, At
  <2> QED
    BY <2>1, <2>2
<1>4. CASE CountRead(c)
  BY <1>4, GoesOn DEF CountRead, At, Keeps, Owns
<1>5. CASE Clear(c)
  <2> DEFINE now == [call[c] EXCEPT !.at = "delete", !.then = "register", !.holds = NoConnection]
  <2>1. call[c] \in Call /\ call' = [call EXCEPT ![c] = now] /\ At(c, "clear") /\ UNCHANGED poolVars
    BY <1>5 DEF DatabasesInv, DatabasesTypeOK, Clear
  <2>2. now \in Call /\ now.at = "delete" /\ now.closing = call[c].closing
    BY <2>1 DEF Call, Step
  <2>3. DatabasesTypeOK' /\ Unmoved(c)
    BY <2>1, <2>2 DEF DatabasesInv, DatabasesTypeOK, Unmoved, Keeps, At, poolVars, Call, Built
  <2> QED
    BY <2>3, QuietKeeps DEF DatabasesInv
<1> QED
  BY <1>1, <1>2, <1>3, <1>4, <1>5

LEMMA CreateAndGrantKeep ==
  ASSUME DatabasesInv, NEW c \in Client,
         \/ \E n \in Name : BeginCreate(c, n) \/ BeginGrant(c, n) \/ \E u \in User : Revoke(c, u, n)
         \/ FindRow(c) \/ Insert(c) \/ \E u \in User : Grant(c, u)
  PROVE  DatabasesInv'
<1> c \in Fibre
  BY DEF Fibre
<1>1. ASSUME NEW n \in Name, BeginCreate(c, n) \/ BeginGrant(c, n) PROVE DatabasesInv'
  BY <1>1, Beginning DEF BeginCreate, BeginGrant, Keeps, poolVars, Step
<1>2. ASSUME NEW n \in Name, NEW u \in User, Revoke(c, u, n) PROVE DatabasesInv'
  BY <1>2 DEF Revoke, DatabasesInv, DatabasesTypeOK, Owned, OneName, ClosedConnectionsLeave, Owns, Removes, At, Built, Call, poolVars
<1>3. CASE FindRow(c)
  BY <1>3, GoesOn DEF FindRow, At, Keeps, poolVars, Step
<1>4. CASE Insert(c)
  BY <1>4, GoesOn DEF Insert, At, Keeps, poolVars, Step
<1>5. ASSUME NEW u \in User, Grant(c, u) PROVE DatabasesInv'
  BY <1>5, GoesOn DEF Grant, At, Keeps, poolVars
<1> QED
  BY <1>1, <1>2, <1>3, <1>4, <1>5

LEMMA DeleteKeeps ==
  ASSUME DatabasesInv, NEW c \in Client,
         \/ \E n \in Name : BeginDelete(c, n)
         \/ Delete(c) \/ CloseCached(c) \/ RemoveStorage(c) \/ DropRow(c) \/ Drop(c)
  PROVE  DatabasesInv'
<1> USE DatabasesAssumption
<1> c \in Fibre
  BY DEF Fibre
<1> call[c] \in Call /\ call[c].name \in Name /\ call \in [Fibre -> Call]
    /\ cached \in [Name -> Built \cup {NoConnection}]
  BY DEF DatabasesInv, DatabasesTypeOK, Call
<1>1. ASSUME NEW n \in Name, BeginDelete(c, n) PROVE DatabasesInv'
  BY <1>1, Beginning DEF BeginDelete, Keeps, poolVars, Step
<1>2. CASE Delete(c)
  BY <1>2, GoesOn DEF Delete, At, Keeps, poolVars, Step
<1>3. CASE DropRow(c)
  BY <1>3, GoesOn DEF DropRow, At, Keeps, poolVars, Step
<1>4. CASE Drop(c)
  BY <1>4, GoesOn DEF Drop, At, Keeps, poolVars
<1>5. CASE CloseCached(c)
  <2> DEFINE k == cached[call[c].name]
             now == [call[c] EXCEPT !.at = "remove"]
  <2>1. now \in Call /\ now.at = "remove" /\ now.name = call[c].name /\ now.closing = call[c].closing
    BY DEF Call, Step
  <2>2. /\ call' = [call EXCEPT ![c] = now] /\ call[c].at = "close" /\ UNCHANGED <<connections, cached>>
        /\ closed' = closed \cup ({k} \ {NoConnection})
    BY <1>5 DEF CloseCached, Goes, At
  <2>3. CASE k = NoConnection
    BY <1>5, <2>2, <2>3, GoesOn DEF CloseCached, Keeps, Step
  <2>4. CASE k # NoConnection
    <3>1. closed' = closed \cup {k}
      BY <2>2, <2>4
    <3> QED
      BY <2>1, <2>2, <2>4, <3>1, ClosingKeeps
  <2> QED
    BY <2>3, <2>4
<1>6. CASE RemoveStorage(c)
  <2> DEFINE now == [call[c] EXCEPT !.at = "unregister"]
  <2>1. now \in Call /\ now.at = "unregister" /\ now.closing = call[c].closing
    BY DEF Call, Step
  <2>2. /\ call' = [call EXCEPT ![c] = now] /\ call[c].at = "remove" /\ UNCHANGED <<connections, closed>>
        /\ cached' = [cached EXCEPT ![call[c].name] = NoConnection]
    BY <1>6 DEF RemoveStorage, Goes, At
  <2>3. \A m \in Name : Removes(c, m) => cached'[m] = NoConnection
    BY <2>2 DEF Removes, At
  <2> QED
    BY <2>1, <2>2, <2>3, RemovingKeeps
<1> QED
  BY <1>1, <1>2, <1>3, <1>4, <1>5, <1>6

LEMMA DeleteAllKeeps ==
  ASSUME DatabasesInv, NEW c \in Client,
         BeginDeleteAll(c) \/ CloseAll(c) \/ ClearAccess(c) \/ ClearNames(c) \/ DropAll(c)
  PROVE  DatabasesInv'
<1> USE DatabasesAssumption
<1> c \in Fibre
  BY DEF Fibre
<1> call[c] \in Call /\ call \in [Fibre -> Call] /\ cached \in [Name -> Built \cup {NoConnection}]
  BY DEF DatabasesInv, DatabasesTypeOK
<1>1. CASE BeginDeleteAll(c)
  BY <1>1, ReadingKeeps DEF BeginDeleteAll, Step
<1>2. CASE CloseAll(c)
  <2>1. ASSUME NEW n \in Pending(c), closed' = closed \cup {call[c].closing[n]},
               call' = [call EXCEPT ![c].closing[n] = NoConnection]
        PROVE  DatabasesInv'
    <3> DEFINE now == [call[c] EXCEPT !.closing = [call[c].closing EXCEPT ![n] = NoConnection]]
    <3>1. /\ now \in Call /\ now.at = call[c].at
          /\ now.closing = [call[c].closing EXCEPT ![n] = NoConnection]
      BY DEF Call
    <3>2. \A m \in Name : now.closing[m] \in {call[c].closing[m], NoConnection}
      BY <3>1 DEF Call
    <3>3. /\ call' = [call EXCEPT ![c] = now] /\ call[c].at = "closeAll" /\ n \in Name
          /\ call[c].closing[n] # NoConnection /\ UNCHANGED connections
      BY <1>2, <2>1 DEF CloseAll, At, Pending
    <3>4. CASE UNCHANGED cached
      <4>1. /\ now.at = "closeAll" /\ call[c].closing[n] \in {cached[n], call[c].closing[n]}
            /\ UNCHANGED <<connections, cached>>
        BY <3>1, <3>3, <3>4
      <4>2. closed' = closed \cup {call[c].closing[n]}
        BY <2>1
      <4> HIDE DEF now
      <4> QED
        BY <4>1, <4>2, <3>1, <3>2, <3>3, ClosingKeeps
    <3>5. CASE Pending(c) = {}
      BY <2>1, <3>5
    <3> QED
      BY <1>2, <3>4, <3>5 DEF CloseAll
  <2>2. ASSUME cached' = [n \in Name |-> NoConnection], Goes(c, "clearAccess"), UNCHANGED closed
        PROVE  DatabasesInv'
    <3> DEFINE now == [call[c] EXCEPT !.at = "clearAccess"]
    <3>1. /\ now \in Call /\ now.at = "clearAccess" /\ now.closing = call[c].closing
          /\ call' = [call EXCEPT ![c] = now] /\ UNCHANGED connections
      BY <1>2, <2>2 DEF Call, Step, Goes, CloseAll
    <3> QED
      BY <2>2, <3>1, RemovingKeeps
  <2> QED
    BY <1>2, <2>1, <2>2 DEF CloseAll
<1>3. CASE ClearAccess(c)
  BY <1>3, GoesOn DEF ClearAccess, At, Keeps, poolVars, Step
<1>4. CASE ClearNames(c)
  BY <1>4, GoesOn DEF ClearNames, At, Keeps, poolVars, Step
<1>5. CASE DropAll(c)
  BY <1>5, GoesOn DEF DropAll, At, Keeps, poolVars
<1> QED
  BY <1>1, <1>2, <1>3, <1>4, <1>5

LEMMA CleanupKeepsInv ==
  ASSUME DatabasesInv, BeginCleanup \/ CleanupCloses \/ CleanupRemoves
  PROVE  DatabasesInv'
<1> USE DatabasesAssumption
<1> DEFINE c == Cleaner
<1> c \in Fibre
  BY DEF Fibre
<1> /\ call[c] \in Call /\ call[c].name \in Name /\ call[c].closing \in [Name -> Built \cup {NoConnection}]
    /\ call \in [Fibre -> Call] /\ cached \in [Name -> Built \cup {NoConnection}]
  BY DEF DatabasesInv, DatabasesTypeOK, Call
<1>1. CASE BeginCleanup
  <2> PICK chosen \in SUBSET Name : ReadsCache(c, "cleanup", chosen)
    BY <1>1 DEF BeginCleanup
  <2> QED
    BY ReadingKeeps DEF Step
<1>2. CASE CleanupCloses
  <2>1. ASSUME NEW n \in Pending(c), closed' = closed \cup {call[c].closing[n]},
               call' = [call EXCEPT ![c].at = "cleaned", ![c].name = n]
        PROVE  DatabasesInv'
    <3> DEFINE now == [call[c] EXCEPT !.at = "cleaned", !.name = n]
    <3>1. n \in Name /\ call[c].closing[n] # NoConnection
      BY <2>1 DEF Pending
    <3>2. now \in Call /\ now.at = "cleaned" /\ now.name = n /\ now.closing = call[c].closing
      BY <3>1 DEF Call, Step
    <3>3. /\ call' = [call EXCEPT ![c] = now] /\ call[c].at = "cleanup"
          /\ UNCHANGED <<connections, cached>>
      BY <1>2, <2>1 DEF CleanupCloses, At
    <3> QED
      BY <2>1, <3>1, <3>2, <3>3, ClosingKeeps, ZenonT(60)
  <2>2. CASE Returns(c) /\ UNCHANGED closed
    BY <1>2, <2>2, GoesOn DEF CleanupCloses, At, Keeps
  <2> QED
    BY <1>2, <2>1, <2>2 DEF CleanupCloses
<1>3. CASE CleanupRemoves
  <2> DEFINE n == call[c].name
             now == [call[c] EXCEPT !.at = "cleanup", !.closing = [call[c].closing EXCEPT ![n] = NoConnection]]
  <2>1. /\ now \in Call /\ now.at = "cleanup"
        /\ now.closing = [call[c].closing EXCEPT ![n] = NoConnection]
    BY DEF Call, Step
  <2>2. \A m \in Name : now.closing[m] \in {call[c].closing[m], NoConnection}
    BY <2>1
  <2>3. /\ call' = [call EXCEPT ![c] = now] /\ call[c].at = "cleaned" /\ UNCHANGED <<connections, closed>>
        /\ cached' = [cached EXCEPT ![n] = NoConnection]
    BY <1>3 DEF CleanupRemoves, At
  <2>4. \A m \in Name : Removes(c, m) => cached'[m] = NoConnection
    BY <2>3 DEF Removes, At
  <2>5. cached' \in [Name -> Built \cup {NoConnection}] /\ \A m \in Name : cached'[m] \in {cached[m], NoConnection}
    BY <2>3
  <2> QED
    BY <2>1, <2>2, <2>3, <2>4, <2>5, RemovingKeeps
<1> QED
  BY <1>1, <1>2, <1>3

-----------------------------------------------------------------------------
(* A connection that is closed while it is cached is on its way out of the *)
(* cache: whichever of delete, deleteAll and the cleaner closed it still   *)
(* has to remove the name it is cached under, and no first use puts a      *)
(* closed connection back.                                                 *)
THEOREM ClosedConnectionsAreDropped == DatabasesSpec => []ClosedConnectionsLeave
<1>1. DatabasesInit => DatabasesInv
  <2> USE DatabasesAssumption
  <2> SUFFICES ASSUME DatabasesInit PROVE DatabasesInv
    OBVIOUS
  <2> PICK n0 \in Name : n0 = CHOOSE n \in Name : TRUE
    OBVIOUS
  <2>1. /\ NoCall \in Call /\ NoCall.at = "idle" /\ \A m \in Name : NoCall.closing[m] = NoConnection
    BY RestingTyped DEF NoCall, Idle
  <2> QED
    BY <2>1 DEF DatabasesInit, DatabasesInv, DatabasesTypeOK, Owned, Owns, OneName, ClosedConnectionsLeave, Built
<1>2. DatabasesInv /\ [DatabasesNext]_databasesVars => DatabasesInv'
  <2> SUFFICES ASSUME DatabasesInv, [DatabasesNext]_databasesVars PROVE DatabasesInv'
    OBVIOUS
  <2>1. ASSUME NEW c \in Client, ClientBegins(c) PROVE DatabasesInv'
    BY <2>1, UseKeeps, CountKeeps, CreateAndGrantKeep, DeleteKeeps, DeleteAllKeeps DEF ClientBegins
  <2>2. ASSUME NEW c \in Client, ClientGoesOn(c) PROVE DatabasesInv'
    BY <2>2, UseKeeps, CountKeeps, CreateAndGrantKeep, DeleteKeeps, DeleteAllKeeps DEF ClientGoesOn
  <2>3. CASE BeginCleanup \/ CleanerGoesOn
    BY <2>3, CleanupKeepsInv DEF CleanerGoesOn
  <2>4. CASE UNCHANGED databasesVars
    BY <2>4 DEF databasesVars, poolVars, DatabasesInv, DatabasesTypeOK, Owned, OneName, ClosedConnectionsLeave,
                Owns, Removes, At, Built, Call
  <2> QED
    BY <2>1, <2>2, <2>3, <2>4 DEF DatabasesNext
<1> QED
  BY <1>1, <1>2, PTL DEF DatabasesInv, DatabasesSpec

(* An access entry names a registered database: deleting, clearing or      *)
(* emptying the registry takes the entries of a name with it, and a grant  *)
(* that is overtaken by a deletion is refused.                             *)
THEOREM AccessEntriesAreNamed == DatabasesSpec => []AccessNamesADatabase
<1>1. DatabasesInit => AccessNamesADatabase
  BY DEF DatabasesInit, AccessNamesADatabase
<1>2. AccessNamesADatabase /\ [DatabasesNext]_databasesVars => AccessNamesADatabase'
  <2> SUFFICES ASSUME AccessNamesADatabase, [DatabasesNext]_databasesVars
               PROVE  AccessNamesADatabase'
    OBVIOUS
  <2>1. CASE UNCHANGED registryVars
    BY <2>1 DEF AccessNamesADatabase, registryVars
  <2>2. ASSUME NEW names, Unnamed(names) PROVE AccessNamesADatabase'
    BY <2>2 DEF Unnamed, ForeignKeys, AccessNamesADatabase
  <2>3. ASSUME NEW c \in Client, ClientBegins(c) PROVE AccessNamesADatabase'
    <3>1. CASE \E u \in User, n \in Name : Revoke(c, u, n)
      BY <3>1 DEF Revoke, AccessNamesADatabase
    <3> QED
      BY <2>1, <2>3, <3>1 DEF ClientBegins, BeginDeleteAll, ReadsCache, BeginUse, BeginCreate, BeginDelete,
                              BeginCount, BeginGrant
  <2>4. ASSUME NEW c \in Client, ClientGoesOn(c) PROVE AccessNamesADatabase'
    <3>1. CASE Insert(c)
      BY <3>1 DEF Insert, AccessNamesADatabase
    <3>2. CASE DropRow(c) \/ ClearNames(c)
      BY <2>1, <2>2, <3>2 DEF DropRow, ClearNames
    <3>3. CASE ClearAccess(c)
      BY <3>3 DEF ClearAccess, AccessNamesADatabase
    <3>4. ASSUME NEW u \in User, Grant(c, u) PROVE AccessNamesADatabase'
      BY <3>4 DEF Grant, ForeignKeys, AccessNamesADatabase
    <3>5. CASE Find(c) \/ Build(c) \/ Cache(c) \/ Count(c) \/ Open(c) \/ CountRead(c) \/ FindRow(c) \/ Clear(c)
      BY <2>1, <3>5 DEF Find, Build, Cache, Count, Open, CountRead, FindRow, Clear
    <3>6. CASE Delete(c) \/ CloseCached(c) \/ RemoveStorage(c) \/ Drop(c) \/ CloseAll(c) \/ DropAll(c)
      BY <2>1, <3>6 DEF Delete, CloseCached, RemoveStorage, Drop, CloseAll, DropAll
    <3> QED
      BY <2>4, <3>1, <3>2, <3>3, <3>4, <3>5, <3>6 DEF ClientGoesOn
  <2>5. CASE BeginCleanup \/ CleanerGoesOn
    BY <2>1, <2>5 DEF BeginCleanup, ReadsCache, CleanerGoesOn, CleanupCloses, CleanupRemoves
  <2>6. CASE UNCHANGED databasesVars
    BY <2>1, <2>6 DEF databasesVars
  <2> QED
    BY <2>3, <2>4, <2>5, <2>6 DEF DatabasesNext
<1> QED
  BY <1>1, <1>2, PTL DEF DatabasesSpec

-----------------------------------------------------------------------------
(* The walks over the history of an entity (EntityHistory). *)

Envelope == [position : Nat \ {0}, changed : SUBSET Entity]

\* A transaction that is under way holds the last position, alone.
JournalInv ==
  /\ journal \subseteq Envelope /\ allocated \in Nat
  /\ writing \in [Writer -> Envelope \cup {NoEnvelope}]
  /\ \A e \in journal : e.position <= allocated
  /\ \A e, f \in journal : e.position = f.position => e = f
  /\ \A w \in Writer : writing[w] # NoEnvelope =>
       /\ writing[w].position = allocated
       /\ \A e \in journal : e.position < allocated
       /\ \A u \in Writer : u # w => writing[u] = NoEnvelope

\* What the walk is to find; it does not grow once the walk is fixed.
WalkSubject == {e \in journal : subject \in e.changed /\ e.position <= snapshot}

\* So far the walk has given what is at or above its boundary.
Given == {e \in WalkSubject : before # Unfixed /\ e.position >= before}

Descends(s) == \A i, j \in DOMAIN s : i < j => s[i].position > s[j].position

WalkInv ==
  /\ walking \in {"fix", "query", "envelopes", "done"}
  /\ walking = "fix" => walked = <<>> /\ before = Unfixed
  /\ walking # "fix" => snapshot = 0 \/ \E e \in journal : e.position = snapshot
  /\ walked \in Seq(Envelope) /\ before \in Nat \cup {Unfixed}
  /\ walking \in {"query", "envelopes"} => ToSet(walked) = Given
  /\ walking = "envelopes" => indexed = Newest({e.position : e \in Indexed}, Limit + 1)
  /\ walking = "done" => ToSet(walked) = WalkSubject
  /\ Descends(walked)

\* The inductive invariant.
HistoryInv == JournalInv /\ WalkInv

-----------------------------------------------------------------------------
\* The members of a finite set of naturals have as many ranks as there are members.
LEMMA RanksAreTaken ==
  ASSUME NEW P \in SUBSET Nat, IsFiniteSet(P), NEW k \in 0 .. Cardinality(P) - 1
  PROVE  \E p \in P : Cardinality({q \in P : q > p}) = k
<1> DEFINE n == Cardinality(P)
           rank == [p \in P |-> Cardinality({q \in P : q > p})]
           T == (0 .. n - 1) \ {k}
<1>1. n \in Nat
  BY FS_CardinalityType
<1>2. ASSUME NEW p \in P PROVE rank[p] \in 0 .. n - 1
  <2> DEFINE Q == {q \in P : q > p}
  <2>1. Q \in SUBSET P /\ Q # P
    OBVIOUS
  <2>2. IsFiniteSet(Q) /\ Cardinality(Q) <= n /\ Cardinality(Q) # n
    <3> HIDE DEF Q
    <3> QED BY <2>1, FS_Subset
  <2>3. Cardinality(Q) \in Nat
    BY <2>2, FS_CardinalityType
  <2>4. rank[p] = Cardinality(Q)
    OBVIOUS
  <2> HIDE DEF Q, n, rank
  <2> QED BY <1>1, <2>2, <2>3, <2>4
<1>3. ASSUME NEW p \in P, NEW r \in P, p < r PROVE rank[r] < rank[p]
  <2> DEFINE Q == {q \in P : q > p}
             R == {q \in P : q > r}
  <2>0. p \in Nat /\ r \in Nat /\ \A q \in P : q \in Nat
    OBVIOUS
  <2>1. R \in SUBSET Q /\ r \in Q /\ r \notin R /\ Q \in SUBSET P
    <3>1. \A q \in P : q > r => q > p
      BY <1>3, <2>0
    <3>2. r > p /\ ~ (r > r)
      BY <1>3, <2>0
    <3> QED BY <3>1, <3>2
  <2>2. rank[r] = Cardinality(R) /\ rank[p] = Cardinality(Q)
    OBVIOUS
  <2> HIDE DEF Q, R, rank
  <2>3. IsFiniteSet(Q) /\ IsFiniteSet(R) /\ Cardinality(R) <= Cardinality(Q)
        /\ Cardinality(R) # Cardinality(Q)
    BY <2>1, FS_Subset
  <2>4. Cardinality(Q) \in Nat /\ Cardinality(R) \in Nat
    BY <2>3, FS_CardinalityType
  <2> QED BY <2>2, <2>3, <2>4
<1> SUFFICES ASSUME \A p \in P : rank[p] # k PROVE FALSE
  OBVIOUS
<1>4. rank \in [P -> T]
  BY <1>2
<1>5. IsFiniteSet(T) /\ Cardinality(T) < n
  <2>1. IsFiniteSet(0 .. n - 1) /\ Cardinality(0 .. n - 1) = n
    BY <1>1, FS_Interval
  <2>2. IsFiniteSet(T) /\ Cardinality(T) = n - 1
    BY <1>1, <2>1, FS_RemoveElement, ZenonT(60)
  <2> HIDE DEF n
  <2> QED BY <1>1, <2>2
<1>6. PICK p \in P, r \in P : p # r /\ rank[p] = rank[r]
  <2> HIDE DEF T, rank
  <2> QED BY <1>4, <1>5, FS_PigeonHole
<1>7. p < r \/ r < p
  BY <1>6
<1> HIDE DEF rank
<1>8. rank[p] \in Int /\ rank[r] \in Int
  BY <1>2
<1> QED BY <1>3, <1>6, <1>7, <1>8

\* Newest gives the highest of the positions, in descending order.
LEMMA NewestAreHighest ==
  ASSUME NEW P \in SUBSET Nat, IsFiniteSet(P), NEW k \in Nat
  PROVE  LET s == Newest(P, k) IN
         /\ s \in Seq(P)
         /\ Len(s) = IF Cardinality(P) < k THEN Cardinality(P) ELSE k
         /\ \A i, j \in 1 .. Len(s) : i < j => s[i] > s[j]
         /\ \A p \in P : (\E i \in 1 .. Len(s) : p = s[i]) \/ (Len(s) = k /\ \A i \in 1 .. k : p < s[i])
<1> DEFINE R(p) == Cardinality({q \in P : q > p})
           m == IF Cardinality(P) < k THEN Cardinality(P) ELSE k
           s == Newest(P, k)
<1>1. Cardinality(P) \in Nat /\ m \in Nat
  BY FS_CardinalityType
<1>2. s = [i \in 1 .. m |-> CHOOSE p \in P : R(p) = i - 1]
  BY DEF Newest
<1> HIDE DEF s
<1>3. \A i \in 1 .. m : s[i] \in P /\ R(s[i]) = i - 1
  <2> SUFFICES ASSUME NEW i \in 1 .. m PROVE s[i] \in P /\ R(s[i]) = i - 1
    OBVIOUS
  <2>1. \E p \in P : R(p) = i - 1
    BY <1>1, RanksAreTaken
  <2>2. s[i] = CHOOSE p \in P : R(p) = i - 1
    BY <1>2
  <2> HIDE DEF R
  <2> QED BY <2>1, <2>2
<1>4. s \in Seq(P) /\ Len(s) = m
  <2> HIDE DEF m, R
  <2> QED BY <1>1, <1>2, <1>3
<1>5. ASSUME NEW p \in P, NEW r \in P PROVE R(r) \in Nat /\ (p < r => R(r) < R(p))
  <2> DEFINE Q == {q \in P : q > p}
             T == {q \in P : q > r}
  <2>0. p \in Nat /\ r \in Nat /\ \A q \in P : q \in Nat
    OBVIOUS
  <2>1. Q \in SUBSET P /\ T \in SUBSET P /\ (p < r => T \in SUBSET Q /\ r \in Q /\ r \notin T)
    <3>1. ASSUME p < r PROVE (\A q \in P : q > r => q > p) /\ r > p /\ ~ (r > r)
      BY <2>0, <3>1
    <3> QED BY <3>1
  <2> HIDE DEF Q, T
  <2>2. IsFiniteSet(Q) /\ IsFiniteSet(T)
    BY <2>1, FS_Subset
  <2>3. Cardinality(Q) \in Nat /\ Cardinality(T) \in Nat
    BY <2>2, FS_CardinalityType
  <2>4. p < r => Cardinality(T) <= Cardinality(Q) /\ Cardinality(T) # Cardinality(Q)
    BY <2>1, <2>2, FS_Subset
  <2> QED BY <2>3, <2>4 DEF Q, T
<1> HIDE DEF R
<1>6. \A p, r \in P : R(p) < R(r) => p > r
  <2> SUFFICES ASSUME NEW p \in P, NEW r \in P, R(p) < R(r) PROVE p > r
    OBVIOUS
  <2>1. R(p) \in Nat /\ R(r) \in Nat /\ (p < r => R(r) < R(p)) /\ p \in Nat /\ r \in Nat
    BY <1>5
  <2>2. p # r
    BY <2>1
  <2> QED BY <2>1, <2>2
<1>7. \A i, j \in 1 .. m : i < j => s[i] > s[j]
  <2> HIDE DEF m
  <2> SUFFICES ASSUME NEW i \in 1 .. m, NEW j \in 1 .. m, i < j PROVE s[i] > s[j]
    OBVIOUS
  <2>1. R(s[i]) < R(s[j])
    BY <1>1, <1>3
  <2> QED BY <1>3, <1>6, <2>1
<1>8. ASSUME NEW p \in P
      PROVE  (\E i \in 1 .. m : p = s[i]) \/ (m = k /\ \A i \in 1 .. k : p < s[i])
  <2>1. R(p) \in Nat /\ R(p) < Cardinality(P)
    <3> DEFINE Q == {q \in P : q > p}
    <3>1. Q \in SUBSET P /\ p \notin Q
      OBVIOUS
    <3> HIDE DEF Q
    <3>2. IsFiniteSet(Q) /\ Cardinality(Q) <= Cardinality(P) /\ Cardinality(Q) # Cardinality(P)
      BY <3>1, FS_Subset
    <3>3. Cardinality(Q) \in Nat
      BY <3>2, FS_CardinalityType
    <3> QED BY <1>1, <3>2, <3>3 DEF R, Q
  <2>2. CASE R(p) < m
    <3>1. R(p) + 1 \in 1 .. m /\ s[R(p) + 1] \in P /\ R(s[R(p) + 1]) = R(p)
      BY <1>1, <1>3, <2>1, <2>2
    <3>2. ASSUME NEW r \in P, R(r) = R(p) PROVE r = p
      <4>1. /\ R(p) \in Nat /\ p \in Nat /\ r \in Nat
            /\ p < r => R(r) < R(p)
            /\ r < p => R(p) < R(r)
        BY <1>5
      <4> QED BY <3>2, <4>1
    <3>3. s[R(p) + 1] = p
      BY <3>1, <3>2
    <3> QED BY <3>1, <3>3
  <2>3. CASE ~ (R(p) < m)
    <3>1. m = k
      BY <1>1, <2>1, <2>3
    <3>2. \A i \in 1 .. k : R(s[i]) < R(p) /\ s[i] \in P
      BY <1>1, <1>3, <2>1, <2>3, <3>1
    <3>3. \A i \in 1 .. k : s[i] > p
      BY <1>6, <3>2
    <3>4. \A i \in 1 .. k : s[i] \in Nat /\ p \in Nat
      BY <3>2
    <3> QED BY <3>1, <3>3, <3>4
  <2> QED BY <2>2, <2>3
<1> QED BY <1>4, <1>7, <1>8 DEF s

-----------------------------------------------------------------------------
LEMMA HistoryInitially == ASSUME EntityHistoryInit PROVE HistoryInv
<1>1. JournalInv
  BY DEF EntityHistoryInit, JournalInv
<1>2. WalkInv
  BY DEF EntityHistoryInit, WalkInv, Descends
<1> QED BY <1>1, <1>2 DEF HistoryInv

\* The writers.

LEMMA TakeJournals ==
  ASSUME JournalInv, NEW w \in Writer, NEW entities \in SUBSET Entity, Take(w, entities)
  PROVE  JournalInv' /\ journal' = journal /\ UNCHANGED walkVars
<1> DEFINE taken == [position |-> allocated + 1, changed |-> entities]
<1>1. /\ journal' = journal /\ allocated' = allocated + 1 /\ UNCHANGED walkVars
      /\ writing' = [writing EXCEPT ![w] = taken]
      /\ \A u \in Writer : writing[u] = NoEnvelope
  BY DEF Take, CounterIsFree
<1>2. taken \in Envelope /\ taken.position = allocated + 1 /\ allocated \in Nat
  BY DEF JournalInv, Envelope
<1> HIDE DEF taken
<1> QED BY <1>1, <1>2 DEF JournalInv, Envelope

LEMMA CommitJournals ==
  ASSUME JournalInv, NEW w \in Writer, Commit(w)
  PROVE  /\ JournalInv' /\ UNCHANGED walkVars
         /\ journal' = journal \cup {writing[w]}
         /\ \A e \in journal : e.position < writing[w].position
         /\ writing[w].position > 0
<1>1. /\ journal' = journal \cup {writing[w]} /\ allocated' = allocated /\ UNCHANGED walkVars
      /\ writing' = [writing EXCEPT ![w] = NoEnvelope] /\ writing[w] # NoEnvelope
  BY DEF Commit
<1>2. /\ writing[w] \in Envelope /\ writing[w].position = allocated
      /\ \A e \in journal : e.position < allocated
      /\ \A u \in Writer : u # w => writing[u] = NoEnvelope
  BY <1>1 DEF JournalInv
<1>3. JournalInv'
  <2>1. journal' \subseteq Envelope /\ \A e \in journal' : e.position <= allocated'
    BY <1>1, <1>2 DEF JournalInv, Envelope
  <2>2. \A e, f \in journal' : e.position = f.position => e = f
    BY <1>1, <1>2 DEF JournalInv, Envelope
  <2>3. \A u \in Writer : writing'[u] = NoEnvelope
    BY <1>1, <1>2 DEF JournalInv
  <2> QED BY <1>1, <2>1, <2>2, <2>3 DEF JournalInv
<1> QED BY <1>1, <1>2, <1>3 DEF Envelope

LEMMA RollbackJournals ==
  ASSUME JournalInv, NEW w \in Writer, Rollback(w)
  PROVE  JournalInv' /\ journal' = journal /\ UNCHANGED walkVars
<1>1. /\ journal' = journal /\ UNCHANGED walkVars /\ writing[w] # NoEnvelope
      /\ writing' = [writing EXCEPT ![w] = NoEnvelope]
      /\ allocated' = IF writing[w].position = allocated THEN allocated - 1 ELSE allocated
  BY DEF Rollback
<1>2. /\ writing[w] \in Envelope /\ writing[w].position = allocated /\ allocated \in Nat
      /\ \A e \in journal : e \in Envelope /\ e.position < allocated
      /\ \A u \in Writer : u # w => writing[u] = NoEnvelope
  BY <1>1 DEF JournalInv
<1>3. allocated' = allocated - 1 /\ allocated' \in Nat /\ \A e \in journal : e.position <= allocated'
  BY <1>1, <1>2 DEF Envelope
<1>4. writing' \in [Writer -> Envelope \cup {NoEnvelope}] /\ \A u \in Writer : writing'[u] = NoEnvelope
  BY <1>1, <1>2 DEF JournalInv
<1> QED BY <1>1, <1>3, <1>4 DEF JournalInv

\* What is committed after the walk was fixed is not for it.

LEMMA WalkKeepsAlone ==
  ASSUME WalkInv, UNCHANGED walkVars, journal' = journal PROVE WalkInv'
BY DEF WalkInv, walkVars, Given, WalkSubject, Indexed, Descends

LEMMA WalkKeepsAtCommit ==
  ASSUME JournalInv, WalkInv, UNCHANGED walkVars,
         NEW w \in Writer, journal' = journal \cup {writing[w]},
         writing[w].position \in Nat \ {0},
         \A e \in journal : e.position < writing[w].position
  PROVE  WalkInv'
<1>1. walking = "fix" => WalkInv'
  BY DEF WalkInv, walkVars, Descends
<1>2. ASSUME walking # "fix" PROVE WalkSubject' = WalkSubject /\ Indexed' = Indexed
  <2>1. ~ (writing[w].position <= snapshot)
    <3>1. snapshot = 0 \/ \E e \in journal : e.position = snapshot
      BY <1>2 DEF WalkInv
    <3>2. \A e \in journal : e.position \in Nat
      BY DEF JournalInv, Envelope
    <3> QED BY <3>1, <3>2
  <2> QED BY <2>1 DEF WalkSubject, Indexed, walkVars
<1>3. ASSUME walking # "fix" PROVE Given' = Given
  BY <1>2, <1>3 DEF Given, walkVars
<1>4. walking # "fix" => WalkInv'
  BY <1>2, <1>3 DEF WalkInv, walkVars, Descends
<1> QED BY <1>1, <1>4

LEMMA WritersKeep ==
  ASSUME HistoryInv, NEW w \in Writer,
         \/ \E entities \in SUBSET Entity : Take(w, entities)
         \/ Commit(w) \/ Rollback(w)
  PROVE  HistoryInv'
<1>1. ASSUME NEW entities \in SUBSET Entity, Take(w, entities) PROVE HistoryInv'
  BY <1>1, TakeJournals, WalkKeepsAlone DEF HistoryInv
<1>2. CASE Commit(w)
  <2>1. writing[w].position \in Nat \ {0}
    BY <1>2 DEF Commit, HistoryInv, JournalInv, Envelope
  <2> QED BY <1>2, <2>1, CommitJournals, WalkKeepsAtCommit DEF HistoryInv
<1>3. CASE Rollback(w)
  BY <1>3, RollbackJournals, WalkKeepsAlone DEF HistoryInv
<1> QED BY <1>1, <1>2, <1>3

\* The reader.

LEMMA FixKeeps == ASSUME HistoryInv, Fix PROVE HistoryInv'
<1>1. /\ UNCHANGED writeVars /\ walking = "fix" /\ walking' = "query"
      /\ snapshot' = CurrentPosition /\ walked' = <<>> /\ before' = Unfixed
  BY DEF Fix, HistoryInv, WalkInv
<1>2. JournalInv'
  BY <1>1 DEF HistoryInv, JournalInv, writeVars
<1> DEFINE S == {e.position : e \in journal} \cup {0}
<1>3. S \in SUBSET (0 .. allocated) /\ S # {} /\ allocated \in Nat
  BY DEF HistoryInv, JournalInv, Envelope
<1>4. CurrentPosition \in S
  <2> HIDE DEF S
  <2>1. PICK m \in S : \A n \in S : n <= m
    BY <1>3, GreatestOf
  <2>2. \A n \in S : m >= n
    BY <1>3, <2>1
  <2>3. Max(S) \in S
    BY <2>2 DEF Max
  <2> QED BY <2>3 DEF CurrentPosition, S
<1>5. ToSet(walked') = {} /\ Given' = {}
  BY <1>1 DEF Given, ToSet
<1>6. WalkInv'
  BY <1>1, <1>4, <1>5 DEF WalkInv, Descends, writeVars
<1> QED BY <1>2, <1>6 DEF HistoryInv

LEMMA QueryKeeps == ASSUME HistoryInv, QueryEnvelopes PROVE HistoryInv'
<1>1. /\ UNCHANGED <<writeVars, subject, snapshot, before, walked>>
      /\ walking = "query" /\ walking' = "envelopes"
      /\ indexed' = Newest({e.position : e \in Indexed}, Limit + 1)
  BY DEF QueryEnvelopes
<1>2. JournalInv'
  BY <1>1 DEF HistoryInv, JournalInv, writeVars
<1>3. Indexed' = Indexed /\ Given' = Given
  BY <1>1 DEF Indexed, Given, WalkSubject, writeVars
<1>4. WalkInv'
  BY <1>1, <1>3 DEF HistoryInv, WalkInv, Descends, writeVars
<1> QED BY <1>2, <1>4 DEF HistoryInv

\* A given.  Every envelope of it is there, and the walk goes on below its last.
LEMMA EnvelopesKeep == ASSUME HistoryInv, Envelopes PROVE HistoryInv'
<1> DEFINE P == {e.position : e \in Indexed}
           l == IF Len(indexed) < Limit THEN Len(indexed) ELSE Limit
           selected == SubSeq(indexed, 1, l)
           Found(p) == {e \in journal : e.position = p}
           given == [i \in DOMAIN selected |-> CHOOSE e \in Found(selected[i]) : TRUE]
<1>1. /\ UNCHANGED <<writeVars, subject, snapshot>> /\ walking = "envelopes"
      /\ IF \A i \in DOMAIN selected : Cardinality(Found(selected[i])) = 1
         THEN /\ walked' = walked \o given
              /\ IF Len(indexed) > Limit
                 THEN before' = selected[Limit] /\ walking' = "query"
                 ELSE walking' = "done" /\ UNCHANGED before
         ELSE walking' = "corrupt" /\ UNCHANGED <<before, walked>>
  BY DEF Envelopes
<1>2. /\ JournalInv /\ WalkInv /\ Limit \in Nat /\ Limit # 0
      /\ ToSet(walked) = Given /\ indexed = Newest(P, Limit + 1)
      /\ walked \in Seq(Envelope) /\ before \in Nat \cup {Unfixed} /\ Descends(walked)
      /\ \A e \in journal : e \in Envelope /\ e.position \in Nat
      /\ snapshot = 0 \/ \E e \in journal : e.position = snapshot
  BY <1>1, HistoryAssumption DEF HistoryInv, JournalInv, WalkInv, Envelope
<1>3. Indexed = {e \in WalkSubject : before # Unfixed => e.position < before}
  BY DEF Indexed, WalkSubject
<1>4. P \in SUBSET Nat /\ IsFiniteSet(P)
  <2>1. allocated \in Nat
    BY <1>2 DEF JournalInv
  <2>2. P \in SUBSET (0 .. allocated)
    BY <1>2 DEF Indexed, JournalInv
  <2> HIDE DEF P
  <2>3. IsFiniteSet(0 .. allocated) /\ 0 .. allocated \in SUBSET Nat
    BY ONLY <2>1, IntervalsAreFinite
  <2>4. IsFiniteSet(P)
    BY <2>2, <2>3, FS_Subset
  <2> QED BY <2>2, <2>3, <2>4
<1>5. /\ indexed \in Seq(P) /\ Len(indexed) \in Nat /\ Len(indexed) <= Limit + 1
      /\ \A i, j \in 1 .. Len(indexed) : i < j => indexed[i] > indexed[j]
      /\ \A p \in P : \/ \E i \in 1 .. Len(indexed) : p = indexed[i]
                      \/ Len(indexed) = Limit + 1 /\ \A i \in 1 .. Limit + 1 : p < indexed[i]
  <2>1. Cardinality(P) \in Nat /\ Limit + 1 \in Nat
    BY <1>2, <1>4, FS_CardinalityType
  <2> DEFINE s == Newest(P, Limit + 1)
  <2> HIDE DEF P
  <2>2. /\ s \in Seq(P)
        /\ Len(s) = IF Cardinality(P) < Limit + 1 THEN Cardinality(P) ELSE Limit + 1
        /\ \A i, j \in 1 .. Len(s) : i < j => s[i] > s[j]
        /\ \A p \in P : \/ \E i \in 1 .. Len(s) : p = s[i]
                        \/ Len(s) = Limit + 1 /\ \A i \in 1 .. Limit + 1 : p < s[i]
    BY <1>4, <2>1, NewestAreHighest
  <2>3. s = indexed
    BY <1>2
  <2> HIDE DEF s
  <2>4. Len(s) \in Nat /\ Len(s) <= Limit + 1
    BY <1>2, <2>1, <2>2
  <2> QED BY <2>2, <2>3, <2>4
<1>6. /\ l \in Nat /\ l <= Limit /\ l <= Len(indexed)
      /\ DOMAIN selected = 1 .. l /\ \A i \in 1 .. l : selected[i] = indexed[i] /\ indexed[i] \in P
  <2>1. l \in Nat /\ l <= Limit /\ l <= Len(indexed)
    BY <1>2, <1>5
  <2> HIDE DEF l, P
  <2> QED BY <1>5, <2>1
<1>7. \A i \in 1 .. l : \E e \in Indexed : Found(indexed[i]) = {e} /\ e.position = indexed[i]
  <2> SUFFICES ASSUME NEW i \in 1 .. l
               PROVE  \E e \in Indexed : Found(indexed[i]) = {e} /\ e.position = indexed[i]
    OBVIOUS
  <2>1. PICK e \in Indexed : e.position = indexed[i]
    BY <1>6
  <2>2. e \in journal
    BY DEF Indexed
  <2>3. Found(indexed[i]) = {e}
    BY <1>2, <2>1, <2>2 DEF JournalInv
  <2> QED BY <2>1, <2>3
<1>8. /\ \A i \in DOMAIN selected : Cardinality(Found(selected[i])) = 1
      /\ DOMAIN given = 1 .. l
      /\ \A i \in 1 .. l : given[i] \in Indexed /\ given[i].position = indexed[i]
  <2>1. ASSUME NEW i \in 1 .. l
        PROVE  /\ Cardinality(Found(selected[i])) = 1
               /\ given[i] \in Indexed /\ given[i].position = indexed[i]
    <3>1. PICK e \in Indexed : Found(indexed[i]) = {e} /\ e.position = indexed[i]
      BY <1>7
    <3>2. Found(selected[i]) = {e}
      BY <1>6, <3>1
    <3>3. given[i] = CHOOSE x \in Found(selected[i]) : TRUE
      BY <1>6
    <3> HIDE DEF given, Found, selected
    <3>4. given[i] = e
      BY <3>2, <3>3
    <3> QED BY <3>1, <3>2, <3>4, FS_Singleton
  <2> HIDE DEF l
  <2>2. DOMAIN given = 1 .. l
    BY <1>6
  <2> HIDE DEF given, Found
  <2> QED BY <1>6, <2>1, <2>2
<1>9. /\ walked' = walked \o given
      /\ Len(indexed) > Limit => before' = indexed[Limit] /\ walking' = "query" /\ l = Limit
      /\ ~ (Len(indexed) > Limit) => walking' = "done" /\ before' = before /\ l = Len(indexed)
  <2>1. /\ Len(indexed) > Limit => l = Limit
        /\ ~ (Len(indexed) > Limit) => l = Len(indexed)
    BY <1>2, <1>5
  <2>2. Len(indexed) > Limit => selected[Limit] = indexed[Limit]
    <3> HIDE DEF l, selected
    <3> QED BY <1>2, <1>6, <2>1
  <2> HIDE DEF l, selected, given, Found
  <2> QED BY <1>1, <1>8, <2>1, <2>2
<1>10. given \in Seq(Envelope) /\ Len(given) = l
  <2>1. \A i \in 1 .. l : given[i] \in Envelope
    BY <1>2, <1>8 DEF Indexed
  <2> HIDE DEF l, selected, Found
  <2>2. given = [i \in 1 .. l |-> CHOOSE e \in Found(selected[i]) : TRUE]
    BY <1>6
  <2> HIDE DEF given
  <2>3. given \in [1 .. l -> Envelope]
    BY <2>1, <2>2
  <2> QED BY <1>6, <2>3
<1>11. JournalInv' /\ WalkSubject' = WalkSubject
  BY <1>1, <1>2 DEF JournalInv, WalkSubject, writeVars
<1> HIDE DEF given, l, P, selected, Found
<1>12. /\ walked' \in Seq(Envelope) /\ Len(walked') = Len(walked) + l /\ Len(walked) \in Nat
       /\ \A i \in 1 .. Len(walked) : walked'[i] = walked[i]
       /\ \A i \in 1 .. l : walked'[Len(walked) + i] = given[i]
  <2>1. walked' = walked \o given /\ walked \in Seq(Envelope) /\ given \in Seq(Envelope)
        /\ Len(given) = l /\ l \in Nat
    BY <1>2, <1>6, <1>9, <1>10
  <2>2. walked' \in Seq(Envelope) /\ Len(walked') = Len(walked) + l /\ Len(walked) \in Nat
    <3>1. Len(walked) \in Nat /\ Len(given) \in Nat
      BY <2>1
    <3>2. walked \o given \in Seq(Envelope)
      BY <2>1
    <3>3. Len(walked \o given) = Len(walked) + Len(given)
      BY <2>1, ConcatProperties
    <3> QED BY <2>1, <3>1, <3>2, <3>3
  <2>3. \A i \in 1 .. Len(walked) : walked'[i] = walked[i]
    BY <2>1
  <2>4. \A i \in 1 .. l : walked'[Len(walked) + i] = given[i]
    BY <2>1
  <2> QED BY <2>2, <2>3, <2>4
<1>13. \A e : e \in ToSet(walked') <=> e \in Given \/ \E i \in 1 .. l : e = given[i]
  <2>1. DOMAIN walked = 1 .. Len(walked) /\ DOMAIN walked' = 1 .. Len(walked) + l
    BY <1>2, <1>12
  <2>2. \A k \in 1 .. Len(walked) + l :
          k \in 1 .. Len(walked) \/ \E i \in 1 .. l : k = Len(walked) + i
    <3>1. \A k \in 1 .. Len(walked) + l :
            k \in 1 .. Len(walked) \/ (k - Len(walked) \in 1 .. l /\ k = Len(walked) + (k - Len(walked)))
      BY <1>6, <1>12
    <3> QED BY <3>1
  <2>3. \A k \in 1 .. Len(walked) : k \in 1 .. Len(walked) + l
    BY <1>6, <1>12
  <2>4. \A i \in 1 .. l : Len(walked) + i \in 1 .. Len(walked) + l
    BY <1>6, <1>12
  <2>5. \A e : e \in Given <=> \E k \in 1 .. Len(walked) : e = walked[k]
    BY <1>2, <2>1 DEF ToSet
  <2>6. \A e : e \in ToSet(walked') <=> \E k \in 1 .. Len(walked) + l : e = walked'[k]
    BY <2>1 DEF ToSet
  <2>7. ASSUME NEW e, e \in ToSet(walked') PROVE e \in Given \/ \E i \in 1 .. l : e = given[i]
    <3>1. PICK k \in 1 .. Len(walked) + l : e = walked'[k]
      BY <2>6, <2>7
    <3> QED BY <1>12, <2>2, <2>5, <3>1
  <2>8. ASSUME NEW e, e \in Given \/ \E i \in 1 .. l : e = given[i] PROVE e \in ToSet(walked')
    <3>1. CASE e \in Given
      BY <1>12, <2>3, <2>5, <2>6, <3>1
    <3>2. CASE \E i \in 1 .. l : e = given[i]
      BY <1>12, <2>4, <2>6, <3>2
    <3> QED BY <2>8, <3>1, <3>2
  <2> QED BY <2>7, <2>8
<1>14. \A e \in WalkSubject : e \in Given \/ e \in Indexed
  BY <1>2, <1>3 DEF Given, WalkSubject
<1>15. Descends(walked')
  <2> SUFFICES ASSUME NEW i \in 1 .. Len(walked) + l, NEW j \in 1 .. Len(walked) + l, i < j
               PROVE  walked'[i].position > walked'[j].position
    BY <1>12 DEF Descends
  <2>1. CASE j <= Len(walked)
    BY <1>2, <1>12, <2>1 DEF Descends
  <2>2. CASE i > Len(walked)
    <3>1. i - Len(walked) \in 1 .. l /\ j - Len(walked) \in 1 .. l
          /\ i = Len(walked) + (i - Len(walked)) /\ j = Len(walked) + (j - Len(walked))
          /\ i - Len(walked) < j - Len(walked)
      <4>1. l \in Nat /\ Len(walked) \in Nat
        BY <1>6, <1>12
      <4>2. i \in Int /\ j \in Int /\ i > Len(walked) /\ i < j /\ j <= Len(walked) + l
        BY <2>2, <4>1
      <4> QED BY <4>1, <4>2
    <3>2. walked'[i] = given[i - Len(walked)] /\ walked'[j] = given[j - Len(walked)]
      BY <1>12, <3>1
    <3>3. i - Len(walked) \in 1 .. Len(indexed) /\ j - Len(walked) \in 1 .. Len(indexed)
      BY <1>5, <1>6, <3>1
    <3> QED BY <1>5, <1>8, <3>1, <3>2, <3>3
  <2>3. CASE i <= Len(walked) /\ j > Len(walked)
    <3>1. i \in 1 .. Len(walked) /\ j - Len(walked) \in 1 .. l /\ j = Len(walked) + (j - Len(walked))
      BY <1>6, <1>12, <2>3
    <3>2. walked'[i] = walked[i] /\ walked'[j] = given[j - Len(walked)]
      BY <1>12, <3>1
    <3>3. walked[i] \in Given
      BY <1>2, <3>1 DEF ToSet
    <3>4. before # Unfixed /\ walked[i].position >= before /\ walked[i] \in journal
      BY <3>3 DEF Given, WalkSubject
    <3>5. given[j - Len(walked)].position < before /\ given[j - Len(walked)] \in journal
      BY <1>3, <1>8, <3>1, <3>4 DEF WalkSubject
    <3> QED BY <1>2, <3>2, <3>4, <3>5
  <2> QED BY <1>12, <2>1, <2>2, <2>3
<1>16. CASE Len(indexed) > Limit
  <2>1. /\ before' = indexed[Limit] /\ walking' = "query" /\ l = Limit /\ Limit \in 1 .. l
        /\ Len(indexed) = Limit + 1 /\ before' \in Nat
    <3>1. before' = indexed[Limit] /\ walking' = "query" /\ l = Limit /\ Limit \in 1 .. l
          /\ Len(indexed) = Limit + 1
      BY <1>2, <1>5, <1>6, <1>9, <1>16
    <3>2. indexed[Limit] \in P
      BY <1>6, <3>1
    <3> QED BY <1>4, <3>1, <3>2
  <2>2. before' # Unfixed
    BY <2>1 DEF Unfixed
  <2>3. ASSUME NEW e \in Given PROVE e.position >= before' /\ e \in WalkSubject
    <3>1. before # Unfixed /\ e.position >= before /\ e \in WalkSubject
      BY DEF Given
    <3>2. given[Limit].position = indexed[Limit] /\ given[Limit] \in Indexed
      BY <1>8, <2>1
    <3>3. indexed[Limit] < before
      BY <1>3, <3>1, <3>2
    <3> QED BY <1>2, <2>1, <3>1, <3>3 DEF WalkSubject
  <2>4. ASSUME NEW i \in 1 .. l PROVE given[i].position >= before' /\ given[i] \in WalkSubject
    <3>1. given[i].position = indexed[i] /\ given[i] \in Indexed
      BY <1>8
    <3>2. i = Limit \/ (i < Limit /\ i \in 1 .. Len(indexed) /\ Limit \in 1 .. Len(indexed))
      BY <1>2, <2>1
    <3>3. indexed[i] \in Nat
      BY <1>4, <1>6
    <3> QED BY <1>3, <1>5, <2>1, <3>1, <3>2, <3>3
  <2>5. ASSUME NEW e \in Indexed, e.position >= before' PROVE \E i \in 1 .. l : e = given[i]
    <3>1. e.position \in P /\ e \in journal
      BY DEF P, Indexed
    <3>2. ~ (e.position < indexed[Limit])
      BY <1>2, <2>1, <2>5, <3>1
    <3>3. Limit \in 1 .. Limit + 1 /\ Limit \in 1 .. Len(indexed) /\ Limit + 1 \in 1 .. Len(indexed)
      BY <1>2, <2>1
    <3>4. PICK i \in 1 .. Len(indexed) : e.position = indexed[i]
      BY <1>5, <3>1, <3>2, <3>3
    <3>5. indexed[Limit] > indexed[Limit + 1]
      BY <1>2, <1>5, <3>3
    <3>6. i # Limit + 1
      BY <1>2, <2>1, <3>1, <3>2, <3>4, <3>5
    <3>7. i \in 1 .. l
      BY <1>2, <2>1, <3>6
    <3>8. given[i].position = e.position /\ given[i] \in journal
      BY <1>8, <3>4, <3>7 DEF Indexed
    <3>9. given[i] = e
      BY <1>2, <3>1, <3>8 DEF JournalInv
    <3> QED BY <3>7, <3>9
  <2>6. ToSet(walked') = Given'
    <3>1. Given' = {e \in WalkSubject : e.position >= before'}
      BY <1>11, <2>2 DEF Given, Unfixed
    <3> QED BY <1>13, <1>14, <2>3, <2>4, <2>5, <3>1
  <2>7. snapshot' = snapshot /\ journal' = journal
    BY <1>1 DEF writeVars
  <2>8. WalkInv'
    BY <1>2, <1>12, <1>15, <2>1, <2>6, <2>7 DEF WalkInv
  <2> QED BY <1>11, <2>8 DEF HistoryInv
<1>17. CASE ~ (Len(indexed) > Limit)
  <2>1. walking' = "done" /\ before' = before /\ l = Len(indexed) /\ Len(indexed) # Limit + 1
    BY <1>2, <1>5, <1>9, <1>17
  <2>2. ASSUME NEW e \in Indexed PROVE \E i \in 1 .. l : e = given[i]
    <3>1. e.position \in P /\ e \in journal
      BY DEF P, Indexed
    <3>2. PICK i \in 1 .. l : e.position = indexed[i]
      BY <1>5, <2>1, <3>1
    <3>3. given[i].position = e.position /\ given[i] \in journal
      BY <1>8, <3>2 DEF Indexed
    <3>4. given[i] = e
      BY <1>2, <3>1, <3>3 DEF JournalInv
    <3> QED BY <3>4
  <2>3. \A i \in 1 .. l : given[i] \in WalkSubject
    BY <1>3, <1>8
  <2>4. Given \subseteq WalkSubject
    BY DEF Given
  <2>5. ToSet(walked') = WalkSubject'
    BY <1>11, <1>13, <1>14, <2>2, <2>3, <2>4
  <2>6. snapshot' = snapshot /\ journal' = journal
    BY <1>1 DEF writeVars
  <2>7. WalkInv'
    BY <1>2, <1>12, <1>15, <2>1, <2>5, <2>6 DEF WalkInv
  <2> QED BY <1>11, <2>7 DEF HistoryInv
<1> QED BY <1>16, <1>17

LEMMA HistoryPreserved == ASSUME HistoryInv, [EntityHistoryNext]_entityHistoryVars PROVE HistoryInv'
<1>1. CASE UNCHANGED entityHistoryVars
  BY <1>1 DEF entityHistoryVars, writeVars, walkVars, HistoryInv, JournalInv, WalkInv, Given,
              WalkSubject, Indexed, Descends
<1>2. CASE EntityHistoryNext
  BY <1>2, WritersKeep, FixKeeps, QueryKeeps, EnvelopesKeep DEF EntityHistoryNext
<1> QED BY <1>1, <1>2

\* A walk that has reached its end was given every transaction that changed its entity
\* up to the position it was fixed at, once each and the newest first, however many
\* committed meanwhile and however its pages fall; and it finds no envelope missing.
THEOREM WalksAreExact == EntityHistorySpec => []HistoryWalksAreExact
<1>1. EntityHistoryInit => HistoryInv
  BY HistoryInitially
<1>2. HistoryInv /\ [EntityHistoryNext]_entityHistoryVars => HistoryInv'
  BY HistoryPreserved
<1>3. HistoryInv => HistoryWalksAreExact
  BY DEF HistoryInv, WalkInv, WalkSubject, Descends, HistoryWalksAreExact
<1> QED BY <1>1, <1>2, <1>3, PTL DEF EntityHistorySpec

-----------------------------------------------------------------------------
(* Decisions: what spares work in answering changes no answer.             *)
(*                                                                         *)
(* An evaluation is a function of what it has observed, and observes every *)
(* fact, rule and clock bucket it looks at: two environments that show the *)
(* same under the keys of its observations give the same evaluation.  So a *)
(* cached answer whose observations show what they did is the present one, *)
(* who read no rule that moves does not flip, and the facts that the rules *)
(* name are all that a decision looks at.                                  *)
Fact == {NoFact} \cup FactValue
Catalog == [RuleKey -> {NoRule} \cup RuleBody]
Environment == [facts : [FactRead -> Fact], now : Nat, rules : Catalog]
\* A predicate, and the rules that are being called when it is reached.
Posed == Expression \X SUBSET RuleKey

\* What is left of the rules that may still be called, and of the tree.
CallRank ==
  [posed \in Posed |-> Cardinality(RuleKey \ posed[2]) * (MaxHeight + 1) + Height[posed[1]]]
HighestRank == Cardinality(RuleKey) * (MaxHeight + 1) + MaxHeight

LEMMA CallRankType == HighestRank \in Nat /\ CallRank \in [Posed -> 0 .. HighestRank]
<1> DEFINE w == MaxHeight + 1
<1>1. Cardinality(RuleKey) \in Nat /\ w \in Nat
  BY ExpressionAssumption, FS_CardinalityType
<1>2. ASSUME NEW x \in Nat, NEW y \in Nat, x <= y PROVE x * w \in Nat /\ y * w \in Nat /\ x * w <= y * w
  <2>1. PICK d \in Nat : y = x + d
    <3>1. y - x \in Nat /\ y = x + (y - x)
      BY <1>2
    <3> QED BY <3>1
  <2>2. x * w \in Nat /\ d * w \in Nat
    BY <1>1, SMT
  <2>3. y * w = x * w + d * w
    BY <1>1, <2>1, SMT
  <2> QED BY <2>2, <2>3
<1>3. ASSUME NEW posed \in Posed
      PROVE  Cardinality(RuleKey \ posed[2]) * w + Height[posed[1]] \in 0 .. HighestRank
  <2>1. IsFiniteSet(RuleKey) /\ RuleKey \ posed[2] \subseteq RuleKey
    BY ExpressionAssumption
  <2>2. Cardinality(RuleKey \ posed[2]) \in Nat /\ Cardinality(RuleKey \ posed[2]) <= Cardinality(RuleKey)
    BY <2>1, FS_Subset, FS_CardinalityType
  <2>3. Height[posed[1]] \in 0 .. MaxHeight /\ MaxHeight \in Nat
    BY ExpressionAssumption DEF Posed
  <2> QED BY <1>1, <1>2, <2>2, <2>3 DEF HighestRank
<1>4. HighestRank \in Nat
  <2>1. MaxHeight \in Nat /\ Cardinality(RuleKey) * w \in Nat
    BY <1>1, <1>2, ExpressionAssumption
  <2> QED BY <2>1 DEF HighestRank
<1> QED BY <1>3, <1>4 DEF CallRank

\* A call of a rule, and of a part, ranks lower.
LEMMA CallsDescend ==
  ASSUME NEW expr \in Expression, NEW calling \in SUBSET RuleKey
  PROVE  /\ \A key \in RuleKey \ calling, body \in Expression :
              CallRank[<<body, calling \cup {key}>>] < CallRank[<<expr, calling>>]
         /\ \A part \in Expression : Height[part] < Height[expr] =>
              CallRank[<<part, calling>>] < CallRank[<<expr, calling>>]
<1> DEFINE w == MaxHeight + 1
           c == Cardinality(RuleKey \ calling)
<1>1. c \in Nat /\ w \in Nat /\ MaxHeight \in Nat /\ c * w \in Nat
  <2>1. IsFiniteSet(RuleKey \ calling) /\ MaxHeight \in Nat
    BY ExpressionAssumption, FS_Subset
  <2>2. c \in Nat /\ w \in Nat
    BY <2>1, FS_CardinalityType
  <2>3. c * w \in Nat
    BY <2>2, SMT
  <2> QED BY <2>1, <2>2, <2>3
<1>2. \A e \in Expression : Height[e] \in 0 .. MaxHeight
  BY ExpressionAssumption
<1>3. ASSUME NEW key \in RuleKey \ calling, NEW body \in Expression
      PROVE  CallRank[<<body, calling \cup {key}>>] < CallRank[<<expr, calling>>]
  <2>1. Cardinality(RuleKey \ (calling \cup {key})) = c - 1 /\ c - 1 \in Nat
    <3>1. RuleKey \ (calling \cup {key}) = (RuleKey \ calling) \ {key} /\ IsFiniteSet(RuleKey \ calling)
      BY ExpressionAssumption, FS_Subset
    <3>2. Cardinality((RuleKey \ calling) \ {key}) = c - 1
      BY <3>1, FS_RemoveElement
    <3>3. Cardinality((RuleKey \ calling) \ {key}) \in Nat
      BY <3>1, FS_RemoveElement, FS_CardinalityType, FS_Subset
    <3> QED BY <3>1, <3>2, <3>3
  <2>2. CallRank[<<body, calling \cup {key}>>] = (c - 1) * w + Height[body]
    BY <2>1 DEF CallRank, Posed
  <2>3. CallRank[<<expr, calling>>] = c * w + Height[expr]
    BY DEF CallRank, Posed
  <2>4. (c - 1) * w = c * w - w
    BY <1>1, <2>1, SMT
  <2> QED BY <1>1, <1>2, <2>2, <2>3, <2>4
<1>4. ASSUME NEW part \in Expression, Height[part] < Height[expr]
      PROVE  CallRank[<<part, calling>>] < CallRank[<<expr, calling>>]
  <2>1. CallRank[<<part, calling>>] = c * w + Height[part] /\ CallRank[<<expr, calling>>] = c * w + Height[expr]
    BY DEF CallRank, Posed
  <2> HIDE DEF c, w
  <2> QED BY <1>1, <1>2, <1>4, <2>1
<1> QED BY <1>3, <1>4

LEMMA NodeOfDepends ==
  ASSUME NEW env \in Environment, NEW expr \in Expression, NEW calling \in SUBSET RuleKey, NEW f, NEW g,
         \A y \in Posed : CallRank[y] < CallRank[<<expr, calling>>] => f[y] = g[y]
  PROVE  NodeOf(expr, env, calling, f) = NodeOf(expr, env, calling, g)
<1>1. CASE expr.tag = "Rule" /\ env.rules[expr.key] # NoRule /\ expr.key \notin calling
  <2>1. expr.key \in RuleKey \ calling /\ env.rules[expr.key] \in Expression
    BY <1>1, ExpressionAssumption DEF Environment, Catalog
  <2>2. <<env.rules[expr.key], calling \cup {expr.key}>> \in Posed
    BY <2>1 DEF Posed
  <2>3. CallRank[<<env.rules[expr.key], calling \cup {expr.key}>>] < CallRank[<<expr, calling>>]
    BY <2>1, CallsDescend
  <2>4. f[<<env.rules[expr.key], calling \cup {expr.key}>>] = g[<<env.rules[expr.key], calling \cup {expr.key}>>]
    BY <2>2, <2>3
  <2> QED BY <1>1, <2>4 DEF NodeOf
<1>2. CASE expr.tag = "Rule" /\ ~(env.rules[expr.key] # NoRule /\ expr.key \notin calling)
  BY <1>2 DEF NodeOf
<1>3. CASE expr.tag \in {"Lit", "Exists", "Eq", "Before"}
  BY <1>3 DEF NodeOf
<1>4. CASE expr.tag \in Composite
  <2>1. \A i \in DOMAIN expr.exprs : f[<<expr.exprs[i], calling>>] = g[<<expr.exprs[i], calling>>]
    <3> SUFFICES ASSUME NEW i \in DOMAIN expr.exprs
                 PROVE f[<<expr.exprs[i], calling>>] = g[<<expr.exprs[i], calling>>]
      OBVIOUS
    <3>1. expr.exprs[i] \in Expression /\ Height[expr.exprs[i]] < Height[expr]
      BY <1>4, ExpressionAssumption
    <3>2. <<expr.exprs[i], calling>> \in Posed /\ CallRank[<<expr.exprs[i], calling>>] < CallRank[<<expr, calling>>]
      BY <3>1, CallsDescend DEF Posed
    <3> QED BY <3>2
  <2>2. [i \in DOMAIN expr.exprs |-> f[<<expr.exprs[i], calling>>]] = [i \in DOMAIN expr.exprs |-> g[<<expr.exprs[i], calling>>]]
    BY <2>1
  <2> DEFINE Parts(h) == [i \in DOMAIN expr.exprs |-> h[<<expr.exprs[i], calling>>]]
             Truths(c) == {c[i].truth : i \in DOMAIN c}
             Of(c) == Node(expr, CASE expr.tag = "Not" -> NotOf(c[1].truth)
                                   [] expr.tag = "All" -> AllOf(Truths(c))
                                   [] OTHER -> AnyOf(Truths(c)), {}, c)
  <2>3. expr.tag \notin {"Lit", "Exists", "Eq", "Before", "Rule"}
    BY <1>4 DEF Composite
  <2>4. NodeOf(expr, env, calling, f) = Of(Parts(f))
    BY <2>3 DEF NodeOf
  <2>5. NodeOf(expr, env, calling, g) = Of(Parts(g))
    BY <2>3 DEF NodeOf
  <2>6. Parts(f) = Parts(g)
    BY <2>2
  <2> HIDE DEF Parts, Of
  <2> QED BY <2>4, <2>5, <2>6
<1>5. CASE expr.tag \notin {"Rule", "Lit", "Exists", "Eq", "Before"} \cup Composite
  BY <1>5, ExpressionAssumption
<1> QED BY <1>1, <1>2, <1>3, <1>4, <1>5

\* The evaluator is the function that its lines define: no call needs its own answer.
LEMMA GoUnfolds ==
  ASSUME NEW env \in Environment
  PROVE  Go(env) = [posed \in Posed |-> NodeOf(posed[1], env, posed[2], Go(env))]
<1> DEFINE Good(n, f) ==
             /\ f = [posed \in Posed |-> f[posed]]
             /\ \A posed \in Posed : CallRank[posed] < n => f[posed] = NodeOf(posed[1], env, posed[2], f)
           S == {n \in Nat : \E f : Good(n, f)}
           Is(f) == f = [posed \in Posed |-> NodeOf(posed[1], env, posed[2], f)]
<1>1. 0 \in S
  <2>1. Good(0, [posed \in Posed |-> 0])
    BY CallRankType
  <2> QED BY <2>1
<1>2. ASSUME NEW n \in Nat, n \in S PROVE n + 1 \in S
  <2>1. PICK f : Good(n, f)
    BY <1>2
  <2> DEFINE g == [posed \in Posed |-> IF CallRank[posed] < n THEN f[posed] ELSE NodeOf(posed[1], env, posed[2], f)]
  <2>2. ASSUME NEW posed \in Posed, CallRank[posed] < n + 1
        PROVE  g[posed] = NodeOf(posed[1], env, posed[2], g)
    <3>1. g[posed] = NodeOf(posed[1], env, posed[2], f)
      BY <2>1
    <3>2. \A y \in Posed : CallRank[y] < CallRank[posed] => f[y] = g[y]
      BY <2>2, CallRankType
    <3>3. posed[1] \in Expression /\ posed[2] \in SUBSET RuleKey /\ posed = <<posed[1], posed[2]>>
      BY DEF Posed
    <3>4. NodeOf(posed[1], env, posed[2], f) = NodeOf(posed[1], env, posed[2], g)
      <4> HIDE DEF g
      <4> QED BY <3>2, <3>3, NodeOfDepends
    <3> QED BY <3>1, <3>4
  <2>3. g = [posed \in Posed |-> g[posed]]
    OBVIOUS
  <2> HIDE DEF g
  <2>4. Good(n + 1, g)
    BY <2>2, <2>3
  <2> QED BY <2>4
<1>3. HighestRank + 1 \in S
  <2> HIDE DEF S
  <2>1. Nat \subseteq S
    BY <1>1, <1>2, AllNaturals
  <2> QED BY <2>1, CallRankType
<1>4. PICK f : Good(HighestRank + 1, f)
  BY <1>3
<1>5. Is(f)
  <2>1. \A posed \in Posed : CallRank[posed] < HighestRank + 1
    BY CallRankType
  <2>2. \A posed \in Posed : f[posed] = NodeOf(posed[1], env, posed[2], f)
    BY <1>4, <2>1
  <2> QED BY <1>4, <2>2
<1>6. Go(env) = CHOOSE go : Is(go)
  BY DEF Go, Posed
<1> HIDE DEF Is
<1>7. Is(Go(env))
  BY <1>5, <1>6
<1> QED BY <1>7 DEF Is

LEMMA GoAt ==
  ASSUME NEW env \in Environment, NEW expr \in Expression, NEW calling \in SUBSET RuleKey
  PROVE  Go(env)[<<expr, calling>>] = NodeOf(expr, env, calling, Go(env))
<1> DEFINE go == Go(env)
<1>1. go = [posed \in Posed |-> NodeOf(posed[1], env, posed[2], go)]
  BY GoUnfolds
<1>2. <<expr, calling>> \in Posed
  BY DEF Posed
<1> HIDE DEF go
<1>3. go[<<expr, calling>>] = NodeOf(expr, env, calling, go)
  BY <1>1, <1>2
<1> QED BY <1>3 DEF go

\* What a node answers, by its kind.
LEMMA NodesByKind ==
  ASSUME NEW env \in Environment, NEW expr \in Expression, NEW calling \in SUBSET RuleKey
  PROVE  LET node == Go(env)[<<expr, calling>>]
             key == FactKey(ReadOf(expr))
             clock == IF expr.tag = "Before" THEN Observe(env, ClockKey(expr.granularity)) ELSE {}
             child == Go(env)[<<env.rules[expr.key], calling \cup {expr.key}>>]
             parts == [i \in DOMAIN expr.exprs |-> Go(env)[<<expr.exprs[i], calling>>]]
             truths == {parts[i].truth : i \in DOMAIN parts}
         IN  /\ expr.tag = "Lit" => node = Node(expr, Truth(expr.value), {}, <<>>)
             /\ expr.tag \in {"Exists", "Eq", "Before"} =>
                  node = Node(expr, Compared(expr, Seen(env, key), env.now), Observe(env, key) \cup clock, <<>>)
             /\ expr.tag = "Rule" /\ (env.rules[expr.key] = NoRule \/ expr.key \in calling) =>
                  node = Node(expr, "unknown", Observe(env, RuleSlot(expr.key)), <<>>)
             /\ expr.tag = "Rule" /\ ~(env.rules[expr.key] = NoRule \/ expr.key \in calling) =>
                  node = Node(expr, child.truth, Observe(env, RuleSlot(expr.key)), <<child>>)
             /\ expr.tag \in Composite =>
                  node = Node(expr, CASE expr.tag = "Not" -> NotOf(parts[1].truth)
                                      [] expr.tag = "All" -> AllOf(truths)
                                      [] OTHER -> AnyOf(truths), {}, parts)
<1> DEFINE go == Go(env)
<1>1. go[<<expr, calling>>] = NodeOf(expr, env, calling, go)
  BY GoAt
<1> HIDE DEF go
<1>2. CASE expr.tag \notin Composite
  BY <1>1, <1>2 DEF NodeOf, go, Composite
<1>3. CASE expr.tag \in Composite
  <2>1. expr.tag \notin {"Lit", "Exists", "Eq", "Before", "Rule"}
    BY <1>3 DEF Composite
  <2> QED BY <1>1, <1>3, <2>1 DEF NodeOf, go
<1> QED BY <1>2, <1>3

\* A rule that is absent or being called is unknown; the node of another has its child below.
LEMMA RuleNodes ==
  ASSUME NEW env \in Environment, NEW expr \in Expression, NEW calling \in SUBSET RuleKey,
         expr.tag = "Rule"
  PROVE  LET node == Go(env)[<<expr, calling>>]
             child == Go(env)[<<env.rules[expr.key], calling \cup {expr.key}>>]
         IN  /\ env.rules[expr.key] = NoRule \/ expr.key \in calling =>
                  node = Node(expr, "unknown", Observe(env, RuleSlot(expr.key)), <<>>)
             /\ ~(env.rules[expr.key] = NoRule \/ expr.key \in calling) =>
                  node = Node(expr, child.truth, Observe(env, RuleSlot(expr.key)), <<child>>)
BY NodesByKind, ZenonT(60)

LEMMA CompositeNodes ==
  ASSUME NEW env \in Environment, NEW expr \in Expression, NEW calling \in SUBSET RuleKey, expr.tag \in Composite
  PROVE  \E truth : Go(env)[<<expr, calling>>] =
                      Node(expr, truth, {}, [i \in DOMAIN expr.exprs |-> Go(env)[<<expr.exprs[i], calling>>]])
<1> DEFINE parts == [i \in DOMAIN expr.exprs |-> Go(env)[<<expr.exprs[i], calling>>]]
           truths == {parts[i].truth : i \in DOMAIN parts}
           truth == CASE expr.tag = "Not" -> NotOf(parts[1].truth)
                      [] expr.tag = "All" -> AllOf(truths)
                      [] OTHER -> AnyOf(truths)
<1>1. Go(env)[<<expr, calling>>] = Node(expr, truth, {}, parts)
  BY NodesByKind
<1> HIDE DEF truth
<1> QED BY <1>1

ObservedKey == {FactKey(read) : read \in FactRead} \cup {RuleSlot(key) : key \in RuleKey}
                 \cup {ClockKey(granularity) : granularity \in Granularity}

\* An observation is of a key there may be, and of what it showed.
Honest(env, observed) ==
  \A o \in observed : o.key \in ObservedKey /\ o = [key |-> o.key, seen |-> Seen(env, o.key)]

LEMMA NodeObserves ==
  ASSUME NEW expr, NEW truth, NEW observed, NEW children
  PROVE  /\ observed \subseteq Node(expr, truth, observed, children).observed
         /\ \A i \in DOMAIN children : children[i].observed \subseteq Node(expr, truth, observed, children).observed
         /\ \A o \in Node(expr, truth, observed, children).observed :
              o \in observed \/ \E i \in DOMAIN children : o \in children[i].observed
BY DEF Node

LEMMA EvaluationsAreHonest ==
  ASSUME NEW env \in Environment
  PROVE  \A posed \in Posed : Honest(env, Go(env)[posed].observed)
<1> DEFINE P(posed) == Honest(env, Go(env)[posed].observed)
           S == {n \in Nat : \A posed \in Posed : CallRank[posed] < n => P(posed)}
<1>1. 0 \in S
  BY CallRankType
<1>2. ASSUME NEW n \in Nat, n \in S PROVE n + 1 \in S
  <2> SUFFICES ASSUME NEW expr \in Expression, NEW calling \in SUBSET RuleKey, CallRank[<<expr, calling>>] < n + 1
               PROVE  P(<<expr, calling>>)
    BY DEF Posed
  <2> DEFINE node == Go(env)[<<expr, calling>>]
  <2>1. \A y \in Posed : CallRank[y] < CallRank[<<expr, calling>>] => P(y)
    <3>1. CallRank[<<expr, calling>>] \in Nat /\ \A y \in Posed : CallRank[y] \in Nat
      BY CallRankType DEF Posed
    <3> QED BY <1>2, <3>1
  <2> HIDE DEF P
  <2>2. \A key \in ObservedKey : Honest(env, Observe(env, key))
    BY DEF Honest, Observe
  <2>3. CASE expr.tag = "Lit"
    <3>1. node = Node(expr, Truth(expr.value), {}, <<>>)
      BY <2>3, NodesByKind
    <3> QED BY <3>1 DEF P, Honest, Node
  <2>4. CASE expr.tag \in {"Exists", "Eq", "Before"}
    <3> DEFINE key == FactKey(ReadOf(expr))
               clock == IF expr.tag = "Before" THEN Observe(env, ClockKey(expr.granularity)) ELSE {}
               truth == Compared(expr, Seen(env, key), env.now)
    <3>1. node = Node(expr, truth, Observe(env, key) \cup clock, <<>>)
      BY <2>4, NodesByKind
    <3>2. Honest(env, Observe(env, key) \cup clock)
      <4>1. key \in ObservedKey
        BY <2>4, ExpressionAssumption DEF ObservedKey
      <4>2. expr.tag = "Before" => ClockKey(expr.granularity) \in ObservedKey
        BY ExpressionAssumption DEF ObservedKey
      <4> HIDE DEF key
      <4> QED BY <2>2, <4>1, <4>2 DEF Honest
    <3> HIDE DEF key, clock, truth
    <3> QED BY <3>1, <3>2 DEF P, Honest, Node
  <2>5. CASE expr.tag = "Rule" /\ (env.rules[expr.key] = NoRule \/ expr.key \in calling)
    <3>1. node = Node(expr, "unknown", Observe(env, RuleSlot(expr.key)), <<>>)
      BY <2>5, NodesByKind
    <3>2. RuleSlot(expr.key) \in ObservedKey
      BY <2>5, ExpressionAssumption DEF ObservedKey
    <3> QED BY <2>2, <3>1, <3>2 DEF P, Honest, Node
  <2>6. CASE expr.tag = "Rule" /\ ~(env.rules[expr.key] = NoRule \/ expr.key \in calling)
    <3> DEFINE below == <<env.rules[expr.key], calling \cup {expr.key}>>
               child == Go(env)[below]
    <3>1. node = Node(expr, child.truth, Observe(env, RuleSlot(expr.key)), <<child>>)
      BY <2>6, NodesByKind
    <3>2. RuleSlot(expr.key) \in ObservedKey
      BY <2>6, ExpressionAssumption DEF ObservedKey
    <3>3. below \in Posed /\ CallRank[below] < CallRank[<<expr, calling>>]
      <4>1. expr.key \in RuleKey \ calling /\ env.rules[expr.key] \in Expression
        BY <2>6, ExpressionAssumption DEF Environment, Catalog
      <4> QED BY <4>1, CallsDescend DEF Posed
    <3>4. Honest(env, child.observed)
      BY <2>1, <3>3 DEF P
    <3>5. Honest(env, Observe(env, RuleSlot(expr.key)))
      BY <2>2, <3>2
    <3> HIDE DEF child
    <3>6. \A o \in node.observed : o \in Observe(env, RuleSlot(expr.key)) \/ o \in child.observed
      BY <3>1 DEF Node
    <3> HIDE DEF node
    <3>7. Honest(env, node.observed)
      BY <3>4, <3>5, <3>6 DEF Honest
    <3> QED BY <3>7 DEF P, node
  <2>7. CASE expr.tag \in Composite
    <3> DEFINE parts == [i \in DOMAIN expr.exprs |-> Go(env)[<<expr.exprs[i], calling>>]]
    <3>1. PICK truth : node = Node(expr, truth, {}, parts)
      BY <2>7, CompositeNodes
    <3>2. ASSUME NEW i \in DOMAIN expr.exprs PROVE Honest(env, Go(env)[<<expr.exprs[i], calling>>].observed)
      <4>1. <<expr.exprs[i], calling>> \in Posed /\ CallRank[<<expr.exprs[i], calling>>] < CallRank[<<expr, calling>>]
        BY <2>7, ExpressionAssumption, CallsDescend DEF Posed
      <4> QED BY <2>1, <4>1 DEF P
    <3>3. \A o \in node.observed : \E i \in DOMAIN expr.exprs : o \in Go(env)[<<expr.exprs[i], calling>>].observed
      <4>1. DOMAIN parts = DOMAIN expr.exprs /\ \A i \in DOMAIN expr.exprs : parts[i] = Go(env)[<<expr.exprs[i], calling>>]
        OBVIOUS
      <4>2. \A o \in node.observed : \E i \in DOMAIN parts : o \in parts[i].observed
        <5> HIDE DEF parts, node
        <5> QED BY <3>1, NodeObserves
      <4> HIDE DEF parts, node
      <4> QED BY <4>1, <4>2
    <3> HIDE DEF node
    <3>4. Honest(env, node.observed)
      BY <3>2, <3>3 DEF Honest
    <3> QED BY <3>4 DEF P, node
  <2> QED BY <2>3, <2>4, <2>5, <2>6, <2>7, ExpressionAssumption
<1> HIDE DEF S
<1>3. HighestRank + 1 \in S
  <2>1. Nat \subseteq S
    BY <1>1, <1>2, AllNaturals
  <2> QED BY <2>1, CallRankType
<1> HIDE DEF P
<1>4. \A posed \in Posed : P(posed)
  BY <1>3, CallRankType DEF S
<1> QED BY <1>4 DEF P

-----------------------------------------------------------------------------
\* An evaluation depends on nothing that it has not observed.
Agrees(env, observed) == \A o \in observed : Seen(env, o.key) = o.seen

LEMMA SeenKeys ==
  ASSUME NEW env \in Environment
  PROVE  /\ \A read \in FactRead : Seen(env, FactKey(read)) = env.facts[read]
         /\ \A key \in RuleKey : Seen(env, RuleSlot(key)) = <<"cid", env.rules[key]>>
         /\ \A granularity \in Granularity :
              Seen(env, ClockKey(granularity)) = <<"bucket", Bucket(env.now, granularity)>>
<1>1. \A read \in FactRead : read = <<read[1], read[2]>>
  BY ExpressionAssumption
<1> QED BY <1>1 DEF Seen, FactKey, RuleSlot, ClockKey

LEMMA ComparedByBuckets ==
  ASSUME NEW expr, NEW value, NEW now, NEW then,
         expr.tag \in {"Exists", "Eq", "Before"},
         expr.tag = "Before" => Bucket(now, expr.granularity) = Bucket(then, expr.granularity)
  PROVE  Compared(expr, value, now) = Compared(expr, value, then)
BY DEF Compared

LEMMA AgreeingEvaluations ==
  ASSUME NEW env \in Environment, NEW other \in Environment
  PROVE  \A posed \in Posed : Agrees(other, Go(env)[posed].observed) => Go(other)[posed] = Go(env)[posed]
<1> DEFINE P(posed) == Agrees(other, Go(env)[posed].observed) => Go(other)[posed] = Go(env)[posed]
           S == {n \in Nat : \A posed \in Posed : CallRank[posed] < n => P(posed)}
<1>1. 0 \in S
  BY CallRankType
<1>2. ASSUME NEW n \in Nat, n \in S PROVE n + 1 \in S
  <2> SUFFICES ASSUME NEW expr \in Expression, NEW calling \in SUBSET RuleKey, CallRank[<<expr, calling>>] < n + 1
               PROVE  P(<<expr, calling>>)
    BY DEF Posed
  <2> DEFINE posed == <<expr, calling>>
             node == Go(env)[posed]
             node2 == Go(other)[posed]
  <2>1. \A y \in Posed : CallRank[y] < CallRank[posed] => P(y)
    <3>1. CallRank[posed] \in Nat /\ \A y \in Posed : CallRank[y] \in Nat
      BY CallRankType DEF Posed
    <3> QED BY <1>2, <3>1
  <2> SUFFICES ASSUME Agrees(other, node.observed) PROVE node2 = node
    OBVIOUS
  <2>2. \A key \in ObservedKey : Observe(env, key) \subseteq node.observed => Seen(other, key) = Seen(env, key)
    BY DEF Agrees, Observe
  <2> HIDE DEF P
  <2>3. CASE expr.tag = "Lit"
    BY <2>3, NodesByKind
  <2>4. CASE expr.tag \in {"Exists", "Eq", "Before"}
    <3> DEFINE key == FactKey(ReadOf(expr))
               clock(e) == IF expr.tag = "Before" THEN Observe(e, ClockKey(expr.granularity)) ELSE {}
               truth(e) == Compared(expr, Seen(e, key), e.now)
               seen(e) == Observe(e, key) \cup clock(e)
    <3>1. node = Node(expr, truth(env), seen(env), <<>>) /\ node2 = Node(expr, truth(other), seen(other), <<>>)
      BY <2>4, NodesByKind
    <3>2. key \in ObservedKey /\ (expr.tag = "Before" => ClockKey(expr.granularity) \in ObservedKey)
      BY <2>4, ExpressionAssumption DEF ObservedKey
    <3>3. seen(env) \subseteq node.observed
      <4> HIDE DEF seen, truth, node
      <4> QED BY <3>1, NodeObserves
    <3>4. Seen(other, key) = Seen(env, key)
      <4> HIDE DEF node, key
      <4> QED BY <2>2, <3>2, <3>3
    <3>5. ASSUME expr.tag = "Before"
          PROVE  /\ Seen(other, ClockKey(expr.granularity)) = Seen(env, ClockKey(expr.granularity))
                 /\ Bucket(other.now, expr.granularity) = Bucket(env.now, expr.granularity)
      <4>1. expr.granularity \in Granularity
        BY <3>5, ExpressionAssumption
      <4>2. Seen(other, ClockKey(expr.granularity)) = Seen(env, ClockKey(expr.granularity))
        <5> HIDE DEF node, key
        <5> QED BY <2>2, <3>2, <3>3, <3>5
      <4> QED BY <4>1, <4>2, SeenKeys
    <3>6. seen(other) = seen(env)
      <4> HIDE DEF key
      <4> QED BY <3>4, <3>5 DEF Observe
    <3>7. truth(other) = truth(env)
      <4> HIDE DEF key
      <4> QED BY <2>4, <3>4, <3>5, ComparedByBuckets
    <3> HIDE DEF seen, truth, node, node2
    <3> QED BY <3>1, <3>6, <3>7
  <2>5. CASE expr.tag = "Rule"
    <3> DEFINE slot == RuleSlot(expr.key)
    <3>1. expr.key \in RuleKey /\ slot \in ObservedKey
      BY <2>5, ExpressionAssumption DEF ObservedKey
    <3>2. Observe(env, slot) \subseteq node.observed
      <4> DEFINE child == Go(env)[<<env.rules[expr.key], calling \cup {expr.key}>>]
      <4>1. \/ node = Node(expr, "unknown", Observe(env, slot), <<>>)
            \/ node = Node(expr, child.truth, Observe(env, slot), <<child>>)
        BY <2>5, NodesByKind
      <4> HIDE DEF node, slot, child
      <4> QED BY <4>1, NodeObserves
    <3>3. Seen(other, slot) = Seen(env, slot)
      <4> HIDE DEF node, slot
      <4> QED BY <2>2, <3>1, <3>2
    <3>4. other.rules[expr.key] = env.rules[expr.key]
      BY <3>1, <3>3, SeenKeys
    <3>5. Observe(other, slot) = Observe(env, slot)
      BY <3>3 DEF Observe
    <3>6. CASE env.rules[expr.key] = NoRule \/ expr.key \in calling
      <4>1. node = Node(expr, "unknown", Observe(env, slot), <<>>)
        BY <2>5, <3>6, NodesByKind
      <4>2. node2 = Node(expr, "unknown", Observe(other, slot), <<>>)
        BY <2>5, <3>4, <3>6, RuleNodes
      <4> HIDE DEF node, node2, slot
      <4> QED BY <3>5, <4>1, <4>2
    <3>7. CASE ~(env.rules[expr.key] = NoRule \/ expr.key \in calling)
      <4> DEFINE below == <<env.rules[expr.key], calling \cup {expr.key}>>
                 child(e) == Go(e)[below]
      <4>1. /\ node = Node(expr, child(env).truth, Observe(env, slot), <<child(env)>>)
            /\ node2 = Node(expr, child(other).truth, Observe(other, slot), <<child(other)>>)
        <5>1. node = Node(expr, child(env).truth, Observe(env, slot), <<child(env)>>)
          BY <2>5, <3>7, RuleNodes
        <5>2. node2 = Node(expr, child(other).truth, Observe(other, slot), <<child(other)>>)
          BY <2>5, <3>4, <3>7, RuleNodes
        <5> QED BY <5>1, <5>2
      <4>2. below \in Posed /\ CallRank[below] < CallRank[posed]
        <5>1. expr.key \in RuleKey \ calling /\ env.rules[expr.key] \in Expression
          BY <3>1, <3>7, ExpressionAssumption DEF Environment, Catalog
        <5> QED BY <5>1, CallsDescend DEF Posed
      <4>3. Agrees(other, child(env).observed)
        <5>1. child(env).observed \subseteq node.observed
          <6> HIDE DEF child, node, slot
          <6> QED BY <4>1 DEF Node
        <5> HIDE DEF child, node
        <5> QED BY <5>1 DEF Agrees
      <4>4. child(other) = child(env)
        <5>1. P(below)
          BY <2>1, <4>2
        <5> QED BY <4>3, <5>1 DEF P
      <4> HIDE DEF child, node, node2, slot
      <4> QED BY <3>5, <4>1, <4>4
    <3> QED BY <3>6, <3>7
  <2>6. CASE expr.tag \in Composite
    <3> DEFINE parts(e) == [i \in DOMAIN expr.exprs |-> Go(e)[<<expr.exprs[i], calling>>]]
               truths(c) == {c[i].truth : i \in DOMAIN c}
               Of(c) == Node(expr, CASE expr.tag = "Not" -> NotOf(c[1].truth)
                                     [] expr.tag = "All" -> AllOf(truths(c))
                                     [] OTHER -> AnyOf(truths(c)), {}, c)
    <3>1. node = Of(parts(env)) /\ node2 = Of(parts(other))
      BY <2>6, NodesByKind
    <3>2. ASSUME NEW i \in DOMAIN expr.exprs
          PROVE  Go(other)[<<expr.exprs[i], calling>>] = Go(env)[<<expr.exprs[i], calling>>]
      <4> DEFINE below == <<expr.exprs[i], calling>>
      <4>1. below \in Posed /\ CallRank[below] < CallRank[posed]
        BY <2>6, ExpressionAssumption, CallsDescend DEF Posed
      <4>2. Go(env)[below].observed \subseteq node.observed
        <5>1. parts(env)[i] = Go(env)[below] /\ i \in DOMAIN parts(env)
          OBVIOUS
        <5>2. parts(env)[i].observed \subseteq node.observed
          <6> HIDE DEF parts, node
          <6> QED BY <3>1, <5>1, NodeObserves
        <5> HIDE DEF parts, node, below
        <5> QED BY <5>1, <5>2
      <4>3. Agrees(other, Go(env)[below].observed)
        <5> HIDE DEF node, below
        <5> QED BY <4>2 DEF Agrees
      <4>4. P(below)
        BY <2>1, <4>1
      <4> QED BY <4>3, <4>4 DEF P
    <3>3. parts(other) = parts(env)
      BY <3>2
    <3> HIDE DEF Of, parts, node, node2
    <3> QED BY <3>1, <3>3
  <2> QED BY <2>3, <2>4, <2>5, <2>6, ExpressionAssumption
<1> HIDE DEF S
<1>3. HighestRank + 1 \in S
  <2>1. Nat \subseteq S
    BY <1>1, <1>2, AllNaturals
  <2> QED BY <2>1, CallRankType
<1> HIDE DEF P
<1>4. \A posed \in Posed : P(posed)
  BY <1>3, CallRankType DEF S
<1> QED BY <1>4 DEF P

-----------------------------------------------------------------------------
(* The facts that a decision loads. *)

LEMMA LeavesAt ==
  /\ \A expr \in Expression : LeavesOf[expr] \subseteq Expression
  /\ \A expr \in Expression :
       LeavesOf[expr] = IF expr.tag \in Composite
                        THEN UNION {LeavesOf[expr.exprs[i]] : i \in DOMAIN expr.exprs} ELSE {expr}
<1> DEFINE D == Expression
           T == SUBSET Expression
           Body(expr, f) == IF expr.tag \in Composite THEN UNION {f[expr.exprs[i]] : i \in DOMAIN expr.exprs} ELSE {expr}
           step == [expr \in D |-> [f \in [D -> T] |-> Body(expr, f)]]
           Is(f) == f = [expr \in Expression |-> Body(expr, f)]
<1>1. step \in [D -> [[D -> T] -> T]]
  <2>1. ASSUME NEW expr \in D, NEW f \in [D -> T] PROVE Body(expr, f) \in T
    BY ExpressionAssumption
  <2> HIDE DEF Body, T
  <2> QED BY <2>1
<1>2. ASSUME NEW expr \in D, NEW f \in [D -> T], NEW g \in [D -> T],
             \A y \in D : Height[y] < Height[expr] => f[y] = g[y]
      PROVE  Body(expr, f) = Body(expr, g)
  <2>1. CASE expr.tag \in Composite
    <3>1. \A i \in DOMAIN expr.exprs : f[expr.exprs[i]] = g[expr.exprs[i]]
      BY <1>2, <2>1, ExpressionAssumption
    <3> QED BY <2>1, <3>1
  <2> QED BY <2>1
<1>3. PICK f \in [D -> T] : \A expr \in D : f[expr] = step[expr][f]
  <2>1. Height \in [D -> 0 .. MaxHeight] /\ MaxHeight \in Nat /\ T # {}
    BY ExpressionAssumption
  <2>2. \A expr \in D : \A f \in [D -> T] : step[expr][f] = Body(expr, f)
    <3> HIDE DEF D, T, Body
    <3> QED OBVIOUS
  <2>3. Ranked(D, T, MaxHeight, Height, step)
    <3>1. \A x \in D : \A f, g \in [D -> T] :
             (\A y \in D : Height[y] < Height[x] => f[y] = g[y]) => step[x][f] = step[x][g]
      <4> HIDE DEF D, T, step, Body
      <4> QED BY <1>2, <2>2
    <3> HIDE DEF D, T, step, Body
    <3> QED BY <1>1, <2>1, <3>1 DEF Ranked
  <2> HIDE DEF D, T, step
  <2> QED BY <2>3, RankedRecursion
<1>4. Is(f)
  <2>1. \A expr \in D : f[expr] = Body(expr, f)
    BY <1>3
  <2> QED BY <2>1
<1>5. LeavesOf = CHOOSE g : Is(g)
  BY DEF LeavesOf
<1> HIDE DEF Is
<1>6. Is(LeavesOf)
  BY <1>4, <1>5
<1>7. \A expr \in Expression : LeavesOf[expr] = Body(expr, LeavesOf)
  BY <1>6 DEF Is
<1>8. \A expr \in Expression : LeavesOf[expr] \subseteq Expression
  <2> DEFINE S == {n \in Nat : \A expr \in Expression : Height[expr] < n => LeavesOf[expr] \subseteq Expression}
  <2>1. 0 \in S
    BY ExpressionAssumption
  <2>2. ASSUME NEW n \in Nat, n \in S PROVE n + 1 \in S
    <3> SUFFICES ASSUME NEW expr \in Expression, Height[expr] < n + 1 PROVE LeavesOf[expr] \subseteq Expression
      OBVIOUS
    <3>1. \A e \in Expression : Height[e] < Height[expr] => LeavesOf[e] \subseteq Expression
      BY <2>2, ExpressionAssumption
    <3>2. expr.tag \in Composite => \A i \in DOMAIN expr.exprs : LeavesOf[expr.exprs[i]] \subseteq Expression
      BY <3>1, ExpressionAssumption
    <3>3. LeavesOf[expr] = Body(expr, LeavesOf)
      BY <1>7
    <3> QED BY <3>2, <3>3
  <2> HIDE DEF S
  <2>3. MaxHeight + 1 \in S
    BY <2>1, <2>2, AllNaturals, ExpressionAssumption
  <2> QED BY <2>3, ExpressionAssumption DEF S
<1> QED BY <1>7, <1>8

LEMMA MentionedRulesAreNamed ==
  ASSUME NEW expr \in Expression
  PROVE  MentionsRules(expr) \subseteq RuleKey
BY LeavesAt, ExpressionAssumption DEF MentionsRules

LEMMA PartsMentionNoMore ==
  ASSUME NEW expr \in Expression, expr.tag \in Composite, NEW i \in DOMAIN expr.exprs
  PROVE  /\ Mentions(expr.exprs[i]) \subseteq Mentions(expr)
         /\ MentionsRules(expr.exprs[i]) \subseteq MentionsRules(expr)
<1>1. LeavesOf[expr] = UNION {LeavesOf[expr.exprs[j]] : j \in DOMAIN expr.exprs}
  BY LeavesAt
<1>2. LeavesOf[expr.exprs[i]] \subseteq LeavesOf[expr]
  BY <1>1
<1> QED BY <1>2 DEF Mentions, MentionsRules

LEMMA LeavesMention ==
  ASSUME NEW expr \in Expression
  PROVE  /\ expr.tag \in {"Exists", "Eq", "Before"} => ReadOf(expr) \in Mentions(expr)
         /\ expr.tag = "Rule" => expr.key \in MentionsRules(expr)
<1>1. expr.tag \notin Composite => LeavesOf[expr] = {expr}
  BY LeavesAt
<1> QED BY <1>1 DEF Mentions, MentionsRules, Composite

VisitRank == [posed \in Posed |-> Cardinality(RuleKey \ posed[2])]

LEMMA VisitRankType ==
  /\ Cardinality(RuleKey) \in Nat /\ VisitRank \in [Posed -> 0 .. Cardinality(RuleKey)]
  /\ \A expr, body \in Expression, visited, called \in SUBSET RuleKey :
       called \ visited # {} => VisitRank[<<body, visited \cup called>>] < VisitRank[<<expr, visited>>]
<1>1. IsFiniteSet(RuleKey)
  BY ExpressionAssumption
<1>2. ASSUME NEW A \in SUBSET RuleKey PROVE Cardinality(A) \in 0 .. Cardinality(RuleKey)
  BY <1>1, FS_Subset, FS_CardinalityType
<1>3. VisitRank \in [Posed -> 0 .. Cardinality(RuleKey)]
  BY <1>2 DEF VisitRank, Posed
<1>4. ASSUME NEW expr \in Expression, NEW body \in Expression, NEW visited \in SUBSET RuleKey,
             NEW called \in SUBSET RuleKey, called \ visited # {}
      PROVE  VisitRank[<<body, visited \cup called>>] < VisitRank[<<expr, visited>>]
  <2>1. RuleKey \ (visited \cup called) \subseteq RuleKey \ visited
    OBVIOUS
  <2>2. RuleKey \ (visited \cup called) # RuleKey \ visited
    BY <1>4
  <2>3. IsFiniteSet(RuleKey \ visited)
    BY <1>1, FS_Subset
  <2>4. Cardinality(RuleKey \ (visited \cup called)) < Cardinality(RuleKey \ visited)
    <3>1. Cardinality(RuleKey \ (visited \cup called)) <= Cardinality(RuleKey \ visited)
      BY <2>1, <2>3, FS_Subset
    <3>2. Cardinality(RuleKey \ (visited \cup called)) # Cardinality(RuleKey \ visited)
      BY <2>1, <2>2, <2>3, FS_Subset
    <3> QED BY <3>1, <3>2, <1>2
  <2> QED BY <2>4 DEF VisitRank, Posed
<1> QED BY <1>1, <1>3, <1>4, FS_CardinalityType

LEMMA VisitAt ==
  ASSUME rules \in Catalog
  PROVE  /\ Visit \in [Posed -> SUBSET RuleKey]
         /\ \A expr \in Expression, visited \in SUBSET RuleKey :
              LET called == MentionsRules(expr) \ visited
              IN  Visit[<<expr, visited>>] =
                    called \cup UNION {Visit[<<rules[k], visited \cup called>>] : k \in Defined(called)}
<1> DEFINE D == Posed
           T == SUBSET RuleKey
           Called(posed) == MentionsRules(posed[1]) \ posed[2]
           Body(posed, f) == Called(posed) \cup UNION {f[<<rules[k], posed[2] \cup Called(posed)>>] : k \in Defined(Called(posed))}
           step == [posed \in D |-> [f \in [D -> T] |-> Body(posed, f)]]
           Is(f) == f = [posed \in Expression \X SUBSET RuleKey |-> Body(posed, f)]
<1>1. ASSUME NEW posed \in Posed
      PROVE  /\ Called(posed) \in SUBSET RuleKey
             /\ \A k \in Defined(Called(posed)) :
                  /\ <<rules[k], posed[2] \cup Called(posed)>> \in Posed
                  /\ VisitRank[<<rules[k], posed[2] \cup Called(posed)>>] < VisitRank[posed]
  <2>1. posed[1] \in Expression /\ posed[2] \in SUBSET RuleKey /\ posed = <<posed[1], posed[2]>>
    BY DEF Posed
  <2>2. Called(posed) \in SUBSET RuleKey
    BY <2>1, MentionedRulesAreNamed
  <2>3. ASSUME NEW k \in Defined(Called(posed))
        PROVE  /\ rules[k] \in Expression
               /\ VisitRank[<<rules[k], posed[2] \cup Called(posed)>>] < VisitRank[posed]
    <3>1. rules[k] \in Expression
      BY <2>2, ExpressionAssumption DEF Defined, Catalog
    <3>2. Called(posed) \ posed[2] # {}
      BY DEF Defined
    <3> HIDE DEF Called
    <3> QED BY <2>1, <2>2, <3>1, <3>2, VisitRankType
  <2> HIDE DEF Called
  <2> QED BY <2>1, <2>2, <2>3 DEF Posed
<1>2. step \in [D -> [[D -> T] -> T]]
  <2>1. ASSUME NEW posed \in D, NEW f \in [D -> T] PROVE Body(posed, f) \in T
    <3> HIDE DEF Called
    <3> QED BY <1>1
  <2> HIDE DEF Body, T, D
  <2> QED BY <2>1
<1>3. ASSUME NEW posed \in D, NEW f \in [D -> T], NEW g \in [D -> T],
             \A y \in D : VisitRank[y] < VisitRank[posed] => f[y] = g[y]
      PROVE  Body(posed, f) = Body(posed, g)
  <2> HIDE DEF Called
  <2>1. \A k \in Defined(Called(posed)) :
           f[<<rules[k], posed[2] \cup Called(posed)>>] = g[<<rules[k], posed[2] \cup Called(posed)>>]
    BY <1>1, <1>3
  <2> QED BY <2>1
<1>4. PICK f \in [D -> T] : \A posed \in D : f[posed] = step[posed][f]
  <2>1. T # {}
    OBVIOUS
  <2>2. VisitRank \in [D -> 0 .. Cardinality(RuleKey)] /\ Cardinality(RuleKey) \in Nat
    BY VisitRankType
  <2>3. \A posed \in D : \A f \in [D -> T] : step[posed][f] = Body(posed, f)
    <3> HIDE DEF D, T, Body
    <3> QED OBVIOUS
  <2>4. Ranked(D, T, Cardinality(RuleKey), VisitRank, step)
    <3>1. \A x \in D : \A f, g \in [D -> T] :
             (\A y \in D : VisitRank[y] < VisitRank[x] => f[y] = g[y]) => step[x][f] = step[x][g]
      <4> HIDE DEF D, T, step, Body
      <4> QED BY <1>3, <2>3
    <3> HIDE DEF D, T, step, Body
    <3> QED BY <1>2, <2>1, <2>2, <3>1 DEF Ranked
  <2> HIDE DEF D, T, step
  <2> QED BY <2>4, RankedRecursion
<1>5. Is(f)
  <2>1. \A posed \in D : f[posed] = Body(posed, f)
    BY <1>4
  <2> HIDE DEF Body
  <2> QED BY <2>1 DEF Posed
<1>6. Visit = CHOOSE g : Is(g)
  BY DEF Visit
<1> HIDE DEF Is
<1>7. Is(Visit)
  BY <1>5, <1>6
<1>8. Visit = [posed \in Posed |-> Body(posed, Visit)]
  <2> HIDE DEF Body
  <2> QED BY <1>7 DEF Is, Posed
<1>9. \A posed \in Posed : Visit[posed] \subseteq RuleKey
  <2> DEFINE S == {n \in Nat : \A posed \in Posed : VisitRank[posed] < n => Visit[posed] \subseteq RuleKey}
  <2>1. 0 \in S
    BY VisitRankType
  <2>2. ASSUME NEW n \in Nat, n \in S PROVE n + 1 \in S
    <3> SUFFICES ASSUME NEW posed \in Posed, VisitRank[posed] < n + 1 PROVE Visit[posed] \subseteq RuleKey
      OBVIOUS
    <3>1. \A y \in Posed : VisitRank[y] < VisitRank[posed] => Visit[y] \subseteq RuleKey
      BY <2>2, VisitRankType
    <3>2. Visit[posed] = Body(posed, Visit)
      BY <1>8
    <3> HIDE DEF Called
    <3> QED BY <1>1, <3>1, <3>2
  <2> HIDE DEF S
  <2>3. Cardinality(RuleKey) + 1 \in S
    <3>1. Nat \subseteq S
      BY <2>1, <2>2, AllNaturals
    <3> QED BY <3>1, VisitRankType
  <2> QED BY <2>3, VisitRankType DEF S
<1>10. \A expr \in Expression, visited \in SUBSET RuleKey :
          Visit[<<expr, visited>>] = Body(<<expr, visited>>, Visit)
  <2> HIDE DEF Body
  <2> QED BY <1>8 DEF Posed
<1>11. Visit \in [Posed -> SUBSET RuleKey]
  <2> HIDE DEF Body
  <2> QED BY <1>8, <1>9
<1>12. ASSUME NEW expr \in Expression, NEW visited \in SUBSET RuleKey
       PROVE  LET called == MentionsRules(expr) \ visited
              IN  Visit[<<expr, visited>>] =
                    called \cup UNION {Visit[<<rules[k], visited \cup called>>] : k \in Defined(called)}
  <2>1. Visit[<<expr, visited>>] = Body(<<expr, visited>>, Visit)
    <3> HIDE DEF Body
    <3> QED BY <1>10
  <2>2. Called(<<expr, visited>>) = MentionsRules(expr) \ visited
    OBVIOUS
  <2> QED BY <2>1, <2>2
<1> QED BY <1>11, <1>12

\* Whatever a visited rule calls is visited, or was before.
LEMMA VisitsAreClosed ==
  ASSUME rules \in Catalog
  PROVE  \A posed \in Posed : \A k \in Defined(Visit[posed]) : MentionsRules(rules[k]) \subseteq Visit[posed] \cup posed[2]
<1> DEFINE P(posed) == \A k \in Defined(Visit[posed]) : MentionsRules(rules[k]) \subseteq Visit[posed] \cup posed[2]
           S == {n \in Nat : \A posed \in Posed : VisitRank[posed] < n => P(posed)}
<1>1. 0 \in S
  BY VisitRankType
<1>2. ASSUME NEW n \in Nat, n \in S PROVE n + 1 \in S
  <2> SUFFICES ASSUME NEW expr \in Expression, NEW visited \in SUBSET RuleKey, VisitRank[<<expr, visited>>] < n + 1,
                      NEW k \in Defined(Visit[<<expr, visited>>])
               PROVE  MentionsRules(rules[k]) \subseteq Visit[<<expr, visited>>] \cup visited
    BY DEF Posed
  <2> DEFINE called == MentionsRules(expr) \ visited
             below(j) == <<rules[j], visited \cup called>>
  <2>0. \A y \in Posed : VisitRank[y] < VisitRank[<<expr, visited>>] => P(y)
    <3>1. VisitRank[<<expr, visited>>] \in Nat /\ \A y \in Posed : VisitRank[y] \in Nat
      BY VisitRankType DEF Posed
    <3> HIDE DEF P
    <3> QED BY <1>2, <3>1
  <2>1. called \subseteq RuleKey
    BY MentionedRulesAreNamed
  <2>2. \A j \in Defined(called) : rules[j] \in Expression /\ below(j) \in Posed
    BY <2>1, ExpressionAssumption DEF Defined, Catalog, Posed
  <2>3. Visit[<<expr, visited>>] = called \cup UNION {Visit[below(j)] : j \in Defined(called)}
    BY VisitAt
  <2>4. ASSUME NEW j \in Defined(called) PROVE P(below(j))
    <3>1. called \ visited # {}
      BY DEF Defined
    <3>2. VisitRank[below(j)] < VisitRank[<<expr, visited>>]
      <4> HIDE DEF called
      <4> QED BY <2>1, <2>2, <3>1, VisitRankType
    <3>3. below(j) \in Posed
      BY <2>2
    <3> HIDE DEF P, below
    <3> QED BY <2>0, <3>2, <3>3
  <2>5. CASE k \in called
    <3>1. k \in Defined(called)
      BY <2>5 DEF Defined
    <3>2. Visit[below(k)] = (MentionsRules(rules[k]) \ (visited \cup called))
                              \cup UNION {Visit[<<rules[j], visited \cup called \cup (MentionsRules(rules[k]) \ (visited \cup called))>>] :
                                            j \in Defined(MentionsRules(rules[k]) \ (visited \cup called))}
      <4>1. rules[k] \in Expression /\ visited \cup called \in SUBSET RuleKey
        BY <2>1, <2>2, <3>1
      <4> HIDE DEF called
      <4> QED BY <4>1, VisitAt
    <3>3. MentionsRules(rules[k]) \ (visited \cup called) \subseteq Visit[below(k)]
      BY <3>2
    <3>4. Visit[below(k)] \subseteq Visit[<<expr, visited>>] /\ called \subseteq Visit[<<expr, visited>>]
      <4> HIDE DEF called, below
      <4> QED BY <2>3, <3>1
    <3> HIDE DEF called, below
    <3> QED BY <3>3, <3>4
  <2>6. CASE k \notin called
    <3>1. PICK j \in Defined(called) : k \in Visit[below(j)]
      BY <2>3, <2>6 DEF Defined
    <3>2. k \in Defined(Visit[below(j)])
      BY <3>1 DEF Defined
    <3>3. MentionsRules(rules[k]) \subseteq Visit[below(j)] \cup (visited \cup called)
      BY <2>4, <3>2
    <3> HIDE DEF called, below
    <3> QED BY <2>3, <3>3
  <2> QED BY <2>5, <2>6
<1> HIDE DEF S
<1>3. Cardinality(RuleKey) + 1 \in S
  <2>1. Nat \subseteq S
    BY <1>1, <1>2, AllNaturals
  <2> QED BY <2>1, VisitRankType
<1> HIDE DEF P
<1>4. \A posed \in Posed : P(posed)
  BY <1>3, VisitRankType DEF S
<1> QED BY <1>4 DEF P

\* An evaluation looks at facts that the fewer world has as they are.
LEMMA EvaluationsReadTheLoaded ==
  ASSUME NEW env \in Environment, env.rules = rules, NEW fewer \in Environment, NEW question \in Expression,
         fewer.rules = rules, fewer.now = env.now,
         \A read \in FactReads(question) \cap FactRead : fewer.facts[read] = env.facts[read]
  PROVE  Evaluate(question, fewer) = Evaluate(question, env)
<1> DEFINE K == MentionsRules(question) \cup VisitedRules(question)
           R == FactReads(question)
           Within(expr) == Mentions(expr) \subseteq R /\ MentionsRules(expr) \subseteq K
           P(posed) == Within(posed[1]) => Agrees(fewer, Go(env)[posed].observed)
           S == {n \in Nat : \A posed \in Posed : CallRank[posed] < n => P(posed)}
<1>1. rules \in Catalog /\ K \subseteq RuleKey /\ <<question, {}>> \in Posed
  <2>1. rules \in Catalog
    BY DEF Environment
  <2>2. <<question, {}>> \in Posed
    BY DEF Posed
  <2> QED BY <2>1, <2>2, VisitAt, MentionedRulesAreNamed DEF VisitedRules
<1>2. Within(question)
  BY DEF FactReads
<1>3. ASSUME NEW key \in K, rules[key] # NoRule PROVE Within(rules[key])
  <2>1. MentionsRules(question) \subseteq VisitedRules(question)
    <3>1. VisitedRules(question) = Visit[<<question, {}>>]
      BY DEF VisitedRules
    <3>2. MentionsRules(question) \ {} \subseteq Visit[<<question, {}>>]
      BY <1>1, VisitAt
    <3> QED BY <3>1, <3>2
  <2>2. key \in Defined(VisitedRules(question))
    BY <1>3, <2>1 DEF Defined
  <2>3. Mentions(rules[key]) \subseteq R
    BY <2>2 DEF FactReads
  <2>4. MentionsRules(rules[key]) \subseteq Visit[<<question, {}>>] \cup {}
    <3> DEFINE posed == <<question, {}>>
    <3>1. key \in Defined(Visit[posed]) /\ posed \in Posed
      BY <1>1, <2>2 DEF VisitedRules
    <3>2. MentionsRules(rules[key]) \subseteq Visit[posed] \cup posed[2]
      <4> HIDE DEF posed
      <4> QED BY <1>1, <3>1, VisitsAreClosed
    <3> QED BY <3>2
  <2> QED BY <2>3, <2>4 DEF VisitedRules
<1> HIDE DEF K, R
<1>4. 0 \in S
  BY CallRankType
<1>5. ASSUME NEW n \in Nat, n \in S PROVE n + 1 \in S
  <2> SUFFICES ASSUME NEW expr \in Expression, NEW calling \in SUBSET RuleKey, CallRank[<<expr, calling>>] < n + 1,
                      Within(expr)
               PROVE  Agrees(fewer, Go(env)[<<expr, calling>>].observed)
    BY DEF Posed
  <2> DEFINE posed == <<expr, calling>>
             node == Go(env)[posed]
  <2>1. \A y \in Posed : CallRank[y] < CallRank[posed] => P(y)
    <3>1. CallRank[posed] \in Nat /\ \A y \in Posed : CallRank[y] \in Nat
      BY CallRankType DEF Posed
    <3> HIDE DEF P
    <3> QED BY <1>5, <3>1
  <2>2. \A key \in ObservedKey : Seen(fewer, key) = Seen(env, key) => Agrees(fewer, Observe(env, key))
    BY DEF Agrees, Observe
  <2>3. CASE expr.tag = "Lit"
    <3>1. node = Node(expr, Truth(expr.value), {}, <<>>)
      BY <2>3, NodesByKind
    <3> QED BY <3>1 DEF Agrees, Node
  <2>4. CASE expr.tag \in {"Exists", "Eq", "Before"}
    <3> DEFINE key == FactKey(ReadOf(expr))
               clock == IF expr.tag = "Before" THEN Observe(env, ClockKey(expr.granularity)) ELSE {}
               truth == Compared(expr, Seen(env, key), env.now)
    <3>1. node = Node(expr, truth, Observe(env, key) \cup clock, <<>>)
      BY <2>4, NodesByKind
    <3>2. Agrees(fewer, Observe(env, key))
      <4>1. ReadOf(expr) \in R /\ ReadOf(expr) \in FactRead /\ key \in ObservedKey
        BY <2>4, LeavesMention, ExpressionAssumption DEF ObservedKey
      <4>2. fewer.facts[ReadOf(expr)] = env.facts[ReadOf(expr)]
        BY <4>1 DEF R
      <4>3. Seen(fewer, key) = Seen(env, key)
        BY <4>1, <4>2, SeenKeys
      <4> HIDE DEF key
      <4> QED BY <2>2, <4>1, <4>3
    <3>3. Agrees(fewer, clock)
      <4>1. CASE expr.tag = "Before"
        <5>1. expr.granularity \in Granularity
          BY <4>1, ExpressionAssumption
        <5>2. ClockKey(expr.granularity) \in ObservedKey
          BY <5>1 DEF ObservedKey
        <5>3. Seen(fewer, ClockKey(expr.granularity)) = Seen(env, ClockKey(expr.granularity))
          BY <5>1, SeenKeys
        <5> QED BY <2>2, <4>1, <5>2, <5>3
      <4>2. CASE expr.tag # "Before"
        BY <4>2 DEF Agrees
      <4> QED BY <4>1, <4>2
    <3> HIDE DEF key, clock, truth
    <3> QED BY <3>1, <3>2, <3>3 DEF Agrees, Node
  <2>5. CASE expr.tag = "Rule"
    <3> DEFINE slot == RuleSlot(expr.key)
    <3>1. expr.key \in RuleKey /\ slot \in ObservedKey /\ expr.key \in K
      BY <2>5, LeavesMention, ExpressionAssumption DEF ObservedKey
    <3>2. Agrees(fewer, Observe(env, slot))
      <4>1. Seen(fewer, slot) = Seen(env, slot)
        BY <3>1, SeenKeys
      <4> HIDE DEF slot
      <4> QED BY <2>2, <3>1, <4>1
    <3>3. CASE env.rules[expr.key] = NoRule \/ expr.key \in calling
      <4>1. node = Node(expr, "unknown", Observe(env, slot), <<>>)
        BY <2>5, <3>3, NodesByKind
      <4> HIDE DEF slot
      <4> QED BY <3>2, <4>1 DEF Agrees, Node
    <3>4. CASE ~(env.rules[expr.key] = NoRule \/ expr.key \in calling)
      <4> DEFINE below == <<env.rules[expr.key], calling \cup {expr.key}>>
                 child == Go(env)[below]
      <4>1. node = Node(expr, child.truth, Observe(env, slot), <<child>>)
        BY <2>5, <3>4, NodesByKind
      <4>2. below \in Posed /\ CallRank[below] < CallRank[posed]
        <5>1. expr.key \in RuleKey \ calling /\ env.rules[expr.key] \in Expression
          BY <3>1, <3>4, ExpressionAssumption DEF Environment, Catalog
        <5> QED BY <5>1, CallsDescend DEF Posed
      <4>3. Within(below[1])
        <5>1. Within(rules[expr.key])
          BY <1>3, <3>1, <3>4
        <5> HIDE DEF Within
        <5> QED BY <5>1
      <4>4. Agrees(fewer, child.observed)
        <5> HIDE DEF Within, below
        <5> QED BY <2>1, <4>2, <4>3
      <4> HIDE DEF child, slot
      <4>5. \A o \in node.observed : o \in Observe(env, slot) \/ o \in child.observed
        BY <4>1 DEF Node
      <4> HIDE DEF node
      <4>6. Agrees(fewer, node.observed)
        BY <3>2, <4>4, <4>5 DEF Agrees
      <4> QED BY <4>6 DEF node
    <3> QED BY <3>3, <3>4
  <2>6. CASE expr.tag \in Composite
    <3> DEFINE parts == [i \in DOMAIN expr.exprs |-> Go(env)[<<expr.exprs[i], calling>>]]
    <3>1. PICK truth : node = Node(expr, truth, {}, parts)
      BY <2>6, CompositeNodes
    <3>2. ASSUME NEW i \in DOMAIN expr.exprs PROVE Agrees(fewer, Go(env)[<<expr.exprs[i], calling>>].observed)
      <4> DEFINE below == <<expr.exprs[i], calling>>
      <4>1. below \in Posed /\ CallRank[below] < CallRank[posed]
        BY <2>6, ExpressionAssumption, CallsDescend DEF Posed
      <4>2. Within(expr.exprs[i])
        BY <2>6, PartsMentionNoMore
      <4>3. Within(below[1])
        <5> HIDE DEF Within
        <5> QED BY <4>2
      <4>4. P(below)
        <5> HIDE DEF P, below
        <5> QED BY <2>1, <4>1
      <4> HIDE DEF Within
      <4> QED BY <4>3, <4>4
    <3>3. \A o \in node.observed : \E i \in DOMAIN expr.exprs : o \in Go(env)[<<expr.exprs[i], calling>>].observed
      <4>1. DOMAIN parts = DOMAIN expr.exprs /\ \A i \in DOMAIN expr.exprs : parts[i] = Go(env)[<<expr.exprs[i], calling>>]
        OBVIOUS
      <4>2. \A o \in node.observed : \E i \in DOMAIN parts : o \in parts[i].observed
        <5> HIDE DEF parts, node
        <5> QED BY <3>1, NodeObserves
      <4> HIDE DEF parts, node
      <4> QED BY <4>1, <4>2
    <3> HIDE DEF node
    <3>4. Agrees(fewer, node.observed)
      BY <3>2, <3>3 DEF Agrees
    <3> QED BY <3>4 DEF node
  <2> QED BY <2>3, <2>4, <2>5, <2>6, ExpressionAssumption
<1> HIDE DEF S
<1>6. HighestRank + 1 \in S
  <2>1. Nat \subseteq S
    BY <1>4, <1>5, AllNaturals
  <2> QED BY <2>1, CallRankType
<1> HIDE DEF P
<1>7. P(<<question, {}>>)
  BY <1>1, <1>6, CallRankType DEF S
<1>8. Agrees(fewer, Go(env)[<<question, {}>>].observed)
  <2> DEFINE posed == <<question, {}>>
  <2>1. P(posed) /\ posed[1] = question
    BY <1>7
  <2>2. P(posed) => (Within(posed[1]) => Agrees(fewer, Go(env)[posed].observed))
    BY DEF P
  <2> HIDE DEF Within, posed
  <2>3. Agrees(fewer, Go(env)[posed].observed)
    BY <1>2, <2>1, <2>2
  <2> QED BY <2>3 DEF posed
<1> QED BY <1>1, <1>8, AgreeingEvaluations DEF Evaluate

-----------------------------------------------------------------------------
(* The cache and the previews. *)

DecisionsTypes ==
  /\ world \in [Account -> [FactRead -> Fact]] /\ instant \in Nat /\ rules \in Catalog
  /\ unreacted \subseteq ObservedKey /\ changes \in 0 .. MaxChanges

\* An answer was computed once.
Genuine(entry) ==
  /\ entry.question \in Question
  /\ \E env \in Environment : entry.evaluation = Evaluate(entry.question, env)

LEMMA EnvironmentsOfAccounts ==
  ASSUME DecisionsTypes, NEW account \in Account, NEW catalog \in Catalog
  PROVE  Env(account, catalog) \in Environment
BY DEF DecisionsTypes, Env, Environment

LEMMA EvaluateIsHonest ==
  ASSUME NEW env \in Environment, NEW question \in Question
  PROVE  /\ Honest(env, Evaluate(question, env).observed)
         /\ \A other \in Environment : Agrees(other, Evaluate(question, env).observed) =>
              Evaluate(question, other) = Evaluate(question, env)
<1>1. <<question, {}>> \in Posed
  BY ExpressionAssumption DEF Posed
<1> QED BY <1>1, EvaluationsAreHonest, AgreeingEvaluations DEF Evaluate

\* To see again all that was seen is to agree with it.
LEMMA ReobservedAgrees ==
  ASSUME NEW env, NEW other, NEW observed, Honest(env, observed), Reobserve(observed, other) = observed
  PROVE  Agrees(other, observed)
<1> SUFFICES ASSUME NEW o \in observed PROVE Seen(other, o.key) = o.seen
  BY DEF Agrees
<1>1. PICK p \in observed : p = [key |-> o.key, seen |-> Seen(other, o.key)]
  BY DEF Reobserve, Observe
<1>2. p.key = o.key /\ p.seen = Seen(other, o.key)
  BY <1>1
<1>3. p = [key |-> p.key, seen |-> Seen(env, p.key)] /\ o = [key |-> o.key, seen |-> Seen(env, o.key)]
  BY DEF Honest
<1>4. p.seen = Seen(env, p.key) /\ o.seen = Seen(env, o.key)
  BY <1>3
<1> QED BY <1>2, <1>4

LEMMA CachedIsEvaluated ==
  ASSUME NEW cache, \A entry \in cache : Genuine(entry), NEW question \in Question, NEW env \in Environment
  PROVE  Cached(cache, question, env) = Evaluate(question, env)
<1>1. CASE Hits(cache, question, env) = {}
  BY <1>1 DEF Cached
<1>2. CASE Hits(cache, question, env) # {}
  <2>1. PICK hit \in Hits(cache, question, env) : Cached(cache, question, env) = hit.evaluation
    BY <1>2 DEF Cached
  <2>2. /\ Genuine(hit) /\ hit.question = question
        /\ Reobserve(hit.evaluation.observed, env) = hit.evaluation.observed
    BY DEF Hits
  <2>3. PICK then \in Environment : hit.evaluation = Evaluate(question, then)
    BY <2>2 DEF Genuine
  <2>4. Agrees(env, hit.evaluation.observed)
    BY <2>2, <2>3, EvaluateIsHonest, ReobservedAgrees
  <2> QED BY <2>1, <2>3, <2>4, EvaluateIsHonest
<1> QED BY <1>1, <1>2

\* Whoever read no rule that moves answers as before.
LEMMA UnmovedAnswersStay ==
  ASSUME DecisionsTypes, NEW question \in Question, NEW account \in Account, NEW after \in Catalog,
         ~Moved(Evaluate(question, Env(account, rules)), Env(account, after))
  PROVE  Evaluate(question, Env(account, after)) = Evaluate(question, Env(account, rules))
<1> DEFINE env == Env(account, rules)
           other == Env(account, after)
           observed == Evaluate(question, env).observed
<1>1. env \in Environment /\ other \in Environment
  BY EnvironmentsOfAccounts DEF DecisionsTypes
<1>2. Honest(env, observed)
  BY <1>1, EvaluateIsHonest
<1>3. Honest(env, ConfigOf(observed)) /\ Reobserve(ConfigOf(observed), other) = ConfigOf(observed)
  <2>1. Reobserve(ConfigOf(observed), other) = ConfigOf(observed)
    BY DEF Moved
  <2> HIDE DEF observed, env, other
  <2> QED BY <1>2, <2>1 DEF Honest, ConfigOf
<1>4. Agrees(other, ConfigOf(observed))
  <2> HIDE DEF env, other, observed
  <2> QED BY <1>3, ReobservedAgrees
<1>5. ASSUME NEW o \in observed PROVE Seen(other, o.key) = o.seen
  <2>1. CASE o.key[1] = "config"
    BY <1>4, <2>1 DEF Agrees, ConfigOf
  <2>2. CASE o.key[1] # "config"
    <3>1. Seen(other, o.key) = Seen(env, o.key)
      BY <2>2 DEF Seen, Env
    <3>2. o = [key |-> o.key, seen |-> Seen(env, o.key)]
      BY <1>2 DEF Honest
    <3>3. o.seen = Seen(env, o.key)
      BY <3>2
    <3> QED BY <3>1, <3>3
  <2> QED BY <2>1, <2>2
<1>6. Agrees(other, observed)
  <2> HIDE DEF observed, other
  <2> QED BY <1>5 DEF Agrees
<1> QED BY <1>1, <1>6, EvaluateIsHonest

FlipsOf(question, after, accounts) ==
  LET Was(a) == Evaluate(question, Env(a, rules)).truth
      Would(a) == Evaluate(question, Env(a, after)).truth
  IN  {<<a, Was(a), Would(a)>> : a \in {a \in accounts : Was(a) # Would(a)}}

\* What a preview knows when it has considered some accounts.
Knows(working, question, after, accounts) ==
  /\ \A entry \in working.cache : Genuine(entry)
  /\ working.flipped = FlipsOf(question, after, accounts)

LEMMA ConsideredKnows ==
  ASSUME DecisionsTypes, NEW question \in Question, NEW after \in Catalog, NEW account \in Account,
         NEW working, NEW accounts \in SUBSET Account, Knows(working, question, after, accounts),
         working = [cache |-> working.cache, flipped |-> working.flipped]
  PROVE  LET next == Considered(working, question, after, account)
         IN  /\ Knows(next, question, after, accounts \cup {account})
             /\ next = [cache |-> next.cache, flipped |-> next.flipped]
<1> DEFINE env == Env(account, rules)
           other == Env(account, after)
           previous == Cached(working.cache, question, env)
           then == working.cache \cup {[question |-> question, evaluation |-> previous]}
           next == Cached(then, question, other)
           result == Considered(working, question, after, account)
           flips == FlipsOf(question, after, accounts)
           mine == IF next.truth = previous.truth THEN {} ELSE {<<account, previous.truth, next.truth>>}
<1>1. env \in Environment /\ other \in Environment
  BY EnvironmentsOfAccounts DEF DecisionsTypes
<1>2. previous = Evaluate(question, env)
  BY <1>1, CachedIsEvaluated DEF Knows
<1>3. \A entry \in then : Genuine(entry)
  <2>1. Genuine([question |-> question, evaluation |-> previous])
    BY <1>1, <1>2 DEF Genuine
  <2> HIDE DEF previous
  <2> QED BY <2>1 DEF Knows
<1>4. next = Evaluate(question, other)
  <2> HIDE DEF then, other
  <2> QED BY <1>1, <1>3, CachedIsEvaluated
<1>5. Genuine([question |-> question, evaluation |-> next])
  BY <1>1, <1>4 DEF Genuine
<1>6. FlipsOf(question, after, accounts \cup {account}) = flips \cup mine
  <2>1. mine = IF Evaluate(question, other).truth = Evaluate(question, env).truth THEN {}
               ELSE {<<account, Evaluate(question, env).truth, Evaluate(question, other).truth>>}
    <3> HIDE DEF previous, next
    <3> QED BY <1>2, <1>4
  <2> HIDE DEF mine
  <2> QED BY <2>1 DEF FlipsOf
<1>7. CASE ~Moved(previous, other)
  <2>1. result = [working EXCEPT !.cache = then]
    BY <1>7 DEF Considered
  <2>2. next = previous
    <3> HIDE DEF previous, next
    <3> QED BY <1>2, <1>4, <1>7, UnmovedAnswersStay
  <2>3. mine = {}
    <3> HIDE DEF previous, next
    <3> QED BY <2>2
  <2>4. working.flipped = flips
    BY DEF Knows
  <2> HIDE DEF then, result, flips, mine
  <2>5. result = [cache |-> then, flipped |-> flips]
    BY <2>1, <2>4
  <2>6. Knows(result, question, after, accounts \cup {account}) /\ result = [cache |-> result.cache, flipped |-> result.flipped]
    BY <1>3, <1>6, <2>3, <2>5 DEF Knows
  <2> QED BY <2>6 DEF result
<1>8. CASE Moved(previous, other)
  <2>1. result = [cache |-> then \cup {[question |-> question, evaluation |-> next]},
                  flipped |-> IF next.truth = previous.truth THEN working.flipped
                              ELSE working.flipped \cup {<<account, previous.truth, next.truth>>}]
    BY <1>8 DEF Considered
  <2>2. working.flipped = flips
    BY DEF Knows
  <2>3. (IF next.truth = previous.truth THEN working.flipped
         ELSE working.flipped \cup {<<account, previous.truth, next.truth>>}) = flips \cup mine
    <3> HIDE DEF next, previous, flips
    <3> QED BY <2>2
  <2> HIDE DEF then, next, result, flips, mine, previous
  <2>4. Knows(result, question, after, accounts \cup {account}) /\ result = [cache |-> result.cache, flipped |-> result.flipped]
    BY <1>3, <1>5, <1>6, <2>1, <2>3 DEF Knows
  <2> QED BY <2>4 DEF result
<1> QED BY <1>7, <1>8

LEMMA ImpactKnows ==
  ASSUME DecisionsTypes, NEW question \in Question, NEW after \in Catalog,
         NEW cache, \A entry \in cache : Genuine(entry)
  PROVE  Knows(Impact(cache, question, after), question, after, Account)
<1> DEFINE start == [cache |-> cache, flipped |-> {}]
           Body(n, f) == IF n = 0 THEN start ELSE Considered(f[n - 1], question, after, n)
           Is(f) == f = [n \in 0 .. Accounts |-> Body(n, f)]
           Good(n, f) == f = [i \in 0 .. Accounts |-> f[i]] /\ \A i \in 0 .. Accounts : i < n => f[i] = Body(i, f)
           S == {n \in Nat : \E f : Good(n, f)}
<1>0. Accounts \in Nat \ {0}
  BY DecisionsAssumption
<1>1. 0 \in S
  <2>1. Good(0, [i \in 0 .. Accounts |-> 0])
    OBVIOUS
  <2> QED BY <2>1
<1>2. ASSUME NEW n \in Nat, n \in S PROVE n + 1 \in S
  <2>1. PICK f : Good(n, f)
    BY <1>2
  <2> DEFINE g == [i \in 0 .. Accounts |-> IF i < n THEN f[i] ELSE Body(i, f)]
  <2>2. ASSUME NEW i \in 0 .. Accounts, i < n + 1 PROVE g[i] = Body(i, g)
    <3>1. g[i] = Body(i, f)
      BY <2>1
    <3>2. i # 0 => i - 1 \in 0 .. Accounts /\ i - 1 < n
      BY <1>0, <2>2
    <3>3. i # 0 => g[i - 1] = f[i - 1]
      BY <3>2
    <3>4. Body(i, f) = Body(i, g)
      <4> HIDE DEF g
      <4> QED BY <3>3
    <3> QED BY <3>1, <3>4
  <2>3. g = [i \in 0 .. Accounts |-> g[i]]
    OBVIOUS
  <2> HIDE DEF g, Body
  <2>4. Good(n + 1, g)
    BY <2>2, <2>3
  <2> HIDE DEF Good
  <2> QED BY <2>4
<1>3. Accounts + 1 \in S
  <2> HIDE DEF S
  <2>1. Nat \subseteq S
    BY <1>1, <1>2, AllNaturals
  <2> QED BY <1>0, <2>1
<1>4. PICK f : Good(Accounts + 1, f)
  BY <1>3
<1>5. Is(f)
  <2>1. \A i \in 0 .. Accounts : i < Accounts + 1
    BY <1>0
  <2> HIDE DEF Body
  <2> QED BY <1>4, <2>1
<1> DEFINE upTo == CHOOSE g : Is(g)
<1>6. Impact(cache, question, after) = upTo[Accounts]
  BY DEF Impact
<1>7. Is(upTo)
  <2> HIDE DEF Is
  <2> QED BY <1>5
<1>8. \A n \in 0 .. Accounts : upTo[n] = Body(n, upTo)
  <2> HIDE DEF upTo, Body
  <2> QED BY <1>7
<1> HIDE DEF upTo, Is
<1> DEFINE Fine(n) == /\ Knows(upTo[n], question, after, 1 .. n)
                      /\ upTo[n] = [cache |-> upTo[n].cache, flipped |-> upTo[n].flipped]
           N == {n \in Nat : n <= Accounts => Fine(n)}
<1>9. 0 \in N
  <2>1. upTo[0] = start
    BY <1>0, <1>8
  <2>2. upTo[0].cache = cache /\ upTo[0].flipped = {} /\ 1 .. 0 = {}
    BY <2>1
  <2>3. FlipsOf(question, after, {}) = {}
    BY DEF FlipsOf
  <2>4. Knows(upTo[0], question, after, 1 .. 0)
    BY <2>2, <2>3 DEF Knows
  <2> QED BY <2>1, <2>2, <2>4
<1>10. ASSUME NEW n \in Nat, n \in N PROVE n + 1 \in N
  <2> SUFFICES ASSUME n + 1 <= Accounts PROVE Fine(n + 1)
    OBVIOUS
  <2>1. n + 1 \in 0 .. Accounts /\ n + 1 # 0 /\ (n + 1) - 1 = n /\ n + 1 \in Account /\ 1 .. n \in SUBSET Account
    BY <1>0 DEF Account
  <2>2. upTo[n + 1] = Considered(upTo[n], question, after, n + 1)
    BY <1>8, <2>1
  <2>3. Fine(n)
    BY <1>0, <1>10
  <2>4. 1 .. n + 1 = (1 .. n) \cup {n + 1}
    OBVIOUS
  <2> DEFINE next == Considered(upTo[n], question, after, n + 1)
  <2>5. /\ Knows(next, question, after, (1 .. n) \cup {n + 1})
        /\ next = [cache |-> next.cache, flipped |-> next.flipped]
    BY <2>1, <2>3, ConsideredKnows
  <2> HIDE DEF next
  <2>6. upTo[n + 1] = next
    BY <2>2 DEF next
  <2> QED BY <2>4, <2>5, <2>6
<1> HIDE DEF N
<1>11. Accounts \in N
  BY <1>0, <1>9, <1>10, AllNaturals
<1>12. Fine(Accounts)
  BY <1>0, <1>11 DEF N
<1> QED BY <1>6, <1>12 DEF Account

-----------------------------------------------------------------------------
(* The invariant. *)

\* What a watched answer has seen is there still, or is about to be reacted to.
Followed(entry) ==
  /\ Genuine(entry) /\ entry = [question |-> entry.question, evaluation |-> entry.evaluation]
  /\ \A o \in entry.evaluation.observed : o.key \in unreacted \/ Seen(Env(1, rules), o.key) = o.seen

DecisionsInv ==
  /\ DecisionsTypes
  /\ \A entry \in kept : Genuine(entry)
  /\ \A entry \in watched : Followed(entry)

LEMMA NowIsAnEnvironment == DecisionsTypes => Env(1, rules) \in Environment
BY DecisionsAssumption DEF DecisionsTypes, Env, Environment, Account

\* When inputs change, what shows something else by it is noted.
LEMMA ChangesAreNoted ==
  ASSUME DecisionsInv, DecisionsTypes', NEW keys, Changes(keys),
         \A key \in ObservedKey : Seen(Env(1, rules), key)' # Seen(Env(1, rules), key) => key \in keys
  PROVE  DecisionsInv'
<1>1. \A entry \in kept' : Genuine(entry)'
  BY DEF DecisionsInv, Genuine, Changes
<1>2. ASSUME NEW entry \in watched' PROVE Followed(entry)'
  <2>1. Followed(entry)
    BY DEF DecisionsInv, Changes
  <2>2. PICK env \in Environment : entry.evaluation = Evaluate(entry.question, env)
    BY <2>1 DEF Followed, Genuine
  <2>3. Honest(env, entry.evaluation.observed)
    BY <2>1, <2>2, EvaluateIsHonest DEF Followed, Genuine
  <2>4. ASSUME NEW o \in entry.evaluation.observed
        PROVE  o.key \in unreacted' \/ Seen(Env(1, rules), o.key)' = o.seen
    <3>1. o.key \in ObservedKey
      BY <2>3 DEF Honest
    <3>2. o.key \in unreacted \/ Seen(Env(1, rules), o.key) = o.seen
      BY <2>1 DEF Followed
    <3>3. unreacted' = unreacted \cup keys
      BY DEF Changes
    <3> QED BY <3>1, <3>2, <3>3
  <2> QED BY <2>1, <2>4 DEF Followed, Genuine
<1> QED BY <1>1, <1>2 DEF DecisionsInv

LEMMA SubmitIsNoted ==
  ASSUME DecisionsInv, NEW account \in Account, NEW read \in FactRead, NEW value \in Fact, Submit(account, read, value)
  PROVE  DecisionsInv'
<1> DEFINE keys == IF account = 1 THEN {FactKey(read)} ELSE {}
<1>1. Changes(keys) /\ DecisionsTypes
  BY DEF Submit, DecisionsInv
<1>2. DecisionsTypes'
  <2>1. keys \subseteq ObservedKey
    BY DEF ObservedKey
  <2>2. changes' \in 0 .. MaxChanges
    BY <1>1, DecisionsAssumption DEF Changes, DecisionsTypes
  <2> HIDE DEF keys
  <2> QED BY <1>1, <2>1, <2>2 DEF DecisionsTypes, Changes, Submit
<1>3. Env(1, rules) \in Environment /\ Env(1, rules)' \in Environment
  <2>1. Env(1, rules)' \in Environment
    BY <1>2, DecisionsAssumption DEF DecisionsTypes, Env, Environment, Account
  <2> QED BY <1>1, <2>1, NowIsAnEnvironment
<1>4. ASSUME NEW key \in ObservedKey, Seen(Env(1, rules), key)' # Seen(Env(1, rules), key) PROVE key \in keys
  <2> DEFINE now == Env(1, rules)
             then == Env(1, rules)'
  <2>1. then.rules = now.rules /\ then.now = now.now
    BY DEF Env, Submit
  <2>2. then.facts = world'[1] /\ now.facts = world[1]
    BY DEF Env
  <2>3. Seen(then, key) # Seen(now, key)
    BY <1>4 DEF Seen
  <2> HIDE DEF now, then
  <2>4. now \in Environment /\ then \in Environment
    BY <1>3 DEF now, then
  <2>5. PICK r \in FactRead : key = FactKey(r)
    BY <2>1, <2>3, <2>4, SeenKeys DEF ObservedKey
  <2>6. world'[1][r] # world[1][r]
    BY <2>2, <2>3, <2>4, <2>5, SeenKeys
  <2>7. account = 1 /\ r = read
    BY <1>1, <2>6, DecisionsAssumption DEF Submit, DecisionsTypes, Account
  <2> QED BY <2>5, <2>7
<1> HIDE DEF keys
<1> QED BY <1>1, <1>2, <1>4, ChangesAreNoted

LEMMA ReleaseIsNoted ==
  ASSUME DecisionsInv, NEW key \in RuleKey, NEW body \in {NoRule} \cup RuleBody, Release(key, body)
  PROVE  DecisionsInv'
<1> DEFINE keys == {RuleSlot(key)}
<1>1. Changes(keys) /\ DecisionsTypes
  BY DEF Release, DecisionsInv
<1>2. DecisionsTypes'
  <2>1. keys \subseteq ObservedKey
    BY DEF ObservedKey
  <2>2. changes' \in 0 .. MaxChanges
    BY <1>1, DecisionsAssumption DEF Changes, DecisionsTypes
  <2> HIDE DEF keys
  <2> QED BY <1>1, <2>1, <2>2 DEF DecisionsTypes, Changes, Release, Catalog
<1>3. Env(1, rules) \in Environment /\ Env(1, rules)' \in Environment
  <2>1. Env(1, rules)' \in Environment
    BY <1>2, DecisionsAssumption DEF DecisionsTypes, Env, Environment, Account
  <2> QED BY <1>1, <2>1, NowIsAnEnvironment
<1>4. ASSUME NEW seen \in ObservedKey, Seen(Env(1, rules), seen)' # Seen(Env(1, rules), seen) PROVE seen \in keys
  <2> DEFINE now == Env(1, rules)
             then == Env(1, rules)'
  <2>1. then.facts = now.facts /\ then.now = now.now
    BY DEF Env, Release
  <2>2. then.rules = rules' /\ now.rules = rules
    BY DEF Env
  <2>3. Seen(then, seen) # Seen(now, seen)
    BY <1>4 DEF Seen
  <2> HIDE DEF now, then
  <2>4. now \in Environment /\ then \in Environment
    BY <1>3 DEF now, then
  <2>5. PICK k \in RuleKey : seen = RuleSlot(k)
    BY <2>1, <2>3, <2>4, SeenKeys DEF ObservedKey
  <2>6. rules'[k] # rules[k]
    BY <2>2, <2>3, <2>4, <2>5, SeenKeys
  <2>7. k = key
    BY <1>1, <2>6 DEF Release, DecisionsTypes, Catalog
  <2> QED BY <2>5, <2>7
<1> HIDE DEF keys
<1> QED BY <1>1, <1>2, <1>4, ChangesAreNoted

LEMMA TickIsNoted ==
  ASSUME DecisionsInv, Tick
  PROVE  DecisionsInv'
<1> DEFINE keys == {ClockKey(g) : g \in {g \in Granularity : Bucket(instant, g) # Bucket(instant + 1, g)}}
<1>1. Changes(keys) /\ DecisionsTypes
  BY DEF Tick, DecisionsInv
<1>2. DecisionsTypes'
  <2>1. keys \subseteq ObservedKey
    BY DEF ObservedKey
  <2>2. changes' \in 0 .. MaxChanges
    BY <1>1, DecisionsAssumption DEF Changes, DecisionsTypes
  <2> HIDE DEF keys
  <2> QED BY <1>1, <2>1, <2>2 DEF DecisionsTypes, Changes, Tick
<1>3. Env(1, rules) \in Environment /\ Env(1, rules)' \in Environment
  <2>1. Env(1, rules)' \in Environment
    BY <1>2, DecisionsAssumption DEF DecisionsTypes, Env, Environment, Account
  <2> QED BY <1>1, <2>1, NowIsAnEnvironment
<1>4. ASSUME NEW key \in ObservedKey, Seen(Env(1, rules), key)' # Seen(Env(1, rules), key) PROVE key \in keys
  <2> DEFINE now == Env(1, rules)
             then == Env(1, rules)'
  <2>1. then.facts = now.facts /\ then.rules = now.rules
    BY DEF Env, Tick
  <2>2. then.now = instant + 1 /\ now.now = instant
    BY DEF Env, Tick
  <2>3. Seen(then, key) # Seen(now, key)
    BY <1>4 DEF Seen
  <2> HIDE DEF now, then
  <2>4. now \in Environment /\ then \in Environment
    BY <1>3 DEF now, then
  <2>5. PICK g \in Granularity : key = ClockKey(g)
    BY <2>1, <2>3, <2>4, SeenKeys DEF ObservedKey
  <2>6. Bucket(instant + 1, g) # Bucket(instant, g)
    BY <2>2, <2>3, <2>4, <2>5, SeenKeys
  <2> QED BY <2>5, <2>6
<1> HIDE DEF keys
<1> QED BY <1>1, <1>2, <1>4, ChangesAreNoted

\* While the inputs stay, what was followed is followed.
LEMMA InputsStay ==
  ASSUME DecisionsInv, UNCHANGED <<inputVars, unreacted, changes>>
  PROVE  DecisionsTypes' /\ \A entry : Followed(entry) => Followed(entry)'
<1>1. DecisionsTypes'
  BY DEF DecisionsInv, DecisionsTypes, inputVars
<1>2. ASSUME NEW entry, Followed(entry) PROVE Followed(entry)'
  BY <1>2 DEF Followed, Genuine, Seen, Env, inputVars
<1> QED BY <1>1, <1>2

\* An answer computed now agrees with what there is.
LEMMA FreshAgrees ==
  ASSUME DecisionsInv, NEW question \in Question
  PROVE  LET entry == Fresh(question)
         IN  /\ Genuine(entry) /\ entry = [question |-> entry.question, evaluation |-> entry.evaluation]
             /\ Agrees(Env(1, rules), entry.evaluation.observed)
             /\ Followed(entry)
<1> DEFINE env == Env(1, rules)
           entry == Fresh(question)
<1>1. env \in Environment
  BY NowIsAnEnvironment DEF DecisionsInv
<1>2. entry.question = question /\ entry.evaluation = Evaluate(question, env)
  BY DEF Fresh
<1>3. Genuine(entry)
  BY <1>1, <1>2 DEF Genuine
<1>4. entry = [question |-> entry.question, evaluation |-> entry.evaluation]
  BY DEF Fresh
<1>5. Agrees(env, entry.evaluation.observed)
  <2>1. Honest(env, entry.evaluation.observed)
    BY <1>1, <1>2, EvaluateIsHonest
  <2> HIDE DEF entry, env
  <2>2. ASSUME NEW o \in entry.evaluation.observed PROVE Seen(env, o.key) = o.seen
    <3>1. o = [key |-> o.key, seen |-> Seen(env, o.key)]
      BY <2>1 DEF Honest
    <3> QED BY <3>1
  <2> QED BY <2>2 DEF Agrees
<1>6. Followed(entry)
  <2> HIDE DEF entry
  <2> QED BY <1>3, <1>4, <1>5 DEF Followed, Agrees
<1> QED BY <1>3, <1>4, <1>5, <1>6

LEMMA AskKeeps ==
  ASSUME DecisionsInv, NEW question \in Question, NEW account \in Account, Ask(question, account)
  PROVE  DecisionsInv'
<1> DEFINE env == Env(account, rules)
           entry == [question |-> question, evaluation |-> Cached(kept, question, env)]
<1>1. env \in Environment
  BY EnvironmentsOfAccounts DEF DecisionsInv, DecisionsTypes
<1>2. Genuine(entry)
  <2>1. Cached(kept, question, env) = Evaluate(question, env)
    <3> HIDE DEF env
    <3> QED BY <1>1, CachedIsEvaluated DEF DecisionsInv
  <2> QED BY <1>1, <2>1 DEF Genuine
<1>3. kept' = kept \cup {entry} /\ watched' = watched
  BY DEF Ask
<1>4. \A a \in kept' : Genuine(a)'
  <2> HIDE DEF entry
  <2> QED BY <1>2, <1>3 DEF DecisionsInv, Genuine
<1>5. DecisionsTypes' /\ \A a : Followed(a) => Followed(a)'
  BY InputsStay DEF Ask
<1> QED BY <1>3, <1>4, <1>5 DEF DecisionsInv

LEMMA PreviewKeeps ==
  ASSUME DecisionsInv, NEW question \in Question, NEW key \in RuleKey, NEW body \in {NoRule} \cup RuleBody,
         Preview(question, key, body)
  PROVE  DecisionsInv'
<1> DEFINE after == [rules EXCEPT ![key] = body]
<1>1. after \in Catalog
  BY DEF DecisionsInv, DecisionsTypes, Catalog
<1>2. kept' = Impact(kept, question, after).cache /\ watched' = watched
  BY DEF Preview
<1>3. Knows(Impact(kept, question, after), question, after, Account)
  <2> HIDE DEF after
  <2> QED BY <1>1, ImpactKnows DEF DecisionsInv
<1>4. \A a \in kept' : Genuine(a)'
  <2> HIDE DEF after
  <2> QED BY <1>2, <1>3 DEF Knows, Genuine
<1>5. DecisionsTypes' /\ \A a : Followed(a) => Followed(a)'
  BY InputsStay DEF Preview
<1> QED BY <1>2, <1>4, <1>5 DEF DecisionsInv

LEMMA WatchKeeps ==
  ASSUME DecisionsInv, NEW question \in Question, Watch(question) \/ Unwatch(question)
  PROVE  DecisionsInv'
<1>1. watched' \subseteq watched \cup {Fresh(question)} /\ kept' = kept
  BY DEF Watch, Unwatch
<1>2. Followed(Fresh(question))
  BY FreshAgrees
<1>3. DecisionsTypes' /\ \A a : Followed(a) => Followed(a)'
  BY InputsStay DEF Watch, Unwatch
<1>4. \A a \in watched' : Followed(a)'
  <2>1. ASSUME NEW a \in watched' PROVE Followed(a)
    BY <1>1, <1>2 DEF DecisionsInv
  <2> QED BY <1>3, <2>1
<1>5. \A a \in kept' : Genuine(a)'
  BY <1>1 DEF DecisionsInv, Genuine
<1> QED BY <1>3, <1>4, <1>5 DEF DecisionsInv

\* What is not found by the changes agrees already; what is found is computed again.
LEMMA ReactKeeps ==
  ASSUME DecisionsInv, React
  PROVE  DecisionsInv'
<1>1. DecisionsTypes'
  BY DEF DecisionsInv, DecisionsTypes, React, inputVars
<1>2. \A a \in kept' : Genuine(a)'
  BY DEF React, DecisionsInv, Genuine
<1>3. ASSUME NEW a \in watched' PROVE Followed(a)'
  <2>1. /\ Genuine(a) /\ a = [question |-> a.question, evaluation |-> a.evaluation]
        /\ Agrees(Env(1, rules), a.evaluation.observed)
    <3>1. CASE a \in watched \ AffectedAnswers
      <4>1. Followed(a) /\ KeysOf(a.evaluation.observed) \cap unreacted = {}
        BY <3>1 DEF DecisionsInv, AffectedAnswers
      <4>2. \A o \in a.evaluation.observed : o.key \notin unreacted
        BY <4>1 DEF KeysOf
      <4> QED BY <4>1, <4>2 DEF Followed, Agrees
    <3>2. CASE \E w \in AffectedAnswers : a = Fresh(w.question)
      <4>1. PICK w \in AffectedAnswers : a = Fresh(w.question)
        BY <3>2
      <4>2. w.question \in Question
        BY DEF AffectedAnswers, DecisionsInv, Followed, Genuine
      <4> QED BY <4>1, <4>2, FreshAgrees
    <3> QED BY <3>1, <3>2 DEF React
  <2>2. Genuine(a)'
    BY <2>1 DEF Genuine
  <2>3. \A o \in a.evaluation.observed : Seen(Env(1, rules), o.key)' = o.seen
    BY <2>1 DEF Agrees, Seen, Env, React, inputVars
  <2> QED BY <2>1, <2>2, <2>3 DEF Followed
<1> QED BY <1>1, <1>2, <1>3 DEF DecisionsInv

LEMMA InitiallyNothingIsKept == DecisionsInit => DecisionsInv
<1> SUFFICES ASSUME DecisionsInit PROVE DecisionsInv
  OBVIOUS
<1>1. world \in [Account -> [FactRead -> Fact]] /\ rules \in Catalog
  BY DEF DecisionsInit, Fact, Catalog
<1>2. instant \in Nat /\ changes \in 0 .. MaxChanges /\ unreacted \subseteq ObservedKey
  BY DecisionsAssumption DEF DecisionsInit
<1> QED BY <1>1, <1>2 DEF DecisionsInv, DecisionsTypes, DecisionsInit

LEMMA DecisionsStep == DecisionsInv /\ [DecisionsNext]_decisionVars => DecisionsInv'
<1> SUFFICES ASSUME DecisionsInv, [DecisionsNext]_decisionVars PROVE DecisionsInv'
  OBVIOUS
<1>1. CASE \E account \in Account, read \in FactRead, value \in {NoFact} \cup FactValue : Submit(account, read, value)
  BY <1>1, SubmitIsNoted DEF Fact
<1>2. CASE \E key \in RuleKey, body \in {NoRule} \cup RuleBody : Release(key, body)
  BY <1>2, ReleaseIsNoted
<1>3. CASE \E key \in RuleKey, body \in {NoRule} \cup RuleBody, question \in Question : Preview(question, key, body)
  BY <1>3, PreviewKeeps
<1>4. CASE Tick
  BY <1>4, TickIsNoted
<1>5. CASE React
  BY <1>5, ReactKeeps
<1>6. CASE \E question \in Question : Watch(question) \/ Unwatch(question)
  BY <1>6, WatchKeeps
<1>7. CASE \E question \in Question, account \in Account : Ask(question, account)
  BY <1>7, AskKeeps
<1>8. CASE UNCHANGED decisionVars
  <2>1. DecisionsTypes' /\ \A a : Followed(a) => Followed(a)'
    BY <1>8, InputsStay DEF decisionVars
  <2>2. kept' = kept /\ watched' = watched
    BY <1>8 DEF decisionVars
  <2>3. \A a \in kept' : Genuine(a)'
    BY <2>2 DEF DecisionsInv, Genuine
  <2> QED BY <2>1, <2>2, <2>3 DEF DecisionsInv
<1> QED BY <1>1, <1>2, <1>3, <1>4, <1>5, <1>6, <1>7, <1>8 DEF DecisionsNext

-----------------------------------------------------------------------------

\* All that is kept or watched was computed once, from inputs of these types; and
\* what a watched answer has seen is there still, or the reactor is yet to be told.
THEOREM DecisionsAreGenuine == DecisionsSpec => []DecisionsInv
<1> QED BY InitiallyNothingIsKept, DecisionsStep, PTL DEF DecisionsSpec

LEMMA DecisionsLoadEnough ==
  ASSUME DecisionsInv, NEW key \in RuleKey, NEW account \in Account
  PROVE  DecisionOf(key, account) = Evaluate(RuleCall(key), Env(account, rules))
<1> DEFINE env == Env(account, rules)
           question == RuleCall(key)
           fewer == [r \in FactRead |-> IF r \in FactReads(question) THEN world[account][r] ELSE NoFact]
           there == [env EXCEPT !.facts = fewer]
<1>1. env \in Environment /\ question \in Expression
  BY EnvironmentsOfAccounts, ExpressionAssumption DEF DecisionsInv, DecisionsTypes
<1>2. env.rules = rules /\ env.facts = world[account]
  BY DEF Env
<1>3. fewer \in [FactRead -> Fact]
  BY DEF DecisionsInv, DecisionsTypes, Fact
<1>4. \A read \in FactReads(question) \cap FactRead : fewer[read] = world[account][read]
  OBVIOUS
<1>5. DecisionOf(key, account) = Evaluate(question, there)
  BY DEF DecisionOf
<1> HIDE DEF env, fewer, question
<1>6. there \in Environment /\ there.rules = env.rules /\ there.now = env.now /\ there.facts = fewer
  BY <1>1, <1>3 DEF Environment
<1> HIDE DEF there
<1>7. Evaluate(question, there) = Evaluate(question, env)
  BY <1>1, <1>2, <1>4, <1>6, EvaluationsReadTheLoaded
<1> QED BY <1>5, <1>7 DEF question, env

LEMMA GenuineAnswersAreCurrent == DecisionsInv => AnswersAreCurrent
<1> SUFFICES ASSUME DecisionsInv PROVE AnswersAreCurrent
  OBVIOUS
<1>1. CachedAnswersAreFresh
  <2>1. ASSUME NEW question \in Question, NEW account \in Account
        PROVE  Cached(kept, question, Env(account, rules)) = Evaluate(question, Env(account, rules))
    <3>1. Env(account, rules) \in Environment
      BY EnvironmentsOfAccounts DEF DecisionsInv, DecisionsTypes
    <3> QED BY <3>1, CachedIsEvaluated DEF DecisionsInv
  <2> QED BY <2>1 DEF CachedAnswersAreFresh
<1>2. PreviewsAreExact
  <2>1. ASSUME NEW question \in Question, NEW key \in RuleKey, NEW body \in {NoRule} \cup RuleBody
        PROVE  Impact(kept, question, [rules EXCEPT ![key] = body]).flipped
                 = FlipsOf(question, [rules EXCEPT ![key] = body], Account)
    <3> DEFINE after == [rules EXCEPT ![key] = body]
    <3>1. after \in Catalog
      BY DEF DecisionsInv, DecisionsTypes, Catalog
    <3> HIDE DEF after
    <3>2. Knows(Impact(kept, question, after), question, after, Account)
      BY <3>1, ImpactKnows DEF DecisionsInv
    <3> QED BY <3>2 DEF Knows, after
  <2> QED BY <2>1 DEF PreviewsAreExact, FlipsOf
<1>3. DecisionsReadEnough
  BY DecisionsLoadEnough DEF DecisionsReadEnough
<1> QED BY <1>1, <1>2, <1>3 DEF AnswersAreCurrent

\* Whatever spares work in answering changes no answer: an answer of the cache is
\* the one that evaluating now would give, a preview of a release names the accounts
\* whose answer flips and no other, and a decision that loads only the facts its
\* rules name is the one over all the facts there are.
THEOREM AnswersStayCurrent == DecisionsSpec => []AnswersAreCurrent
<1> QED BY DecisionsAreGenuine, GenuineAnswersAreCurrent, PTL

LEMMA FollowedAnswersAreCurrent == DecisionsInv => WatchedAnswersAreCurrent
<1> SUFFICES ASSUME DecisionsInv, unreacted = {}, NEW w \in watched PROVE w = Fresh(w.question)
  BY DEF WatchedAnswersAreCurrent
<1>1. Followed(w)
  BY DEF DecisionsInv
<1>2. Agrees(Env(1, rules), w.evaluation.observed)
  BY <1>1 DEF Followed, Agrees
<1>3. PICK env \in Environment : w.evaluation = Evaluate(w.question, env)
  BY <1>1 DEF Followed, Genuine
<1>4. Evaluate(w.question, Env(1, rules)) = w.evaluation
  BY <1>1, <1>2, <1>3, NowIsAnEnvironment, EvaluateIsHonest DEF DecisionsInv, Followed, Genuine
<1>5. w = [question |-> w.question, evaluation |-> w.evaluation]
  BY <1>1 DEF Followed
<1> QED BY <1>4, <1>5 DEF Fresh

\* When the reactor has been told of every change, each answer it holds is the one
\* that evaluating now would give, with all its evidence.
THEOREM WatchedAnswersStayCurrent == DecisionsSpec => []WatchedAnswersAreCurrent
<1> QED BY DecisionsAreGenuine, FollowedAnswersAreCurrent, PTL

-----------------------------------------------------------------------------
\* Change watches.

\* Events are numbered as they are committed, and no loop has seen one that is unsent.
WatchTypeOK ==
  /\ committed \in Nat /\ readUpTo \in 0..committed
  /\ marker \in [WatchKey -> 0..committed]
  /\ loop \in [WatchKey -> [at : {"arming", "armed", "fired", "sleeping", "off"}, seen : 0..committed, ready : BOOLEAN]]
  /\ unsent \subseteq [number : 1..committed, keys : SUBSET WatchKey]
  /\ missed \in BOOLEAN /\ due \in BOOLEAN /\ debounce \in BOOLEAN
UnsentIsNews ==
  /\ \A e, o \in unsent : e.number = o.number => e = o
  /\ \A e \in unsent, k \in WatchKey : marker[k] # e.number /\ loop[k].seen # e.number
\* While the loops run, whoever is behind has a read to come; the first is due from the start.
WatchInv ==
  /\ WatchTypeOK /\ UnsentIsNews
  /\ Running /\ readUpTo < committed /\ ~ missed => ReadIsToCome

LEMMA WatchInitially ==
  ASSUME WatchInit
  PROVE  WatchInv
<1>1. /\ committed = 0 /\ unsent = {} /\ readUpTo = 0 /\ due = TRUE /\ debounce = FALSE /\ missed = FALSE
      /\ marker = [k \in WatchKey |-> 0]
      /\ loop = [k \in WatchKey |-> [at |-> "arming", seen |-> 0, ready |-> FALSE]]
  BY DEF WatchInit
<1>2. WatchTypeOK
  <2>1. 0 \in 0..0 /\ 0 \in Nat
    OBVIOUS
  <2>2. marker \in [WatchKey -> 0..0]
    BY <1>1, <2>1
  <2>3. loop \in [WatchKey -> [at : {"arming", "armed", "fired", "sleeping", "off"}, seen : 0..0, ready : BOOLEAN]]
    BY <1>1, <2>1
  <2> QED BY <1>1, <2>1, <2>2, <2>3 DEF WatchTypeOK
<1>3. UnsentIsNews
  BY <1>1 DEF UnsentIsNews
<1> QED BY <1>1, <1>2, <1>3 DEF WatchInv

LEMMA CommitEventKeeps ==
  ASSUME WatchInv, CommitEvent
  PROVE  WatchInv'
<1>1. PICK keys \in (SUBSET WatchKey) \ {{}} : unsent' = unsent \cup {[number |-> committed + 1, keys |-> keys]}
  BY DEF CommitEvent
<1> DEFINE e == [number |-> committed + 1, keys |-> keys]
<1>2. /\ committed' = committed + 1 /\ unsent' = unsent \cup {e} /\ marker' = marker /\ loop' = loop /\ handle' = handle
      /\ debounce' = debounce /\ due' = due /\ readUpTo' = readUpTo /\ missed' = missed
  BY <1>1 DEF CommitEvent
<1>3. committed \in Nat /\ readUpTo \in 0..committed /\ 0..committed \subseteq 0..(committed + 1)
  BY DEF WatchInv, WatchTypeOK
<1>4. e.number = committed + 1 /\ e \in [number : 1..(committed + 1), keys : SUBSET WatchKey]
  BY <1>3
<1> HIDE DEF e
<1>5. WatchTypeOK'
  <2>1. marker \in [WatchKey -> 0..(committed + 1)]
    BY <1>3 DEF WatchInv, WatchTypeOK
  <2>2. loop \in [WatchKey -> [at : {"arming", "armed", "fired", "sleeping", "off"}, seen : 0..(committed + 1), ready : BOOLEAN]]
    BY <1>3 DEF WatchInv, WatchTypeOK
  <2>3. unsent \cup {e} \subseteq [number : 1..(committed + 1), keys : SUBSET WatchKey]
    BY <1>3, <1>4 DEF WatchInv, WatchTypeOK
  <2> QED BY <1>2, <1>3, <2>1, <2>2, <2>3 DEF WatchInv, WatchTypeOK
<1>6. UnsentIsNews'
  <2>1. \A o \in unsent : o.number \in 1..committed
    BY DEF WatchInv, WatchTypeOK
  <2>2. \A k \in WatchKey : marker[k] \in 0..committed /\ loop[k].seen \in 0..committed
    BY DEF WatchInv, WatchTypeOK
  <2>3. \A n \in 0..committed : n # committed + 1
    BY <1>3
  <2>4. \A n \in 1..committed : n # committed + 1
    BY <1>3
  <2>5. \A o \in unsent : o.number # e.number
    BY <1>4, <2>1, <2>4
  <2>6. \A k \in WatchKey : marker[k] # e.number /\ loop[k].seen # e.number
    BY <1>4, <2>2, <2>3
  <2>7. \A o, g \in unsent : o.number = g.number => o = g
    BY DEF WatchInv, UnsentIsNews
  <2>8. \A o \in unsent, k \in WatchKey : marker[k] # o.number /\ loop[k].seen # o.number
    BY DEF WatchInv, UnsentIsNews
  <2> QED BY <1>2, <2>5, <2>6, <2>7, <2>8 DEF UnsentIsNews
<1>7. ReadIsToCome'
  <2>1. e \in unsent' /\ e.number > readUpTo'
    BY <1>2, <1>3, <1>4
  <2> QED BY <2>1 DEF ReadIsToCome
<1> QED BY <1>5, <1>6, <1>7 DEF WatchInv

LEMMA SignalKeeps ==
  ASSUME WatchInv, NEW e \in unsent, Signal(e)
  PROVE  WatchInv'
<1>1. /\ marker' = [k \in WatchKey |-> IF k \in e.keys THEN e.number ELSE marker[k]] /\ unsent' = unsent \ {e}
      /\ missed' = (missed \/ (e.number > readUpTo /\ ~ WillBeRead(e.keys)))
      /\ committed' = committed /\ loop' = loop /\ handle' = handle /\ debounce' = debounce /\ due' = due /\ readUpTo' = readUpTo
  BY DEF Signal
<1>2. e.number \in 1..committed /\ e.keys \subseteq WatchKey
  BY DEF WatchInv, WatchTypeOK
<1>3. WatchTypeOK'
  <2>1. marker' \in [WatchKey -> 0..committed]
    BY <1>1, <1>2 DEF WatchInv, WatchTypeOK
  <2>2. missed' \in BOOLEAN
    BY <1>1
  <2> QED BY <1>1, <2>1, <2>2 DEF WatchInv, WatchTypeOK
<1>4. UnsentIsNews'
  BY <1>1 DEF WatchInv, UnsentIsNews
<1>5. ASSUME Running', readUpTo' < committed', ~ missed' PROVE ReadIsToCome'
  <2>1. ReadIsToCome
    BY <1>1, <1>5 DEF WatchInv, Running
  <2>2. CASE due \/ debounce
    BY <1>1, <2>2 DEF ReadIsToCome
  <2>3. CASE \E o \in unsent : o.number > readUpTo /\ o # e
    BY <1>1, <2>3 DEF ReadIsToCome
  <2>4. CASE e.number > readUpTo /\ ~(due \/ debounce)
    <3>1. WillBeRead(e.keys)
      BY <1>1, <1>5, <2>4
    <3>2. PICK k \in e.keys : loop[k].at \in {"armed", "fired"}
      BY <2>4, <3>1 DEF WillBeRead
    <3>3. k \in WatchKey /\ marker'[k] = e.number /\ loop[k].seen # e.number
      BY <1>1, <1>2, <3>2 DEF WatchInv, UnsentIsNews
    <3> QED BY <1>1, <3>2, <3>3 DEF ReadIsToCome
  <2>5. CASE \E k \in WatchKey : loop[k].at = "fired" \/ (loop[k].at = "armed" /\ loop[k].seen # marker[k])
    <3>1. PICK k \in WatchKey : loop[k].at = "fired" \/ (loop[k].at = "armed" /\ loop[k].seen # marker[k])
      BY <2>5
    <3>2. loop[k].at = "fired" \/ (loop[k].at = "armed" /\ loop[k].seen # marker'[k])
      BY <1>1, <3>1 DEF WatchInv, UnsentIsNews
    <3> QED BY <1>1, <3>2 DEF ReadIsToCome
  <2> QED BY <2>1, <2>2, <2>3, <2>4, <2>5 DEF ReadIsToCome
<1> QED BY <1>3, <1>4, <1>5 DEF WatchInv

LEMMA LoseSignalKeeps ==
  ASSUME WatchInv, NEW e \in unsent, LoseSignal(e)
  PROVE  WatchInv'
<1>1. /\ unsent' = unsent \ {e} /\ missed' = (missed \/ e.number > readUpTo) /\ marker' = marker
      /\ committed' = committed /\ loop' = loop /\ handle' = handle /\ debounce' = debounce /\ due' = due /\ readUpTo' = readUpTo
  BY DEF LoseSignal
<1>2. WatchTypeOK'
  <2>1. missed' \in BOOLEAN
    BY <1>1
  <2> QED BY <1>1, <2>1 DEF WatchInv, WatchTypeOK
<1>3. UnsentIsNews'
  BY <1>1 DEF WatchInv, UnsentIsNews
<1>4. ASSUME Running', readUpTo' < committed', ~ missed' PROVE ReadIsToCome'
  <2>1. ReadIsToCome /\ ~(e.number > readUpTo)
    BY <1>1, <1>4 DEF WatchInv, Running
  <2> QED BY <1>1, <2>1 DEF ReadIsToCome
<1> QED BY <1>2, <1>3, <1>4 DEF WatchInv

\* A loop that steps changes its own place and what it has seen.
LEMMA ProgressKeeps ==
  ASSUME WatchInv, NEW k \in WatchKey, Progress(k)
  PROVE  WatchInv'
<1>1. /\ Running /\ marker' = marker /\ committed' = committed /\ unsent' = unsent /\ handle' = handle
      /\ due' = due /\ readUpTo' = readUpTo /\ missed' = missed
  BY DEF Progress, Arm, Fire, Notice, Wake, storeVars
<1>2. /\ loop' \in [WatchKey -> [at : {"arming", "armed", "fired", "sleeping", "off"}, seen : 0..committed, ready : BOOLEAN]]
      /\ debounce' \in BOOLEAN
  <2>1. marker[k] \in 0..committed
    BY DEF WatchInv, WatchTypeOK
  <2>2. CASE Arm(k)
    BY <2>1, <2>2 DEF Arm, WatchInv, WatchTypeOK
  <2>3. CASE Fire(k)
    BY <2>3 DEF Fire, Set, WatchInv, WatchTypeOK
  <2>4. CASE Notice(k)
    BY <2>4 DEF Notice, Schedule, Set, WatchInv, WatchTypeOK
  <2>5. CASE Wake(k)
    BY <2>5 DEF Wake, Set, WatchInv, WatchTypeOK
  <2> QED BY <2>2, <2>3, <2>4, <2>5 DEF Progress
<1>3. \A j \in WatchKey : (j # k => loop'[j] = loop[j]) /\ loop'[j].seen \in {loop[j].seen, marker[j]}
  <2>1. CASE Arm(k)
    BY <2>1 DEF Arm, WatchInv, WatchTypeOK
  <2>2. CASE Fire(k)
    BY <2>2 DEF Fire, Set, WatchInv, WatchTypeOK
  <2>3. CASE Notice(k)
    BY <2>3 DEF Notice, Set, WatchInv, WatchTypeOK
  <2>4. CASE Wake(k)
    BY <2>4 DEF Wake, Set, WatchInv, WatchTypeOK
  <2> QED BY <2>1, <2>2, <2>3, <2>4 DEF Progress
<1>4. WatchTypeOK'
  BY <1>1, <1>2 DEF WatchInv, WatchTypeOK
<1>5. UnsentIsNews'
  BY <1>1, <1>3 DEF WatchInv, UnsentIsNews
<1>6. ASSUME readUpTo' < committed', ~ missed' PROVE ReadIsToCome'
  <2>1. ReadIsToCome
    BY <1>1, <1>6 DEF WatchInv
  <2>2. CASE due \/ \E e \in unsent : e.number > readUpTo
    BY <1>1, <2>2 DEF ReadIsToCome
  <2>3. CASE Fire(k)
    <3>1. loop'[k].at = "fired"
      BY <2>3 DEF Fire, Set, WatchInv, WatchTypeOK
    <3> QED BY <3>1 DEF ReadIsToCome
  <2>4. CASE Notice(k)
    BY <2>4 DEF Notice, Schedule, ReadIsToCome
  <2>5. CASE Arm(k) \/ Wake(k)
    <3>1. debounce' = debounce /\ loop[k].at \in {"arming", "sleeping"}
      BY <2>5 DEF Arm, Wake
    <3> QED BY <1>1, <1>3, <2>1, <3>1 DEF ReadIsToCome
  <2> QED BY <2>3, <2>4, <2>5 DEF Progress
<1> QED BY <1>4, <1>5, <1>6 DEF WatchInv

LEMMA BreakKeeps ==
  ASSUME WatchInv, NEW k \in WatchKey, Break(k)
  PROVE  WatchInv'
<1>1. /\ marker' = marker /\ committed' = committed /\ unsent' = unsent
      /\ due' = due /\ readUpTo' = readUpTo /\ missed' = missed
  BY DEF Break, storeVars
<1>2. CASE loop[k].ready
  <2>1. debounce' = TRUE /\ loop' = [loop EXCEPT ![k].at = "sleeping"] /\ handle' = handle
    BY <1>2 DEF Break, Schedule, Set
  <2>2. WatchTypeOK'
    BY <1>1, <2>1 DEF WatchInv, WatchTypeOK
  <2>3. \A j \in WatchKey : loop'[j].seen = loop[j].seen
    BY <2>1 DEF WatchInv, WatchTypeOK
  <2>4. UnsentIsNews'
    BY <1>1, <2>3 DEF WatchInv, UnsentIsNews
  <2> QED BY <2>1, <2>2, <2>4 DEF WatchInv, ReadIsToCome
<1>3. CASE ~ loop[k].ready
  <2>1. debounce' = FALSE /\ loop' = [loop EXCEPT ![k].at = "off"] /\ handle' = "failed"
    BY <1>3 DEF Break, Set
  <2>2. WatchTypeOK'
    BY <1>1, <2>1 DEF WatchInv, WatchTypeOK
  <2>3. \A j \in WatchKey : loop'[j].seen = loop[j].seen
    BY <2>1 DEF WatchInv, WatchTypeOK
  <2>4. UnsentIsNews'
    BY <1>1, <2>3 DEF WatchInv, UnsentIsNews
  <2> QED BY <2>1, <2>2, <2>4 DEF WatchInv, Running
<1> QED BY <1>2, <1>3

LEMMA HandleKeeps ==
  ASSUME WatchInv, WatchKeysReturns \/ Debounce \/ Read \/ CloseHandle
  PROVE  WatchInv'
<1>1. CASE WatchKeysReturns
  <2>1. UNCHANGED <<committed, unsent, marker, loop, debounce, due, readUpTo, missed>> /\ Running
    BY <1>1 DEF WatchKeysReturns, storeVars, Running
  <2> QED BY <2>1 DEF WatchInv, WatchTypeOK, UnsentIsNews, ReadIsToCome
<1>2. CASE Debounce
  <2>1. UNCHANGED <<committed, unsent, marker, loop, handle, readUpTo, missed>> /\ debounce' = FALSE /\ due' = TRUE
    BY <1>2 DEF Debounce, storeVars
  <2> QED BY <2>1 DEF WatchInv, WatchTypeOK, UnsentIsNews, ReadIsToCome
<1>3. CASE Read
  <2>1. /\ UNCHANGED <<committed, unsent, marker, loop, handle, debounce>> /\ due' = FALSE /\ readUpTo' = committed
        /\ missed' = FALSE
    BY <1>3 DEF Read, storeVars
  <2>2. committed \in Nat
    BY DEF WatchInv, WatchTypeOK
  <2>3. readUpTo' \in 0..committed' /\ ~(readUpTo' < committed')
    BY <2>1, <2>2
  <2>4. WatchTypeOK'
    BY <2>1, <2>2, <2>3 DEF WatchInv, WatchTypeOK
  <2>5. UnsentIsNews'
    BY <2>1 DEF WatchInv, UnsentIsNews
  <2> QED BY <2>3, <2>4, <2>5 DEF WatchInv
<1>4. CASE CloseHandle
  <2>1. /\ UNCHANGED <<committed, unsent, marker, due, readUpTo, missed>> /\ debounce' = FALSE /\ handle' = "closed"
        /\ loop' = [j \in WatchKey |-> [loop[j] EXCEPT !.at = "off"]]
    BY <1>4 DEF CloseHandle, storeVars
  <2>2. WatchTypeOK' /\ \A j \in WatchKey : loop'[j].seen = loop[j].seen
    BY <2>1 DEF WatchInv, WatchTypeOK
  <2>3. UnsentIsNews'
    BY <2>1, <2>2 DEF WatchInv, UnsentIsNews
  <2> QED BY <2>1, <2>2, <2>3 DEF WatchInv, Running
<1> QED BY <1>1, <1>2, <1>3, <1>4

\* No wake-up of a change watch is lost, for any keys and number of commits: a subscriber that is
\* behind has a read to come, however the loops read their keys, watch them, break and watch
\* again beside the signals (watchKeys).  A loop compares its key with what it saw as it watched it,
\* so an event signalled since then still fires the watch.
THEOREM WakeUpsAreNotLost == WatchSpec => []BehindHasAReadToCome
<1>1. WatchInit => WatchInv
  BY WatchInitially
<1>2. WatchInv /\ [WatchNext]_watchVars => WatchInv'
  <2>1. ASSUME WatchInv, UNCHANGED watchVars PROVE WatchInv'
    BY <2>1 DEF watchVars, WatchInv, WatchTypeOK, UnsentIsNews, ReadIsToCome, Running
  <2> QED BY <2>1, CommitEventKeeps, SignalKeeps, LoseSignalKeeps, ProgressKeeps, BreakKeeps, HandleKeeps
          DEF WatchNext, Emitted
<1>3. WatchInv => BehindHasAReadToCome
  BY DEF WatchInv, BehindHasAReadToCome, Running
<1> QED BY <1>1, <1>2, <1>3, PTL DEF WatchSpec
=============================================================================
