---------------------------- MODULE EntityHistory ----------------------------
(***************************************************************************)
(* The history of an entity, read newest first a page at a time, while     *)
(* transactions commit.                                                    *)
(*                                                                         *)
(* A transaction holds the position it took until it ends (SqlTriples,     *)
(* KvTriples); what it journals becomes visible when it commits.  A reader *)
(* fixes the last position at its first page and asks for the changes of   *)
(* its entity up to there, and below the last one it was given; then it    *)
(* reads the envelope of each.                                             *)
(***************************************************************************)
EXTENDS Integers, Sequences, FiniteSets, SequencesExt

CONSTANTS
  Entity, Writer,
  Limit,            \* the transactions on a page
  LastPosition      \* bound on the positions taken

ASSUME HistoryAssumption == Limit \in Nat \ {0} /\ LastPosition \in Nat

VARIABLES
  journal,          \* the committed envelopes: [position, changed]
  allocated,        \* the last position the store has allocated
  writing,          \* the envelope each writer is about to commit
  subject,          \* the entity whose history is read
  snapshot,         \* the position the walk was fixed at, or Unfixed
  before,           \* the boundary of the next page, or Unfixed
  indexed,          \* the positions of the page whose envelopes are being read
  walked,           \* the envelopes the reader was given
  walking           \* where the reader is

writeVars == <<journal, allocated, writing>>
walkVars == <<subject, snapshot, before, indexed, walked, walking>>
entityHistoryVars == <<writeVars, walkVars>>

Unfixed == -1
NoEnvelope == [position |-> 0, changed |-> {}]

EntityHistoryInit ==
  /\ journal = {} /\ allocated = 0
  /\ writing = [w \in Writer |-> NoEnvelope]
  /\ subject \in Entity
  /\ snapshot = Unfixed /\ before = Unfixed
  /\ indexed = <<>> /\ walked = <<>> /\ walking = "fix"

-----------------------------------------------------------------------------
(* The counter is a fact of the transaction: a second writer waits for the *)
(* first to end, and a rollback gives the position back.                   *)

\* Bug: positions come from a sequence that does not wait for a commit.
FromASequence(w) == TRUE
CounterIsFree(w) == \A other \in Writer : writing[other] = NoEnvelope

Take(w, entities) ==
  /\ writing[w] = NoEnvelope /\ CounterIsFree(w)
  /\ allocated < LastPosition
  /\ allocated' = allocated + 1
  /\ writing' = [writing EXCEPT ![w] = [position |-> allocated + 1, changed |-> entities]]
  /\ UNCHANGED <<journal, walkVars>>

Commit(w) ==
  /\ writing[w] # NoEnvelope
  /\ journal' = journal \cup {writing[w]}
  /\ writing' = [writing EXCEPT ![w] = NoEnvelope]
  /\ UNCHANGED <<allocated, walkVars>>

Rollback(w) ==
  /\ writing[w] # NoEnvelope
  /\ writing' = [writing EXCEPT ![w] = NoEnvelope]
  /\ allocated' = IF writing[w].position = allocated THEN allocated - 1 ELSE allocated
  /\ UNCHANGED <<journal, walkVars>>

-----------------------------------------------------------------------------

CurrentPosition == Max({e.position : e \in journal} \cup {0})

(* The first page fixes the position of the walk ...                       *)
Fix ==
  /\ walking = "fix"
  /\ snapshot' = CurrentPosition
  /\ walking' = "query"
  /\ UNCHANGED <<writeVars, subject, before, indexed, walked>>

Indexed ==
  {e \in journal : /\ subject \in e.changed
                   /\ e.position <= snapshot
                   /\ before # Unfixed => e.position < before}

(* The newest of them, the newest first: as many as asked for.             *)
Newest(positions, count) ==
  LET Newer(p) == {q \in positions : q > p}
      size == IF Cardinality(positions) < count THEN Cardinality(positions) ELSE count
  IN  [i \in 1 .. size |-> CHOOSE p \in positions : Cardinality(Newer(p)) = i - 1]

(* ... every page asks for one row more than it returns ...                *)
QueryEnvelopes ==
  /\ walking = "query"
  /\ indexed' = Newest({e.position : e \in Indexed}, Limit + 1)
  /\ walking' = "envelopes"
  /\ UNCHANGED <<writeVars, subject, snapshot, before, walked>>

(* ... and then reads the envelope of each row it returns.                 *)
Envelopes ==
  LET selected == SubSeq(indexed, 1, IF Len(indexed) < Limit THEN Len(indexed) ELSE Limit)
      Found(p) == {e \in journal : e.position = p}
  IN  /\ walking = "envelopes"
      /\ IF \A i \in DOMAIN selected : Cardinality(Found(selected[i])) = 1
         THEN /\ walked' = walked \o [i \in DOMAIN selected |-> CHOOSE e \in Found(selected[i]) : TRUE]
              /\ IF Len(indexed) > Limit
                 THEN before' = selected[Limit] /\ walking' = "query"
                 ELSE walking' = "done" /\ UNCHANGED before
         ELSE walking' = "corrupt" /\ UNCHANGED <<before, walked>>
      /\ indexed' = <<>>
      /\ UNCHANGED <<writeVars, subject, snapshot>>

EntityHistoryNext ==
  \/ \E w \in Writer : \/ \E entities \in SUBSET Entity : Take(w, entities)
                       \/ Commit(w) \/ Rollback(w)
  \/ Fix \/ QueryEnvelopes \/ Envelopes

EntityHistorySpec == EntityHistoryInit /\ [][EntityHistoryNext]_entityHistoryVars

-----------------------------------------------------------------------------
(* A walk that has reached its end was given every transaction that changed*)
(* the entity up to the position it was fixed at, once each and newest     *)
(* first, however many committed meanwhile; and no page finds an envelope  *)
(* missing.                                                                *)
HistoryWalksAreExact ==
  /\ walking # "corrupt"
  /\ walking = "done" =>
       /\ ToSet(walked) = {e \in journal : subject \in e.changed /\ e.position <= snapshot}
       /\ \A i, j \in DOMAIN walked : i < j => walked[i].position > walked[j].position
=============================================================================
