---------------------------- MODULE KvTriplesInv ----------------------------
(***************************************************************************)
(* The inductive invariant behind the safety of KvTriples: what a body's   *)
(* view is, as long as its snapshot is current, and what the committed     *)
(* database satisfies between commits.                                     *)
(***************************************************************************)
EXTENDS KvTriples

-----------------------------------------------------------------------------
\* What transact promises.
Log == INSTANCE TripleLog WITH SeesRetracted <- TRUE

\* The engine looks as if calls ran one at a time, each whole or not at all, and
\* gave each the answer its effect deserves.
RunsAsIfAtomic == Log!Spec

-----------------------------------------------------------------------------
Allocated(c) == pc[c] \in {"enforce", "ops", "commit"}

\* The snapshot of body c is the committed database of this moment.
Current(c) ==
  \/ pc[c] = "position" /\ work[c].position = db.position
  \/ Allocated(c) /\ SnapshotCurrent(c)

\* Every transaction id the database mentions.
TxsOf(D) ==
  {D.facts[i].tx : i \in Ids(D)}
    \cup {D.facts[i].retractTx : i \in {j \in Ids(D) : ~IsLive(D, j)}}
    \cup {env.tx : env \in D.journal}
    \cup {D.receipt[k] : k \in {h \in Command : D.receipt[h] # NoTx}}

\* The running attempt has published nothing; earlier ones may have, when the
\* reply of their commit was lost.
AttemptFresh(c) ==
  \A n \in 1..MaxAttempts : <<c, n>> \in TxsOf(db) =>
    n <= attempt[c] /\ (Running(c) => n # attempt[c])

\* No view is ahead of the database, and the permit keeps the view current.
ViewBounded(c) ==
  /\ pc[c] = "idle" => attempt[c] = 0
  /\ Running(c) => attempt[c] # 0
  /\ pc[c] # "done" => outcome[c] = "none"
  /\ outcome[c] = "committed" => attempt[c] # 0
  /\ pc[c] \in {"idle", "claim", "position"} =>
       next[c] = 1 /\ asserted[c] = {} /\ retracted[c] = {}
  /\ pc[c] = "position" => work[c].position <= db.position
  /\ Allocated(c) => work[c].position <= db.position + 1
  /\ ~Optimistic /\ Running(c) => mutex = c /\ (pc[c] # "claim" => Current(c))

AssertedFact(c, i) ==
  /\ work[c].facts[i] # NoFact
  /\ work[c].facts[i].tx = Tx(c)
  /\ work[c].facts[i].position = work[c].position
  /\ work[c].facts[i].instant = instant[c]

RetractedFact(c, i) ==
  /\ work[c].facts[i].retractTx = Tx(c)
  /\ work[c].facts[i].retractPosition = work[c].position
  /\ work[c].facts[i].retractInstant = instant[c]

\* Fact i before the body retracted it.
SameAssertion(f, g) ==
  f.entity = g.entity /\ f.tx = g.tx /\ f.position = g.position /\ f.instant = g.instant

\* The view's facts are the committed ones, those in asserted and, for those in
\* retracted, the retraction.
OverlayFacts(c) ==
  /\ retracted[c] \subseteq Ids(work[c])
  /\ \A i \in asserted[c] : db.facts[i] = NoFact /\ AssertedFact(c, i)
  /\ \A i \in asserted[c] \ retracted[c] : work[c].facts[i].retractTx = NoTx
  /\ \A i \in retracted[c] : RetractedFact(c, i)
  /\ \A i \in retracted[c] \ asserted[c] :
       IsLive(db, i) /\ SameAssertion(work[c].facts[i], db.facts[i])
  /\ \A i \in TripleId \ (asserted[c] \cup retracted[c]) : work[c].facts[i] = db.facts[i]

OverlayReceipt(c) ==
  LET k == request[c].command IN
  IF k = NoCommand
    THEN work[c].receipt = db.receipt
    ELSE /\ db.receipt[k] = NoTx
         /\ work[c].receipt = [db.receipt EXCEPT ![k] = Tx(c)]

OverlayJournal(c) ==
  work[c].journal = IF pc[c] = "commit" /\ request[c].journaled
                      THEN db.journal \cup {EnvelopeOf(c)}
                      ELSE db.journal

Overlay(c) == Current(c) => OverlayFacts(c) /\ OverlayReceipt(c) /\ OverlayJournal(c)

\* The loop has settled every precondition among the operations behind it.
Settled(c) ==
  Running(c) =>
    /\ Admissible(request[c])
    /\ pc[c] = "commit" => next[c] > Len(request[c].ops)
    /\ \A n \in DOMAIN request[c].ops :
         /\ n < next[c]
         /\ request[c].ops[n].op = "retract"
         /\ request[c].ops[n].id \in request[c].expects
         => request[c].ops[n].id \in retracted[c]

\* A silent transaction touches the library's facts only.
Silent(c) ==
  Running(c) /\ ~request[c].journaled =>
    /\ OwnsWhatItWrites(request[c])
    /\ Allocated(c) /\ Current(c) =>
         \A i \in asserted[c] \cup retracted[c] : work[c].facts[i].entity \in Reserved

ViewInv(c) == AttemptFresh(c) /\ ViewBounded(c) /\ Overlay(c) /\ Settled(c) /\ Silent(c)

EnvelopesDistinct == \A e1, e2 \in db.journal : e1.tx = e2.tx => e1 = e2

ReceiptCall ==
  \A k \in Command : db.receipt[k] # NoTx =>
    \E c \in Call, n \in 1..MaxAttempts : db.receipt[k] = <<c, n>> /\ attempt[c] # 0

DatabaseInv ==
  /\ JournalMatchesFacts /\ FeedCoversFacts
  /\ EnvelopesDistinct /\ ReceiptCall /\ ReceiptNamesCommit
  /\ ExpectationHonoured

\* Checked by TLC as an invariant, and proved to be inductive.
IInv == TypeOK /\ (\A c \in Call : ViewInv(c)) /\ DatabaseInv

\* Under the permit, instants are taken in the order of the commits: the running
\* body read the clock after every earlier one had committed.
OrderInv ==
  /\ \A c \in Call : Running(c) => instant[c] <= clock
  /\ \A env \in db.journal : env.position <= db.position /\ env.instant <= clock
  /\ ~Optimistic =>
       /\ \A c \in Call : Running(c) => \A env \in db.journal : env.instant <= instant[c]
       /\ InstantsFollowPositions
-----------------------------------------------------------------------------
(* How a body follows the call that TripleLog makes of it. *)

\* How far body c has come.
Computed(c) ==
  [D |-> work[c], asserted |-> asserted[c], retracted |-> retracted[c], error |-> "none"]

\* A body whose snapshot is current has computed what the call computes.
Follows(c) ==
  Current(c) =>
    LET r == request[c]
        after == Log!Loop(db, r, Tx(c), instant[c])
    IN  /\ pc[c] = "position" => WithNextPosition(work[c]) = Log!Start(db, r, Tx(c)).D
        /\ pc[c] \in {"enforce", "ops"} =>
             next[c] - 1 <= Len(r.ops) /\ after[next[c] - 1] = Computed(c)
        /\ pc[c] = "commit" => Log!Transact(db, r, Tx(c), instant[c]) = Computed(c)

\* Operation m of r retracts fact i of entity e.
Retracts(r, m, i, e) ==
  \/ r.ops[m].op = "retract" /\ r.ops[m].id = i
  \/ r.ops[m].op = "retract-pattern" /\ r.ops[m].entity = e

\* However old its snapshot, a body sees the facts it names, and finds one
\* retracted only when it is, or when the body retracted it itself.
SeesNamed(c) ==
  Running(c) => \A n \in DOMAIN request[c].ops :
    LET i == request[c].ops[n].id IN
    request[c].ops[n].op = "retract" /\ i # UnknownId =>
      /\ i \in Ids(db)
      /\ pc[c] # "claim" =>
           /\ i \in Ids(work[c])
           /\ work[c].facts[i].entity = db.facts[i].entity
           /\ IsLive(db, i) /\ ~IsLive(work[c], i) =>
                \E m \in 1 .. next[c] - 1 :
                  Retracts(request[c], m, i, db.facts[i].entity)

Answers(c) ==
  /\ pc[c] = "idle" => request[c] = NoRequest
  /\ Running(c) => instant[c] \in 1..MaxClock
  /\ pc[c] = "enforce" => request[c].enforced
  /\ Allocated(c) => work[c].position <= MaxPosition

LogView(c) == Follows(c) /\ SeesNamed(c) /\ Answers(c)

\* Together with IInv, inductive while no reply is lost.
LogInv == clock \in 1..MaxClock /\ \A c \in Call : LogView(c)
=============================================================================
