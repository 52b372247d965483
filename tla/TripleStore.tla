---------------------------- MODULE TripleStore ----------------------------
(***************************************************************************)
(* The durable state of one Triplex database and the ways a transaction    *)
(* changes it, as constant operators shared by the specifications of the   *)
(* engines.  A database is the commit-position counter, the command        *)
(* receipts, the triples with their recorded interval, and the journal of  *)
(* causal envelopes.                                                       *)
(*                                                                         *)
(* Abstractions: a triple keeps the field that retract patterns and the    *)
(* reserved namespace look at (its entity); its value, its type and its    *)
(* valid interval decide nothing here.  The journal's triples are kept     *)
(* apart from the application's, one record for each transaction.          *)
(***************************************************************************)
EXTENDS Integers, Sequences

CONSTANTS
  TripleId,     \* the ids that runtime.nextTripleId can produce
  TxId,         \* the ids that runtime.nextTxId can produce
  Entity,       \* the entities transactions write
  Reserved,     \* those under _triplex/, which only the library may write
  Command,      \* the command ids callers can supply
  InvalidCommand, \* those whose length is not between 1 and 1024
  UnknownId,    \* an id no triple will ever have
  NoTx,         \* "no transaction": SQL NULL, a missing KV key
  NoFact,       \* what is stored under an id that no triple has
  NoCommand,    \* meta.commandId === undefined
  MaxPosition   \* Number.MAX_SAFE_INTEGER, the end of the position counter

-----------------------------------------------------------------------------
(* What a caller hands to transact. *)

Op == [op : {"assert", "retract-pattern"}, entity : Entity]
        \cup [op : {"retract"}, id : TripleId \cup {UnknownId}]

Request == [ops        : Seq(Op),
            command    : Command \cup {NoCommand},
            expects    : SUBSET (TripleId \cup {UnknownId}), \* its TripleLive preconditions
            authorized : BOOLEAN,           \* carries systemWriteAuthorization
            journaled  : BOOLEAN,           \* does not carry journalSuppression
            enforced   : BOOLEAN]           \* carries meta.enforce

\* reservedAssertError: an unauthorized caller asserts a reserved fact.
ReservedAssert(r) ==
  ~r.authorized /\ \E n \in DOMAIN r.ops :
    r.ops[n].op = "assert" /\ r.ops[n].entity \in Reserved

\* validatePreconditions: a precondition that no retract operation settles.
UnmatchedExpectation(r) ==
  \E i \in r.expects : ~ \E n \in DOMAIN r.ops :
    r.ops[n].op = "retract" /\ r.ops[n].id = i

\* The checks transact makes before it reads anything.
Admissible(r) ==
  /\ ~ReservedAssert(r)
  /\ ~UnmatchedExpectation(r)
  /\ r.command \notin InvalidCommand
-----------------------------------------------------------------------------
(* The database.  Position 0, NoTx and time 0 say "not retracted". *)

Fact == [entity : Entity,
         tx : TxId, position : Nat, instant : Nat,
         retractTx : TxId \cup {NoTx}, retractPosition : Nat, retractInstant : Nat]

ASSUME StoreAssumption ==
  /\ Reserved \subseteq Entity
  /\ InvalidCommand \subseteq Command
  /\ NoTx \notin TxId
  /\ NoFact \notin Fact
  /\ UnknownId \notin TripleId
  /\ NoCommand \notin Command
  /\ MaxPosition \in Nat

Envelope == [tx : TxId, position : Nat, instant : Nat,
             command : Command \cup {NoCommand},
             asserted : SUBSET TripleId, retracted : SUBSET TripleId]

Database == [position : Nat,
             receipt  : [Command -> TxId \cup {NoTx}],
             facts    : [TripleId -> Fact \cup {NoFact}],
             journal  : SUBSET Envelope]

EmptyDatabase == [position |-> 0,
                  receipt  |-> [k \in Command |-> NoTx],
                  facts    |-> [i \in TripleId |-> NoFact],
                  journal  |-> {}]

\* The ids of the triples that exist, retracted ones too.
Ids(D) == {i \in TripleId : D.facts[i] # NoFact}

IsLive(D, i) == i \in Ids(D) /\ D.facts[i].retractTx = NoTx

\* Bug: the pattern also selects facts that are already retracted.
MatchingRetracted(D, e) == {i \in Ids(D) : D.facts[i].entity = e}

\* The live facts a retract pattern selects.
Matching(D, e) == {i \in Ids(D) : IsLive(D, i) /\ D.facts[i].entity = e}

\* What a reader at recorded position p sees.
VisibleAtPosition(D, p) ==
  {i \in Ids(D) : /\ D.facts[i].position <= p
                  /\ (IsLive(D, i) \/ D.facts[i].retractPosition > p)}

-----------------------------------------------------------------------------
(* The writes of a transaction. *)

\* Ids are random and never reused: a new one differs from every id in view.
HasFreshId(D) == \E i \in TripleId : i \notin Ids(D)

FreshId(D) == CHOOSE i \in TripleId : i \notin Ids(D)

\* Bug: key and value swapped.
WithReceiptSwapped(D, k, tx) == [D EXCEPT !.receipt = [D.receipt EXCEPT ![k] = k]]

WithReceipt(D, k, tx) == [D EXCEPT !.receipt = [D.receipt EXCEPT ![k] = tx]]

WithNextPosition(D) == [D EXCEPT !.position = D.position + 1]

NewFact(D, e, tx, now) ==
  [entity |-> e, tx |-> tx, position |-> D.position, instant |-> now,
   retractTx |-> NoTx, retractPosition |-> 0, retractInstant |-> 0]

WithFact(D, id, e, tx, now) ==
  [D EXCEPT !.facts = [D.facts EXCEPT ![id] = NewFact(D, e, tx, now)]]

\* Bug: a retraction records no position.
RetiredNowhere(D, f, tx, now) == [f EXCEPT !.retractTx = tx, !.retractInstant = now]

Retired(D, f, tx, now) ==
  [f EXCEPT !.retractTx = tx, !.retractPosition = D.position, !.retractInstant = now]

WithRetracted(D, ids, tx, now) ==
  [D EXCEPT !.facts = [i \in TripleId |->
                         IF i \in ids THEN Retired(D, D.facts[i], tx, now)
                                      ELSE D.facts[i]]]

WithEnvelope(D, env) == [D EXCEPT !.journal = D.journal \cup {env}]
=============================================================================
