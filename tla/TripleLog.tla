------------------------------ MODULE TripleLog ------------------------------
(***************************************************************************)
(* What Triples.transact promises its callers: each call takes effect at   *)
(* one instant, entirely or not at all, at the next commit position, and   *)
(* its answer says which.  A call is a function of the database it finds;  *)
(* the engines have to look as if they ran calls this way, one by one.     *)
(***************************************************************************)
EXTENDS TripleStore

CONSTANTS
  Call,         \* the calls of transact that are made
  Requests,     \* what they ask for
  MaxAttempts,  \* transaction ids <<c, 1>> .. <<c, MaxAttempts>> are c's
  MaxClock,     \* the last instant runtime.now returns
  SeesRetracted \* getById returns retracted facts too, as over key-value stores

VARIABLES
  db,           \* the database
  request,      \* what each call asked for
  outcome       \* what it returned, "none" before it has

vars == <<db, request, outcome>>

Failure == {"WriteError", "CommandAlreadyCommitted", "TransactionConflict",
            "ConstraintViolation", "died"}

NoRequest == [ops |-> <<>>, command |-> NoCommand, expects |-> {},
              authorized |-> FALSE, journaled |-> TRUE, enforced |-> FALSE]
-----------------------------------------------------------------------------
(* One call, as a function.  A state of its loop over the operations is    *)
(* the database so far, the changes so far, and the error that ends it.    *)

Start(D, r, tx) ==
  [D |-> WithNextPosition(IF r.command = NoCommand THEN D
                                                   ELSE WithReceipt(D, r.command, tx)),
   asserted |-> {}, retracted |-> {}, error |-> "none"]

\* The caller may not retract a fact it names: over key-value stores this is
\* said of facts that are already retracted too.
Hidden(r, D, ids) ==
  ~r.authorized /\ \E i \in ids \cap Ids(D) :
    D.facts[i].entity \in Reserved /\ (SeesRetracted \/ IsLive(D, i))

Asserting(s, i, e, tx, now) ==
  [s EXCEPT !.D = WithFact(s.D, i, e, tx, now), !.asserted = s.asserted \cup {i}]

Retracting(s, ids, tx, now) ==
  [s EXCEPT !.D = WithRetracted(s.D, ids, tx, now), !.retracted = s.retracted \cup ids]

Failing(s, e) == [s EXCEPT !.error = e]

ApplyOp(s, op, r, tx, now) ==
  CASE s.error # "none" -> s
    [] s.error = "none" /\ op.op = "assert" ->
         IF HasFreshId(s.D) THEN Asserting(s, FreshId(s.D), op.entity, tx, now)
                            ELSE Failing(s, "died")
    [] s.error = "none" /\ op.op = "retract" ->
         IF Hidden(r, s.D, {op.id}) THEN Failing(s, "WriteError")
         ELSE IF IsLive(s.D, op.id) THEN Retracting(s, {op.id}, tx, now)
         ELSE IF op.id \in r.expects THEN Failing(s, "TransactionConflict")
         ELSE s
    [] s.error = "none" /\ op.op = "retract-pattern" ->
         LET ids == Matching(s.D, op.entity)
         IN  IF Hidden(r, s.D, ids) THEN Failing(s, "WriteError")
                                    ELSE Retracting(s, ids, tx, now)

Finish(s, r, tx, now) ==
  IF s.error # "none" \/ ~r.journaled THEN s
  ELSE [s EXCEPT !.D = WithEnvelope(s.D,
          [tx |-> tx, position |-> s.D.position, instant |-> now, command |-> r.command,
           asserted |-> s.asserted, retracted |-> s.retracted])]

\* The state after the first n operations.
Loop(D, r, tx, now) ==
  LET after[n \in 0 .. Len(r.ops)] ==
        IF n = 0 THEN Start(D, r, tx) ELSE ApplyOp(after[n - 1], r.ops[n], r, tx, now)
  IN  after

Transact(D, r, tx, now) == Finish(Loop(D, r, tx, now)[Len(r.ops)], r, tx, now)

\* The call may take effect on D.
Allowed(D, r) ==
  /\ Admissible(r)
  /\ r.command # NoCommand => D.receipt[r.command] = NoTx
  /\ D.position < MaxPosition

\* A fact that r declares live, to retract it, is not there on D, or an earlier
\* operation of r retracts it too.
Unsettled(D, r) ==
  \E n \in DOMAIN r.ops :
    /\ r.ops[n].op = "retract" /\ r.ops[n].id \in r.expects
    /\ \/ ~IsLive(D, r.ops[n].id)
       \/ \E m \in 1 .. n - 1 :
            \/ r.ops[m].op = "retract" /\ r.ops[m].id = r.ops[n].id
            \/ /\ r.ops[m].op = "retract-pattern"
               /\ r.ops[m].entity = D.facts[r.ops[n].id].entity
-----------------------------------------------------------------------------
Init ==
  /\ db = EmptyDatabase
  /\ request = [c \in Call |-> NoRequest]
  /\ outcome = [c \in Call |-> "none"]

\* What a call asks for is settled before it returns.
Ask(c, r) ==
  /\ outcome[c] = "none" /\ request[c] = NoRequest
  /\ request' = [request EXCEPT ![c] = r]
  /\ UNCHANGED <<db, outcome>>

Commit(c) ==
  /\ outcome[c] = "none"
  /\ Allowed(db, request[c])
  /\ \E n \in 1..MaxAttempts, now \in 1..MaxClock :
       LET s == Transact(db, request[c], <<c, n>>, now)
       IN  s.error = "none" /\ db' = s.D
  /\ outcome' = [outcome EXCEPT ![c] = "committed"]
  /\ UNCHANGED request

\* A call that fails leaves no trace, and each failure has its cause.
FailWith(c, o) ==
  /\ outcome[c] = "none"
  /\ o = "CommandAlreadyCommitted" =>
       /\ request[c].command # NoCommand
       /\ db.receipt[request[c].command] # NoTx
  /\ o = "TransactionConflict" => Unsettled(db, request[c])
  /\ o = "ConstraintViolation" => request[c].enforced
  /\ outcome' = [outcome EXCEPT ![c] = o]
  /\ UNCHANGED <<db, request>>

\* A request that is refused at once.
AskAndFail(c, r) ==
  /\ outcome[c] = "none" /\ request[c] = NoRequest
  /\ ~Admissible(r)
  /\ request' = [request EXCEPT ![c] = r]
  /\ outcome' = [outcome EXCEPT ![c] = "WriteError"]
  /\ UNCHANGED db

Next == \E c \in Call :
  \/ \E r \in Requests : Ask(c, r) \/ AskAndFail(c, r)
  \/ Commit(c)
  \/ \E o \in Failure : FailWith(c, o)

Spec == Init /\ [][Next]_vars
=============================================================================
