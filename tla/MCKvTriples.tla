----------------------------- MODULE MCKvTriples -----------------------------
(* Instances of KvTriples for TLC, and the properties the runs check. *)
EXTENDS KvTriplesInv, TLC

CONSTANTS c1, c2, c3, \* calls
          a, sys,        \* an application entity and one of the library's
          cmd, long,     \* a command id, and one that is too long
          Requested    \* the names of the requests this instance makes

AssertOp(e)  == [op |-> "assert", entity |-> e]
RetractOp(i) == [op |-> "retract", id |-> i]
PatternOp(e) == [op |-> "retract-pattern", entity |-> e]

Plain(ops) == [NoRequest EXCEPT !.ops = ops]

MCRequest ==
  [ assert     |-> Plain(<<AssertOp(a)>>),
    command    |-> [Plain(<<AssertOp(a)>>) EXCEPT !.command = cmd],
    move       |-> [Plain(<<RetractOp(1), AssertOp(a)>>) EXCEPT !.expects = {1}],
    moveLate   |-> [Plain(<<AssertOp(a), RetractOp(1)>>) EXCEPT !.expects = {1}],
    moveNone   |-> [Plain(<<AssertOp(a), RetractOp(UnknownId)>>)
                      EXCEPT !.expects = {UnknownId}],
    sweep      |-> Plain(<<PatternOp(a), AssertOp(a), RetractOp(UnknownId)>>),
    enforced   |-> [Plain(<<RetractOp(1)>>) EXCEPT !.enforced = TRUE],
    system     |-> [Plain(<<AssertOp(sys)>>)
                      EXCEPT !.authorized = TRUE, !.journaled = FALSE, !.command = cmd],
    systemMove |-> [Plain(<<RetractOp(1), AssertOp(sys)>>)
                      EXCEPT !.authorized = TRUE, !.journaled = FALSE, !.expects = {1}],
    intrude    |-> Plain(<<AssertOp(a), RetractOp(1)>>),
    intrudeAll |-> Plain(<<AssertOp(a), PatternOp(sys)>>),
    repeat     |-> [Plain(<<PatternOp(sys), RetractOp(1), RetractOp(1)>>) EXCEPT !.expects = {1}],
    forge      |-> Plain(<<AssertOp(sys)>>),
    unmatched  |-> [Plain(<<AssertOp(a)>>) EXCEPT !.expects = {1}],
    tooLong    |-> [Plain(<<AssertOp(a)>>) EXCEPT !.command = long] ]

MCRequests == {MCRequest[n] : n \in Requested}
MCTxId == Call \X (1..MaxAttempts)
CallSymmetry == Permutations(Call)
=============================================================================
