----------------------------- MODULE MCSqlTriples -----------------------------
(* Instances of SqlTriples for TLC. *)
EXTENDS SqlTriples, TLC

CONSTANTS h1, h2,      \* hosts
          a, sys,      \* an application entity and one of the library's
          cmd, long,   \* a command id, and one that is too long
          Requested    \* the names of the requests this instance makes

AssertOp(e)  == [op |-> "assert", entity |-> e]
RetractOp(i) == [op |-> "retract", id |-> i]
PatternOp(e) == [op |-> "retract-pattern", entity |-> e]

Plain(ops) == [ops |-> ops, command |-> NoCommand, expects |-> {},
               authorized |-> FALSE, journaled |-> TRUE, enforced |-> FALSE]

MCRequest ==
  [ assert  |-> Plain(<<AssertOp(a)>>),
    command |-> [Plain(<<AssertOp(a)>>) EXCEPT !.command = cmd],
    move    |-> [Plain(<<RetractOp(1), AssertOp(a)>>)
                   EXCEPT !.expects = {1}, !.enforced = TRUE],
    sweep   |-> Plain(<<PatternOp(a), RetractOp(UnknownId), PatternOp(sys)>>),
    system  |-> [Plain(<<AssertOp(sys)>>)
                   EXCEPT !.authorized = TRUE, !.journaled = FALSE, !.command = cmd],
    tooLong |-> [Plain(<<AssertOp(a)>>) EXCEPT !.command = long] ]

MCRequests == {MCRequest[n] : n \in Requested}
MCTxId == Host \X (1..2)
MCMaxCalls == [h \in Host |-> IF h = h1 THEN 2 ELSE 1]
=============================================================================
