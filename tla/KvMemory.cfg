\* Three calls through the in-memory backend.
SPECIFICATION FairSpec
CONSTANTS
  a = a
  sys = sys
  cmd = cmd
  long = long
  c1 = c1
  c2 = c2
  c3 = c3
  Call = {c1, c2, c3}
  NoCall = NoCall
  Entity = {a, sys}
  Reserved = {sys}
  Command = {cmd, long}
  InvalidCommand = {long}
  NoCommand = NoCommand
  UnknownId = UnknownId
  NoTx = NoTx
  NoFact = NoFact
  TripleId = {1, 2, 3, 4}
  TxId <- MCTxId
  MaxPosition = 2
  MaxAttempts = 1
  MaxClock = 2
  Optimistic = FALSE
  LostReplies = FALSE
  Requested = {"assert", "command", "move", "moveLate", "moveNone", "sweep", "enforced", "system",
               "systemMove", "intrude", "intrudeAll", "forge", "unmatched", "tooLong"}
  Requests <- MCRequests
INVARIANTS
  InstantsFollowPositions
PROPERTIES
  RunsAsIfAtomic
