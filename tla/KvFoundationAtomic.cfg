\* The FoundationDB engine implements TripleLog, and every body returns, while no reply is lost.
SPECIFICATION FairSpec
CONSTANTS
  a = a
  sys = sys
  cmd = cmd
  long = long
  c1 = c1
  c2 = c2
  c3 = c3
  Call = {c1, c2, c3}
  NoCall = NoCall
  Entity = {a, sys}
  Reserved = {sys}
  Command = {cmd, long}
  InvalidCommand = {long}
  NoCommand = NoCommand
  UnknownId = UnknownId
  NoTx = NoTx
  NoFact = NoFact
  TripleId = {1, 2, 3, 4}
  TxId <- MCTxId
  MaxPosition = 3
  MaxAttempts = 3
  MaxClock = 1
  Optimistic = TRUE
  LostReplies = FALSE
  Requested = {"assert", "command", "move", "moveLate", "repeat", "sweep", "system"}
  Requests <- MCRequests
PROPERTIES
  RunsAsIfAtomic
  EveryBodyReturns
