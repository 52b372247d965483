\* A FoundationDB commit whose reply is lost is run again.
SPECIFICATION Spec
CONSTANTS
  a = a
  sys = sys
  cmd = cmd
  long = long
  c1 = c1
  c2 = c2
  c3 = c3
  Call = {c1, c2}
  NoCall = NoCall
  Entity = {a, sys}
  Reserved = {sys}
  Command = {cmd, long}
  InvalidCommand = {long}
  NoCommand = NoCommand
  UnknownId = UnknownId
  NoTx = NoTx
  NoFact = NoFact
  TripleId = {1, 2, 3, 4}
  TxId <- MCTxId
  MaxPosition = 4
  MaxAttempts = 2
  MaxClock = 1
  Optimistic = TRUE
  LostReplies = TRUE
  Requested = {"assert", "command"}
  Requests <- MCRequests
INVARIANTS
  OneCommitPerCall
