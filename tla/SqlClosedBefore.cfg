\* A PostgreSQL transact reads the clock before it waits for the position.
SPECIFICATION Spec
CONSTANTS
  h1 = h1
  h2 = h2
  Host = {h1, h2}
  NoHost = NoHost
  a = a
  sys = sys
  cmd = cmd
  long = long
  Entity = {a, sys}
  Reserved = {sys}
  Command = {cmd, long}
  InvalidCommand = {long}
  NoCommand = NoCommand
  UnknownId = UnknownId
  NoTx = NoTx
  NoFact = NoFact
  TripleId = {1, 2, 3, 4}
  TxId <- MCTxId
  MaxPosition = 4
  MaxCalls <- MCMaxCalls
  MaxClock = 2
  Engines = {"postgresql"}
  Requested = {"assert", "sweep"}
  Requests <- MCRequests
INVARIANTS
  RetractionsCloseVisibility
