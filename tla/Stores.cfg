\* Two hosts with two transacts each, over SQLite and over PostgreSQL; queries and
\* pages over both engines; the six indexes; a constrained graph; and the types of
\* configuration bodies.
SPECIFICATION StoresSpec
CONSTANTS
  h1 = h1
  h2 = h2
  Host = {h1, h2}
  NoHost = NoHost
  a = a
  sys = sys
  cmd = cmd
  long = long
  Entity = {a, sys}
  Reserved = {sys}
  Command = {cmd, long}
  InvalidCommand = {long}
  NoCommand = NoCommand
  UnknownId = UnknownId
  NoTx = NoTx
  NoFact = NoFact
  TripleId = {1, 2, 3, 4}
  TxId <- MCTxId
  MaxPosition = 4
  MaxCalls <- MCMaxCalls
  MaxClock = 2
  Engines = {"sqlite", "postgresql"}
  Requested = {"assert", "command", "move", "sweep", "system", "tooLong"}
  Requests <- MCRequests
  RuleName <- MCRule
  AttributeName <- MCAttribute
  HashJoinFrom = 1
  LikeMatches <- MCLike
  ILikeMatches <- MCLike
  QpFacts <- MCFacts
  QpQueries <- MCQueries
  QpPaged <- MCPaged
  QpPast = FALSE
  QpMaxPosition = 1
  HexFacts <- MCHexFacts
  HexIdAt <- MCHexIds
  HexPatterns <- MCHexPatterns
  HexValidAt = {0, 1, 2}
  HexMaxPosition = 3
  GraphRule <- MCRules
  Transaction <- MCTx
  RuleSet <- MCSets
  Instant = {0, 1, 2, 3}
  MaxFactId = 3
  TypeExpr <- MCTypeExprs
  TypeHeight <- MCTypeHeight
  MaxTypeHeight = 3
  TypedValue <- MCTypedValues
  KnownType <- MCTypes
  Body <- MCTypeBodies
  TextLength <- MCLen
  MaxPublished = 2
  DateText = {"d1"}
  PatternMatch <- MCMatch
CHECK_DEADLOCK FALSE
INVARIANTS
  KvAnswersExactly
  SqlAnswersExactly
  PagesAreTheAnswerOnce
  ScansAreExact
  CutsAreExact
  EnforcementIsExact
  RecheckIsExact
PROPERTIES
  CommitsAsIfAlone
  PagesReadOneCut
  EveryTransactReturns
