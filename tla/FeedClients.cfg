\* Two workers of one consumer with one restart and one lost reply; two clients of
\* a hub; a watcher of two keys; an entity's history under two writers; and
\* two accounts' decisions under two rules; and two clients of one database.
SPECIFICATION FeedSpec
CONSTANTS
  w1 = w1
  w2 = w2
  Worker = {w1, w2}
  PageLimit = 2
  MaxWrites = 3
  MaxCrashes = 1
  MaxLost = 1
  Connection = {c1, c2}
  QueryId = {1, 2}
  HubQuery <- MCHubQuery
  HubChange <- MCHubChange
  WatchKey = {k1, k2}
  MaxCommits = 2
  Entity = {e1, e2}
  Writer = {w1, w2}
  Limit = 2
  LastPosition = 5
  Expression <- MCExpressions
  Height <- MCHeight
  MaxHeight = 3
  Question <- MCQuestions
  RuleKey = {"r", "s"}
  RuleBody <- MCBodies
  FactRead <- MCReads
  FactValue <- MCValues
  Subject = "p"
  Accounts = 2
  DayLength = 2
  MaxInstant = 2
  MaxChanges = 2
  MaxKept = 2
  Name = {d1}
  Client = {c1, c2}
  User = {u1}
  Cleaner = cleaner
  NoConnection = none
  MaxConnections = 2
CHECK_DEADLOCK FALSE
INVARIANTS
  NothingSkipped
  AnswersAreTrue
  FiltersKeepWhatIsRead
  NothingOutlivesItsClients
  BehindHasAReadToCome
  HistoryWalksAreExact
  
  WatchedAnswersAreCurrent
  ClosedConnectionsLeave
PROPERTIES
  EveryWriteAcknowledged
  OwedChangesAreSent
  EveryChangeIsReadUnlessMissed
