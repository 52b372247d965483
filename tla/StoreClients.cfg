\* Two clients of a configuration store, two writers of snapshots, two validators, two materializers.
CONSTANTS
  Client = {a1, a2}
  RefName = {"live"}
  Slot <- MCSlot
  KindOf <- MCKindOf
  Attrs = {"a", "b"}
  Schema = {"narrow", "wide"}
  Releases <- MCReleases
  Valid <- MCValid
  Compatible <- MCCompatible
  MaxOps = 3
  Entity = {x1, x2}
  Writer = {a1, a2}
  Patterns <- MCPatterns
  Together <- MCTogether
  MaxPosition = 3
  MaxTime = 2
  MaxBackfills = 1
  MaxStops = 1
  Subject = {x1, x2}
  Value = {"a", "b"}
  Snapshot = {"s1", "s2"}
  Validator = {a1, a2}
  Allowed <- MCAllowed
  OneAtATime = TRUE
  LastSourcePosition = 4
  DerivedEntity = {d1}
  Materializer = {a1, a2}
  LastInstant = 1
  FactKind <- MCFactKind
  Asked <- MCAsked
  MaxFactWrites = 2
  MaxDerivationPosition = 3
SYMMETRY ClientsSymmetry
SPECIFICATION ClientsSpec
CHECK_DEADLOCK FALSE
INVARIANTS
  SnapshotsAreWhole
  RowsAreExact
  ReturnedWritesHaveRows
  ChangesAreFound
  
  
  CurrentRunsAreExact
  BoundariesCoverChanges
  OverlaysForetell
