CONSTANTS
  Client = {c1, c2}
  RefName = {"live"}
  Slot <- MCSlot
  KindOf <- MCKindOf
  Attrs = {"a", "b"}
  Schema = {"narrow", "wide"}
  Releases <- MCReleases
  Valid <- MCValid
  Compatible <- MCCompatible
  MaxOps = 3
SYMMETRY MCSymmetry
SPECIFICATION Spec
CHECK_DEADLOCK FALSE
INVARIANTS
  NoStaleOverwrite
