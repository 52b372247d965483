\* A scan over FoundationDB fills the cache after the commit it overlaps has cleared it.
SPECIFICATION Spec
CONSTANTS
  s1 = s1
  s2 = s2
  w1 = w1
  w2 = w2
  w3 = w3
  r1 = r1
  r2 = r2
  Service = {s1}
  Writer = {w1}
  Reader = {r1, r2}
  Of <- MCOf
  TripleId = {t1, t2}
  Lookups = {}
  Synchronous = FALSE
  Asynchronous = TRUE
  MaxPosition = 2
SYMMETRY FiberSymmetry
INVARIANTS
  ReadsObserveCommits
