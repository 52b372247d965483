\* Two services over one in-memory backend; two writers and a reader in the first.
SPECIFICATION Spec
CONSTANTS
  s1 = s1
  s2 = s2
  w1 = w1
  w2 = w2
  w3 = w3
  r1 = r1
  r2 = r2
  Service = {s1, s2}
  Writer = {w1, w2, w3}
  Reader = {r1}
  Of <- MCOf
  TripleId = {t1, t2, t3}
  Lookups = {}
  Synchronous = TRUE
  Asynchronous = FALSE
  MaxPosition = 3
SYMMETRY FiberSymmetry
INVARIANTS
  ReadsObserveCommits
  PinnedPagesExact
