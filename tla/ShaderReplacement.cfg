CONSTANTS
  Pipelines = {p1}
  Shaders = {s1, s2}
  Bytes = {b1}
  Replacements = {r1, r2, r3}
  Threads = {t1, t2}
  MaxGenerations = 2
  MaxUpdates = 2
  None = None
SYMMETRY Symmetry
SPECIFICATION Spec
INVARIANTS
  EveryReplacementHasOneHolder
  ReplacementsAreCurrent
CHECK_DEADLOCK FALSE
