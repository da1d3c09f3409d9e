CONSTANTS
  Owners = {a, b}
  Sids = {s1}
  Paths = {p1}
  MaxFileBytes = 1
  MaxSessionBytes = 1
  MaxSessionFiles = 1
  MaxLogEvents = 1
  MaxCheckpoints = 2
  NoSession = NoSession
  NoOwner = NoOwner
  MaxEpoch = 2
  Commits = {h1, h2}
  NoDelta = NoDelta
SPECIFICATION Spec
SYMMETRY Interchangeable
INVARIANTS CurrentSessionIsFresh UsableDeltaIsCurrent
