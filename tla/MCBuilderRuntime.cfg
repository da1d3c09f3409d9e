CONSTANTS
  Owners <- MCOwners
  Sids <- MCSids
  RawScopes <- MCScopes
  Paths = {p1, p2, p3}
  RawPaths = {p1, p2, p3, escaping}
  Contents = {"small", "large", "huge"}
  Size <- MCSize
  MaxFileBytes = 2
  MaxSessionBytes = 3
  MaxSessionFiles = 2
  MaxLogEvents = 2
  MaxCheckpoints = 3
  NoSession = NoSession
  NoOwner = NoOwner
  NoWork = NoWork
  HistorySid = "s1"
SPECIFICATION Spec
SYMMETRY Interchangeable
CONSTRAINT OthersBare
INVARIANTS TypeOK HistoryContiguous DiffIsUnsavedWork QuotasHold PreviewOwned
PROPERTIES CheckpointsAreAStack StoppedForever
CHECK_DEADLOCK FALSE
