CONSTANTS
  Connectors = {"c1", "c2"}
  Conditions <- MCConditions
  RawIds = {"c1", " c2 "}
  Strip <- MCStrip
  KnownAuth <- MCKnownAuth
  NotADict = NotADict
  NoReport = NoReport
  EventTuples <- MCEventTuples
  MaxNotices = 1
  MaxSnooze = 1
  NotDismissed = NotDismissed
  Nothing = Nothing
SPECIFICATION Spec
INVARIANT PaddedIdsRejected
