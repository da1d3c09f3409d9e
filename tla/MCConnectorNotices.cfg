CONSTANTS
  Connectors = {"c1", "c2"}
  Conditions <- MCConditions
  RawIds = {" c1 ", "c2"}
  Strip <- MCStrip
  KnownAuth <- MCKnownAuth
  NotADict = NotADict
  NoReport = NoReport
  EventTuples <- MCEventTuples
  MaxNotices = 1
  MaxSnooze = 2
  NotDismissed = NotDismissed
  Nothing = Nothing
SPECIFICATION FairSpec
INVARIANTS TypeOK SnapshotFits HiddenWasSeen
PROPERTIES NoticeReappears ResolutionClears BrokenIsNoticed
