CONSTANTS
  RawOwners <- MCRawOwners
  CodeTuples <- MCCodeTuples
  Stripped <- MCStripped
  Reminder = 2
  MaxActiveCodes = 2
  MaxPersisted = 2
  MaxClock = 2
  None = None
SPECIFICATION Spec
INVARIANTS TypeOK SnapshotRestores HiddenWasDismissed ReportsTakenWhole
PROPERTY ImplementsBook
