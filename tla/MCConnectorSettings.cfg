CONSTANTS
  Reports <- MCReports
  DefaultReminder = 1
  MaxRemindAfter = 1
  MaxEpoch = 2
  NoCode = NoCode
  NoReminder = NoReminder
  MalformedReminder = MalformedReminder
  NoNotice = NoNotice
  NotDismissed = NotDismissed
SPECIFICATION FairSpec
INVARIANTS TypeOK NoticeHasRemedy
PROPERTIES PlanSuffices BrokenIsShown
