\* Three sessions, writes cut anywhere, overlapping loads, clears and exports.
SPECIFICATION Spec
CONSTANTS
  MaxSessions = 3
  MaxReaders = 2
  MaxLinks = 2
INVARIANTS
  ShownIsCurrent
  LogInv
  ReportCountsTheLogs
PROPERTIES
  NothingWrittenAfterFailure
  ScreenIsReadyAgain
