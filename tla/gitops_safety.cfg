\* A branch that only moves forward, two faults.
SPECIFICATION Spec
CONSTANTS
  LastRev = 3
  MaxFaults = 2
  Rewinds = FALSE
  AttendedRevs <- SecondAttended
  TimerEnabled = TRUE
  WebhookEnabled = FALSE
  DsnConfigured = TRUE
  RebootsNeeded = TRUE
  GosuInstalled = FALSE
  AdminFlags <- AnyFlag
INVARIANTS
  TypeOK
  ServedSystemIsComplete
  PendingWorkRemembered
  HistoryOrder
  FailureStopsLaterSteps
  FailureIsShown
PROPERTIES
  UnattendedRebootIsAllowed
  ImplementsDeployment
