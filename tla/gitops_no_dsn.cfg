\* The default: no sentry DSN is configured.
SPECIFICATION Spec
CONSTANTS
  LastRev = 2
  MaxFaults = 1
  Rewinds = FALSE
  AttendedRevs <- NoneAttended
  TimerEnabled = TRUE
  WebhookEnabled = TRUE
  DsnConfigured = FALSE
  RebootsNeeded = TRUE
  GosuInstalled = FALSE
  AdminFlags <- NoFlag
INVARIANTS
  MissingDsnIsSkipped
