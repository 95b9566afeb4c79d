\* The program gosu is installed, as service.sls:20-27 asks for.
SPECIFICATION Spec
CONSTANTS
  LastRev = 2
  MaxFaults = 1
  Rewinds = FALSE
  AttendedRevs <- NoneAttended
  TimerEnabled = TRUE
  WebhookEnabled = TRUE
  DsnConfigured = TRUE
  RebootsNeeded = FALSE
  GosuInstalled = TRUE
  AdminFlags <- NoFlag
INVARIANTS
  PullFailsOnlyByFault
