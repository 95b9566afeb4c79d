\* No fault at all, but an update that needs a reboot.
SPECIFICATION FairSpec
CONSTANTS
  LastRev = 2
  MaxFaults = 0
  Rewinds = FALSE
  AttendedRevs <- NoneAttended
  TimerEnabled = TRUE
  WebhookEnabled = TRUE
  DsnConfigured = TRUE
  RebootsNeeded = TRUE
  GosuInstalled = FALSE
  AdminFlags <- NoFlag
PROPERTIES
  FrontendReopens
