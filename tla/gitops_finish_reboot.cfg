\* A revision that turns unattended reboots off.
SPECIFICATION Spec
CONSTANTS
  LastRev = 2
  MaxFaults = 0
  Rewinds = FALSE
  AttendedRevs <- SecondAttended
  TimerEnabled = TRUE
  WebhookEnabled = TRUE
  DsnConfigured = TRUE
  RebootsNeeded = TRUE
  GosuInstalled = FALSE
  AdminFlags <- NoFlag
PROPERTIES
  FinishNeedsNoReboot
