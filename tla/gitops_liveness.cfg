\* The timer is enabled, one fault, everything else may happen.
SPECIFICATION FairSpec
CONSTANTS
  LastRev = 2
  MaxFaults = 1
  Rewinds = FALSE
  AttendedRevs <- SecondAttended
  TimerEnabled = TRUE
  WebhookEnabled = TRUE
  DsnConfigured = TRUE
  RebootsNeeded = TRUE
  GosuInstalled = FALSE
  AdminFlags <- AnyFlag
PROPERTIES
  PushEventuallyDeployed
  ForceEventuallyTaken
