\* The default timer.enabled: false; updates are triggered by the webhook.
SPECIFICATION FairSpec
CONSTANTS
  LastRev = 3
  MaxFaults = 0
  Rewinds = FALSE
  AttendedRevs <- NoneAttended
  TimerEnabled = FALSE
  WebhookEnabled = TRUE
  DsnConfigured = TRUE
  RebootsNeeded = FALSE
  GosuInstalled = FALSE
  AdminFlags <- NoFlag
PROPERTIES
  PushEventuallyPulled
