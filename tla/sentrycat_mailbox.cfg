\* Up to two mails, one event that is not taken.
SPECIFICATION Spec
CONSTANTS
  Id = 2
  MaxFaults = 1
INVARIANT AllMailsSent
CHECK_DEADLOCK FALSE
