\* One source; its origin cannot be read once, and the removal is interrupted.
SPECIFICATION Spec
CONSTANTS
  LastUrl = 1
  LastCommit = 1
  MaxFaults = 2
  Returns = FALSE
INVARIANTS
  FaultFreePullAlwaysSucceeds
