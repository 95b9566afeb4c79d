\* Two sources, one after the other, three commits, two faults.
SPECIFICATION Spec
CONSTANTS
  LastUrl = 2
  LastCommit = 3
  MaxFaults = 2
  Returns = FALSE
INVARIANTS
  TypeOK
  PulledIsCurrent
  FaultFreePullSucceeds
