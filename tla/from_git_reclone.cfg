\* The source changes once, and one fault happens.
SPECIFICATION Spec
CONSTANTS
  LastUrl = 2
  LastCommit = 2
  MaxFaults = 1
  Returns = FALSE
INVARIANTS
  FaultFreeUpdateSucceeds
