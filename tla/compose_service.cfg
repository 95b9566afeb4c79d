\* Two containers, one command by hand, two faults.
SPECIFICATION FairSpec
CONSTANTS
  Stack <- MCStack
  HasPod = TRUE
  Refresh = TRUE
  Ephemeral = TRUE
  LastVersion = 2
  Commands <- MCCommands
  MaxHands = 1
  MaxFaults = 2
INVARIANTS
  TypeOK
  DownLeavesNothing
  StartsWhatIsNeeded
  RunsStoredImage
PROPERTIES
  OthersUntouched
  UnitRecovers
CHECK_DEADLOCK FALSE
