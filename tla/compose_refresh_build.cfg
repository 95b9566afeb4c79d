\* One of the two containers is built here.
SPECIFICATION FairSpec
CONSTANTS
  Stack <- MCBuildStack
  HasPod = TRUE
  Refresh = TRUE
  Ephemeral = TRUE
  LastVersion = 2
  Commands <- MCCommands
  MaxHands = 1
  MaxFaults = 2
INVARIANT
  RefreshedOnStart
CHECK_DEADLOCK FALSE
