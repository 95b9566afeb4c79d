\* One service with an image of its own, versions in their order.
SPECIFICATION FairSpec
CONSTANTS
  web = web
  worker = worker
  Units <- MCUnit
  Images <- MCImages
  ImageOf <- MCSame
  LastVersion = 4
  MaxFaults = 3
  Source = "registry"
  Ephemeral = TRUE
  ListFails = FALSE
  Rewinds = FALSE
INVARIANTS
  TypeOK
  ChangedBeforeRun
  RefreshIsRun
  FailsOnlyByFault
  InitOnlyBeforeFirstStart
PROPERTIES
  RestartSucceeds
