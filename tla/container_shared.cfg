\* Two services with the same image, and podman image list may fail.
SPECIFICATION Spec
CONSTANTS
  web = web
  worker = worker
  Units <- MCTwoUnits
  Images <- MCImages
  ImageOf <- MCSame
  LastVersion = 2
  MaxFaults = 1
  Source = "registry"
  Ephemeral = TRUE
  ListFails = TRUE
  Rewinds = TRUE
SYMMETRY Symmetric
INVARIANTS
  RefreshIsRun
  FailsOnlyByFault
  InitOnlyBeforeFirstStart
