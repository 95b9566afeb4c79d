\* Two services with the same image, no fault.
SPECIFICATION Spec
CONSTANTS
  web = web
  worker = worker
  Units <- MCTwoUnits
  Images <- MCImages
  ImageOf <- MCSame
  LastVersion = 2
  MaxFaults = 0
  Source = "registry"
  Ephemeral = TRUE
  ListFails = FALSE
  Rewinds = FALSE
INVARIANTS
  ChangedBeforeRun
