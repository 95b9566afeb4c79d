\* Two commands of one project at once, one volume may be removed by hand.
SPECIFICATION ArgsSpec
CONSTANTS
  r1 = r1
  r2 = r2
  Run = {r1, r2}
  Service = {"a", "b"}
  Order <- MCOrder
  Files <- MCFiles
  Source = {"data", "logs"}
  Given = {"g", "h"}
  MountId = {"m1"}
  Paths <- MCPaths
  Dirs = {"./d"}
  DryRun = {}
  MaxRemovals = 1
SYMMETRY Symmetric
INVARIANTS
  ArgsTypeOK
  VolumesToldApart
  VolumesExist
  FailsForAReason
  ReplicasAlike
CHECK_DEADLOCK FALSE
