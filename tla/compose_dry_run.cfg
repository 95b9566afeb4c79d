\* One podman-compose --dry-run up.
SPECIFICATION ArgsSpec
CONSTANTS
  r1 = r1
  r2 = r2
  Run = {r1}
  Service = {"a", "b"}
  Order <- MCOrder
  Files <- MCFiles
  Source = {"data", "logs"}
  Given = {"g", "h"}
  MountId = {"m1"}
  Paths <- MCPaths
  Dirs = {"./d"}
  DryRun = {r1}
  MaxRemovals = 0
INVARIANT DryRunChangesNothing
CHECK_DEADLOCK FALSE
