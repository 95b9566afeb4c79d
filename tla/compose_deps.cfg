\* Every dependency graph over three services and one unknown name.
SPECIFICATION DepsSpec
CONSTANTS
  a = a
  b = b
  c = c
  u = u
  Service <- MCService
  Name <- MCName
  MaxDepth = 5
INVARIANTS
  DepsTypeOK
  DepsExact
  OverflowNeedsForeignCycle
PROPERTY
  FlatDepsEnds
CHECK_DEADLOCK FALSE
