\* The files of compose_file, some with names that are given twice.
SPECIFICATION FileSpec
CONSTANTS
  Service = {"a", "b", "c"}
  Name = {"a", "b", "c", "u"}
  MaxDepth = 9
  ByName <- MCByName
  FileOrders <- MCFileOrders
  Files <- MCFileSet
  Elsewhere = {"a"}
  Policy = {"identity", "publishall", "hostnet", "cntnet", "1pod", "1podfw"}
INVARIANT
  ReplicasCounted
CHECK_DEADLOCK FALSE
