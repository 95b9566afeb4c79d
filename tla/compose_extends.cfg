\* The files of compose_file.
SPECIFICATION FileSpec
CONSTANTS
  Service = {"a", "b", "c"}
  Name = {"a", "b", "c", "u"}
  MaxDepth = 9
  ByName <- MCByName
  FileOrders <- MCFileOrders
  Files <- MCFileSet
  Elsewhere = {"a"}
  Policy = {"identity", "publishall", "hostnet", "cntnet", "1pod", "1podfw"}
INVARIANT
  InheritsExactly
CHECK_DEADLOCK FALSE
