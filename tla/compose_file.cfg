\* Every way to extend and every way to depend over three services.
SPECIFICATION FileSpec
CONSTANTS
  Service = {"a", "b", "c"}
  Name = {"a", "b", "c", "u"}
  MaxDepth = 9
  ByName <- MCByName
  FileOrders <- MCFileOrders
  Files <- MCFileSet
  Elsewhere = {"a"}
  Policy = {"identity", "publishall", "hostnet", "cntnet", "1pod", "1podfw"}
INVARIANTS
  FileTypeOK
  InheritsAll
  DependenciesFirst
  StackComplete
CHECK_DEADLOCK FALSE
