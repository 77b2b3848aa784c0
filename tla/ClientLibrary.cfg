SPECIFICATION Spec
CONSTANTS
  Helpers = {a, b}
  Jobs = {j}
  MaxId = 2
  None = None
  Nodes <- Nodes_
  Trees <- Trees_
  NameOf <- NameOf_
  Names = {"a", "b"}
  MaxNodes = 2
  MaxRefused = 1
  Missing = Missing
  Attributes = {x, y, z}
  MaxBatch = 2
  MaxAge = 1
  MaxBad = 1
  Unread = Unread
INVARIANTS
  TimerTasksHold
  DataIsTheServers
PROPERTIES
  NothingStaleIsUsed
  WaitersAreAnswered
CHECK_DEADLOCK FALSE
