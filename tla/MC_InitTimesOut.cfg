SPECIFICATION Spec
CONSTANTS
  NSectors = 3
  BlockLen = 2
  Data = {"a", "b"}
  InitTime = 3
  CmdTime = 2
  DataTime = 1
  Calls <- MCInitialize
PROPERTIES InitTimesOut
