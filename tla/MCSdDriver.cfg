SPECIFICATION Spec
CONSTANTS
  NSectors = 3
  BlockLen = 2
  Data = {"a", "b"}
  InitTime = 1
  CmdTime = 1
  DataTime = 1
  Calls <- MCCalls
INVARIANTS TypeOK ReadyMeansReady
PROPERTIES KeepsPromise CallsEnd
