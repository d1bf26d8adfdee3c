SPECIFICATION FairSpec
CONSTANTS
  r1 = r1
  r2 = r2
  idle = idle
  NoTask = NoTask
  Task <- MCTask
  Idle = idle
  Prio <- MCPrio
  Main = r1
  InitReady <- MCInitReady
  bufsize = 3
  Char = {"a", "b"}
  MaxCount = 2
INVARIANTS KeyWakesSomeone BlocksOnlyWithoutData
PROPERTIES IsFifo ReadReturns
