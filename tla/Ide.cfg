SPECIFICATION FairSpec
CONSTANTS
  main = main
  p1 = p1
  idle = idle
  NoTask = NoTask
  Task <- MCTask
  Idle = idle
  Prio <- MCPrio
  Main = main
  InitReady <- MCInitReady
  KThread = {main}
  Op = {"read", "write"}
  Lba = {0}
  MaxCnt = 3
  MaxOp = 2
  PollLimit = 2
INVARIANTS OwnData WholeRange SleeperWillBeWoken
PROPERTIES ReadCompletes
CHECK_DEADLOCK FALSE
