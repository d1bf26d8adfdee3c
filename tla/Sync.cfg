SPECIFICATION FairSpec
CONSTANTS
  main = main
  p1 = p1
  p2 = p2
  idle = idle
  NoTask = NoTask
  Task <- MCTask
  Idle = idle
  Prio <- MCPrio
  Lock = {l1}
  KThread = {main}
  Main = main
  InitReady <- MCInitReady
  MaxRepeat = 2
INVARIANTS MutualExclusion NoLostWakeup IInv
PROPERTIES ImplementsMutex LockProgress
