SPECIFICATION FairSpec
CONSTANTS
  init = init
  main = main
  idle = idle
  u1 = u1
  u2 = u2
  Task <- MCTask
  Idle = idle
  NoTask = NoTask
  Prio <- MCPrio
  InitProc = init
  MainThread = main
  ExitStatus = {1, 2}
  Sleeper = {u1, u2}
INVARIANTS SchedulerOK ParentIsReal WaiterHasNoZombie
PROPERTY WaitReturns
