SPECIFICATION FairSpec
CONSTANTS
  w1 = w1
  w2 = w2
  r1 = r1
  idle = idle
  NoTask = NoTask
  Task <- MCTask
  Idle = idle
  Prio <- MCPrio
  Main = w1
  InitReady <- MCInitReady
  Writer = {w1, w2}
  Reader = {r1}
  bufsize = 3
  Char = {"a", "b"}
  MaxCount = 3
INVARIANTS ReadDoesNotBlock ReadWakesSomeone
PROPERTIES IsFifo WriterResumes
