SPECIFICATION MemorySpec
CONSTANTS
  p1 = p1
  p2 = p2
  Proc = {p1, p2}
  FirstProc = {p1}
  VPages = 3
  Frames = 4
  Class = {1}
  blocks_per_arena <- Arenas
  Large = {2}
  ForkWithArenas = FALSE
INVARIANTS FramesExact HeapExact AssertsHold
CHECK_DEADLOCK FALSE
