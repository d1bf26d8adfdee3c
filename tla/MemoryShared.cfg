SPECIFICATION MemorySpec
CONSTANTS
  p1 = p1
  p2 = p2
  Proc = {p1, p2}
  FirstProc = {p1}
  VPages = 2
  Frames = 4
  Class = {1}
  blocks_per_arena <- Arenas
  Large = {2}
  ForkWithArenas = TRUE
INVARIANTS AssertsHold
CHECK_DEADLOCK FALSE
