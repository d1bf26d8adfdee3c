SPECIFICATION Spec
CONSTANTS
  p1 = p1
  p2 = p2
  Proc = {p1, p2}
  FirstProc = {p1, p2}
  File = {1, 2}
  InitFile = {1}
  Flag = {"O_RDONLY", "O_WRONLY"}
  MaxPipes = 0
  Std = {}
  MAX_FILE_OPEN = 6
  MAX_FILES_OPEN_PER_PROC = 5
  MaxInode = 3
  CntMod = 8
SYMMETRY Symmetry
INVARIANTS OneWriter
CHECK_DEADLOCK FALSE
