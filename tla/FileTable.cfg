SPECIFICATION Spec
CONSTANTS
  p1 = p1
  p2 = p2
  Proc = {p1, p2}
  FirstProc = {p1, p2}
  File = {1}
  InitFile = {1}
  Flag = {"O_WRONLY", "O_CREAT"}
  MaxPipes = 2
  Std = {1}
  MAX_FILE_OPEN = 5
  MAX_FILES_OPEN_PER_PROC = 5
  MaxInode = 2
  CntMod = 5
SYMMETRY Symmetry
INVARIANTS InodeHeld CountsExact
CHECK_DEADLOCK FALSE
CONSTRAINT ApartOrNoPipes
