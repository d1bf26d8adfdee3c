SPECIFICATION AllSpec
CONSTANTS
  e1 = e1
  e2 = e2
  e3 = e3
  l1 = l1
  l2 = l2
  NULL = NULL
  MaxWalk = 5
  List = {l1, l2}
  Elem = {e1, e2, e3}
  Bytes = 3
  ByteBits = 3
  MaxRun = 4
  Beyond = {TRUE, FALSE}
  Key <- OneOfEach
  MaxHeld = 3
  MaxWire = 3
  BufChars = 1
INVARIANTS ListInv LoopsAgree FirstFit NoStuckModifier TypedAsMeant
CHECK_DEADLOCK FALSE
