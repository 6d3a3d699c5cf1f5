SPECIFICATION Spec
CONSTANTS
  a1 = a1
  a2 = a2
  Lo = Lo
  Garbage = Garbage
  Addr <- MCAddr
  InterfaceLists <- MCTwoPaths
  Down = {}
  CHUNK = 3
  HEADER_SPACE = 1
  IntMax = 13
  CapMod = 8
  WIN_SIZ = 2
  FileSizes = {7, 9}
  Reorder = FALSE
  MaxLost = 0
  MaxDup = 0
  MaxStray = 1
  CanFail = FALSE
CHECK_DEADLOCK FALSE
INVARIANT WindowAcked
