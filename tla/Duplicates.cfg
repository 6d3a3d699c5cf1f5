SPECIFICATION Spec
CONSTANTS
  a1 = a1
  a2 = a2
  Lo = Lo
  Garbage = Garbage
  Addr <- MCAddr
  InterfaceLists <- MCRoutable
  Down = {}
  CHUNK = 3
  HEADER_SPACE = 1
  IntMax = 20
  CapMod = 16
  WIN_SIZ = 2
  FileSizes = {3, 4, 5, 7}
  Reorder = FALSE
  MaxLost = 1
  MaxDup = 2
  MaxStray = 1
  CanFail = TRUE
CHECK_DEADLOCK FALSE
INVARIANT NoDangling
INVARIANT NoStallWithoutFault
INVARIANT NoHole
INVARIANT EndsWithLastByte
PROPERTY RefinesUntilFault
