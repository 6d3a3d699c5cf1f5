SPECIFICATION FairSpec
CONSTANTS
  a1 = a1
  a2 = a2
  Lo = Lo
  Garbage = Garbage
  Addr <- MCAddr
  InterfaceLists <- MCRoutable
  Down = {}
  CHUNK = 3
  HEADER_SPACE = 1
  IntMax = 20
  CapMod = 16
  WIN_SIZ = 2
  FileSizes = {1, 3, 5, 7, 9, 11}
  Reorder = FALSE
  MaxLost = 0
  MaxDup = 0
  MaxStray = 0
  CanFail = FALSE
CHECK_DEADLOCK TRUE
INVARIANT WholeFileOnReturn
PROPERTY Termination
PROPERTY TransfersFile
