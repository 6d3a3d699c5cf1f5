SPECIFICATION Spec
CONSTANTS
  a1 = a1
  a2 = a2
  Lo = Lo
  Garbage = Garbage
  Addr <- MCAddr
  InterfaceLists <- MCWithLoopbackOnly
  Down = {a2}
  CHUNK = 3
  HEADER_SPACE = 1
  IntMax = 13
  CapMod = 8
  WIN_SIZ = 3
  FileSizes = {3, 4, 7, 11, 13, 15}
  Reorder = TRUE
  MaxLost = 2
  MaxDup = 0
  MaxStray = 0
  CanFail = TRUE
CHECK_DEADLOCK FALSE
INVARIANT TypeOK
INVARIANT IntactPrefix
INVARIANT OneWindowOutstanding
INVARIANT FinOnlyOnLast
INVARIANT NoDangling
INVARIANT PeerListExact
INVARIANT HandshakeAgreed
INVARIANT NoStallWithoutFault
INVARIANT KeysInSendOrder
INVARIANT BacklogPerWindow
INVARIANT EndsWithLastByte
