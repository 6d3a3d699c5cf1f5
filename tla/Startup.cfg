SPECIFICATION FairSpec
CONSTANTS
  a1 = a1
  a2 = a2
  v4 = v4
  v6 = v6
  Addr = {a1, a2}
  Garbage = Garbage
  Families <- MCFamilies
  ResultLists <- MCResults
  FreeFds = {0, 3}
  InterfaceLists <- MCInterfaces
  MaxChanges = 2
CHECK_DEADLOCK FALSE
INVARIANT ServesBound
INVARIANT HiExact
INVARIANT ListWithinAllocation
PROPERTY StartupProgress
