SPECIFICATION FairSpec
CONSTANTS
  a1 = a1
  a2 = a2
  v4 = v4
  v6 = v6
  Addr = {a1, a2}
  Garbage = Garbage
  Families <- MCFamilies
  ResultLists <- MCResults
  FreeFds = {0, 3}
  InterfaceLists <- MCInterfaces
  MaxChanges = 0
CHECK_DEADLOCK FALSE
INVARIANT BindsFirstAble
