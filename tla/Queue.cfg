SPECIFICATION FairSpec
CONSTANTS
  Threads = {t1, t2, t3}
  NULL = NULL
  MaxCalls = 4
CHECK_DEADLOCK FALSE
INVARIANT TypeOK
INVARIANT NoUseAfterFree
INVARIANT CountDrift
PROPERTY AllReturn
PROPERTY Linearizable
