SPECIFICATION FairSpec
CONSTANTS
  Cores = {c1, c2, c3}
  Nobody = Nobody
  MaxMutexes = 2
  MaxCalls = 2
  MaxU16 = 2
  Timeouts = {1, 2}
  Unidentified = {c3}
INVARIANT MutualExclusion
PROPERTIES WaitIsFutile ForeverFreezesAll EveryCallReturns
CHECK_DEADLOCK FALSE
