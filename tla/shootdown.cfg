SPECIFICATION FairSpec
CONSTANTS
  Cores = {c1, c2}
  MaxUpdates = 3
  NoCore = NoCore
INVARIANT StaleOnlyUntilInterrupt
PROPERTIES DeafAfterUpdate InterruptsGetThrough
