SPECIFICATION FairSpec
CONSTANTS
  APs = {a1, a2, a3}
  Reports = {2, 3}
  Late = {a2, a3}
INVARIANTS StackExclusive NobodyLeftOut CounterIsBarrier
PROPERTIES InitApReturns PunctualApsRun
