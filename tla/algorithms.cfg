SPECIFICATION Spec
CONSTANTS
  Pages = 4
  Flags = {{"P"}, {"P", "W"}}
  MaxRanges = 4
  LastYear = 2101
  Caps <- MCCaps
  Machines <- MCMachines
  Width = 2
  Lanes = 2
  MaxElems = 3
INVARIANTS NormalizedMeansTheSame DaysAreCounted LevelsAgree ProbeIsComplete
PROPERTY ProbeEnds
CHECK_DEADLOCK FALSE
