SPECIFICATION LogSpec
CONSTANTS
  Capacity = 3
  MaxLogs = 5
  Readers = {1, 2}
  StartId <- Starts
  Include <- Kinds
INVARIANTS LogIsWindow CompleteBeforeRotation
PROPERTIES ReadDrifts OvertakenForGood
