SPECIFICATION MemSpec
CONSTANTS
  LastPage = 10
  Offset = 3
  TrampPages = {1, 2}
  MaxSize = 20480
  Extra = 4
  Maps <- MCMaps
  MaxEvents = 3
INVARIANTS HeapOwnsItsPages NothingLiveOverwritten ExitFailsOnlyByChange
PROPERTY BootEnds
