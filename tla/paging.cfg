CONSTANTS
  Fanout = 2
  Top = 3
  AllowHuge = 2
  Nx = TRUE
  UefiMaps <- MCUefiMaps
  Stack <- MCStack
  Additions <- MCAdditions
  Regions <- MCRegions
  MaxUpdates = 3
SPECIFICATION Spec
INVARIANTS TranslatesAsMapped TreeIsMemory
PROPERTIES TornUpdateMixes
CHECK_DEADLOCK FALSE
