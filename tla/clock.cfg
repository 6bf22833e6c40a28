SPECIFICATION Spec
CONSTANTS
  Instants <- MCInstants
  MaxTicks = 5
INVARIANT WorldTimeIsUtc
