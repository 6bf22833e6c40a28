SPECIFICATION OwnSpec
CONSTANTS
  Blocks = {b1, b2}
  Slots = {d1, d2}
  Shared = Shared
  Exclusive = Exclusive
  Null = Null
SYMMETRY Symm
INVARIANTS SoundOwnership StraysPredateSwitch
PROPERTY LeakedOnlyByView
