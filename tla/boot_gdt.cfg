SPECIFICATION Spec
CONSTANTS
  APs = {a1, a2}
  Reports = {2}
  Late = {}
INVARIANTS GdtBeforeLocalApic
