SPECIFICATION PortSpec
CONSTANTS
  f1 = f1
  f2 = f2
  Cpus = {c1, c2}
  Functions = {f1, f2}
  Addresses <- MCAddresses
  Status <- MCStatus
  MaxAccesses = 2
SYMMETRY Symm
PROPERTY AccessesLandWhereAddressed
CHECK_DEADLOCK FALSE
