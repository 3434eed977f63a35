SPECIFICATION PartsSpec
CONSTANTS
  c1 = c1
  c2 = c2
  n1 = n1
  n2 = n2
  x = x
  Caller = {c1, c2}
  Node = {n1, n2}
  Name = {x}
  MaxChanges = 1
  None = None
  p1 = p1
  MaxFaults = 1
  Behind = {n1}
  Attempts = 2
  MaxParallel = 1
  Steps = 3
  MaxEdits = 2
  Problems = {p1}
  Versions = {1}
  MaxRuns = 2
SYMMETRY Interchangeable
INVARIANTS
  TransfersAreGuarded
  RemoteWorkIsGuarded
CHECK_DEADLOCK FALSE
