CONSTANTS
  Writers = {w1, w2, w3}
  Payloads = {p1}
  Altered = Altered
  Connections = {c1, c2}
  Engines = {"postgres", "mysql"}
  MaxFaults = 1
  MaxTampers = 1
  NoConnection = NoConnection
SYMMETRY Interchangeable
SPECIFICATION Spec
INVARIANTS
  ChainVerifies
  EvidenceComplete
  CriticalIsRecorded
CHECK_DEADLOCK FALSE
