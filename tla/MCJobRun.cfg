CONSTANTS
  Runs = {r1, r2}
  Templates = {t1}
  Handlers = {h1, h2, h3}
  RetryCount = 1
  MaxFaults = 0
  MaxEdits = 1
  NoRun = NoRun
  NoTemplate = NoTemplate
SYMMETRY Interchangeable
SPECIFICATION Spec
INVARIANTS
  TypeOK
  ProductionWaits
  OverlapExplained
PROPERTIES
  SettledStaysSettled
  GateSpec
CHECK_DEADLOCK FALSE
