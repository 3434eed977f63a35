CONSTANTS
  Runs = {r1}
  Templates = {t1}
  Handlers = {h1, h2, h3}
  RetryCount = 1
  MaxFaults = 1
  MaxEdits = 0
  NoRun = NoRun
  NoTemplate = NoTemplate
SPECIFICATION FairSpec
INVARIANT LiveRunsHaveOwners
PROPERTIES
  TasksEnd
  LiveRunsEnd
CHECK_DEADLOCK FALSE
