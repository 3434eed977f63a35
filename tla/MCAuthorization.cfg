CONSTANTS
  Admins = {a, b, s}
  Exempt = {s}
  Contents = {c1, c2}
  Requests = {q1, q2, q3}
  Sweeper = sweep
  Nobody = Nobody
  Nothing = Nothing
SPECIFICATION FairSpec
INVARIANTS
  TypeOK
  EnabledIsActive
  AnotherApproved
  ApprovedAsFound
  EndedIsOff
PROPERTY LapsedIsDisabled
CHECK_DEADLOCK FALSE
