SPECIFICATION FairSpec
CONSTANTS
  c1 = c1
  u1 = u1
  r1 = r1
  rot = rot
  s1 = s1
  k1 = k1
  k2 = k2
  Caller = {c1}
  Person = {u1}
  Run = {r1}
  Job = {rot}
  Rotation = rot
  Sweep = {s1}
  Socket = {k1, k2}
  Nobody = Nobody
  Everyone = Everyone
  None = None
PROPERTIES
  WithdrawnAccessDies
  DueIsServed
  SessionsEnd
CHECK_DEADLOCK FALSE
