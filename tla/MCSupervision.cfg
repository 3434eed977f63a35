CONSTANTS
  Shells = {o1, o2}
  Watchers = {w1, w2, w3}
  Admins = {a1, a2}
  Nobody = Nobody
SPECIFICATION FairSpec
INVARIANTS
  Consistent
  InputIsAnnounced
PROPERTIES
  ControlIsGivenUp
  DroppedControlIsReleased
CHECK_DEADLOCK FALSE
