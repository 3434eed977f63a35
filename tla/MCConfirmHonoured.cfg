CONSTANTS
  Shells = {o1}
  Watchers = {w1}
  Admins = {a1}
  Nobody = Nobody
SPECIFICATION FairSpec
PROPERTY ConfirmHonoured
CHECK_DEADLOCK FALSE
