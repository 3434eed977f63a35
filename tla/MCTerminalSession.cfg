CONSTANTS
  Sessions = {1, 2}
  Sockets = {k1, k2}
  Requests = {q1, q2}
  MaxFaults = 1
  Nobody = Nobody
SYMMETRY Interchangeable
SPECIFICATION Spec
INVARIANTS
  Consistent
  PublishedIsOpen
  TerminatedIsSignalled
PROPERTY EndedStaysEnded
CHECK_DEADLOCK FALSE
