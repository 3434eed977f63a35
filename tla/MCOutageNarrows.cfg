SPECIFICATION PartsSpec
CONSTANTS
  r1 = r1
  r2 = r2
  k1 = k1
  g1 = g1
  x1 = x1
  c1 = c1
  c2 = c2
  admin = admin
  u2 = u2
  u3 = u3
  team = team
  Rule = {r1, r2}
  HostGroup = {g1}
  Credential = {k1}
  None = None
  Call = {x1}
  MaxEdits = 1
  MaxFaults = 1
  Asker = {c1, c2}
  Somebody = admin
  Others = {u2, u3}
  Teams = {team}
  Crew = team
  Owners = {admin}
  Sids = {1, 2}
  Roles = {"super", "plain"}
  RolesAskedFor = {{}, {"super"}}
  MaxRequests = 2
  Purposes = {"login", "enroll", "disable"}
  MaxCodes = 2
  MaxTries = 2
SYMMETRY Interchangeable
INVARIANT OutageNarrows
CHECK_DEADLOCK FALSE
