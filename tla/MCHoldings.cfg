SPECIFICATION PartsSpec
CONSTANTS
  c1 = c1
  c2 = c2
  h1 = h1
  h2 = h2
  g1 = g1
  z1 = z1
  z2 = z2
  a = a
  b = b
  w1 = w1
  w2 = w2
  w3 = w3
  k1 = k1
  Caller = {c1, c2}
  Machine = {h1, h2}
  Team = {g1}
  Zone = {z1, z2}
  Channel = {a, b}
  Socket = {w1, w2, w3}
  Token = {k1}
  None = None
  Keep = 1
  MaxPuts = 3
  AccountKinds = {"rotate", "push", "remove"}
  RotateTries = 2
  MaxSecret = 2
  ZabbixHosts = {"zabbix host", "another"}
  Edits = {"edit"}
  MaxChanges = 1
  Endpoints = {"gateway"}
  Queries = {"ask"}
  Sessions = {"a", "b"}
  Tiers = {"loop", "job"}
  MaxPosts = 2
  Targets = {"elasticsearch", "s3"}
  Categories = {"app"}
  MaxBatch = 1
  MaxRotations = 1
  MaxFaults = 1
  Streams = {"stream"}
  MaxLost = 1
  MaxLines = 2
  MaxConns = 2
  JobEvents = {"evaluation"}
  MaxEdits = 1
  TTL = 1
  Grace = 1
  MaxTime = 4
SYMMETRY Interchangeable
INVARIANTS
  SecretsAreKept
  InventoryAgrees
  DataArrives
  QuarantinedHold
CHECK_DEADLOCK FALSE
