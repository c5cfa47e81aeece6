SPECIFICATION DeployOnly
CONSTANTS
  s1 = s1
  s2 = s2
  s3 = s3
  r1 = r1
  Schedulers = {s1, s2, s3}
  Recoverers = {r1}
  Changes = {1, 2, 3, 4}
  Recorded = {4}
  MaxClients = 2
  MaxPids = 2
  MaxCrashes = 1
  None = None
  Nil = Nil
  Drivers = {"c1"}
  MaxRelays = 3
  SerialUse = TRUE
  MaxBackends = 3
  Models = {"a"}
  Strangers = TRUE
  LostRecords = FALSE
  Announcers = {"run", "recover"}
  Kinds = {"blocker", "stale"}
  Limit = 2
  Window = 2
  MaxKeys = 1
  MaxTime = 4
INVARIANTS
  LeftoversStayOwned
CHECK_DEADLOCK FALSE
