SPECIFICATION MCSpec
CONSTANTS
  UID = {u1}
  Meter = {m1, m2}
  Conn = {c1, c2}
  IP = {a, b}
  nil = nil
  DeviceLimit = 2
  EnableDeviceLimit = TRUE
  MaxOthers = 2
  MaxCount = 2
  MaxSyncs = 2
  Key <- MCKey
  RulesOf <- MCRulesOf
  Broken = {1}
  TTL = 2
  PruneAbove = 1
  RetryCount = 1
  MaxTime = 5
  MaxHits = 2
INVARIANTS
  IPNumCovers
PROPERTIES
  ShareOfLimit
  RecordedApart
  OnlineReported
  AuditKeepsUp
