SPECIFICATION FairSpec
CONSTANTS
  UID = {u1}
  Meter = {m1, m2}
  Conn = {k1}
  Chunk = {c1, c2}
  Up = {c1}
  nil = nil
  RetryCount = 1
  ResetAfterProcessing = FALSE
  MaxSyncs = 3
INVARIANTS
  InOnePlace
PROPERTIES
  LedgerSpec
  RawOnlyWhileChanging
  CountedIsCharged
