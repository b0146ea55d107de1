SPECIFICATION MCSpec
CONSTANTS
  Task <- MCTask
  Thread = {g1, g2}
  NoThread = nil
  ExecuteFails <- MCExecuteFails
  Tag = {"a", "b"}
  Configs <- MCConfigs
  MaxReloads = 1
  MaxEdits = 1
INVARIANTS
  NoOverlap
  NothingLeftRunning
  AttachedToOwn
  CancelledIsClosing
PROPERTIES
  NoExecuteAfterClose
  KeepsTicking
  StopsOnTerm
CHECK_DEADLOCK FALSE
