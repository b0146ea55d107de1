SPECIFICATION FairSpec
CONSTANTS
  Type = "hysteria2"
  NodeInfo <- MCNodeInfo
  NoHost = ""
  Config <- MCConfig
  nil = nil
  MaxEdits = 3
  MaxFailures = 2
  UID = {u1}
  MaxUserOps = 2
INVARIANTS
  UsersSurvive
  NothingLeaked
PROPERTIES
  ContractSpec
  RetryBringsUp
CHECK_DEADLOCK FALSE
