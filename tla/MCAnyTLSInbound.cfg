SPECIFICATION FairSpec
CONSTANTS
  Type = "anytls"
  NodeInfo <- MCNodeInfo
  NoHost = ""
  Config <- MCConfig
  nil = nil
  MaxEdits = 3
  MaxFailures = 2
  Network = {"tcp"}
INVARIANTS
  CleanBetweenCalls
PROPERTIES
  ContractSpec
  Converges
CHECK_DEADLOCK FALSE
