SPECIFICATION Spec
CONSTANTS
  Type = "naive"
  NodeInfo <- MCNodeInfo
  NoHost = ""
  Config <- MCConfig
  nil = nil
  MaxEdits = 3
  MaxFailures = 2
  Network = {"tcp", "udp"}
INVARIANTS
  CleanBetweenCalls
  ClosedStaysClosed
PROPERTIES
  ContractSpec
CHECK_DEADLOCK FALSE
