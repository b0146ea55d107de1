SPECIFICATION FairSpec
CONSTANTS
  UID = {u1, u2}
  c1 = c1
  c2 = c2
  Cred = {c1, c2}
  Material <- MCMaterial
  Speed = {0, 1, 2}
  SNI = {"a", "b", ""}
  NoHost = ""
  NodeInfo <- MCNodeInfo
  nil = nil
  Worlds <- MCWorlds
  MaxEdits = 2
  MaxFailures = 2
INVARIANTS
  ReloadRememberedIfSynced
  RuntimeFollowsMap
  LimitsFollowNode
  NoStaleLogin
PROPERTIES
  ConvergesIfSynced
  UsersConverge
CHECK_DEADLOCK FALSE
