SPECIFICATION FairSpec
CONSTANTS
  UID = {u1}
  c1 = c1
  c2 = c2
  Cred = {c1, c2}
  Material <- MCMaterial
  Speed = {0, 1, 2}
  SNI = {"a", "b", ""}
  NoHost = ""
  NodeInfo <- MCNodeInfo
  nil = nil
  Worlds <- MCWorldsUserList
  MaxEdits = 1
  MaxFailures = 1
INVARIANT
  ReloadRemembered
CHECK_DEADLOCK FALSE
