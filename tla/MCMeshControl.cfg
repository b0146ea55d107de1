SPECIFICATION FairSpec
CONSTANTS
  Self = "us"
  Pin = {"us", "b", "c"}
  Addr = {"us4", "us6", "nat4", "nat6", "b4", "b6", "c4"}
  PSK = {"k1", "k2"}
  Pinned <- MCPinned
  LocalView <- MCLocalView
  NatAddr <- MCNatAddr
  Content <- MCContent
  Response <- MCResponse
  MaxDisturbances = 2
INVARIANTS
  SyncedIsCurrent
PROPERTIES
  UsableCacheStays
  OnlyUnlistedStopped
  RestartRebuilds
  Settles
