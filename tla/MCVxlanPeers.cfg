CONSTANTS
  Nodes = {self, n1, n2}
  Self = self
  Cidrs = {a, b}
  Ips = {i, j}
  self = self
  n1 = n1
  n2 = n2
  a = a
  b = b
  i = i
  j = j
  None = None
  Initial <- Cluster
  MayFail = TRUE
  MaxUpsets = 3
SPECIFICATION FairSpec
INVARIANTS
  TypeOK
  WholePeers
  MapOwnsPeers
  DeviceReady
  SettledIsRight
PROPERTIES
  PathsFollowNodes
  PathsConverge
CHECK_DEADLOCK FALSE
