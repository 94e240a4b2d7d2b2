CONSTANTS
  Nodes = {self, n1, n2}
  Self = self
  Cidrs = {a, b}
  Ips = {i, j}
  self = self
  n1 = n1
  n2 = n2
  a = a
  b = b
  i = i
  j = j
  None = None
  Initial <- Cluster
  MayFail = FALSE
  MaxUpsets = 3
SPECIFICATION FairSpec
PROPERTY BestEffortDelete
CHECK_DEADLOCK FALSE
