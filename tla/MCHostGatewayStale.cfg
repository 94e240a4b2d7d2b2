CONSTANTS
  Nodes = {self, n1}
  Self = self
  Cidrs = {a, b}
  Ips = {i, j}
  self = self
  n1 = n1
  n2 = n2
  a = a
  b = b
  i = i
  j = j
  None = None
  Initial <- OnePeer
  MayFail = FALSE
  MaxUpsets = 2
SPECIFICATION Spec
INVARIANT CurrentlyProgrammed
CHECK_DEADLOCK FALSE
