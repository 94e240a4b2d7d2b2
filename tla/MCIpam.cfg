CONSTANTS
  Containers = {c1, c2, c3}
  Cidrs <- PodCidrs
  None = None
  Torn = Torn
SPECIFICATION Spec
SYMMETRY Symmetry
INVARIANTS
  TypeOK
  ConsistentWithDisk
  GrantDurable
  NoDoubleGrant
  NeverReserved
  GatewayIsNext
  ExhaustedOnlyIfFull
PROPERTIES
  StableGrant
  ImplementsPool
