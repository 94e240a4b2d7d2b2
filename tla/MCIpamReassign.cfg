CONSTANTS
  Containers = {c1, c2}
  Cidrs <- TwoSlash30
  None = None
  Torn = Torn
SPECIFICATION Spec
SYMMETRY Symmetry
INVARIANTS
  NoDoubleTold
