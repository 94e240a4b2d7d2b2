CONSTANTS
  Containers = {c1}
  Handlers = {h1, h2}
  Cidr <- Slash30
  None = None
SPECIFICATION Spec
SYMMETRY Symmetry
INVARIANTS
  NoLeak
