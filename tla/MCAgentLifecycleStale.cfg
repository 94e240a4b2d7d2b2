CONSTANTS
  Cidrs = {a}
  Calls = {c1}
  None = None
  MaxUpsets = 2
SPECIFICATION Spec
INVARIANT ProbeIsTruthful
