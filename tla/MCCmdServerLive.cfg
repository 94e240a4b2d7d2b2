CONSTANTS
  Containers = {c1}
  Handlers = {h1, h2, h3}
  Cidr <- Slash30
  None = None
SPECIFICATION FairSpec
PROPERTIES
  NothingStays
