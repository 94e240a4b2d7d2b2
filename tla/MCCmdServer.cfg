CONSTANTS
  Containers = {c1, c2}
  Handlers = {h1, h2, h3}
  Cidr <- Slash29
  None = None
SPECIFICATION Spec
SYMMETRY Symmetry
INVARIANTS
  TypeOK
  UniqueAddress
  RunningPodsConnected
  NoLeakUnlessOvertaken
  AnswerIsTrue
PROPERTIES
  GoneForGood
