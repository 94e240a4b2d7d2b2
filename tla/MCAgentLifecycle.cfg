CONSTANTS
  Cidrs = {a, b}
  Calls = {c1, c2}
  None = None
  MaxUpsets = 4
SPECIFICATION FairSpec
INVARIANTS
  TypeOK
  HandledByReadyAgent
  UnansweredTriesAgain
  OneListener
PROPERTIES
  CleanStop
  ServesOrBarred
  CallsEnd
