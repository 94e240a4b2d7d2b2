CONSTANTS
  p = p
  q = q
  a1 = a1
  a2 = a2
  a3 = a3
  b1 = b1
  b2 = b2
  Containers <- Pods
  Calls <- Requests
  Target <- ThreeAndTwo
SPECIFICATION Spec
INVARIANTS
  MutualExclusion
  NoLostWakeup
PROPERTIES
  EveryCallServed
  ImplementsLock
\* the run ends once every call has been executed
CHECK_DEADLOCK FALSE
