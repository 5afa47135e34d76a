SPECIFICATION Spec
CONSTANTS
  Agents = {a1, a2}
  Settings <- NoLoneCert
  NoId = NoId
  Partial = Partial
  MaxIds = 4
  MaxFaults = 3
INVARIANT PinsHold
PROPERTY ComesUp
CHECK_DEADLOCK FALSE
