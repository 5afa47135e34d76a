SPECIFICATION Spec
CONSTANTS
  t1 = t1
  Streams = {t1}
  Slots = 1
  Window = 1
  Chunks <- BothLong
  MaxSessions = 2
INVARIANT SlotsMatchBridges
 
PROPERTY BridgesEnd
PROPERTY SshdSeesEnd
PROPERTY SlotsReturn
CHECK_DEADLOCK FALSE
