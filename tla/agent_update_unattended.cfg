SPECIFICATION Spec
CONSTANTS
  MaxVersion = 2
  Bad = {}
  Flags = {x}
  MaxFaults = 0
  MaxInstalls = 0
PROPERTY UpdatesTakeEffect
CHECK_DEADLOCK FALSE
