SPECIFICATION Spec
CONSTANTS
  MaxVersion = 3
  Bad = {2}
  Flags = {x, y}
  MaxFaults = 2
  MaxInstalls = 1
INVARIANT SettingsKept
PROPERTY NeverBackwards
PROPERTY CatchesUp
PROPERTY CrashLoopEnds
CHECK_DEADLOCK FALSE
