SPECIFICATION Spec
CHECK_DEADLOCK FALSE
CONSTANTS
  i1 = i1
  i2 = i2
  alias = alias
  Ids = {i1, i2}
  Tokens = {t1, t2}
  Names <- TwoNames
  Users = {u1}
  NoToken = NoToken
  NoId = NoId
  NoConfig = NoConfig
  Commands = {p1, p2}
  MaxCommands = 3
  MaxEdits = 1
  MaxFaults = 1
INVARIANT RunningUnambiguous
INVARIANT RunningIsCurrent
INVARIANT GrantsConfigured
INVARIANT SoleCommandsKept
PROPERTY ChangeTakesEffect
PROPERTY OnlyCarelessBreaks
