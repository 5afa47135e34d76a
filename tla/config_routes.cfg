SPECIFICATION SafeSpec
CONSTANTS
  i1 = i1
  i2 = i2
  alias = alias
  Ids = {i1, i2}
  Tokens = {t1, t2}
  Names <- TwoNames
  Users = {u1}
  NoToken = NoToken
  NoId = NoId
  NoConfig = NoConfig
  Commands = {p1}
  MaxCommands = 2
  MaxEdits = 1
  MaxFaults = 0
INVARIANT RoutesFollowBackend
