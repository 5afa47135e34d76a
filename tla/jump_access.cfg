SPECIFICATION Spec
CONSTANTS
  b1 = b1
  b2 = b2
  alias = alias
  other = other
  open = open
  keyed = keyed
  k1 = k1
  k2 = k2
  Backends = {b1, b2}
  Aliases <- AliasOfOne
  JumpUsers = {open, keyed}
  KeysOf <- OpenAndKeyed
  GrantsOf <- OneEach
  Keys = {k1, k2}
  Names = {b1, b2, alias, other}
  Conns = {c1}
  NoUser = NoUser
  NoKey = NoKey
  NoName = NoName
  NoBackend = NoBackend
  ChannelSlots = 2
  MaxAuthTries = 1
  Users = {open, keyed, nobody}
  Channels = {h1, h2, h3}
INVARIANT KeyRequired
INVARIANT ReachesOnlyGranted
INVARIANT SlotsMatchForwards
PROPERTY HandshakesEnd
 
