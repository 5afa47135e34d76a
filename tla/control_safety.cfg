SPECIFICATION SafeSpec
CONSTANTS
  a1 = a1
  a2 = a2
  m = m
  b1 = b1
  b2 = b2
  Agents = {a1, a2, m}
  Mute = {m}
  Backends = {b1, b2}
  Assigned <- OwnTokensAndStranger
  Requested <- AskEachOtherAndOne
  Sessions = {s1, s2, s3}
  Clients = {c1}
  NoSession = NoSession
  NoBackend = NoBackend
  NoAgent = NoAgent
  ControlSlots = 2
  MinBackoff = 1
  MaxBackoff = 1
  MaxFaults = 2
SYMMETRY SessionSymmetry
INVARIANT RegistryMatchesHandlers
INVARIANT SlotsMatchHandlers
INVARIANT HeldIsBound
INVARIANT StreamReachesOwner
