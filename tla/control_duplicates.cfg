SPECIFICATION Spec
CONSTANTS
  a1 = a1
  a2 = a2
  m = m
  b1 = b1
  b2 = b2
  Agents = {a1, a2}
  Mute = {a2}
  Backends = {b1, b2}
  Assigned <- SharedTwo
  Requested <- AskTwo
  Sessions = {s1, s2, s3}
  Clients = {}
  NoSession = NoSession
  NoBackend = NoBackend
  NoAgent = NoAgent
  ControlSlots = 3
  MinBackoff = 1
  MaxBackoff = 1
  MaxFaults = 1
PROPERTY RefinesDirectory
PROPERTY EventuallyServed
PROPERTY RegistrationEnds
