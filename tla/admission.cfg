SPECIFICATION Spec
CONSTANTS
  Sources = {k1}
  Conns = {c1, c2, c3, c4}
  Cost = 1
  Burst = 3
  MaxConcurrent = 3
  MaxFailures = 2
  FailureWindow = 2
  BlockDuration = 2
  IdleTTL = 4
  SSHSlots = 3
  MaxLag = 1
  MaxTime = 6
SYMMETRY ConnSymmetry
INVARIANT InFlightMatches
INVARIANT RateBounded
INVARIANT NoUndueRefusal
INVARIANT FailuresLeadToBlock
INVARIANT SlotsMatchGoroutines
PROPERTY PenaltyServed
