SPECIFICATION Spec
CONSTANTS
  None = None
  Switch <- TriangleSwitch
  Port <- TrianglePort
  At <- TriangleAt
  Peer <- TrianglePeer
  BaseCosts = {3}
  Congestions <- Negative
  Deltas <- Attractive
  Scales = {1}
  DirectCosts = {1}
  BlockedSets <- SomeSwitchBlocked
  Epsilon = 1
INVARIANTS CacheCoherent FirstHopsConverge
