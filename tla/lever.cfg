SPECIFICATION LeverSpec
CONSTANTS
  None = None
  Switch <- LineSwitch
  Port <- LinePort
  At <- LineAt
  Peer <- LinePeer
  BaseCosts = {6, 12}
  Congestions = {}
  Deltas = {}
  Scales = {}
  DirectCosts = {}
  BlockedSets = {}
  Epsilon = 1
  Speed <- LineSpeed
  Actions <- Extremes
  Unit = 6
INVARIANTS LeverTypeOK LeverInForce DeltasBalance ChurnWithinSwing LinksSymmetric GraphMatchesLinks RoutingOverCables
