SPECIFICATION Spec
CONSTANTS
  None = None
  Switch <- TriangleSwitch
  Port <- MCPort
  At <- MCAt
  Peer <- TrianglePeer
  Mac <- OneMac
  HostPort <- OneMacPort
  Mortal = {2}
  Flaky = {11, 22}
  Early = FALSE
  Seeded = TRUE
INVARIANTS SoleOutPortAlive LoopFree FlowsLeadHome TreeAvoidsDead SettledFloodLoopFree FloodRestored
