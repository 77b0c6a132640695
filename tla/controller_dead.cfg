SPECIFICATION Spec
CONSTANTS
  None = None
  Switch <- LineSwitch
  Port <- MCPort
  At <- MCAt
  Peer <- LinePeer
  Mac <- TwoMacs
  HostPort <- TwoMacsPort
  Mortal = {2}
  Flaky = {}
  Early = FALSE
  Seeded = FALSE
INVARIANTS DeadInert
