SPECIFICATION FairSpec
CONSTANTS
  None = None
  Switch <- LineSwitch
  Port <- LinePort
  At <- LineAt
  Peer <- LinePeer
  Late = {}
  Lossy = {22}
  Swept = {11, 21, 22, 31}
  Flaky = {11, 21}
  MaxFlaps = 2
INVARIANTS OneEndThere
PROPERTIES DiscoveryComplete
