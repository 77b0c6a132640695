SPECIFICATION StressFairSpec
CONSTANTS
  NoLink = NoLink
  Link <- MCLink
  Device <- MCDevice
  Ends <- MCEnds
  OnDark <- DarkSwitch
  Mortal = TRUE
  Loss <- MCLoss
  Windows <- TwoWindows
  Draws <- LowOrHigh
INVARIANTS EveryFaultEnds LinksStayHit StaysDark
PROPERTIES LinksRecover
CHECK_DEADLOCK FALSE
