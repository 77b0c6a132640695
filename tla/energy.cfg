SPECIFICATION FairSpec
CONSTANTS
  Switch <- LineSwitch
  HostSwitch = {1}
  Cable <- LineCable
  Initial <- LineInitial
  IdlePower = 1
  Rates = {0, 1}
  Floor = 1
  Share = 2
  SleepTicks = 2
  Target = {2}
INVARIANTS SleepersRested
PROPERTIES ReportConsistent EmptyDies HostSwitchesRunDown QuietSleeps
