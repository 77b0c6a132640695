SPECIFICATION RewardSpec
CONSTANTS
  Switch <- LineSwitch
  Port <- LinePort
  At <- LineAt
  Peer <- LinePeer
  LinkOrder <- LineOrder
  Capacity <- LineCapacity
  Rates = {0, 5}
  Deliveries <- SomeDeliveries
  Initial <- LineInitial
  Drains = {3}
  IdlePower = 1
  PowerRef = 10
  DelayRef = 50
  Floor = 1
  Share = 200
  Churns = {0, 500}
  NonSleepable = {1}
  Presets <- AllPresets
INVARIANTS AnalyticBounds BarrierBinds
PROPERTIES SleepPays WeakDrainCosts
