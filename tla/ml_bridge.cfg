SPECIFICATION FairSpec
CONSTANTS
  None = None
  MaxObs = 3
  MaxRestarts = 1
  AgentFails = TRUE
INVARIANTS TransitionsForward
PROPERTIES NeverBackwards RepliesFresh QueueDrains
