SPECIFICATION Spec
CONSTANTS
  None = None
  Every = 2
  MaxSteps = 3
INVARIANTS CheckpointWhole LossBounded
PROPERTIES ProgressKept
