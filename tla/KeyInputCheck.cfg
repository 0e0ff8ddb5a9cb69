SPECIFICATION Spec
CONSTANTS
  StartInput = 5
  MaxPresses = 2
  MaxBounce = 1
INVARIANTS OncePerPress HeldIsHandled
PROPERTY HeldPressActs
