SPECIFICATION Spec
CONSTANTS
  Commands <- MCCommands
  Chunks <- MCChunks
  Volumes = {1, 2}
  Boots <- MCBoots
  STORE_TICKS = 3
  MaxEvents = 1
  MaxCuts = 0
INVARIANT EveryCommandDelivered
