SPECIFICATION Spec
CONSTANTS
  Commands <- MCCommands
  Chunks <- MCChunks
  Volumes = {1, 2}
  Boots <- MCBoots
  STORE_TICKS = 3
  MaxEvents = 2
  MaxCuts = 1
PROPERTY DspFollows
