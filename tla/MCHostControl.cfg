SPECIFICATION Spec
CONSTANTS
  Commands <- MCCommands
  Chunks <- MCChunks
  Volumes = {1, 2}
  Boots <- MCBoots
  STORE_TICKS = 3
  MaxEvents = 3
  MaxCuts = 1
INVARIANTS LastCommandDelivered MuteFollows CloseSyncsVolume SelectionPending
PROPERTIES InputIsStored DspFollowsUncut
