CONSTANTS
  Channels <- MCChannels
  Bands <- MCBands
  Sessions <- MCSessions
  Count <- MCCount
  MaxEvents = 5
  MaxRestarts = 1
SPECIFICATION Spec
INVARIANTS TypeOK CutsRestored EqRestored TimingRestored RoutesRestored TypeReturns VolumeRestored
CHECK_DEADLOCK FALSE
