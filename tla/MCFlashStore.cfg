SPECIFICATION Spec
CONSTANTS
  WordSize = 512
  Fields = 8
  And <- MCAnd
  Masks <- MCMasks
  Entries = 2
  Changes <- MCChanges
  Inputs <- MCInputs
  INIT_INPUT <- MCInit
  MIC_INPUT <- MCMic
  Ignored <- MCIgnored
  MaxChanges = 2
  MaxSaves = 3
  MaxCrashes = 2
INVARIANTS TypeOK ConfigSurvives NoMixedVersions SavedIsRestored VolumeSurvives
CHECK_DEADLOCK FALSE
