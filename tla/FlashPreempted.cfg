SPECIFICATION Spec
CONSTANTS
  WordSize = 512
  Fields = 8
  And <- MCAnd
  Masks <- MCMasks
  Entries = 2
  Changes <- MCChanges
  Inputs <- MCInputs
  INIT_INPUT <- MCInit
  MIC_INPUT <- MCMic
  Ignored <- MCAllIgnored
  MaxChanges = 2
  MaxSaves = 2
  MaxCrashes = 1
INVARIANT EitherCopyWillDo
CHECK_DEADLOCK FALSE
