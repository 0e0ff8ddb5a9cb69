SPECIFICATION Spec
CONSTANTS
  PcCmds <- MCPcCmds
  DspCmds <- MCDspCmds
  Count <- MCCount
INVARIANTS TypeOK NoHoles UniqueOnceStored SlotsAreCommands LookupFinds ReloadRestores
PROPERTIES IdsStay ImplementsMap
