SPECIFICATION Spec
CONSTANTS
  PcCmds <- MCPcCmds
  DspCmds <- MCDspCmds
  Count <- MCCount
INVARIANT UniqueIds
