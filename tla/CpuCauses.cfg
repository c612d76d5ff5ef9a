SPECIFICATION Spec
CONSTANTS
  PcCount = 8
  ValCount = 8
  RegCount = 3
  TRAP_VEC = 6
  RamAddr <- MCRam
  Misaligned <- MCMisalignedCsr
  CsrPage <- MCCsrPage
  CSR_INSTRET = 4
  CSR_EPC = 5
  CSR_CAUSE = 6
  BhtEntries = 2
  BtbEntries = 1
  ENABLE_BPU = TRUE
  Programs <- MCRepair
  InitialRam <- MCInitialRam
  NoWrite = NoWrite
  IWaitMax = 1
  DWaitMax = 1
  IGates <- MCOpen
  DGates <- MCOpen
  Enables <- MCOpen
  MayHalt = FALSE
  MayReset = TRUE
INVARIANT CausesAgree
