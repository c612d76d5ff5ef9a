SPECIFICATION TbSpec
CONSTANTS
  PcCount = 8
  ValCount = 8
  RegCount = 3
  TRAP_VEC = 6
  RamAddr <- MCRam
  Misaligned <- MCMisaligned
  CsrPage <- MCCsrPage
  CSR_INSTRET = 4
  CSR_EPC = 5
  CSR_CAUSE = 6
  BhtEntries = 2
  BtbEntries = 1
  ENABLE_BPU = TRUE
  Jobs <- MCHeldBranch
  MaxEvents = 30
  Programs <- MCHeldPrograms
  InitialRam <- MCInitialRam
  NoWrite = NoWrite
  None = None
  IWaitMax = 1
  DWaitMax = 1
  IGates = {TRUE, FALSE}
  DGates = {TRUE, FALSE}
  Enables <- MCOpen
  MayHalt = FALSE
  MayReset = FALSE
INVARIANT StopIsNotSpeculative
CHECK_DEADLOCK FALSE
