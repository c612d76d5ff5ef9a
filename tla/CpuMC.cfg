SPECIFICATION FairSpec
CONSTANTS
  PcCount = 8
  ValCount = 8
  RegCount = 3
  TRAP_VEC = 6
  RamAddr <- MCRam
  Misaligned <- MCMisaligned
  CsrPage <- MCCsrPage
  CSR_INSTRET = 4
  CSR_EPC = 5
  CSR_CAUSE = 6
  BhtEntries = 2
  BtbEntries = 1
  ENABLE_BPU = TRUE
  Programs <- MCPrograms
  InitialRam <- MCInitialRam
  NoWrite = NoWrite
  IWaitMax = 0
  DWaitMax = 1
  IGates <- MCOpen
  DGates = {TRUE, FALSE}
  Enables <- MCOpen
  MayHalt = TRUE
  MayReset = TRUE
INVARIANTS TypeOK DataOwnership OperandsFresh PredictsBranchesOnly
PROPERTIES ImplementsIsa Retires
