SPECIFICATION ResetBenchSpec
CONSTANTS
  PcCount = 8
  ValCount = 16
  RegCount = 13
  TRAP_VEC = 7
  RamAddr <- ResetRam
  Misaligned <- MCAligned
  CsrPage <- MCCsrs
  CSR_INSTRET = 12
  CSR_EPC = 13
  CSR_CAUSE = 14
  BhtEntries = 2
  BtbEntries = 1
  ENABLE_BPU = TRUE
  LoadWork <- MCLoadWork
  StoreWork <- MCStoreWork
  RestartWork <- MCRestartWork
  OldRam <- MCOldRam
  MemoryWaits = {4, 6}
  MaxEvents = 6
  Programs <- MCResetPrograms
  InitialRam <- MCOldRams
  NoWrite = NoWrite
  None = None
  IWaitMax = 6
  DWaitMax = 6
  IGates = {TRUE, FALSE}
  DGates = {TRUE, FALSE}
  Enables = {TRUE, FALSE}
  MayHalt = FALSE
  MayReset = TRUE
INVARIANTS TargetIsWarm OwnershipClear VisibleStores RestartExact
PROPERTY Completes
CHECK_DEADLOCK FALSE
