SPECIFICATION FairSpec
CONSTANTS
  BUS_ADVERSARIAL = TRUE
  REQUEST_STALL_CYCLES = 2
  RESPONSE_HOLD_CYCLES = 2
  WaitMax = 1
  Addr <- MCAddr
  Data <- MCData
  Zero = 0
  NoWrite = NoWrite
  None = None
  MayReset = TRUE
INVARIANTS TypeOK NoFatal
PROPERTIES ExposedStays ImplementsPort RequestServed
