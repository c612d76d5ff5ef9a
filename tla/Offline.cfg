SPECIFICATION Spec
CONSTANTS
  RegBits = 2
  RamSize = 16
  RomSize = 256
  MaxEvents = 30
  MaxEpoch = 2
  Sources <- MCAll
  FaultSources <- MCFaultSources
  InitialRam <- MCInitialRam
  Unknown = Unknown
  Done = Done
  A = A
  B = B
INVARIANTS AssembledAsWritten RunAccepted FaultRejected NoFalseCredit
CHECK_DEADLOCK FALSE
