SPECIFICATION FairSpec
CONSTANTS
  w0 = w0
  w1 = w1
  w2 = w2
  PcCount = 3
  Word <- MCWord
  ZeroWord = w0
  NoWrite = NoWrite
  Programs <- MCPrograms
  IWaitMax = 1
  RedirectTargets <- MCTarget
  TakenTargets <- MCTaken
  MayHalt = TRUE
INVARIANTS TypeOK Ownership HeldRequestStable InFlightOrder
PROPERTIES ImplementsStream KilledFetchDrains HaltDrains
