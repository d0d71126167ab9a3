SPECIFICATION FairSpec
CONSTANTS
  Base = 2
  StringSize = 8
  KernelFaults = TRUE
  MaxBytes = 6
  Contents <- MCContents
INVARIANTS
  TypeOK
  AcceptedIsWhole
  FramesTile
PROPERTIES
  ImplementsChannel
  CloseReleasesReader
CHECK_DEADLOCK FALSE
