SPECIFICATION FairSpec
CONSTANTS
  Base = 4
  StringSize = 32
  KernelFaults = FALSE
  MaxBytes = 1
  Contents <- MCOneMessage
PROPERTY
  WrittenIsRead
CHECK_DEADLOCK FALSE
