SPECIFICATION Spec
CONSTANTS
  a = a
  b = b
  c = c
  NoFile = NoFile
  Leftover = Leftover
  Objects <- MCTwo
  Process <- MCTwo
  Home <- MCTwoApart
  Addresses <- MCOne
  SunPath = 2
  Backlog = 32
  KernelFaults = FALSE
INVARIANT
  FailedWriteThrows
CHECK_DEADLOCK FALSE
