SPECIFICATION FairSpec
CONSTANTS
  a = a
  b = b
  c = c
  NoFile = NoFile
  Leftover = Leftover
  Objects <- MCObjects
  Process <- MCObjects
  Home <- MCShared
  Addresses <- MCOne
  SunPath = 2
  Backlog = 0
  KernelFaults = TRUE
INVARIANTS
  TypeOK
  ReachableIsRestricted
  OnlyRacesLoseTheName
PROPERTIES
  AnnouncersSurvivePipe
  ImplementsSocketConnection
  WaitEndsWithServer
CHECK_DEADLOCK FALSE
