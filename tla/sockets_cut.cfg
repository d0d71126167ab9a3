SPECIFICATION Spec
CONSTANTS
  a = a
  b = b
  c = c
  NoFile = NoFile
  Leftover = Leftover
  Objects <- MCTwo
  Process <- MCTwo
  Home <- MCTwoApart
  Addresses <- MCMixed
  SunPath = 2
  Backlog = 32
  KernelFaults = TRUE
INVARIANTS
  OnlyRacesLoseTheName
  OnlyAnnouncersTakeTheName
  ShortDialReachesAnnounced
CHECK_DEADLOCK FALSE
