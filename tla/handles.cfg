SPECIFICATION Spec
CONSTANTS
  Objects = {a, b, c}
  a = a
  b = b
  c = c
  MaxFd = 2
  MaxFiles = 4
SYMMETRY Symmetry
INVARIANTS
  TypeOK
  UnsharedOwnersKeepTheirFile
  NothingLeaks
