SPECIFICATION SessionSpec
CONSTANTS
  Base = 130
  Messages <- MCMessages
  Arrivals <- MCArrivals
  Junk <- MCJunk
  EvalOrders = {"rightToLeft"}
  MaxLen = 8
  MaxHeld = 0
  StringSize = 32
  KernelFaults = FALSE
  MaxBytes = 12
  MaxSince = 2
  ClearFirst = FALSE
INVARIANT
  UnspoiledFramesHoldAll
