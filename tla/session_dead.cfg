SPECIFICATION SessionSpec
CONSTANTS
  Base = 130
  Messages <- MCReplies
  Arrivals = {}
  Junk <- MCJunk
  EvalOrders = {"rightToLeft"}
  MaxLen = 8
  MaxHeld = 0
  StringSize = 32
  KernelFaults = FALSE
  MaxBytes = 8
  MaxSince = 2
  ClearFirst = TRUE
INVARIANT
  FramesHoldMessages
