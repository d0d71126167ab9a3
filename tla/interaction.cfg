SPECIFICATION Spec
CONSTANTS
  Base = 256
  Messages <- MCMessages
  Arrivals <- MCArrivals
  Junk <- MCJunk
  EvalOrders = {"leftToRight", "rightToLeft"}
  MaxLen = 4
  MaxHeld = 3
INVARIANTS
  TypeOK
  MessagesTile
  FixedPartsSurvive
  DirectionAgrees
PROPERTIES
  NothingFromNothing
  CutMessageIsTheLast
