SPECIFICATION Spec
CONSTANTS
  Base = 2
  Junk <- MCJunk
  EvalOrders = {"rightToLeft"}
  Items <- MCWideItems
  Targets <- MCTargets
  Inputs <- MCInputs
  MaxLen = 4
INVARIANT
  WideIntegersSurvive
