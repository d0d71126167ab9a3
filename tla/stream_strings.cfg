SPECIFICATION Spec
CONSTANTS
  Base = 2
  Junk <- MCJunk
  EvalOrders = {"leftToRight", "rightToLeft"}
  Items <- MCItems
  Targets <- MCFreshTarget
  Inputs <- MCInputs
  MaxLen = 4
INVARIANT
  StringsSurvive
