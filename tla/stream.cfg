SPECIFICATION Spec
CONSTANTS
  Base = 2
  Junk <- MCJunk
  EvalOrders = {"leftToRight", "rightToLeft"}
  Items <- MCItems
  Targets <- MCTargets
  Inputs <- MCInputs
  MaxLen = 4
INVARIANTS
  TypeOK
  UnreadIsPending
  IntegersInOrder
PROPERTIES
  
  ImplementsByteQueue
