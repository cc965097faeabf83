CONSTANTS
  Rows = 3
  Bound = 3
  MaxPushed = 1
SPECIFICATION Spec
INVARIANTS ExemptionIsEarned MergedIsExplained
