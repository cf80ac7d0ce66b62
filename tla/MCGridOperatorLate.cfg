CONSTANTS
  Orders = {o1}
  Size = 3
  Depth = 1
  None = none
  MaxHeight = 5
  MaxFaults = 0
  MaxOrders = 1
  MAX_FAILURES = 3
SPECIFICATION Spec
INVARIANT
  LateFillsConsumed
