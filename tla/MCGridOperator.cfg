CONSTANTS
  Orders = {o1, o2}
  Size = 2
  Depth = 1
  None = none
  MaxHeight = 4
  MaxFaults = 2
  MaxOrders = 1
  MAX_FAILURES = 2
SPECIFICATION FairSpec
INVARIANTS
  NeverSentTwice
  ReconciledOnChain
  NoFillLost
  FrozenOnce
PROPERTIES
  InclusionRecognised
  FillsScanned
