CONSTANTS
  Plans = {p, q}
  None = none
  MAX_BACKUPS = 0
  MaxTxs = 3
  MaxFaults = 3
SPECIFICATION FairSpec
INVARIANTS
  OneInFlight
  UnresolvedIsSaved
PROPERTIES
  RejectedPlansWait
  FinalIsResolved
