CONSTANTS
  Plans = {p}
  None = none
  MAX_BACKUPS = 2
  MaxTxs = 4
  MaxFaults = 2
  MaxMisread = 1
  MaxRestores = 1
SPECIFICATION RkSpec
INVARIANTS
  InFlightPaidFor
  UnsavedPaidFor
