CONSTANTS
  Plans = {p, q}
  None = none
  MAX_BACKUPS = 3
  MaxTxs = 2
  MaxFaults = 1
  MaxMisread = 1
  MaxRestores = 0
SPECIFICATION RkSpec
INVARIANT
  OneInFlight
