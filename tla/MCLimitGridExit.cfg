CONSTANTS
  ONE = 2
  Users = {u1, u2}
  GRID = grid
  OTHERS = others
  PairCodes = {1, 2}
  InitialCode = 1
  BatchLimits = {1, 3}
  InitialLimit = 3
  MaxEvents = 1
  Admins = {a1, a2}
  Collector = col
  None = none
  Grids <- ThreeRungs
  Pools <- PoolOf3
  MIN_PRICE = 1
  MAX_PRICE = 10
  MAX_GRID_COUNT = 3
  MAX_ORDERS_PER_RECONCILE = 2
  MAX_ACTIVE_ORDERS = 3
  KEEPER_REWARD = 1
  MINIMUM_GAS_RESERVE = 1
  UNDISCOUNTED_FEE_BPS = 5000
  MAX_UINT128 = 1000
  FeeAnswers = {0}
  MakerFees = {0, 1}
  DepositAmounts = {2}
  ShareAmounts = {3}
  GasAmounts = {1, 2}
  MaxGas = 2
  MaxOrderId = 3
  InitialAdmin = a1
  InitialTemplates <- WithFees
  Keepers = {"k1", "k2"}
  VaultCodes = {1}
  FirstOwner = u1
  MaxVaults = 2
  InitialBank <- Holdings
SPECIFICATION Spec
INVARIANT ExitKeepsRecovery
