CONSTANTS
  Users = {u1, u2}
  Admin = adm
  Keeper = kpr
  Collector = col
  None = none
  ONE = 1
  LOCKED_INITIAL_SHARES = 1
  UNDISCOUNTED_FEE_BPS = 5000
  NOW = 1
  MaxTxs = 4
  MaxHooks = 0
  Markets <- LpMarkets
  Returns <- LpReturns
  PairCodes = {}
  LiquidityCodes = {}
  FeeAnswers = {0, 20000}
  LpCalls <- LpLpCalls
  KeeperCalls <- LpKeeperCalls
  AdminCalls = {}
  HookCalls = {}
  InitialRisk <- LpRisk
  InitialMinimum = 2
  InitialTokens = 9
  InitialVault <- LpVault
  ProxyMinorVersions = {2}
SPECIFICATION Spec
SYMMETRY Symmetry
INVARIANTS
  SharesAccounted
  WithdrawalAllOrNothing
PROPERTY KeepsSharePromise
