CONSTANTS
  Users = {u1}
  Admin = adm
  Keeper = kpr
  Collector = col
  None = none
  ONE = 1
  LOCKED_INITIAL_SHARES = 1
  UNDISCOUNTED_FEE_BPS = 5000
  NOW = 1
  MaxTxs = 3
  MaxHooks = 1
  Markets <- LpMarkets
  Returns <- LpReturns
  PairCodes = {1, 2}
  LiquidityCodes = {1, 2}
  FeeAnswers = {0, 20000}
  LpCalls <- HookAdminLpCalls
  KeeperCalls <- AdminKeeperCalls
  AdminCalls <- AdminAdminCalls
  HookCalls <- HookHookCalls
  InitialRisk <- HookRisk
  InitialMinimum = 2
  InitialTokens = 9
  InitialVault <- LpVault
  ProxyMinorVersions = {1, 2}
SPECIFICATION Spec
INVARIANTS
  SettledBetweenTransactions
  DepositSparesIncumbents
  RebalanceDrawBounded
  FeeNeverOverclaims
  ProxyKeepsNothing
  PauseHolds
  StaleBindingHasNoCustody
PROPERTY ExitAlwaysOpen
