CONSTANTS
  ONE = 2
  Trader = {u1, u2}
  Governor = {gov}
  None = none
  Cl8yBalances = {0, 200}
  ONE_CL8Y = 1
  BASE_FEE_BPS = 10000
  TierCalls = {}
  BaseFeeCalls = {}
  MaxLadder = 1
  Users = {u1, u2}
  Collector = col
  Treasury = trs
  Markets <- TwoMarkets
  Returns = {3, 7, 8}
  PairCodes = {1, 2}
  DepositAmounts = {1, 8}
  ShareAmounts = {1, 8}
  ConfigCalls <- SomeConfigs
  InitialConfig <- TwoCells
  InitialTokens = 9
  UNDISCOUNTED_FEE_BPS = 5000
  MaxTxs = 3
  MaxHooks = 1
SPECIFICATION Spec
SYMMETRY Heirs
INVARIANTS
  SharesAccounted
  FeesAccountedFor
PROPERTIES
  NobodyDiluted
  FeeNeverOverclaims
  LossBounded
