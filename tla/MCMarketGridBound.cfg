CONSTANTS
  ONE = 2
  Trader = {u1}
  Governor = {gov}
  None = none
  Cl8yBalances = {0}
  ONE_CL8Y = 1
  BASE_FEE_BPS = 10000
  TierCalls = {}
  BaseFeeCalls = {}
  MaxLadder = 1
  Users = {u1}
  Collector = col
  Treasury = trs
  Markets <- ThreeMarkets
  Returns = {3, 7, 8}
  PairCodes = {}
  DepositAmounts = {1, 8}
  ShareAmounts = {1, 8}
  ConfigCalls <- NoConfigs
  InitialConfig <- TwoCells
  InitialTokens = 9
  UNDISCOUNTED_FEE_BPS = 5000
  MaxTxs = 3
  MaxHooks = 0
SPECIFICATION Spec
INVARIANT LowerBoundPlansSettle
