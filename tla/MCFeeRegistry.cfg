CONSTANTS
  ONE = 1
  Trader = {t1}
  Governor = {gov, heir}
  None = none
  Cl8yBalances = {0, 1, 2, 5, 7500}
  ONE_CL8Y = 1
  BASE_FEE_BPS = 180
  TierCalls <- FewTierCalls
  BaseFeeCalls = {0, 180, 10001}
  MaxLadder = 3
SPECIFICATION RegistrySpec
INVARIANTS
  ReservedTiersNeverApply
  MoreCl8yNeverCostsMore
