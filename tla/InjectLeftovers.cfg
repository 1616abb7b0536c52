SPECIFICATION Spec
CONSTANTS
  Key <- SmallKey
  Scenarios <- LeftoverScenarios
  MaxPasses = 16
  PoolSlack = 32
  PoolCap = 800
INVARIANT LeftoversWereTried
