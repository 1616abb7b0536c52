SPECIFICATION Spec
CONSTANTS
  Key <- LargeKey
  Scenarios <- LargeScenarios
  MaxPasses = 16
  PoolSlack = 32
  PoolCap = 800
INVARIANT FullPoolSuffices
