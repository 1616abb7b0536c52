SPECIFICATION FairSpec
CONSTANTS
  Key <- SmallKey
  Scenarios <- SmallScenarios
  MaxPasses = 3
  PoolSlack = 1
  PoolCap = 7
INVARIANTS TypeOK LoadedIsMapped AttemptsRespectDeps DryPassIsFixpoint
PROPERTY Terminates
