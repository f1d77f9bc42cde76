CONSTANTS
  bad = bad
  MaxSize = 3
  Sizes = {0, 2, 3}
  StakeLists <- Stakes
  NotANumber = bad
  Balance = 5
  DefaultStake = 1
  MaxRuns = 3
SPECIFICATION Spec
INVARIANTS SuccessIsLaunchable StatesDoNotDiffer FailsOnlyFor PortsDistinct
CHECK_DEADLOCK FALSE
