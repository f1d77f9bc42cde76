CONSTANTS
  v1 = v1
  v2 = v2
  v3 = v3
  NoBlock = NoBlock
  Submitted <- UserTxs
  Foreign <- ForeignBlocks
  Validators = {v1, v2, v3}
  VotingPower <- Powers
  MaxCosmosTxs = 1
  MaxTxSize = 2
  MinimumGasPrice = 1
  PriceUnit = 2
  MaxHeight = 3
SPECIFICATION FairSpec
INVARIANTS OwnIsAccepted OnePayloadExecuted FeesArePaid
PROPERTIES PermittedIsIncluded
