CONSTANTS
  v1 = v1
  v2 = v2
  NoDocument = NoDocument
  Malformed = Malformed
  NoHash = NoHash
  Vals <- TwoVals
  PowerReduction = 2
  MaxValidators = 2
  HookLists <- Quiet
  InitialStaking <- Funded
  MaxHeight = 3
  AllowLists <- ListedAddrs
  Dust = {0}
  NewChainLists <- Quiet
  NewChainBlocks = 1
SPECIFICATION FairRelaunchSpec
PROPERTIES FirstBlockExecuted
