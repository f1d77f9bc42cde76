CONSTANTS
  v1 = v1
  v2 = v2
  NoDocument = NoDocument
  Malformed = Malformed
  NoHash = NoHash
  Vals <- TwoVals
  PowerReduction = 2
  MaxValidators = 2
  HookLists <- Lists
  InitialStaking <- FundedOrPhantom
  MaxHeight = 3
  AllowLists <- ListedAddrs
  Dust = {0, 1}
  NewChainLists <- NewLists
  NewChainBlocks = 2
SPECIFICATION RelaunchSpec
INVARIANTS RelaunchTypeOK PowerIndexMatches ExportPanicsOnlyFor ExportIsImportable StampedOnlyIfRemoved
           HeadSurvives
PROPERTIES OnlyRemovalHalts ReconcileRepairs
