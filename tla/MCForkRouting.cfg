CONSTANTS
  ClFiles <- AllClFiles
  ElFiles <- AllElFiles
  ElGenesis <- PragueGenesis
  Unset = Unset
  NoPath = NoPath
  BadFile = BadFile
  Down = Down
  MaxTime = 5
  MaxReloads = 2
SPECIFICATION FairForkSpec
CHECK_DEADLOCK FALSE
INVARIANTS RefusedOnlyIfMisaligned FetchedIsSendable
PROPERTIES ResumesWhenAligned
