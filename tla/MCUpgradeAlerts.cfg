CONSTANTS
  a = a
  b = b
  i1 = i1
  i2 = i2
  Nil = Nil
  Names <- TwoNames
  Infos <- TwoInfos
  Binaries <- OldAndNew
  SkipHeights = {3}
  Webhook = TRUE
  MaxAttempts = 2
  MaxHeight = 4
  MaxSchedules = 2
  MaxRestarts = 2
SPECIFICATION FairSpec
INVARIANTS PendingIsAnnounced AnnouncedSparingly HaltIsAnnounced HaltAlertNotDropped
PROPERTIES NotifyEnds
