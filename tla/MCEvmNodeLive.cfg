CONSTANTS
  n1 = n1
  n2 = n2
  h0 = h0
  h1 = h1
  h2 = h2
  h3 = h3
  h4 = h4
  Hash <- Hashes3
  GenesisHash = h0
  NoHash = NoHash
  Nil = Nil
  AncestorFcu = "rewind"
  Nodes <- OneNode
  Quorums <- QuorumsOfOne
  Config <- Window
  MaxBlobsPerBlock = 1
  MaxUnknownPayload = 2
  Blobs = {0, 1}
  ForeignVerdicts = {}
  ForeignShapes <- Shapes
  ElMayLag = TRUE
  MaxHeight = 3
  MaxTime = 0
  MaxFaults = 1
  MaxLate = 1
  Probed <- OneNode
SPECIFICATION LiveSpec
PROPERTIES DecidedIsCommitted ChainGrows
