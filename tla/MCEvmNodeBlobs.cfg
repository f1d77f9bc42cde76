CONSTANTS
  n1 = n1
  n2 = n2
  h0 = h0
  h1 = h1
  h2 = h2
  h3 = h3
  h4 = h4
  Hash <- Hashes3
  GenesisHash = h0
  NoHash = NoHash
  Nil = Nil
  AncestorFcu = "skip"
  Nodes <- OneNode
  Quorums <- QuorumsOfOne
  Config <- BlockTimes
  MaxBlobsPerBlock = 1
  MaxUnknownPayload = 2
  Blobs = {2}
  ForeignVerdicts = {}
  ForeignShapes <- Shapes
  ElMayLag = TRUE
  MaxHeight = 3
  MaxTime = 0
  MaxFaults = 0
  MaxLate = 0
  Probed <- NoNodes
SPECIFICATION FairSpec
PROPERTIES SendPayloadReturns
