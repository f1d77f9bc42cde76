CONSTANTS
  n1 = n1
  n2 = n2
  h0 = h0
  h1 = h1
  h2 = h2
  h3 = h3
  h4 = h4
  Hash <- Hashes5
  GenesisHash = h0
  NoHash = NoHash
  Nil = Nil
  AncestorFcu = "skip"
  Nodes <- OneNode
  Quorums <- QuorumsOfOne
  Config <- Window
  MaxBlobsPerBlock = 1
  MaxUnknownPayload = 2
  Blobs = {0}
  ForeignVerdicts = {}
  ForeignShapes <- Shapes
  ElMayLag = TRUE
  MaxHeight = 5
  MaxTime = 3
  MaxFaults = 1
  MaxLate = 1
  Probed <- OneNode
SPECIFICATION Spec
SYMMETRY HashSymmetry
INVARIANTS TypeOK HeadIsDecided AheadOnlyByReplay HeadNotBehindCommit PreparedIsAccepted PreparedTimeAdvances
