CONSTANTS
  n1 = n1
  n2 = n2
  h0 = h0
  h1 = h1
  h2 = h2
  h3 = h3
  h4 = h4
  Hash <- Hashes4
  GenesisHash = h0
  NoHash = NoHash
  Nil = Nil
  AncestorFcu = "skip"
  Nodes <- TwoNodes
  Quorums <- QuorumsOfTwo
  Config <- BlockTimes
  MaxBlobsPerBlock = 1
  MaxUnknownPayload = 1
  Blobs = {0}
  ForeignVerdicts = {TRUE, FALSE}
  ForeignShapes <- Shapes
  ElMayLag = TRUE
  MaxHeight = 4
  MaxTime = 0
  MaxFaults = 1
  MaxLate = 0
  Probed <- NoNodes
SPECIFICATION Spec
SYMMETRY HashSymmetry
INVARIANTS Agreement
PROPERTIES OneChain
