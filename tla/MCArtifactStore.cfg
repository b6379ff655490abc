CONSTANTS
  N = 3
  Chunks = 2
SPECIFICATION FairSpec
INVARIANTS
  NoPartialArtifact
  URLIsFirstWhole
PROPERTIES
  SuccessIsLasting
  SaveEnds
