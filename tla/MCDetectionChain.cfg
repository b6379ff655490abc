CONSTANT MaxArtifact = 1
SPECIFICATION FairSpec
INVARIANTS
  FailSecure
  ClearIsAnswered
  AnalysisHasContext
  MemoryBounded
PROPERTIES
  AnalysisImplements
  AnalysisEnds
