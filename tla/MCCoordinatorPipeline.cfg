CONSTANTS
  e1 = e1  e2 = e2
  Events = {e1, e2}
  Files = {e1, e2}
  n1 = n1  n2 = n2
  Notifiers = {n1, n2}
  AlwaysNotifiers = {n1}
  FileOf <- OwnFile
  Concurrency = 1
  RetainFiles = FALSE
  AlwaysStore = FALSE
SPECIFICATION Spec
SYMMETRY Symmetry
INVARIANTS
  TypeOK
  PermitsBalanced
  ArtifactAvailable
  AlertJustified
  OutcomeComplete
  NoLeftovers
  LateAnalysesBounded
PROPERTIES
  LifecycleSpec
