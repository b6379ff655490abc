CONSTANTS
  c1 = c1  s1 = s1  s2 = s2
  v = v  w = w
  p = p  q = q
  None = None
  Cameras = {c1}
  Sessions = {s1, s2}
  CameraOf <- OneCamera
  Names = {v, w}
  Phys = {p, q}
  Notifiers = {}
  AlwaysNotifiers = {}
  Concurrency = 1
  RetainFiles = FALSE
  AlwaysStore = FALSE
SPECIFICATION Spec
SYMMETRY Symmetry
CHECK_DEADLOCK FALSE
INVARIANTS
  HandOverReady
  FilesStay
  HandedOverQuiet
  NoMappingLeaks
PROPERTIES
  CoordinatorSpec
  ObservedFsSpec
