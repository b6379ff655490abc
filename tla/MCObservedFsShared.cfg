CONSTANTS
  c1 = c1  c2 = c2  s1 = s1  s2 = s2  s3 = s3
  v = v  w = w
  p = p  q = q
  None = None
  Cameras = {c1, c2}
  Sessions = {s1, s2, s3}
  CameraOf <- Reconnecting
  Names = {v, w}
  Phys = {p, q}
  MaxCalls = 2
SPECIFICATION Spec
SYMMETRY Symmetry
CHECK_DEADLOCK FALSE
INVARIANTS
  TypeOK
  CamerasIsolated
  MappingInjective
  NoOrphan
  OwnedOnce
