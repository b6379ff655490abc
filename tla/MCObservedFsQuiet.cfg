CONSTANTS
  c1 = c1  c2 = c2  s1 = s1  s2 = s2  s3 = s3
  v = v  w = w
  p = p  q = q  r = r
  None = None
  Cameras = {c1}
  Sessions = {s1, s2}
  CameraOf <- Reconnecting
  Names = {v, w}
  Phys = {p, q, r}
  MaxCalls = 2
SPECIFICATION Spec
SYMMETRY PhysSymmetry
CHECK_DEADLOCK FALSE
INVARIANT
  HandedOverQuiet
