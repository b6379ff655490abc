CONSTANTS
  N = 2
  Chunks = 1
SPECIFICATION Spec
INVARIANT
  URLIsServed
