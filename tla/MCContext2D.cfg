SPECIFICATION Spec
CONSTANTS
  s1 = s1
  s2 = s2
  Surfaces = {s1, s2}
  Extra = {s2}
  Contexts = {c1}
  Chunks = {k1}
  Wired = {w1}
  GmrIds = {g1}
  StreamIds = {v1}
  SurfaceIds = {1, 2, 3}
  NoId = NoId
  Setups <- MCSetups
  MaxQueue = 2
INVARIANTS
  NoStrayDMA
  ResourcesAccounted
  MasterCounted
  MapsCurrent
PROPERTIES
  WriteLockWaits
