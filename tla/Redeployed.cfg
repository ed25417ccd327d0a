\* Finding: the audit metadata name a build that did not make the draw.
SPECIFICATION Spec
CONSTANTS
  p1 = p1
  p2 = p2
  h1 = h1
  h2 = h2
  h3 = h3
  r1 = r1
  r2 = r2
  v1 = v1
  v2 = v2
  b1 = b1
  b2 = b2
  rng1 = rng1
  rng2 = rng2
  None = None
  Pods = {p1}
  Handlers = {h1}
  PodOf <- Placement
  Releases = {r1, r2}
  Schedule <- Plan
  Versions = {v1, v2}
  Broken = {}
  TTL = 2
  Horizon = 1
  Skew = 0
  Builds = {b1, b2}
  RngOf <- Generators
  InitOps <- Unaudited
INVARIANTS
  BuildOnRecord
