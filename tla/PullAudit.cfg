\* A pod that serves two requests at a time and is redeployed with another build;
\* two releases and a cache of two ticks.
SPECIFICATION Spec
CONSTANTS
  p1 = p1
  p2 = p2
  h1 = h1
  h2 = h2
  h3 = h3
  r1 = r1
  r2 = r2
  v1 = v1
  v2 = v2
  b1 = b1
  b2 = b2
  rng1 = rng1
  rng2 = rng2
  None = None
  Pods = {p1}
  Handlers = {h1, h2}
  PodOf <- Placement
  Releases = {r1, r2}
  Schedule <- Plan
  Versions = {v1, v2}
  Broken = {}
  TTL = 2
  Horizon = 3
  Skew = 1
  Builds = {b1, b2}
  RngOf <- Generators
  InitOps <- Unaudited
INVARIANTS
  StalenessBounded
  MismatchMeansRedeployed
