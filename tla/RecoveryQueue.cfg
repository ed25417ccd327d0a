\* Liveness: hopeless rows ahead of the others, a scan of one row, two builds.
SPECIFICATION FairSpec
CONSTANTS
  x1 = x1
  x2 = x2
  k1 = k1
  k2 = k2
  u = u
  w1 = w1
  w2 = w2
  None = None
  Rows = {x1, x2, k1, k2, u}
  Hopeless = {x1, x2, u}
  Arrivals = {k1, k2}
  Recoverers = {w1, w2}
  Limit = 1
  Unreadable <- TwoBuilds
  InitQueues <- Starts
PROPERTIES
  NoStarvation
