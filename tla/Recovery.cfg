\* Liveness: one operation, new or left to be refunded, whose draw may fail if it is
\* for the second request; a handler that may vanish, two recovery workers.
SPECIFICATION FairSpec
CONSTANTS
  h1 = h1
  r1 = r1
  r2 = r2
  g1 = g1
  g2 = g2
  None = None
  Keys = {k1}
  Hashes = {h1, h2}
  Releases = {r1}
  Groups = {g1}
  GroupOf <- OneGroup
  Barren <- Unstocked
  Clients = {c1}
  Recoverers = {v1, v2}
  MaxAttempts = 1
  MaxFunds = 1
  InitRows <- NewOrRefund
  Faults <- Punctual
INVARIANTS
  FailedIsUnpaid
  RefusalInvariant
PROPERTIES
  EventuallySettled
