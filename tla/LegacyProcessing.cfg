\* Finding: a row without recovery context is never taken over.
SPECIFICATION FairSpec
CONSTANTS
  h1 = h1
  r1 = r1
  r2 = r2
  g1 = g1
  g2 = g2
  None = None
  Keys = {k1}
  Hashes = {h1}
  Releases = {r1}
  Groups = {g1}
  GroupOf <- OneGroup
  Barren <- Unstocked
  Clients = {c1}
  Recoverers = {v1}
  MaxAttempts = 1
  MaxFunds = 1
  InitRows <- LegacyProcessing
  Faults <- Punctual
PROPERTIES
  EventuallySettled
