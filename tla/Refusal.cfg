\* Finding: a charge is dropped when a later attempt is refused.
SPECIFICATION Spec
CONSTANTS
  h1 = h1
  r1 = r1
  r2 = r2
  g1 = g1
  g2 = g2
  None = None
  Keys = {k1}
  Hashes = {h1}
  Releases = {r1}
  Groups = {g1}
  GroupOf <- OneGroup
  Barren <- Unstocked
  Clients = {c1}
  Recoverers = {v1}
  MaxAttempts = 1
  MaxFunds = 1
  InitRows <- NewTable
  Faults <- Refusing
INVARIANTS
  FailedIsUnpaid
