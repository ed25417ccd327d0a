\* Two operations that draw in one pity group, and a wallet for none, one or
\* both of them; leases outlive the work.
SPECIFICATION Spec
CONSTANTS
  h1 = h1
  r1 = r1
  r2 = r2
  g1 = g1
  g2 = g2
  None = None
  Keys = {k1, k2}
  Hashes = {h1}
  Releases = {r1}
  Groups = {g1}
  GroupOf <- OneGroup
  Barren <- Unstocked
  Clients = {c1}
  Recoverers = {v1}
  MaxAttempts = 2
  MaxFunds = 2
  InitRows <- NewTable
  Faults <- Punctual
SYMMETRY KeysAlike
INVARIANTS
  TypeOK
  PityChain
  FailedIsUnpaid
PROPERTIES
  PromiseKept
