\* One operation, every fault: two handlers and a recovery worker, one key used
\* for two requests, a release that moves one banner to another pity group and
\* takes the other off; the operation is new, or left in some state by an older
\* engine.
SPECIFICATION Spec
CONSTANTS
  h1 = h1
  r1 = r1
  r2 = r2
  g1 = g1
  g2 = g2
  None = None
  Keys = {k1}
  Hashes = {h1, h2}
  Releases = {r1, r2}
  Groups = {g1, g2}
  GroupOf <- TwoGroups
  Barren <- Unstocked
  Clients = {c1, c2}
  Recoverers = {v1}
  MaxAttempts = 1
  MaxFunds = 1
  InitRows <- AnyTable
  Faults <- FaultKinds
SYMMETRY HandlersAlike
INVARIANTS
  OneEntryPerOperation
  CommittedIsPaid
  PaymentInvariant
  EvidenceInvariant
  OneResultPerEvent
  SucceededIsApplied
  AnswersAreDurable
PROPERTIES
  ContextFrozen
  StaleOwnerIsFenced
  EvidenceIsStable
  NothingIsStranded
  LogKept
