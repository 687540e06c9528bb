SPECIFICATION RecordsSpec
CONSTANTS
  Chains = {c1}
  Bindings = {b1, b2}
  Ops = {o1, o2}
  Hashes = {h1, h2}
  NonceSpan = 2
  MaxTime = 1
  ExpiresAt = 1
  MaxRevision = 11
  Blocks = {1, 2}
  Nonces = {0, 1, 2}
  Scopes = {g1}
  Txs = {t1}
  Lanes = {0}
  OpMaxTime = 1
  OpMaxRevision = 6
  Clients = {w1, w2}
  Failures = {w1}
  MaxStoreRevision = 4
  MaxAdvance = 2
SYMMETRY Symmetry
INVARIANTS RecordsParse RevokedIsProven LaneReadsAreTrue
PROPERTIES InstallationEvidenceKept OperationFateKept
CHECK_DEADLOCK FALSE
