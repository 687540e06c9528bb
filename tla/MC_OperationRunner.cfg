SPECIFICATION Spec
CONSTANTS
  a = a
  b = b
  c = c
  r1 = r1
  r2 = r2
  NoId = NoId
  Ids = {a, b}
  Runners = {r1, r2}
  Nonce <- MCNonce2
  MaxRevision = 3
  Methods <- MCAllMethods
  MaxBlocks = 2
INVARIANTS AtMostOneSend SentIsJournaled FreedLaneIsConclusive ConclusionIsTrue
PROPERTIES JournalMonotone LaneSpec
CHECK_DEADLOCK FALSE
CONSTRAINT LastBlockAlone
SYMMETRY MCSymmetry
