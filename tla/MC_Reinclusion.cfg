SPECIFICATION FairSpec
CONSTANTS
  a = a
  b = b
  c = c
  r1 = r1
  r2 = r2
  NoId = NoId
  Ids = {a}
  Runners = {r1}
  Nonce <- MCNonce1
  MaxRevision = 4
  Methods <- MCAbandoningMethods
  MaxBlocks = 2
PROPERTIES LaneResolved
CHECK_DEADLOCK FALSE
