SPECIFICATION FairSpec
CONSTANTS
  a = a
  b = b
  c = c
  r1 = r1
  r2 = r2
  NoId = NoId
  Ids = {a}
  Runners = {r1}
  Nonce <- MCNonce1
  MaxRevision = 6
  Methods <- MCAbandoningMethods
  MaxBlocks = 1
PROPERTIES LaneResolved
CHECK_DEADLOCK FALSE
