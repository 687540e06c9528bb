SPECIFICATION Spec
CONSTANTS
  b1 = b1
  b2 = b2
  k1 = k1
  k2 = k2
  p1 = p1
  p2 = p2
  Ids = {b1, b2}
  Contexts = {b2}
  Calls = {k1, k2}
  CallsOf <- MixedCalls
  Callers = {p1, p2}
  Senders = {p1, p2}
  None = None
  MaxSeq = 0
  Lease = 1
  Lifetime = 1
  ContextLife = 1
  Confirmer = TRUE
  MaxNow = 2
CONSTRAINT DifferentCallsBound
SYMMETRY Symmetry
INVARIANTS StoredIsReadable SentIsBound AnswerIsTrue SentWasAdmitted
PROPERTIES HistoryIsCompatible
CHECK_DEADLOCK FALSE
