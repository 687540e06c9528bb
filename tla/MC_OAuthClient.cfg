SPECIFICATION Spec
CONSTANTS
  Pages = {p1, p2}
  Requesters = {p1}
  MaxSessions = 2
  MaxRequests = 2
  Failing = {p1}
  Managers = {p2}
INVARIANTS HandleIsBound
  
CHECK_DEADLOCK FALSE
