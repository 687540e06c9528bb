SPECIFICATION Spec
CONSTANTS
  Handles = {h1, h2}
  Chains = {c1}
  NoChain = NoChain
  Bindings = {b1}
  Ops = {o1, o2}
  Uninstalls = {u1}
  Hashes = {x1}
  NonceSpan = 2
  MaxHeight = 3
  MaxForeign = 1
  MaxNow = 1
  Configured <- AllConfigured
SYMMETRY Symmetry
CONSTRAINT OneComplication
INVARIANTS InstalledIsTracked RevokedIsFinal
 
CHECK_DEADLOCK FALSE
