CONSTANTS
    Handlers = {h1, h2}
    Delivery = "dapp"
    MaxRequests = 4
    MaxBlocks = 3
    MayReorg = TRUE
    Own = own
    Other = other
    Neighbour = neighbour
    Bundles <- MCBundles
    Txs = {t1, t2}
    Calls = {p1}
    MaxObservedBlocks = 3
    Hints = {"no_tx", t1, t2}
    Callers = {q1, q2}
    Public <- MCPublic
    Bundler = "b"
    Attempts = 2
    MaxWire = 5
    MaxConcurrency = 2
SPECIFICATION AccessSpec
SYMMETRY Symmetry
INVARIANTS
    AskedIsSpent
    SubmittedOnce
    
    ObservationIsTrue
    PoolIsSound
PROPERTY SignedIsFrozen
CHECK_DEADLOCK FALSE
