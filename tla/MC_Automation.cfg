CONSTANTS
    w1 = w1
    w2 = w2
    Workers = {w1, w2}
    HasSetup = TRUE
    HasCancel = TRUE
    Occurrences = 1
    StartAt = 1
    Every = 1
    Grace = 1
    MaxOpenSlots = 2
    Horizon = 2
    MaxSendAttempts = 1
    MayCrash = TRUE
    MayOverrun = FALSE
SPECIFICATION Spec
SYMMETRY MCSymmetry
INVARIANTS
    
    
    JournaledRunStaysOpen
    RunsAreOrdered
    
CHECK_DEADLOCK FALSE
