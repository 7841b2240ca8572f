SPECIFICATION FairSpec
CONSTANTS
    r1 = r1
    t1 = t1
    t2 = t2
    Run <- OneRun
    Target <- OneTarget
    Batches = 1
    MaxAttempts = 1
    MaxTotal = 2
    Sweeper = FALSE
    MaxHand = 0
    MaxChanges = 1
    MaxFaults = 1
    MaxSends = 1
PROPERTY PendingSettles
CHECK_DEADLOCK FALSE
