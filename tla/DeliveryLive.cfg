SPECIFICATION FairSpec
CONSTANTS
    r1 = r1
    t1 = t1
    t2 = t2
    Run <- OneRun
    Target <- OneTarget
    Batches = 2
    MaxAttempts = 2
    MaxTotal = 3
    Sweeper = TRUE
    MaxHand = 1
    MaxChanges = 1
    MaxFaults = 1
    MaxSends = 6
INVARIANTS SentMeansReceived RecordedAttemptsMade
PROPERTY PendingSettles
CHECK_DEADLOCK FALSE
