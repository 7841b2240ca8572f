SPECIFICATION Spec
CONSTANTS
    r1 = r1
    t1 = t1
    t2 = t2
    Run <- OneRun
    Target <- TwoTargets
    Batches = 1
    MaxAttempts = 2
    MaxTotal = 4
    Sweeper = TRUE
    MaxHand = 0
    MaxChanges = 1
    MaxFaults = 1
    MaxSends = 6
INVARIANTS EveryTargetHasOutcome OnlyWhereAsked SweepKeepsLimit
CHECK_DEADLOCK FALSE
