SPECIFICATION FairSpec
CONSTANTS
    s1 = s1
    s2 = s2
    w1 = w1
    w2 = w2
    Sources <- WebOnly
    Scraper <- OneScraper
    Worker <- OneWorker
    MaxConcurrent = 1
    MaxRuns = 2
    MaxRequests = 0
    MaxFaults = 0
PROPERTY QueuedIsTakenUp
CHECK_DEADLOCK FALSE
