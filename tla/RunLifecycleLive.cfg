SPECIFICATION FairSpec
CONSTANTS
    s1 = s1
    s2 = s2
    w1 = w1
    w2 = w2
    Sources <- AllSources
    Scraper <- OneScraper
    Worker <- TwoWorkers
    MaxConcurrent = 2
    MaxRuns = 2
    MaxRequests = 1
    MaxFaults = 0
PROPERTIES DispatchedIsDelivered PoolComesToRest
CHECK_DEADLOCK FALSE
