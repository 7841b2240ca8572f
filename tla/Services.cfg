SPECIFICATION ServicesSpec
CONSTANTS
    Scenes = {"session", "jobs", "registry", "streams", "callers", "settings", "sinks", "engines", "readers", "functions"}
    MaxProposals = 3
    MaxTrialRows = 1
    Builds = {b1}
    Repairs = {p1}
    Imports = {i1}
    Name = {n1}
    Rungs = 2
    Cap = 2
    Overrun = 1
    ScraperCap = 1
    StopAtBudget = TRUE
    MaxVersion = 2
    MaxReviews = 1
    MaxFaults = 1
    MaxJobs = 2
    MaxStarts = 5
    Streams = {s1}
    Callers = {c1}
    MaxRuns = 2
    MaxLines = 1
    Flags = {f1}
    Boxes = {k1}
    Menus = {}
    Secrets = {k1}
    Requests = {r1, r2}
    NumRows = 3
    Preview = 2
    Sizes = {0, 2}
    MaxAttempts = 2
    SampleSize = 2
    MaxLadder = 3
    MaxHistory = 2
    MaxStored = 2
    Limit = 1
INVARIANTS PassedScriptComesBack SpendIsCapped FileIsActiveScript NewestListed ShownIsPrefix OwnRunIfAlone InForceIsSaved BuiltScriptAcceptsTrial BreakageIsKept MinorIsOfSelectorsOrMoves PageIsRead SinkTellsTruth SpendIsWhole FailureIsExplained AnswersAgree
CHECK_DEADLOCK FALSE
