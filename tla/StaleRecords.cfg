SPECIFICATION Spec
CONSTANTS
    Scripts <- EarlyOnly
    Steps <- AllSteps
    Bags = {"rows", "links"}
    Items = {"item"}
    Pages = 1
INVARIANT PersistedIsJudged
CHECK_DEADLOCK FALSE
