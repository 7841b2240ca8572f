SPECIFICATION Spec
CONSTANTS
    j1 = j1
    j2 = j2
    Base = Base
    Job <- OneJob
    MaxWeb = 0
    MaxMcp = 1
    MaxFaults = 0
PROPERTY ApprovedIsExecuted
CHECK_DEADLOCK FALSE
