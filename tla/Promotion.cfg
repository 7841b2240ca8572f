SPECIFICATION Spec
CONSTANTS
    j1 = j1
    j2 = j2
    Base = Base
    Job <- TwoJobs
    MaxWeb = 2
    MaxMcp = 1
    MaxFaults = 1
INVARIANTS TypeOK OnlyLetThrough AtMostOneActive DecisionMatchesVersion FileFollowsTable
CHECK_DEADLOCK FALSE
