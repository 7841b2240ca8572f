SPECIFICATION FairSpec
CONSTANTS
    Scripts <- AllScripts
    Steps <- AllSteps
    Bags = {"rows", "links"}
    Items = {"item"}
    Pages = 3
INVARIANTS TypeOK RowsOfOneRung EmittedIsOnDisk ListingInOrder WalkIsCapped StatusTellsHow
PROPERTY RunIsRecorded
CHECK_DEADLOCK FALSE
