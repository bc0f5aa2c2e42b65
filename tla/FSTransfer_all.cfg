SPECIFICATION FairSpec
CONSTANTS
    Calls = {1, 2, 3}
    Telling <- StartTold
    Totals = {0, 3}
    Before <- OtherFiles
    MaxExecuting = 2
    MaxDrops = 1
INVARIANTS TaskForMessage
PROPERTIES SuccessIntact FinishesUnlessCut
CHECK_DEADLOCK FALSE
