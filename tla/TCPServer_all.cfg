SPECIFICATION FairSpec
CONSTANTS
    NoSession = NoSession
    Calls = {"send", "disconnect", "stopServer", "delete"}
    MaxSessions = 2
    MaxOps = 1
    MaxMsgs = 1
INVARIANTS ServerInv NoDanglingMessage LeavesOnceAndLast NoSessionLost
PROPERTIES FreedWhenQuiet ContractSpec StopFinishes DeleteEnds
