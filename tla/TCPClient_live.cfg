SPECIFICATION FairSpec
CONSTANTS
    SessionIDs = {s1}
    NoSession = NoSession
    s1 = s1
    Calls = {"connect", "removeSession", "closeClient", "delete"}
    Outcomes = {"connected", "refused"}
    MaxConnects = 2
    MaxOps = 1
    MaxMsgs = 1
PROPERTIES CloseFinishes RemoveFinishes DeleteFinishes DeleteDeadlocks
