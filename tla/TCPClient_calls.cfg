SPECIFICATION Spec
CONSTANTS
    SessionIDs = {s1}
    NoSession = NoSession
    s1 = s1
    Calls = {"connect", "disconnect", "removeSession", "send", "setAutoReconnect", "setAutoReconnectBySessionID", "closeClient", "delete"}
    Outcomes = {"connected", "refused", "timedout"}
    MaxConnects = 2
    MaxOps = 1
    MaxMsgs = 1
INVARIANTS ClientInv NoDanglingMessage RemovedOnceAndLast ExitLoopLast
PROPERTIES FreedWhenQuiet OrphanedByFailedConnect ContractSpec
