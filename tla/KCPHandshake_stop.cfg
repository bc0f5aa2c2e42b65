SPECIFICATION FairSpec
CONSTANTS
    Clients = {a}
    a = a
    MaxConv = 1
    AwaitLimit = 1
    Calls = {"stopServer", "clientDisconnect"}
    Timers = {"connect", "recv"}
    Duplicates = FALSE
    Losable = {}
    MaxLost = 0
PROPERTIES StopFinishes AwaitResolved
