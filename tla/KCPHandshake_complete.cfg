SPECIFICATION FairSpec
CONSTANTS
    Clients = {a}
    a = a
    MaxConv = 2
    AwaitLimit = 1
    Calls = {}
    Timers = {}
    Duplicates = FALSE
    Losable = {"connect", "send_back_conv", "svr_connect"}
    MaxLost = 3
PROPERTIES HandshakeCompletes
