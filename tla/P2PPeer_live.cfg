SPECIFICATION FairSpec
CONSTANTS
    a = a
    b = b
    Peers <- TwoPeers
    Calls <- OneCalls
    MaxCalls = 1
    MaxHangups = 0
    MaxStops = 1
    MaxTry = 1
    MaxNoResponse = 1
    MaxHello = 1
    MaxNet = 2
PROPERTIES ConnectResolves LostPeerReported
CHECK_DEADLOCK FALSE
