SPECIFICATION Spec
CONSTANTS
    a = a
    b = b
    Peers <- TwoPeers
    Calls <- BothCall
    MaxCalls = 1
    MaxHangups = 1
    MaxStops = 1
    MaxTry = 0
    MaxNoResponse = 0
    MaxHello = 1
    MaxNet = 2
SYMMETRY Symmetry
INVARIANTS ConnectedHasKcp OpenIsReal ServedHasKcp
CHECK_DEADLOCK FALSE
