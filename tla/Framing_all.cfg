SPECIFICATION FairSpec
CONSTANTS
    Sends <- ClientSends
    Sizes = {1, 2, 3}
    MaxLen = 3
    WriteMax = 4
    ReadMax = 6
    MaxCount = 2
    TicksPerCheck = 2
    Networks = {"prompt", "slow"}
    MaxDrift = 1
    MaxWire = 2
INVARIANTS InOrder DropExplained ClientProbes
PROPERTIES SilentPeerDropped
CHECK_DEADLOCK FALSE
