SPECIFICATION Spec
CONSTANTS
    Sends <- ClientSends
    Sizes = {1, 2, 3}
    MaxLen = 3
    WriteMax = 4
    ReadMax = 6
    MaxCount = 1
    TicksPerCheck = 2
    Networks = {"prompt", "slow"}
    MaxDrift = 1
    MaxWire = 0
INVARIANTS DataAccepted
CHECK_DEADLOCK FALSE
