SPECIFICATION Spec
CONSTANTS
    Clients = {a, b}
    a = a
    b = b
    MaxConv = 2
    AwaitLimit = 0
    Calls = {"serverDisconnect", "stopServer"}
    Timers = {"connect", "recv"}
    Duplicates = TRUE
    Losable = {}
    MaxLost = 0
SYMMETRY Symmetry
INVARIANTS ManagerInv Agreement OneSocketPerAddress
PROPERTIES FreedWhenQuiet
