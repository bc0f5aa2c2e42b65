SPECIFICATION Spec
CONSTANTS
    t1 = t1
    t2 = t2
    h1 = h1
    h2 = h2
    Threads = {t1, t2}
    Hosts = {h1, h2}
    Ports = {1, 2}
    Addresses <- OneEach
    Calls = {"clearCache", "clearAll"}
    ClearEvery = 0
    StaleAfter = 2
    MaxNodes = 2
    MaxTime = 2
SYMMETRY Symmetry
INVARIANTS PortAsked
PROPERTIES PurgeSparesUsed
CHECK_DEADLOCK FALSE
