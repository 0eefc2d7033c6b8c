CONSTANTS
    Host = {h1, h2}
    Hd = {}
    HostTries = 0
    HdTries = 2
    Ids = {a}
    DmaIds = {}
    NoId = NoId
    NEntries = 1
    NPages = 5
    RootPages = 2
    Sizes = {1}
    DmaPhys = {9}
    NSlots = 1
    MaxCalls = 2
SPECIFICATION Spec
INVARIANT TableLocked
CHECK_DEADLOCK FALSE
