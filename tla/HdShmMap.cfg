CONSTANTS
    Host = {h1}
    Hd = {}
    HostTries = 0
    HdTries = 2
    Ids = {a, b}
    DmaIds = {}
    NoId = NoId
    NEntries = 2
    NPages = 5
    RootPages = 2
    Sizes = {1}
    DmaPhys = {9}
    NSlots = 2
    MaxCalls = 6
SPECIFICATION Spec
INVARIANT OneMappingPerId
CHECK_DEADLOCK FALSE
