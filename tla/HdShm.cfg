CONSTANTS
    Host = {h1, h2}
    Hd = {}
    HostTries = 0
    HdTries = 2
    Ids = {a, b, x}
    DmaIds = {x}
    NoId = NoId
    NEntries = 2
    NPages = 5
    RootPages = 2
    Sizes = {1, 2}
    DmaPhys = {9}
    NSlots = 2
    MaxCalls = 4
SPECIFICATION Spec
INVARIANTS TypeOK AreasDisjoint MappedPagesSafe UsageCounts
PROPERTY DestroyedUnmapped
CONSTRAINT Apart
SYMMETRY Alike
CHECK_DEADLOCK FALSE
