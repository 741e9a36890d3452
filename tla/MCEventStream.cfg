SPECIFICATION MCSpec
CONSTANTS
    p1 = p1
    p2 = p2
    p3 = p3
    Pids = {p1, p2, p3}
    MaxTracked = 3
    AgentNsLevel = 1
    RingCap = 2
    Files = {"ls", ""}
    Dests = {"web"}
    Chars = {"a", "b", "c", "d", "e", "f", "g", "h", "i"}
    Argvs <- MCArgvs
    Unreadable = unreadable
    Null = null
    Junk = junk
    ArgSize = 4
    CommandSize = 16
    LastStart = 12
INVARIANTS
    EventTypeOK
    OutputIsOwn
    TreeTellsOwnLife
    SteadyPidsListed
PROPERTIES
    TrackingUndisturbed
    ListingEnds
CHECK_DEADLOCK FALSE
