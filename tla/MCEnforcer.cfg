SPECIFICATION Spec
CONSTANTS
    MAX_PATH_LEN = 8
    MAX_PATTERN_LEN = 4
    Tasks = {t1, t2}
    Cpus = {c1, c2}
    Paths <- MCPaths
    Configs <- MCConfigs
    RingCap = 1
CONSTRAINT CrowdBound
SYMMETRY TaskSymmetry
INVARIANTS
    TypeOK
    VerdictAsPromised
    EventNamesCause
PROPERTIES
    ImplementsMonitor
