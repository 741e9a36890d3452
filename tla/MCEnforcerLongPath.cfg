SPECIFICATION Spec
CONSTANTS
    MAX_PATH_LEN = 8
    MAX_PATTERN_LEN = 4
    Tasks = {t1}
    Cpus = {c1}
    Paths <- MCPaths
    Configs <- MCOpen
    RingCap = 1
INVARIANTS
    SensitiveFilesBlocked
