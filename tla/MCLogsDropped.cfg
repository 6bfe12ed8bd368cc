SPECIFICATION Spec
CONSTANTS
    p1 = p1
    p2 = p2
    None = None
    Threads = 2
    Sizes = {2}
    MaxBacklog = 1
    CounterMod = 5
    MaxLines = 3
    Prefixes <- MCPrefixes
    Covers <- MCCovers
    Configs <- MCConfigs
    Defaults <- MCDefaults
    MaxStarts = 1
    Seconds = {0, 1}
PROPERTIES
    DropsOnlyWhenFull
CHECK_DEADLOCK FALSE
