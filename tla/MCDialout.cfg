SPECIFICATION Spec
CONSTANTS
    c1 = c1
    c2 = c2
    p1 = p1
    p2 = p2
    b1 = b1
    NoChunk = NoChunk
    NodeMod = 2
    Clients <- MCClients
    Paths <- MCPaths
    Totals <- MCTotals
    Bodies <- MCBodies
    Configs <- MCConfigs
    ValidJson <- MCValidJson
    MaxMessages = 5
    MaxConnects = 2
SYMMETRY MCSymmetry
INVARIANTS
    TypeOK
    FragmentRuns
    ArrivalsAccounted
    CountsAgree
PROPERTIES
    OldestFirst
CHECK_DEADLOCK FALSE
