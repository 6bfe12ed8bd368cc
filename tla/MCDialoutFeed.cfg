SPECIFICATION FeedSpec
CONSTANTS
    c1 = c1
    c2 = c2
    p1 = p1
    p2 = p2
    NoChunk = NoChunk
    NodeMod = 8
    Clients <- MCOneClient
    Paths <- MCPaths
    Totals <- MCTotals
    Bodies <- MCBodies
    Configs <- MCConfigs
    ValidJson <- MCValidJson
    MaxMessages = 20
    MaxConnects = 2
    Plan <- MCPlan
    FirstNode <- MCFirstNode
    MaxInFlight <- MCInFlight
    MaxWire = 2
INVARIANTS
    NoCompleteHeld
    NoResidue
PROPERTIES
    ImplementsMessageFeed
    NoneStaysUnshown
CHECK_DEADLOCK FALSE
