SPECIFICATION ServiceSpec
CONSTANTS
    c1 = c1
    c2 = c2
    Clients <- MCClients
    Devices <- MCDevices
    Half = 4
    Totals <- MCTotals
    Sizes <- MCSizes
    Bodies <- MCBodies
    Modes <- MCModes
    Plan <- MCPlan
    WholeSize = 1
    MaxMessages = 20
    WildMessages <- MCWild
    MaxWild = 4
    MaxConnects = 2
    MaxWire = 2
    Files <- MCFiles
    Listed <- MCListed
    Imports <- MCImports
    TopLevel <- MCTopLevel
    Dashed <- MCDashed
    InSuitOam = "InSuitOam"
    Missing = Missing
    Directories <- MCDirectories
    Content <- MCContent
INVARIANTS
    ConsecutiveRuns
    DroppedByWholesOnly
    NothingCompleteKept
    DecodedAsSent
PROPERTIES
    ImplementsMessageFeed
    NoneStaysUnshown
CHECK_DEADLOCK FALSE
