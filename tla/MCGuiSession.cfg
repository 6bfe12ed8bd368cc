SPECIFICATION Spec
CONSTANTS
    None = None
    RotatedFile = RotatedFile
    MaxPending = 2
    Servers <- MCServers
    Commands <- MCCommands
    ModeSets <- MCModeSets
INVARIANTS
    Stoppable
    SessionAgrees
    PageAgrees
PROPERTIES
    StopsReturn
    StraysEnd
    DeafServersEnd
CHECK_DEADLOCK FALSE
