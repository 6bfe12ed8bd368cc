SPECIFICATION Spec
CONSTANTS
    None = None
    RotatedFile = RotatedFile
    MaxPending = 2
    Servers <- MCServers
    Commands <- MCCommands
    ModeSets <- MCModeSets
INVARIANTS
    AutoStopResets
CHECK_DEADLOCK FALSE
