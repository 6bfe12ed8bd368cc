SPECIFICATION Spec
CONSTANTS
    v4 = v4
    v6 = v6
    Sockets <- MCSockets
    FirstWords <- MCFirstWords
    Lengths <- MCLengths
    Modes <- MCModes
    MaxDatagrams = 4
SYMMETRY MCSymmetry
INVARIANTS
    TypeOK
    SegmentsInOrder
    EndsAtLast
    SlicesInBounds
CHECK_DEADLOCK FALSE
