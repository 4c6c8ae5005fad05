SPECIFICATION Spec
CONSTANTS
    MaxArcOctets = 2
    CerSize = 3
    Values <- MCValues
    Wires <- MCWires
CHECK_DEADLOCK FALSE
INVARIANTS
    FragmentsFill
    ArcLimitHolds
PROPERTIES
    ContentsAreCarried
    OneSpelling
    MomentsAreKept
