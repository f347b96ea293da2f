SPECIFICATION CollectorSpec
CONSTANTS
    None = None
    Goals <- MCGoals
    Mesh <- MCMesh
    Reachable <- MCReachable
    Leader <- R1
    Size <- MCSize
    Cap = 6
    ChunkSize = 6
    PrimeAttempts = 4
    MaxFaults = 4
INVARIANTS
    SplittingLosesNothing
    GraphShowsTheMesh
    LostSessionStopsWalk
PROPERTY
    WalkEnds
CHECK_DEADLOCK FALSE
