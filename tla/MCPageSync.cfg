\* Syncs repeat for ever.
CONSTANTS
    u1 = u1
    Foreign = {u1}
    Ghost = "drift"
    BatchMax = 2
    Renderings <- Shapes
    Keys <- ShapeKeys
    Hashes <- ShapeHashes
    MaxRenders = 2
    MaxUpsets = 1
SPECIFICATION FairSpec
INVARIANTS
    TypeOK
    OneSyncConverges
    ResyncIsSilent
    CheckpointsAreTrue
    NoGhostsKept
    SnapshotResolves
    MostIsKept
PROPERTIES
    CopiesLandFirst
    SyncsConverge
