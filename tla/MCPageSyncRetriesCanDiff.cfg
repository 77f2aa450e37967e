\* A sync of a reordered page is interrupted between the append and the removal.
CONSTANTS
    u1 = u1
    Foreign = {u1}
    Ghost = "drift"
    BatchMax = 2
    Renderings <- Shapes
    Keys <- ShapeKeys
    Hashes <- ShapeHashes
    MaxRenders = 1
    MaxUpsets = 1
SPECIFICATION Spec
INVARIANT RetriesCanDiff
