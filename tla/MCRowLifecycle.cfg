\* A page is pulled by one process and resolved by another; both may end anywhere.
CONSTANTS
    p1 = p1
    p2 = p2
    a = a
    b = b
    i1 = i1
    Pullers = {p1}
    Resolvers = {p2}
    Props = {a, b}
    FirstProps = a
    Intents = {i1}
    Choices = {"keep-local", "keep-remote", "manual"}
    NoRow = NoRow
    NoBase = NoBase
    MaxEdits = 2
    MaxForgets = 1
    MaxCrashes = 1
SPECIFICATION FairSpec
INVARIANTS
    TypeOK
    ContradictionsAreRecorded
    ResolvingIsReasserted
PROPERTIES
    NewContentIsMirrored
