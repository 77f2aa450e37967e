\* One process pulls and resolves, and keeps the local side; no forget, no crash.
CONSTANTS
    p1 = p1
    p2 = p2
    a = a
    b = b
    i1 = i1
    Pullers = {p1}
    Resolvers = {p1}
    Props = {a, b}
    FirstProps = a
    Intents = {i1}
    Choices = {"keep-local"}
    NoRow = NoRow
    NoBase = NoBase
    MaxEdits = 4
    MaxForgets = 0
    MaxCrashes = 0
SPECIFICATION Spec
PROPERTY NoSilentFlip
