\* One transcript with a character of three bytes.
CONSTANTS
    codex = codex
    kept = kept
    lengthy = lengthy
    accented = accented
    broken = broken
    claude = claude
    other = other
    opencode = opencode
    r1 = r1
    r2 = r2
    r3 = r3
    r4 = r4
    q1 = q1
    q2 = q2
    long = long
    wide = wide
    bad = bad
    NL = NL
    NoHead = NoHead
    Torn = Torn
    Records = {r1, r2, r3, r4, q1, q2, long, wide, bad}
    Malformed = {bad}
    Width <- RecordWidths
    Flushes = {2, 3, 4, 5, 6, 8, 9}
    HeadSample = 3
    RowIds <- MessageAndParts
    Place <- LocaleOrder
    Continuation <- ThreeBytes
    InitialReadMax = 100
    JsonlSources = {codex}
    RowSources = {opencode}
    Watched = {{codex}}
    Plans <- AppendedTo
    MaxTime = 1
    MaxUpdates = 0
    MaxCrashes = 0
SPECIFICATION Spec
INVARIANT CursorsAreStable
