\* The bounds end a behaviour: the system itself never stops.
CONSTANTS
    w1 = w1
    w2 = w2
    daemon = daemon
    c1 = c1
    t1 = t1
    t2 = t2
    NoToken = NoToken
    CommandKinds = {"hash", "property", "relation", "lifecycle", "create"}
    Commands = {c1}
    Workers = {w1, w2, daemon}
    Tokens = {t1, t2}
    Token <- LeaseTokens
    LeaseTicks = 1
    RetryTicks = 1
    MaxAttempts = 3
    MaxFaults = 1
    MaxForgets = 1
SYMMETRY OneShotSyncs
SPECIFICATION Spec
INVARIANTS
    TypeOK
    OneWorkerPerAttempt
    SettledHasEvidence
    CompactionFindsNoRun
PROPERTIES
    WritesAreFenced
    SupersededReportsIgnored
    SettledIsFinal
    ImplementsLifecycle
CHECK_DEADLOCK FALSE
