\* Nine attempts are more than two faults can use up.
CONSTANTS
    w1 = w1
    w2 = w2
    daemon = daemon
    c1 = c1
    t1 = t1
    t2 = t2
    NoToken = NoToken
    CommandKinds = {"hash", "property", "lifecycle", "create"}
    Commands = {c1}
    Workers = {w1}
    Tokens = {t1, t2}
    Token <- LeaseTokens
    LeaseTicks = 1
    RetryTicks = 1
    MaxAttempts = 9
    MaxFaults = 2
    MaxForgets = 1
SPECIFICATION TimelySpec
PROPERTY PlannedCommandsRest
CHECK_DEADLOCK FALSE
