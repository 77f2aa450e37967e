\* Page creations only.
CONSTANTS
    w1 = w1
    w2 = w2
    daemon = daemon
    c1 = c1
    t1 = t1
    t2 = t2
    NoToken = NoToken
    CommandKinds = {"create"}
    Commands = {c1}
    Workers = {w1, w2}
    Tokens = {t1, t2}
    Token <- LeaseTokens
    LeaseTicks = 1
    RetryTicks = 1
    MaxAttempts = 3
    MaxFaults = 1
    MaxForgets = 0
SPECIFICATION Spec
INVARIANT OnePagePerCreate
CHECK_DEADLOCK FALSE
