\* One forget, one fault.
CONSTANTS
    w1 = w1
    w2 = w2
    daemon = daemon
    c1 = c1
    t1 = t1
    t2 = t2
    NoToken = NoToken
    CommandKinds = {"hash", "property", "relation", "lifecycle", "create"}
    Commands = {c1}
    Workers = {w1, w2}
    Tokens = {t1, t2}
    Token <- LeaseTokens
    LeaseTicks = 1
    RetryTicks = 1
    MaxAttempts = 3
    MaxFaults = 1
    MaxForgets = 1
SPECIFICATION Spec
PROPERTY ForgottenPagesAreLeftAlone
CHECK_DEADLOCK FALSE
