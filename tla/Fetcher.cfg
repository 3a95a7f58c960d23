SPECIFICATION LiveSpec
CONSTANTS
    Calls = {c1, c2}
    Others = {o1}
    Outcomes <- MCOutcomes
    MaxAttempts = 3
    InitialBackoff = 1
    MaxBackoff = 2
    RetryAfterMax = 3
    HostLimit = 1
    GlobalLimit = 1
    MaxCancels = 1
    Threshold = 1
    Cooldown = 1
    MaxSetback = 0
    NoCall = NoCall
INVARIANTS
    PermitsMatchPlace
    RetryBudget
PROPERTIES
    BreakerProtocol
    CallsEnd
