SPECIFICATION LiveSpec
CONSTANTS
    Callers = {c1, c2, c3}
    Hosts = {h1, h2}
    NoHost = NoHost
    GlobalInterval = 2
    GlobalBurst = 1
    HostInterval = 3
    HostBurst = 1
INVARIANTS
    OutboundBounded
    WaitsSuffice
PROPERTY
    KeepsSending
