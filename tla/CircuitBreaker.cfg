SPECIFICATION RegistryLiveSpec
CONSTANTS
    Calls = {c1, c2, c3}
    Threshold = 2
    Cooldown = 2
    MaxSetback = 1
    IdleTtl = 3
    NoCall = NoCall
INVARIANTS
    ClosedIffBelowThreshold
    SingleFreshProbe
    HalfOpenHasProbe
    CooldownOutlivesIdle
PROPERTY
    OnlyLostProbeBlocks
