SPECIFICATION RegistryLiveSpec
CONSTANTS
    Calls = {c1, c2}
    Threshold = 2
    Cooldown = 1
    MaxSetback = 0
    IdleTtl = 2
    NoCall = NoCall
PROPERTY
    KeepsAdmitting
