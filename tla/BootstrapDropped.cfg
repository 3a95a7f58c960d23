SPECIFICATION LiveSpec
CONSTANTS
    Lookups = {q1, q2}
    Resources = {dns}
    Nobody = Nobody
    Orphan = Orphan
    MaxDrops = 1
PROPERTY
    EntryReleased
CHECK_DEADLOCK FALSE
