SPECIFICATION LiveSpec
CONSTANTS
    Lookups = {q1, q2, q3}
    Resources = {dns, asn}
    Nobody = Nobody
    Orphan = Orphan
    MaxDrops = 1
INVARIANTS
    EntryHasLeader
    OneDownloadAtATime
    FollowsOneAtWork
PROPERTY
    LookupsEndOrForsaken
CHECK_DEADLOCK FALSE
