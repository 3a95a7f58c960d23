SPECIFICATION Spec
CONSTANTS
    Questions <- MCQuestions
    Locations <- MCLocations
    ZoneAddresses <- MCZone
    ErrorStatuses = {403, 404, 429, 500, 501, 503}
    Bodies <- MCBodies
    NoBody = NoBody
    Wide = 4
    Documents <- MCDocuments
    NoUrl = NoUrl
    NoServer = NoServer
    NoQuestion = NoQuestion
    NoDocument = NoDocument
    Bits = 2
    MaxRedirects = 2
    MaxBody = 3
    MaxFile = 2
    FileBuffer = 1
    SmallBuffer = 1
    Mirrors <- MCMirrors
    MaxChunk = 2
    MaxArray = 2
    MaxFields = 2
    MaxDepth = 2
    MaxEntities = 1
    MaxLinks = 0
    MaxEvents = 2
CHECK_DEADLOCK FALSE
INVARIANTS
    RightServer
    ReachesOnlyPublic
    WireBounded
    WalkDecides
    Normalised
    ErrorsAgree
PROPERTIES
    EachNodeOnce
    RequestEnds
