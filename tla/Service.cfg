SPECIFICATION LiveSpec
CONSTANTS
    h1 = h1
    h2 = h2
    s1 = s1
    s2 = s2
    Tasks = {h1, h2}
    Handlers = {h1, h2}
    Scrapers = {s1, s2}
    Callers <- MCCallers
    Launches <- MCLaunches
    NoLaunch = NoLaunch
    NoEntry = NoEntry
    Wrong = Wrong
    Nothing = Nothing
    Exported = {"stale"}
    MaxExported = 2
    Ttls = {1}
    NegativeTtl = 1
    StaleShare = 1
    StaleMin = 1
    StaleMax = 1
    MaxFlight = 1
    Skew = 1
    MaxAge = 4
    MaxCount = 1
CHECK_DEADLOCK FALSE
INVARIANTS
    NeverServedTooOld
    ScrapesExact
    AcceptedConfigStarts
PROPERTIES
    ShutdownCompletes
