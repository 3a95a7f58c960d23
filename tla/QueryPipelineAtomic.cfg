SPECIFICATION LiveSpec
CONSTANTS
    Queries = {q1, q2, q3}
    Refreshers = {r1, r2}
    Keys = {k1}
    NoTask = NoTask
    MaxInflight = 2
    CurrentThread = TRUE
    MayCancel = TRUE
PROPERTIES
    ImplementsSingleFlight
    QueriesEnd
