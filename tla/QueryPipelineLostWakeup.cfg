SPECIFICATION LiveSpec
CONSTANTS
    Queries = {q1, q2}
    Refreshers = {r1}
    Keys = {k1}
    NoTask = NoTask
    MaxInflight = 2
    CurrentThread = FALSE
    MayCancel = FALSE
PROPERTY
    QueriesEnd
CHECK_DEADLOCK FALSE
