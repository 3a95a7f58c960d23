SPECIFICATION Spec
CONSTANTS
    Queries = {q1, q2, q3}
    Refreshers = {r1}
    Keys = {k1, k2}
    NoTask = NoTask
    MaxInflight = 1
    CurrentThread = FALSE
    MayCancel = TRUE
SYMMETRY Symmetry
INVARIANTS
    SlotHolderAtWork
    SingleFetch
