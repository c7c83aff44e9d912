SPECIFICATION Spec
CONSTANTS
    Add = {a1, a2}
    Hash = {x}
    Remover = {u1, loop}
    Loop = loop
    Poller = {p1}
    MaxAge = 0
    Readds = TRUE
    Disconnects = TRUE
    NoTorrent = NoTorrent
    NoId = NoId
    Never = Never
    MaxFaults = 1
    MaxId = 2
    MaxNow = 1
    MaxRestarts = 1
SYMMETRY Symmetry
CHECK_DEADLOCK FALSE
INVARIANTS
    AddsAccountedFor
    ErrorsToldOnce
    AddedSaved
    ManagedTracked
    RemovedUnlisted
PROPERTIES
    AgeKept
