SPECIFICATION Spec
CONSTANTS
    Add = {a1}
    Hash = {x}
    Remover = {u1, loop}
    Loop = loop
    Poller = {}
    MaxAge = 1
    Readds = FALSE
    Disconnects = FALSE
    NoTorrent = NoTorrent
    NoId = NoId
    Never = Never
    MaxFaults = 0
    MaxId = 2
    MaxNow = 1
    MaxRestarts = 0
CHECK_DEADLOCK FALSE
INVARIANTS
    NoDeadEntries
