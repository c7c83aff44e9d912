SPECIFICATION Spec
CONSTANTS
    Add = {a1, a2}
    Hash = {x}
    Remover = {u1, loop}
    Loop = loop
    Poller = {}
    MaxAge = 0
    Readds = FALSE
    Disconnects = FALSE
    NoTorrent = NoTorrent
    NoId = NoId
    Never = Never
    MaxFaults = 0
    MaxId = 2
    MaxNow = 2
    MaxRestarts = 1
CHECK_DEADLOCK FALSE
PROPERTIES
    ExpiryNotEarly
