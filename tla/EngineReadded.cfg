SPECIFICATION Spec
CONSTANTS
    Add = {a1, a2}
    Hash = {x}
    Remover = {loop}
    Loop = loop
    Poller = {}
    MaxAge = 0
    Readds = TRUE
    Disconnects = FALSE
    NoTorrent = NoTorrent
    NoId = NoId
    Never = Never
    MaxFaults = 0
    MaxId = 2
    MaxNow = 2
    MaxRestarts = 0
CHECK_DEADLOCK FALSE
PROPERTIES
    ExpiryNotEarly
