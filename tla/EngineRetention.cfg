SPECIFICATION FairSpec
CONSTANTS
    Add = {a1, a2}
    Hash = {x, y}
    Remover = {u1, loop}
    Loop = loop
    Poller = {}
    MaxAge = 0
    Readds = FALSE
    Disconnects = TRUE
    NoTorrent = NoTorrent
    NoId = NoId
    Never = Never
    MaxFaults = 1
    MaxId = 2
    MaxNow = 1
    MaxRestarts = 0
CHECK_DEADLOCK FALSE
PROPERTIES
    ExpiryNotEarly
    ExpiredRemoved
    AddsSettle
