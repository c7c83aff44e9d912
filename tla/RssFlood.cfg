SPECIFICATION Spec
CONSTANTS
    Link = {a}
    Url = {u}
    Wanted = {a}
    Handler = {h}
    Loop = loop
    MaxSeen = 1
    ErrorPages = TRUE
    NoFeed = NoFeed
    NoSnap = NoSnap
    Empty = Empty
    Torn = Torn
    MaxFeeds = 2
    MaxRestarts = 0
INVARIANT NoBacklog
