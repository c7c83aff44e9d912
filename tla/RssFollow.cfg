SPECIFICATION FairSpec
CONSTANTS
    Link = {a}
    Url = {u}
    Wanted = {a}
    Handler = {h}
    Loop = loop
    MaxSeen = 1
    ErrorPages = FALSE
    NoFeed = NoFeed
    NoSnap = NoSnap
    Empty = Empty
    Torn = Torn
    MaxFeeds = 2
    MaxRestarts = 1
PROPERTY NewLinksGrabbed
