SPECIFICATION Spec
CONSTANTS
    u1 = u1
    u2 = u2
    n1 = n1
    n2 = n2
    Owner = {alice}
    Url = {u1, u2}
    Name = {n1}
    NameOf <- OneName
    Handler = {h1}
    Limit = 0
    MaxAge = 0
    DeleteModes = {TRUE}
    DiskFaults = FALSE
    NoItem = NoItem
    NoFile = NoFile
    Empty = Empty
    Torn = Torn
    MaxIds = 1
    MaxAdds = 2
    MaxNow = 0
    MaxRestarts = 2
    MaxEvents = 2
INVARIANTS
    RestoredComplete
