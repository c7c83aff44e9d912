SPECIFICATION Spec
CONSTANTS
    u1 = u1
    u2 = u2
    n1 = n1
    n2 = n2
    Owner = {alice}
    Url = {u1}
    Name = {n1}
    NameOf <- OneUrl
    Handler = {h1, h2}
    Limit = 1
    MaxAge = 0
    DeleteModes = {TRUE}
    DiskFaults = FALSE
    NoItem = NoItem
    NoFile = NoFile
    Empty = Empty
    Torn = Torn
    MaxIds = 2
    MaxAdds = 2
    MaxNow = 0
    MaxRestarts = 0
    MaxEvents = 2
SYMMETRY Symmetry
INVARIANTS
    WithinLimit
