SPECIFICATION Spec
CONSTANTS
    u1 = u1
    u2 = u2
    n1 = n1
    n2 = n2
    Owner = {alice}
    Url = {u1, u2}
    Name = {n1}
    NameOf <- OneName
    Handler = {h1}
    Limit = 1
    MaxAge = 0
    DeleteModes = {TRUE, FALSE}
    DiskFaults = FALSE
    NoItem = NoItem
    NoFile = NoFile
    Empty = Empty
    Torn = Torn
    MaxIds = 2
    MaxAdds = 3
    MaxNow = 0
    MaxRestarts = 2
    MaxEvents = 2
INVARIANTS
    DoneServesOwn
    ErasedStaysErased
    OverrunBounded
