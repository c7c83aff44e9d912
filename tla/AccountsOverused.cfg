SPECIFICATION Spec
CONSTANTS
    Name = {admin, bob, carol}
    Handler = {h1, h2}
    Code = {c}
    MaxUses = 1
    AdminName = admin
    Recoveries = FALSE
    BlankCrashes = FALSE
    NoUser = NoUser
    NoInvite = NoInvite
    NoSnap = NoSnap
    Empty = Empty
    Torn = Torn
    MaxFaults = 0
    MaxRestarts = 1
SYMMETRY Symmetry
INVARIANTS
    UsesKept
