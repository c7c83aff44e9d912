SPECIFICATION Spec
CONSTANTS
    Name = {admin, bob}
    Handler = {h1, h2}
    Code = {c}
    MaxUses = 1
    AdminName = admin
    Recoveries = TRUE
    BlankCrashes = FALSE
    NoUser = NoUser
    NoInvite = NoInvite
    NoSnap = NoSnap
    Empty = Empty
    Torn = Torn
    MaxFaults = 1
    MaxRestarts = 1
SYMMETRY Symmetry
INVARIANTS
    AdminRemains
    SetupReachable
    UsesCounted
    OveruseBounded
PROPERTIES
    RoleKept
    DeletedInviteGone
