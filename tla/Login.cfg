SPECIFICATION Spec
CONSTANTS
    Name = {n1}
    Handler = {h1, h2}
    Token = {t1, t2}
    Challenge = {c1}
    Code = {x1}
    PerUser = 1
    MaxFails = 2
    Window = 2
    MaxTries = 2
    ChallengeTTL = 1
    PendingTTL = 1
    SessionTTL = 1
    None = None
    MaxRecorded = 5
SYMMETRY Symmetry
CHECK_DEADLOCK FALSE
INVARIANTS
    TypeOK
    FailuresBounded
    CodeOnce
    BanEvicts
PROPERTIES
    LockoutNotExtended
