SPECIFICATION Spec
CONSTANTS
    User = {u1, u2}
    Request = {r1, r2}
    Size = {0, 1, 3}
    Asked <- Headers
    Blank = Blank
    Bad = Bad
    NoHeader = NoHeader
    Whole = Whole
    NoAnswer = NoAnswer
    NoSnap = NoSnap
    Torn = Torn
    MaxServed = 2
    MaxFaults = 2
    MaxRestarts = 2
INVARIANT ChargedIsSent
