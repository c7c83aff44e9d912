SPECIFICATION Spec
CONSTANTS
    Handler = {h1, h2, h3}
    Config = {open, closed}
    DefaultConfig = closed
    Rate = {low}
    Unlimited = Unlimited
    Nothing = Nothing
    Torn = Torn
    MaxFaults = 0
    MaxRestarts = 1
INVARIANT FileIsTruth
