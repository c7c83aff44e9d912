SPECIFICATION FairSpec
CONSTANTS
    User = {alice}
    Request = {r1}
    Cap = 2
    NoEncoder = NoEncoder
PROPERTIES
    StreamSlotFreed
