SPECIFICATION FairSpec
CONSTANTS
    User = {alice, bob}
    Request = {r1, r2, r3}
    Cap = 2
    NoEncoder = NoEncoder
INVARIANTS
    SlotsExact
PROPERTIES
    ImplementsSlots
    FileSlotFreed
