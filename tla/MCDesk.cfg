CONSTANTS
    ann = ann
    bob = bob
    c1 = c1
    c2 = c2
    Courts = {c1, c2}
    Members = {ann, bob}
    Items <- MCItems
    Stock <- MCStock
    Asks <- MCAsks
    MaxRequests = 3
    Wishes <- MCWishes
    MaxEntries = 2
    Edits <- MCEdits
    MaxEdits = 1
    None = None
SPECIFICATION FairSpec
INVARIANTS
    TypeOK
    ServedOnce
PROPERTIES
    HeldSlotKept
    StockCovers
    EveryRequestAnswered
CHECK_DEADLOCK FALSE
