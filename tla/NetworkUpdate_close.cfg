SPECIFICATION UpdateFairSpec
CONSTANTS
    Books <- TwoBooks
    Networks <- OneNetwork
    MaxAttempts = 2
    NoSlot = NoSlot
    Slot = {1, 2}
PROPERTIES
    UpdateComplete
    Quiesces
