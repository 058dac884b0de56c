SPECIFICATION Spec
CONSTANTS
    Starts = 2
    q1 = q1
    q2 = q2
    SlotOrder <- MCSlotOrder
    TransferSlot = t1
    Items = 2
    Retries = 1
    LibraryLimit = 3
INVARIANTS
    TypeOK
    StopWithinOneQuery
    ReportsMatchCrm
    LookupsApart
PROPERTIES
    ClosingsTakeFreeSlots
    LivesAsPromised
    EveryJobEnds
