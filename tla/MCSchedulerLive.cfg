CONSTANTS
  Jobs = {"s", "q"}
  Items = {"s", "q"}
  JobOf <- OneJobEach
  KindOf <- KindByName
  MaxAttempts <- Attempts
  Owners = {"hk:1"}
  NoOwner = "nobody"
  Nodes = {"hk"}
  NodeOf <- NodeBySlot
  Takes <- QuerySlots
  NoItem = "none"
  MaxExpiries = 2
  MaxStalls = 1
  MaxCrashes = 1
  MaxFaults = 0

SPECIFICATION FairSpec

PROPERTIES
  EveryItemSettles

INVARIANTS
  RecordsMatchCrm
