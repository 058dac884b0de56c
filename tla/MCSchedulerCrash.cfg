CONSTANTS
  Jobs = {"t"}
  Items = {"t"}
  JobOf <- OneJobEach
  KindOf <- KindByName
  MaxAttempts <- Attempts
  Owners = {"hk:1", "sg:1"}
  NoOwner = "nobody"
  Nodes = {"hk", "sg"}
  NodeOf <- NodeBySlot
  Takes <- TransferSlots
  NoItem = "none"
  MaxExpiries = 1
  MaxStalls = 0
  MaxCrashes = 1
  MaxFaults = 0

SPECIFICATION Spec

INVARIANTS
  NoDuplicateTransfer
