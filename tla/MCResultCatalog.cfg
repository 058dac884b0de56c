CONSTANTS
  b1 = b1
  b2 = b2
  c1 = c1
  c2 = c2
  Barcodes <- TwoBarcodes
  Clients <- TwoClients
  Remarks = {"", "x"}
  NoRemark = ""
  Orders = {"o"}
  MaxPages = 2
  MaxEdits = 3

SYMMETRY Interchangeable

SPECIFICATION Spec

INVARIANTS
  TypeOK
  RowAfterUpload
  SettledStoresAgree

PROPERTIES
  FreshWritersKeepNotes
