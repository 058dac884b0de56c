CONSTANTS
  c1 = c1
  c2 = c2
  p = p
  q = q
  a = a
  b = b
  m = m
  n = n
  d = d
  e = e
  Admin = Admin
  NoName = NoName
  Clients <- TwoClients
  Prefixes <- TwoPrefixes
  Ids <- ThreeIds
  Names <- ThreeNames
  Dealers <- TwoDealers
  MaxShown = 2
  MaxHidden = 1
  MaxEdits = 3

SYMMETRY Interchangeable

SPECIFICATION Spec

INVARIANTS
  TypeOK
  AccountsSound

PROPERTIES
  FreshReplacementsKeepRows
  HiddenReappearsOnPurpose
