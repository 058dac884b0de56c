CONSTANTS
  Jobs <- MCJobs
  Items <- MCItems
  JobOf <- MCJobOf
  Kinds = {"transfer", "query"}
  KindOf <- MCKindOf
  UnsafeKinds = {"transfer"}
  MaxAttempts <- MCMaxAttempts
  Owners = {"hk:1", "sg:1"}
  NoOwner = "nobody"
  MaxExpiries = 1

SPECIFICATION Spec

INVARIANTS
  TypeOK
  LeaseIffActive
  NoReplayAfterSubmit
  AttemptsBounded

PROPERTIES
  TerminalIsForever
  StopIsFinal

