CONSTANTS
  Jobs <- MCJobs
  Items <- MCItems
  JobOf <- MCJobOf
  Kinds = {"transfer", "query"}
  KindOf <- MCKindOf
  UnsafeKinds = {"transfer"}
  MaxAttempts <- MCMaxAttempts
  Owners = {"hk:1"}
  NoOwner = "nobody"
  MaxExpiries = 1
  Sessions = {"s1"}
  KeyOf <- SameKey

SPECIFICATION Spec

INVARIANT
  StoppedJobHasNothingWaiting
