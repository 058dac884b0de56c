--------------------------- MODULE JobItemsProofs ---------------------------
(***************************************************************************)
(* Proofs about JobItems, for any jobs, items, kinds, owners, attempt      *)
(* limits and number of lost leases.                                       *)
(***************************************************************************)
EXTENDS JobItems, TLAPS

USE JobItemsAssumption DEF ItemsOf, Active, Terminal

-----------------------------------------------------------------------------
(* Every variable keeps its type: the only arithmetic is attempts + 1 and  *)
(* expiries + 1, and every status written is in the schema's CHECK.        *)

LEMMA InitType == Init => TypeOK
  BY DEF Init, TypeOK, Statuses, Leases

LEMMA StepType == TypeOK /\ [Next]_vars => TypeOK'
<1> SUFFICES ASSUME TypeOK, [Next]_vars PROVE TypeOK'
  OBVIOUS
<1> USE DEF TypeOK, Statuses, Leases
<1>1. ASSUME NEW j \in Jobs, CreateJob(j) PROVE TypeOK'
  BY <1>1 DEF CreateJob
<1>2. ASSUME NEW j \in Jobs, RequestStop(j) PROVE TypeOK'
  BY <1>2 DEF RequestStop
<1>3. ASSUME NEW i \in Items, NEW o \in Owners, ClaimItem(i, o) PROVE TypeOK'
  BY <1>3 DEF ClaimItem
<1>4. ASSUME NEW i \in Items, NEW o \in Owners, StartItem(i, o) PROVE TypeOK'
  BY <1>4 DEF StartItem
<1>5. ASSUME NEW i \in Items, NEW o \in Owners, RenewLease(i, o) PROVE TypeOK'
  BY <1>5 DEF RenewLease
<1>6. ASSUME NEW i \in Items, NEW o \in Owners, MarkSubmitted(i, o) PROVE TypeOK'
  BY <1>6 DEF MarkSubmitted
<1>7. ASSUME NEW i \in Items, NEW o \in Owners, CompleteItem(i, o) PROVE TypeOK'
  BY <1>7 DEF CompleteItem, Release
<1>8. ASSUME NEW i \in Items, NEW o \in Owners, FailItem(i, o) PROVE TypeOK'
  BY <1>8 DEF FailItem, Release, AfterFailure
<1>9. ASSUME NEW S \in SUBSET Items, RecoverExpired(S) PROVE TypeOK'
  BY <1>9 DEF RecoverExpired, AfterLoss
<1>10. ASSUME NEW i \in Items, LeaseExpires(i) PROVE TypeOK'
  BY <1>10 DEF LeaseExpires
<1>11. CASE UNCHANGED vars
  BY <1>11 DEF vars
<1> QED
  BY <1>1, <1>2, <1>3, <1>4, <1>5, <1>6, <1>7, <1>8, <1>9, <1>10, <1>11
  DEF Next, HolderStep

(* The columns keep the types and the status values of the schema.         *)
THEOREM TypeCorrect == Spec => []TypeOK
  BY InitType, StepType, PTL DEF Spec

-----------------------------------------------------------------------------
(* Owner and lease are given with the first active status and taken back   *)
(* with the last one.                                                      *)

LEMMA StepLease == TypeOK /\ LeaseIffActive /\ [Next]_vars => LeaseIffActive'
<1> SUFFICES ASSUME TypeOK, LeaseIffActive, [Next]_vars PROVE LeaseIffActive'
  OBVIOUS
<1> USE DEF TypeOK, LeaseIffActive
<1>1. ASSUME NEW j \in Jobs, CreateJob(j) PROVE LeaseIffActive'
  BY <1>1 DEF CreateJob
<1>2. ASSUME NEW j \in Jobs, RequestStop(j) PROVE LeaseIffActive'
  BY <1>2 DEF RequestStop
<1>3. ASSUME NEW i \in Items, NEW o \in Owners, ClaimItem(i, o) PROVE LeaseIffActive'
  BY <1>3 DEF ClaimItem
<1>4. ASSUME NEW i \in Items, NEW o \in Owners, StartItem(i, o) PROVE LeaseIffActive'
  BY <1>4 DEF StartItem
<1>5. ASSUME NEW i \in Items, NEW o \in Owners, RenewLease(i, o) PROVE LeaseIffActive'
  BY <1>5 DEF RenewLease, Holds
<1>6. ASSUME NEW i \in Items, NEW o \in Owners, MarkSubmitted(i, o) PROVE LeaseIffActive'
  BY <1>6 DEF MarkSubmitted
<1>7. ASSUME NEW i \in Items, NEW o \in Owners, CompleteItem(i, o) PROVE LeaseIffActive'
  BY <1>7 DEF CompleteItem, Release
<1>8. ASSUME NEW i \in Items, NEW o \in Owners, FailItem(i, o) PROVE LeaseIffActive'
  BY <1>8 DEF FailItem, Release, AfterFailure
<1>9. ASSUME NEW S \in SUBSET Items, RecoverExpired(S) PROVE LeaseIffActive'
  BY <1>9 DEF RecoverExpired, AfterLoss
<1>10. ASSUME NEW i \in Items, LeaseExpires(i) PROVE LeaseIffActive'
  BY <1>10 DEF LeaseExpires
<1>11. CASE UNCHANGED vars
  BY <1>11 DEF vars
<1> QED
  BY <1>1, <1>2, <1>3, <1>4, <1>5, <1>6, <1>7, <1>8, <1>9, <1>10, <1>11
  DEF Next, HolderStep

(* A row has an owner and a lease exactly while it is worked on: that is   *)
(* why fail_item may look at lease_owner alone.                            *)
THEOREM LeaseCorrect == Spec => []LeaseIffActive
<1>1. Init => LeaseIffActive
  BY DEF Init, LeaseIffActive
<1> QED
  BY <1>1, StepLease, TypeCorrect, PTL DEF Spec

(* Whoever owns a row by its lease_owner column holds it.                  *)
LEMMA OwnerHolds ==
  ASSUME LeaseIffActive, NEW i \in Items, NEW o \in Owners, owner[i] = o
  PROVE  status[i] \in Active
  BY DEF LeaseIffActive

-----------------------------------------------------------------------------
(* A submitted unsafe item can leave submitted_to_crm only for succeeded   *)
(* or needs_review, from which no action takes it.                         *)

LEMMA StepNoReplay ==
  TypeOK /\ LeaseIffActive /\ NoReplayAfterSubmit /\ [Next]_vars => NoReplayAfterSubmit'
<1> SUFFICES ASSUME TypeOK, LeaseIffActive, NoReplayAfterSubmit, [Next]_vars
             PROVE  NoReplayAfterSubmit'
  OBVIOUS
<1> USE DEF TypeOK, NoReplayAfterSubmit, Unsafe
<1>1. ASSUME NEW j \in Jobs, CreateJob(j) PROVE NoReplayAfterSubmit'
  BY <1>1 DEF CreateJob
<1>2. ASSUME NEW j \in Jobs, RequestStop(j) PROVE NoReplayAfterSubmit'
  BY <1>2 DEF RequestStop
<1>3. ASSUME NEW i \in Items, NEW o \in Owners, ClaimItem(i, o) PROVE NoReplayAfterSubmit'
  BY <1>3 DEF ClaimItem, Claimable
<1>4. ASSUME NEW i \in Items, NEW o \in Owners, StartItem(i, o) PROVE NoReplayAfterSubmit'
  BY <1>4 DEF StartItem
<1>5. ASSUME NEW i \in Items, NEW o \in Owners, RenewLease(i, o) PROVE NoReplayAfterSubmit'
  BY <1>5 DEF RenewLease
<1>6. ASSUME NEW i \in Items, NEW o \in Owners, MarkSubmitted(i, o) PROVE NoReplayAfterSubmit'
  BY <1>6 DEF MarkSubmitted
<1>7. ASSUME NEW i \in Items, NEW o \in Owners, CompleteItem(i, o) PROVE NoReplayAfterSubmit'
  BY <1>7 DEF CompleteItem
<1>8. ASSUME NEW i \in Items, NEW o \in Owners, FailItem(i, o) PROVE NoReplayAfterSubmit'
  <2>1. status[i] \in Active
    BY <1>8, OwnerHolds DEF FailItem
  <2> QED
    BY <1>8, <2>1 DEF FailItem, AfterFailure
<1>9. ASSUME NEW S \in SUBSET Items, RecoverExpired(S) PROVE NoReplayAfterSubmit'
  BY <1>9 DEF RecoverExpired, AfterLoss
<1>10. ASSUME NEW i \in Items, LeaseExpires(i) PROVE NoReplayAfterSubmit'
  BY <1>10 DEF LeaseExpires
<1>11. CASE UNCHANGED vars
  BY <1>11 DEF vars
<1> QED
  BY <1>1, <1>2, <1>3, <1>4, <1>5, <1>6, <1>7, <1>8, <1>9, <1>10, <1>11
  DEF Next, HolderStep

(* Once marked as submitted to the CRM, a transfer or a service order is   *)
(* never queued, claimed or cancelled again.                               *)
THEOREM NoReplay == Spec => []NoReplayAfterSubmit
<1>1. Init => NoReplayAfterSubmit
  BY DEF Init, NoReplayAfterSubmit
<1> QED
  BY <1>1, StepNoReplay, TypeCorrect, LeaseCorrect, PTL DEF Spec

-----------------------------------------------------------------------------
(* Attempts.  AttemptsBounded alone is not inductive: a pending row is     *)
(* claimed whatever its attempts, so what is still to be paid for must be  *)
(* known while it is pending, and while its lost lease awaits recovery.    *)

Budget == AttemptsBounded /\ PendingBudget

LEMMA StepBudget == TypeOK /\ Budget /\ [Next]_vars => Budget'
<1> SUFFICES ASSUME TypeOK, Budget, [Next]_vars PROVE Budget'
  OBVIOUS
<1> USE DEF TypeOK, Budget, AttemptsBounded, PendingBudget
<1>1. ASSUME NEW j \in Jobs, CreateJob(j) PROVE Budget'
  BY <1>1 DEF CreateJob
<1>2. ASSUME NEW j \in Jobs, RequestStop(j) PROVE Budget'
  BY <1>2 DEF RequestStop
<1>3. ASSUME NEW i \in Items, NEW o \in Owners, ClaimItem(i, o) PROVE Budget'
  <2>1. attempts[i] < MaxAttempts[i] + expiries[i]
    BY <1>3 DEF ClaimItem, Claimable, Exhausted
  <2> QED
    BY <1>3, <2>1 DEF ClaimItem
<1>4. ASSUME NEW i \in Items, NEW o \in Owners, StartItem(i, o) PROVE Budget'
  BY <1>4 DEF StartItem
<1>5. ASSUME NEW i \in Items, NEW o \in Owners, RenewLease(i, o) PROVE Budget'
  BY <1>5 DEF RenewLease
<1>6. ASSUME NEW i \in Items, NEW o \in Owners, MarkSubmitted(i, o) PROVE Budget'
  BY <1>6 DEF MarkSubmitted
<1>7. ASSUME NEW i \in Items, NEW o \in Owners, CompleteItem(i, o) PROVE Budget'
  BY <1>7 DEF CompleteItem, Release
<1>8. ASSUME NEW i \in Items, NEW o \in Owners, FailItem(i, o) PROVE Budget'
  BY <1>8 DEF FailItem, Release, AfterFailure
<1>9. ASSUME NEW S \in SUBSET Items, RecoverExpired(S) PROVE Budget'
  BY <1>9 DEF RecoverExpired, AfterLoss
<1>10. ASSUME NEW i \in Items, LeaseExpires(i) PROVE Budget'
  BY <1>10 DEF LeaseExpires
<1>11. CASE UNCHANGED vars
  BY <1>11 DEF vars
<1> QED
  BY <1>1, <1>2, <1>3, <1>4, <1>5, <1>6, <1>7, <1>8, <1>9, <1>10, <1>11
  DEF Next, HolderStep

(* However often failures, recoveries and claims alternate, an item is     *)
(* attempted at most max_attempts times plus once per lease it lost.       *)
THEOREM AttemptsCorrect == Spec => []AttemptsBounded
<1>1. Init => Budget
  BY DEF Init, Budget, AttemptsBounded, PendingBudget
<1>2. Budget => AttemptsBounded
  BY DEF Budget
<1> QED
  BY <1>1, <1>2, StepBudget, TypeCorrect, PTL DEF Spec

-----------------------------------------------------------------------------
(* A step leaves terminal rows alone: create and stop touch absent, and    *)
(* pending or failed rows only, every other action rows that are active.   *)

TerminalKept == \A i \in Items : status[i] \in Terminal => status'[i] = status[i]

LEMMA StepTerminal == TypeOK /\ LeaseIffActive /\ [Next]_vars => [TerminalKept]_vars
<1> SUFFICES ASSUME TypeOK, LeaseIffActive, Next PROVE TerminalKept
  OBVIOUS
<1> USE DEF TypeOK, TerminalKept
<1>1. ASSUME NEW j \in Jobs, CreateJob(j) PROVE TerminalKept
  BY <1>1 DEF CreateJob
<1>2. ASSUME NEW j \in Jobs, RequestStop(j) PROVE TerminalKept
  BY <1>2 DEF RequestStop
<1>3. ASSUME NEW i \in Items, NEW o \in Owners, HolderStep(i, o) PROVE TerminalKept
  <2>1. CASE ClaimItem(i, o)
    BY <2>1 DEF ClaimItem, Claimable
  <2>2. CASE StartItem(i, o)
    BY <2>2 DEF StartItem
  <2>3. CASE RenewLease(i, o)
    BY <2>3 DEF RenewLease
  <2>4. CASE MarkSubmitted(i, o)
    BY <2>4 DEF MarkSubmitted
  <2>5. CASE CompleteItem(i, o)
    BY <2>5 DEF CompleteItem, Holds
  <2>6. CASE FailItem(i, o)
    <3>1. status[i] \in Active
      BY <2>6, OwnerHolds DEF FailItem
    <3> QED
      BY <2>6, <3>1 DEF FailItem
  <2> QED
    BY <1>3, <2>1, <2>2, <2>3, <2>4, <2>5, <2>6 DEF HolderStep
<1>4. ASSUME NEW S \in SUBSET Items, RecoverExpired(S) PROVE TerminalKept
  BY <1>4 DEF RecoverExpired
<1>5. ASSUME NEW i \in Items, LeaseExpires(i) PROVE TerminalKept
  BY <1>5 DEF LeaseExpires
<1> QED
  BY <1>1, <1>2, <1>3, <1>4, <1>5 DEF Next

(* An outcome once recorded is never overwritten, not even by a worker     *)
(* that lost its lease and reports late.                                   *)
THEOREM TerminalCorrect == Spec => TerminalIsForever
<1>1. Spec => [][TerminalKept]_vars
  BY StepTerminal, TypeCorrect, LeaseCorrect, PTL DEF Spec
<1> QED
  BY <1>1 DEF TerminalIsForever, TerminalKept

-----------------------------------------------------------------------------
(* Only claim_item makes a row active, and it refuses stopped jobs.        *)

StopKept ==
  \A i \in Items : stopRequested[JobOf[i]] /\ status[i] \notin Active => status'[i] \notin Active

LEMMA StepStop == TypeOK /\ [Next]_vars => [StopKept]_vars
<1> SUFFICES ASSUME TypeOK, Next PROVE StopKept
  OBVIOUS
<1> USE DEF TypeOK, StopKept
<1>1. ASSUME NEW j \in Jobs, CreateJob(j) PROVE StopKept
  BY <1>1 DEF CreateJob
<1>2. ASSUME NEW j \in Jobs, RequestStop(j) PROVE StopKept
  BY <1>2 DEF RequestStop
<1>3. ASSUME NEW i \in Items, NEW o \in Owners, HolderStep(i, o) PROVE StopKept
  <2>1. CASE ClaimItem(i, o)
    BY <2>1 DEF ClaimItem
  <2>2. CASE StartItem(i, o)
    BY <2>2 DEF StartItem
  <2>3. CASE RenewLease(i, o)
    BY <2>3 DEF RenewLease
  <2>4. CASE MarkSubmitted(i, o)
    BY <2>4 DEF MarkSubmitted
  <2>5. CASE CompleteItem(i, o)
    BY <2>5 DEF CompleteItem
  <2>6. CASE FailItem(i, o)
    BY <2>6 DEF FailItem, AfterFailure
  <2> QED
    BY <1>3, <2>1, <2>2, <2>3, <2>4, <2>5, <2>6 DEF HolderStep
<1>4. ASSUME NEW S \in SUBSET Items, RecoverExpired(S) PROVE StopKept
  BY <1>4 DEF RecoverExpired, AfterLoss
<1>5. ASSUME NEW i \in Items, LeaseExpires(i) PROVE StopKept
  BY <1>5 DEF LeaseExpires
<1> QED
  BY <1>1, <1>2, <1>3, <1>4, <1>5 DEF Next

(* No item of a stopped job is taken up after the stop.                    *)
THEOREM StopCorrect == Spec => StopIsFinal
<1>1. Spec => [][StopKept]_vars
  BY StepStop, TypeCorrect, PTL DEF Spec
<1> QED
  BY <1>1 DEF StopIsFinal, StopKept

=============================================================================
