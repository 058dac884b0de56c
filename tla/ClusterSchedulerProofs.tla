----------------------- MODULE ClusterSchedulerProofs -----------------------
(***************************************************************************)
(* Proofs about ClusterScheduler, for any nodes, slots, jobs and items and *)
(* any number of crashes, lost leases and faults.                          *)
(***************************************************************************)
EXTENDS ClusterScheduler, FiniteSetTheorems, TLAPS

USE SchedulerAssumption, RowsAssumption
USE DEF Repo!JobItemsAssumption, Repo!Active, Repo!Terminal, Repo!ItemsOf

-----------------------------------------------------------------------------
(* The rows.  What JobItems promises is kept by every step of the nodes.   *)

\* A lease is seen to have run out only after it did.
ExpiryCounted == \A i \in Items : lease[i] = "expired" => expiries[i] > 0

RowsSafe == Repo!TypeOK /\ Repo!LeaseIffActive /\ Repo!NoReplayAfterSubmit /\ ExpiryCounted

LEMMA RowsStep == RowsSafe /\ [Repo!Next]_repoVars => RowsSafe'
<1> SUFFICES ASSUME RowsSafe, [Repo!Next]_repoVars PROVE RowsSafe'
  OBVIOUS
<1> USE DEF RowsSafe, Repo!TypeOK, Repo!LeaseIffActive, Repo!NoReplayAfterSubmit, ExpiryCounted,
            Repo!Statuses, Repo!Leases, Repo!Unsafe
<1>1. ASSUME NEW j \in Jobs, Repo!CreateJob(j) PROVE RowsSafe'
  BY <1>1 DEF Repo!CreateJob
<1>2. ASSUME NEW j \in Jobs, Repo!RequestStop(j) PROVE RowsSafe'
  BY <1>2 DEF Repo!RequestStop
<1>3. ASSUME NEW i \in Items, NEW o \in Owners, Repo!ClaimItem(i, o) PROVE RowsSafe'
  BY <1>3 DEF Repo!ClaimItem, Repo!Claimable
<1>4. ASSUME NEW i \in Items, NEW o \in Owners, Repo!StartItem(i, o) PROVE RowsSafe'
  BY <1>4 DEF Repo!StartItem
<1>5. ASSUME NEW i \in Items, NEW o \in Owners, Repo!RenewLease(i, o) PROVE RowsSafe'
  BY <1>5 DEF Repo!RenewLease, Repo!Holds
<1>6. ASSUME NEW i \in Items, NEW o \in Owners, Repo!MarkSubmitted(i, o) PROVE RowsSafe'
  BY <1>6 DEF Repo!MarkSubmitted
<1>7. ASSUME NEW i \in Items, NEW o \in Owners, Repo!CompleteItem(i, o) PROVE RowsSafe'
  BY <1>7 DEF Repo!CompleteItem, Repo!Holds, Repo!Release
<1>8. ASSUME NEW i \in Items, NEW o \in Owners, Repo!FailItem(i, o) PROVE RowsSafe'
  <2>1. status[i] \in Repo!Active
    BY <1>8 DEF Repo!FailItem
  <2> QED
    BY <1>8, <2>1 DEF Repo!FailItem, Repo!Release, Repo!AfterFailure
<1>9. ASSUME NEW S \in SUBSET Items, Repo!RecoverExpired(S) PROVE RowsSafe'
  BY <1>9 DEF Repo!RecoverExpired, Repo!AfterLoss
<1>10. ASSUME NEW i \in Items, Repo!LeaseExpires(i) PROVE RowsSafe'
  BY <1>10 DEF Repo!LeaseExpires
<1>11. CASE UNCHANGED repoVars
  BY <1>11 DEF repoVars
<1> QED
  BY <1>1, <1>2, <1>3, <1>4, <1>5, <1>6, <1>7, <1>8, <1>9, <1>10, <1>11
  DEF Repo!Next, Repo!HolderStep

-----------------------------------------------------------------------------
(* The threads.                                                            *)

Typed ==
  /\ scheduler \in [Nodes -> {"none", "running", "broken"}]
  /\ loggedIn \in [Owners -> BOOLEAN] /\ slotStop \in [Owners -> BOOLEAN]
  /\ pc \in [Owners -> {"dead", "top", "claim"} \cup Working]
  /\ has \in [Owners -> Items \cup {NoItem}]
  /\ renewing \in [Owners -> BOOLEAN]
  /\ round \in [Owners -> 1..2]
  /\ effects \in [Items -> Nat] /\ closed \in [Items -> BOOLEAN] /\ misread \in [Items -> Nat]
  /\ crashes \in 0..MaxCrashes /\ faults \in 0..MaxFaults

Busy(o) == /\ pc[o] \in Working <=> has[o] # NoItem
           /\ renewing[o] => pc[o] \in Working

Base == RowsSafe /\ Typed /\ \A o \in Owners : Busy(o)

LEMMA WorkingHas == ASSUME Base, NEW o \in Owners, pc[o] \in Working PROVE has[o] \in Items
  BY DEF Base, Typed, Busy

\* Every step is one of the repository, or none.
LEMMA StepImplements == Base /\ [Next]_vars => [Repo!Next]_repoVars
<1> SUFFICES ASSUME Base, [Next]_vars PROVE Repo!Next \/ UNCHANGED repoVars
  BY DEF repoVars
<1>1. RecoverAll => Repo!Next \/ UNCHANGED repoVars
  BY DEF RecoverAll, Repo!Next
<1>2. ASSUME NEW o \in Owners, ThreadStep(o) PROVE Repo!Next \/ UNCHANGED repoVars
  <2>1. CASE Recover(o)
    BY <1>1, <2>1 DEF Recover, Call
  <2>2. CASE Claim(o)
    BY <2>2 DEF Claim, Repo!Next, Repo!HolderStep
  <2>3. CASE Start(o)
    <3>1. has[o] \in Items
      BY <2>3, WorkingHas DEF Start, Working
    <3> QED
      BY <2>3, <3>1 DEF Start, Call, Repo!Next, Repo!HolderStep
  <2>4. CASE LogAndMark(o)
    <3>1. has[o] \in Items
      BY <2>4, WorkingHas DEF LogAndMark, Working
    <3> QED
      BY <2>4, <3>1 DEF LogAndMark, Call, Repo!Next, Repo!HolderStep
  <2>5. CASE Complete(o)
    <3>1. has[o] \in Items
      BY <2>5, WorkingHas DEF Complete, Working
    <3> QED
      BY <2>5, <3>1 DEF Complete, Call, Repo!Next, Repo!HolderStep
  <2>6. CASE Fail(o)
    <3>1. has[o] \in Items
      BY <2>6, WorkingHas DEF Fail, Working
    <3> QED
      BY <2>6, <3>1 DEF Fail, Call, Repo!Next, Repo!HolderStep
  <2>7. CASE Leave(o) \/ SafeWork(o) \/ SaveTransfer(o) \/ CloseOrder(o) \/ FinishTransfer(o) \/ FinishClose(o)
    BY <2>7 DEF Leave, SafeWork, SaveTransfer, CloseOrder, FinishTransfer, FinishClose
  <2> QED
    BY <1>2, <2>1, <2>2, <2>3, <2>4, <2>5, <2>6, <2>7 DEF ThreadStep
<1>3. ASSUME NEW o \in Owners, Renew(o) PROVE Repo!Next \/ UNCHANGED repoVars
  <2>1. has[o] \in Items
    BY <1>3, WorkingHas DEF Renew, Base, Busy
  <2> QED
    BY <1>3, <2>1 DEF Renew, Repo!Next, Repo!HolderStep
<1>4. ASSUME NEW o \in Owners, SlotLogin(o) \/ SlotLogout(o) PROVE UNCHANGED repoVars
  BY <1>4 DEF SlotLogin, SlotLogout
<1>5. ASSUME NEW n \in Nodes, StartScheduler(n) \/ ReconcileSlots(n) \/ Crash(n)
      PROVE  Repo!Next \/ UNCHANGED repoVars
  BY <1>1, <1>5 DEF StartScheduler, ReconcileSlots, Crash
<1>6. ASSUME NEW j \in Jobs, CreateJob(j) \/ StopJob(j) PROVE Repo!Next
  BY <1>6 DEF CreateJob, StopJob, Repo!Next
<1>7. ASSUME NEW i \in Items, CrmCloses(i) \/ LeaseRunsOut(i) \/ LeaseStalls(i)
      PROVE  Repo!Next \/ UNCHANGED repoVars
  BY <1>7 DEF CrmCloses, LeaseRunsOut, LeaseStalls, Repo!Next
<1>8. CASE UNCHANGED vars
  BY <1>8 DEF vars
<1> QED
  BY <1>2, <1>3, <1>4, <1>5, <1>6, <1>7, <1>8 DEF Next

\* Types and Busy, step by step.
LEMMA StepThreads ==
  ASSUME Base, [Next]_vars
  PROVE  Typed' /\ \A o \in Owners : Busy(o)'
<1> DEFINE Threads == Typed /\ \A o \in Owners : Busy(o)
<1> SUFFICES Threads'
  OBVIOUS
<1> USE DEF Base, Typed, Busy, Working, Go, Fault, Call
<1>1. ASSUME NEW o \in Owners, ThreadStep(o) PROVE Threads'
  <2>1. CASE Leave(o)
    BY <2>1 DEF Leave, threadLocal, crmVars
  <2>2. CASE Recover(o)
    BY <2>2 DEF Recover, threadLocal, crmVars
  <2>3. CASE Claim(o)
    BY <2>3 DEF Claim, threadLocal, crmVars
  <2>4. CASE Start(o)
    <3>1. pc' \in {[pc EXCEPT ![o] = "work"], [pc EXCEPT ![o] = "dead"]} /\ pc[o] = "claimed"
      BY <2>4 DEF Start
    <3>2. /\ renewing' = [renewing EXCEPT ![o] = pc'[o] = "work"]
          /\ has' = [has EXCEPT ![o] = IF pc'[o] = "work" THEN has[o] ELSE NoItem]
          /\ round' = [round EXCEPT ![o] = 1] /\ faults' \in 0 .. MaxFaults
      BY <2>4 DEF Start
    <3>3. UNCHANGED <<slotStop, effects, closed, misread, scheduler, loggedIn, crashes>>
      BY <2>4 DEF Start, crmVars
    <3>4. renewing' \in [Owners -> BOOLEAN] /\ (renewing'[o] => pc'[o] = "work")
      BY <3>2
    <3> QED
      BY <3>1, <3>2, <3>3, <3>4
  <2>5. CASE SafeWork(o)
    BY <2>5 DEF SafeWork, threadLocal, crmVars
  <2>6. CASE SaveTransfer(o)
    BY <2>6 DEF SaveTransfer
  <2>7. CASE CloseOrder(o)
    BY <2>7 DEF CloseOrder, RetryClose
  <2>8. CASE LogAndMark(o)
    BY <2>8 DEF LogAndMark, threadLocal, crmVars
  <2>9. CASE FinishTransfer(o)
    BY <2>9 DEF FinishTransfer, threadLocal, crmVars
  <2>10. CASE FinishClose(o)
    BY <2>10 DEF FinishClose, RetryClose, crmVars
  <2>11. CASE Complete(o)
    <3>1. pc' \in {[pc EXCEPT ![o] = "top"], [pc EXCEPT ![o] = "raise"]} /\ pc[o] = "succeed"
      BY <2>11 DEF Complete
    <3>2. /\ renewing' = [renewing EXCEPT ![o] = @ /\ pc'[o] # "top"]
          /\ has' = [has EXCEPT ![o] = IF pc'[o] = "top" THEN NoItem ELSE has[o]]
          /\ faults' \in 0 .. MaxFaults
      BY <2>11 DEF Complete
    <3>3. UNCHANGED <<slotStop, round, effects, closed, misread, scheduler, loggedIn, crashes>>
      BY <2>11 DEF Complete, threadLocal, crmVars
    <3>4. renewing' \in [Owners -> BOOLEAN] /\ (renewing'[o] => pc'[o] # "top")
      BY <3>2
    <3> QED
      BY <3>1, <3>2, <3>3, <3>4
  <2>12. CASE Fail(o)
    BY <2>12 DEF Fail, threadLocal, crmVars
  <2> QED
    BY <1>1, <2>1, <2>2, <2>3, <2>4, <2>5, <2>6, <2>7, <2>8, <2>9, <2>10, <2>11, <2>12 DEF ThreadStep
<1>2. ASSUME NEW o \in Owners, Renew(o) PROVE Threads'
  <2>1. renewing' \in {renewing, [renewing EXCEPT ![o] = FALSE]} /\ faults' \in 0 .. MaxFaults
    BY <1>2 DEF Renew
  <2>2. UNCHANGED <<pc, has, slotStop, round, effects, closed, misread, scheduler, loggedIn, crashes>>
    BY <1>2 DEF Renew, threadLocal, crmVars
  <2> QED
    BY <2>1, <2>2
<1>3. ASSUME NEW o \in Owners, SlotLogin(o) \/ SlotLogout(o) PROVE Threads'
  <2>1. loggedIn' \in {[loggedIn EXCEPT ![o] = TRUE], [loggedIn EXCEPT ![o] = FALSE]} /\ faults' \in 0 .. MaxFaults
    BY <1>3 DEF SlotLogin, SlotLogout
  <2>2. UNCHANGED <<pc, has, renewing, slotStop, round, effects, closed, misread, scheduler, crashes>>
    BY <1>3 DEF SlotLogin, SlotLogout, threadVars, crmVars
  <2> QED
    BY <2>1, <2>2
<1>4. ASSUME NEW n \in Nodes, StartScheduler(n) \/ ReconcileSlots(n) PROVE Threads'
  <2>1. /\ scheduler' \in {scheduler, [scheduler EXCEPT ![n] = "running"], [scheduler EXCEPT ![n] = "broken"]}
        /\ faults' \in 0 .. MaxFaults
    BY <1>4 DEF StartScheduler, ReconcileSlots
  <2>2. UNCHANGED <<has, renewing, round, effects, closed, misread, loggedIn, crashes>>
    BY <1>4 DEF StartScheduler, ReconcileSlots, crmVars
  <2>3. Reconciled(n) \/ UNCHANGED <<pc, slotStop>>
    BY <1>4 DEF StartScheduler, ReconcileSlots
  <2>4. slotStop' \in [Owners -> BOOLEAN]
    <3>1. CASE Reconciled(n)
      <4> DEFINE told(o) == IF NodeOf[o] = n /\ loggedIn[o] /\ pc[o] = "dead" THEN FALSE
                            ELSE slotStop[o] \/ (NodeOf[o] = n /\ ~loggedIn[o] /\ pc[o] # "dead")
      <4>1. slotStop' = [o \in Owners |-> told(o)]
        BY <3>1 DEF Reconciled
      <4>2. \A o \in Owners : told(o) \in BOOLEAN
        OBVIOUS
      <4> HIDE DEF told
      <4> QED
        BY <4>1, <4>2
    <3> QED
      BY <2>3, <3>1
  <2>5. /\ pc' \in [Owners -> {"dead", "top", "claim"} \cup Working]
        /\ \A o \in Owners : pc'[o] = pc[o] \/ (pc[o] = "dead" /\ pc'[o] = "top")
    <3>1. CASE Reconciled(n)
      <4> DEFINE next(o) == IF NodeOf[o] = n /\ loggedIn[o] /\ pc[o] = "dead" THEN "top" ELSE pc[o]
      <4>1. pc' = [o \in Owners |-> next(o)]
        BY <3>1 DEF Reconciled
      <4>2. \A o \in Owners : /\ next(o) \in {"dead", "top", "claim"} \cup Working
                              /\ next(o) = pc[o] \/ (pc[o] = "dead" /\ next(o) = "top")
        OBVIOUS
      <4> HIDE DEF next
      <4> QED
        BY <4>1, <4>2
    <3>2. CASE UNCHANGED <<pc, slotStop>>
      BY <3>2
    <3> QED
      BY <2>3, <3>1, <3>2
  <2> QED
    BY <2>1, <2>2, <2>4, <2>5
<1>5. ASSUME NEW n \in Nodes, Crash(n) PROVE Threads'
  <2>1. /\ scheduler' = [scheduler EXCEPT ![n] = "none"] /\ crashes' \in 0 .. MaxCrashes
        /\ UNCHANGED <<round, effects, closed, misread, faults>>
    BY <1>5 DEF Crash, crmVars
  <2>2. /\ loggedIn' \in [Owners -> BOOLEAN] /\ slotStop' \in [Owners -> BOOLEAN]
        /\ renewing' \in [Owners -> BOOLEAN]
        /\ \A o \in Owners : renewing'[o] => renewing[o] /\ NodeOf[o] # n
    BY <1>5 DEF Crash
  <2>3. /\ pc' = [o \in Owners |-> IF NodeOf[o] = n THEN "dead" ELSE pc[o]]
        /\ has' = [o \in Owners |-> IF NodeOf[o] = n THEN NoItem ELSE has[o]]
    BY <1>5 DEF Crash
  <2> QED
    BY <2>1, <2>2, <2>3
<1>6. ASSUME NEW j \in Jobs, CreateJob(j) \/ StopJob(j) PROVE Threads'
  BY <1>6 DEF CreateJob, StopJob, environment, threadVars, crmVars
<1>7. ASSUME NEW i \in Items, CrmCloses(i) \/ LeaseRunsOut(i) \/ LeaseStalls(i) PROVE Threads'
  BY <1>7 DEF CrmCloses, LeaseRunsOut, LeaseStalls, environment, threadVars, crmVars
<1>8. CASE UNCHANGED vars
  BY <1>8 DEF vars, threadVars, crmVars
<1> QED
  BY <1>1, <1>2, <1>3, <1>4, <1>5, <1>6, <1>7, <1>8 DEF Next

LEMMA StepBase == Base /\ [Next]_vars => Base'
  BY StepThreads, StepImplements, RowsStep DEF Base

LEMMA InitBase == Init => Base
  BY DEF Init, Repo!Init, Base, RowsSafe, Repo!TypeOK, Repo!Statuses, Repo!Leases, Repo!LeaseIffActive,
         Repo!NoReplayAfterSubmit, ExpiryCounted, Typed, Busy, Working

LEMMA SchedulerSafe == Spec => []Base
  BY InitBase, StepBase, PTL DEF Spec

(* Every variable keeps its type, a thread that works has an item and no   *)
(* other has one, and a renewer dies with the work of its thread.          *)
THEOREM SchedulerTyped == Spec => []TypeOK
<1>1. Base => TypeOK
  BY DEF Base, RowsSafe, Typed, Busy, TypeOK
<1> QED
  BY <1>1, SchedulerSafe, PTL

(* Whatever the nodes do to the rows, they do by the transactions of the   *)
(* repository: what is proved of JobItems holds of them.                   *)
THEOREM SchedulerImplements == Spec => Repo!Spec
<1>1. Init => Repo!Init
  BY DEF Init
<1>2. Base /\ [Next]_vars => [Repo!Next]_Repo!vars
  BY StepImplements DEF Repo!vars, repoVars
<1> QED
  BY <1>1, <1>2, SchedulerSafe, PTL DEF Spec, Repo!Spec

-----------------------------------------------------------------------------
(* What the threads know.  A step moves one thread along its handler, or   *)
(* is quiet: then threads only keep what they have or drop it.             *)

Stays(o) == pc'[o] = pc[o] /\ has'[o] = has[o] /\ round'[o] = round[o]

Drops(o) == pc'[o] \notin Working /\ has'[o] = NoItem

Quiet ==
  /\ \A o \in Owners : Stays(o) \/ Drops(o)
  /\ UNCHANGED <<effects, misread, everSubmitted, attempts>>
  /\ \A i \in Items : closed[i] => closed'[i]
  /\ \A i \in Items : status'[i] = "succeeded" => status[i] = "succeeded"

Handles(o) ==
  \/ Claim(o) \/ Start(o) \/ SafeWork(o) \/ SaveTransfer(o) \/ CloseOrder(o)
  \/ LogAndMark(o) \/ FinishTransfer(o) \/ FinishClose(o) \/ Complete(o)

LEMMA QuietRecover == ASSUME Base, RecoverAll
                      PROVE  /\ UNCHANGED <<everSubmitted, attempts>>
                             /\ \A i \in Items : status'[i] = "succeeded" => status[i] = "succeeded"
<1> USE DEF Base, RowsSafe, Repo!TypeOK
<1>1. CASE UNCHANGED repoVars
  BY <1>1 DEF repoVars
<1>2. ASSUME NEW S \in SUBSET Items, Repo!RecoverExpired(S)
      PROVE  /\ UNCHANGED <<everSubmitted, attempts>>
             /\ \A i \in Items : status'[i] = "succeeded" => status[i] = "succeeded"
  BY <1>2 DEF Repo!RecoverExpired, Repo!AfterLoss
<1> QED
  BY <1>1, <1>2 DEF RecoverAll

LEMMA QuietOrHandles == Base /\ [Next]_vars => Quiet \/ \E o \in Owners : Handles(o)
<1> SUFFICES ASSUME Base, [Next]_vars PROVE Quiet \/ \E o \in Owners : Handles(o)
  OBVIOUS
<1> USE DEF Base, Typed, Busy, Working, Stays, Drops, Quiet, Go
<1>1. ASSUME NEW o \in Owners, Leave(o) PROVE Quiet
  BY <1>1 DEF Leave, threadLocal, crmVars, repoVars
<1>2. ASSUME NEW o \in Owners, Recover(o) PROVE Quiet
  <2>1. /\ pc[o] = "top"
        /\ pc' \in {[pc EXCEPT ![o] = "claim"], [pc EXCEPT ![o] = "dead"]}
        /\ RecoverAll \/ UNCHANGED repoVars
    BY <1>2 DEF Recover, Call
  <2>2. UNCHANGED <<has, round, effects, closed, misread>>
    BY <1>2 DEF Recover, threadLocal, crmVars
  <2>3. /\ UNCHANGED <<everSubmitted, attempts>>
        /\ \A i \in Items : status'[i] = "succeeded" => status[i] = "succeeded"
    BY <2>1, QuietRecover DEF repoVars
  <2> QED
    BY <2>1, <2>2, <2>3
<1>3. ASSUME NEW o \in Owners, Fail(o) PROVE Quiet
  <2>1. /\ pc[o] = "raise" /\ has[o] \in Items
        /\ pc' \in {[pc EXCEPT ![o] = "top"], [pc EXCEPT ![o] = "dead"]}
        /\ has' = [has EXCEPT ![o] = NoItem]
        /\ Repo!FailItem(has[o], o) \/ UNCHANGED repoVars
    BY <1>3 DEF Fail, Call
  <2>2. UNCHANGED <<round, effects, closed, misread>>
    BY <1>3 DEF Fail, threadLocal, crmVars
  <2>3. /\ UNCHANGED <<everSubmitted, attempts>>
        /\ \A i \in Items : status'[i] = "succeeded" => status[i] = "succeeded"
    BY <2>1 DEF repoVars, Repo!FailItem, Repo!AfterFailure, RowsSafe, Repo!TypeOK
  <2> QED
    BY <2>1, <2>2, <2>3
<1>4. ASSUME NEW o \in Owners, Renew(o) PROVE Quiet
  <2>1. has[o] \in Items
    BY <1>4 DEF Renew
  <2>2. UNCHANGED <<pc, has, round, effects, closed, misread>>
    BY <1>4 DEF Renew, threadLocal, crmVars
  <2>3. UNCHANGED <<everSubmitted, attempts, status>>
    BY <1>4, <2>1 DEF Renew, repoVars, Repo!RenewLease
  <2> QED
    BY <2>2, <2>3
<1>5. ASSUME NEW o \in Owners, SlotLogin(o) \/ SlotLogout(o) PROVE Quiet
  BY <1>5 DEF SlotLogin, SlotLogout, threadVars, crmVars, repoVars
<1>6. ASSUME NEW n \in Nodes, StartScheduler(n) \/ ReconcileSlots(n) PROVE Quiet
  <2>1. UNCHANGED <<has, round, effects, closed, misread>>
    BY <1>6 DEF StartScheduler, ReconcileSlots, crmVars
  <2>2. \A o \in Owners : pc'[o] = pc[o] \/ (pc[o] = "dead" /\ pc'[o] = "top")
    <3>1. Reconciled(n) \/ UNCHANGED pc
      BY <1>6 DEF StartScheduler, ReconcileSlots
    <3>2. CASE Reconciled(n)
      BY <3>2 DEF Reconciled
    <3> QED
      BY <3>1, <3>2
  <2>3. RecoverAll \/ UNCHANGED repoVars
    BY <1>6 DEF StartScheduler, ReconcileSlots
  <2>4. /\ UNCHANGED <<everSubmitted, attempts>>
        /\ \A i \in Items : status'[i] = "succeeded" => status[i] = "succeeded"
    BY <2>3, QuietRecover DEF repoVars
  <2> QED
    BY <2>1, <2>2, <2>4
<1>7. ASSUME NEW n \in Nodes, Crash(n) PROVE Quiet
  BY <1>7 DEF Crash, crmVars, repoVars
<1>8. ASSUME NEW j \in Jobs, CreateJob(j) \/ StopJob(j) PROVE Quiet
  BY <1>8 DEF CreateJob, StopJob, environment, threadVars, crmVars,
              Repo!CreateJob, Repo!RequestStop, RowsSafe, Repo!TypeOK
<1>9. ASSUME NEW i \in Items, CrmCloses(i) \/ LeaseRunsOut(i) \/ LeaseStalls(i) PROVE Quiet
  BY <1>9 DEF CrmCloses, LeaseRunsOut, LeaseStalls, environment, threadVars, crmVars, repoVars,
              Repo!LeaseExpires
<1>10. CASE UNCHANGED vars
  BY <1>10 DEF vars, threadVars, crmVars, repoVars
<1> QED
  BY <1>1, <1>2, <1>3, <1>4, <1>5, <1>6, <1>7, <1>8, <1>9, <1>10 DEF Next, ThreadStep, Handles

\* What was done for an item in the CRM, or taken for done.
Acts(i) == effects[i] + misread[i]

\* What a thread at some place of its handler knows of the CRM.
Knows(o) ==
  /\ pc[o] \in {"acted", "confirm"} => Acts(has[o]) > 0
  /\ pc[o] = "succeed" /\ KindOf[has[o]] = "transfer" => Acts(has[o]) > 0
  /\ pc[o] = "succeed" /\ KindOf[has[o]] = "service_close" => closed[has[o]]

\* What a row says of the CRM.
Told(i) ==
  /\ everSubmitted[i] => Acts(i) > 0
  /\ status[i] = "succeeded" /\ KindOf[i] = "transfer" => Acts(i) > 0
  /\ KindOf[i] = "service_close" => misread[i] = 0 /\ (status[i] = "succeeded" => closed[i])

Truthful == (\A o \in Owners : Knows(o)) /\ \A i \in Items : Told(i)

LEMMA TruthfulStep == Base /\ Truthful /\ [Next]_vars => Truthful'
<1> SUFFICES ASSUME Base, Truthful, [Next]_vars PROVE Truthful'
  OBVIOUS
<1> Base'
  BY StepBase
<1> USE DEF Base, Typed, Busy, Working, Truthful, Knows, Told, Acts, Go, RowsSafe, Repo!TypeOK
<1>1. CASE Quiet
  BY <1>1 DEF Quiet, Stays, Drops
<1>2. ASSUME NEW o \in Owners, Claim(o) PROVE Truthful'
  <2>1. UNCHANGED <<effects, closed, misread>> /\ pc[o] = "claim"
    BY <1>2 DEF Claim, threadLocal, crmVars
  <2>2. /\ UNCHANGED everSubmitted
        /\ \A i \in Items : status'[i] = "succeeded" => status[i] = "succeeded"
    BY <1>2 DEF Claim, repoVars, Repo!ClaimItem
  <2>3. \A q \in Owners : (pc'[q] = pc[q] /\ has'[q] = has[q]) \/ pc'[q] \in {"claimed", "dead", "top"}
    BY <1>2 DEF Claim
  <2>4. \A q \in Owners : Knows(q)'
    BY ZenonT(40), <2>1, <2>3
  <2>5. \A i \in Items : Told(i)'
    BY <2>1, <2>2
  <2> QED
    BY <2>4, <2>5
<1>3. ASSUME NEW o \in Owners, Start(o) PROVE Truthful'
  <2>1. UNCHANGED <<effects, closed, misread>> /\ pc[o] = "claimed" /\ has[o] \in Items
    BY <1>3 DEF Start, crmVars
  <2>2. /\ UNCHANGED everSubmitted
        /\ \A i \in Items : status'[i] = "succeeded" => status[i] = "succeeded"
    BY <1>3, <2>1 DEF Start, Call, repoVars, Repo!StartItem
  <2>3. \A q \in Owners : (pc'[q] = pc[q] /\ has'[q] = has[q]) \/ pc'[q] \in {"work", "dead"}
    BY <1>3 DEF Start, Call
  <2>4. \A q \in Owners : Knows(q)'
    BY ZenonT(40), <2>1, <2>3
  <2>5. \A i \in Items : Told(i)'
    BY <2>1, <2>2
  <2> QED
    BY <2>4, <2>5
<1>4. ASSUME NEW o \in Owners, SafeWork(o) PROVE Truthful'
  <2>1. UNCHANGED <<effects, closed, misread, everSubmitted, status, has>>
    BY <1>4 DEF SafeWork, threadLocal, crmVars, repoVars
  <2>2. /\ \A q \in Owners \ {o} : pc'[q] = pc[q]
        /\ pc'[o] \in {"succeed", "raise"} /\ KindOf[has[o]] \notin UnsafeKinds
    BY <1>4 DEF SafeWork
  <2> QED
    BY <2>1, <2>2 DEF UnsafeKinds
<1>5. ASSUME NEW o \in Owners, SaveTransfer(o) PROVE Truthful'
  <2>1. UNCHANGED <<closed, everSubmitted, status, has>> /\ pc[o] = "work" /\ has[o] \in Items
    BY <1>5 DEF SaveTransfer, repoVars
  <2>2. /\ \A q \in Owners \ {o} : pc'[q] = pc[q]
        /\ pc'[o] \in {"acted", "raise"}
        /\ \A i \in Items : effects'[i] >= effects[i] /\ misread'[i] >= misread[i]
        /\ \A i \in Items : KindOf[i] # "transfer" => misread'[i] = misread[i]
        /\ pc'[o] = "acted" => effects'[has[o]] + misread'[has[o]] > 0
    BY <1>5 DEF SaveTransfer
  <2>3. \A q \in Owners : Knows(q)'
    BY <2>1, <2>2
  <2>4. \A i \in Items : Told(i)'
    BY <2>1, <2>2
  <2> QED
    BY <2>3, <2>4
<1>6. ASSUME NEW o \in Owners, CloseOrder(o) PROVE Truthful'
  <2>1. UNCHANGED <<closed, misread, everSubmitted, status, has>> /\ pc[o] = "work" /\ has[o] \in Items
    BY <1>6 DEF CloseOrder, repoVars
  <2>2. /\ \A q \in Owners \ {o} : pc'[q] = pc[q]
        /\ pc'[o] \in {"succeed", "acted", "work", "raise"}
        /\ \A i \in Items : effects'[i] >= effects[i]
        /\ pc'[o] = "acted" => effects'[has[o]] > 0
        /\ pc'[o] = "succeed" => closed[has[o]] /\ KindOf[has[o]] = "service_close"
    BY SMTT(30), <1>6 DEF CloseOrder, RetryClose
  <2>3. \A q \in Owners : Knows(q)'
    BY <2>1, <2>2
  <2>4. \A i \in Items : Told(i)'
    BY <2>1, <2>2
  <2> QED
    BY <2>3, <2>4
<1>7. ASSUME NEW o \in Owners, LogAndMark(o) PROVE Truthful'
  <2>1. UNCHANGED <<effects, closed, misread, has>> /\ pc[o] = "acted" /\ has[o] \in Items
    BY <1>7 DEF LogAndMark, threadLocal, crmVars
  <2>2. /\ \A i \in Items : everSubmitted'[i] => everSubmitted[i] \/ i = has[o]
        /\ \A i \in Items : status'[i] = "succeeded" => status[i] = "succeeded"
    BY <1>7, <2>1 DEF LogAndMark, Call, repoVars, Repo!MarkSubmitted
  <2>3. (\A q \in Owners \ {o} : pc'[q] = pc[q]) /\ pc'[o] \in {"confirm", "raise"}
    BY <1>7 DEF LogAndMark, Call
  <2> QED
    BY <2>1, <2>2, <2>3
<1>8. ASSUME NEW o \in Owners, FinishTransfer(o) \/ FinishClose(o) PROVE Truthful'
  <2>1. UNCHANGED <<effects, closed, misread, everSubmitted, status, has>> /\ pc[o] = "confirm"
    BY <1>8 DEF FinishTransfer, FinishClose, threadLocal, crmVars, repoVars
  <2>2. /\ \A q \in Owners \ {o} : pc'[q] = pc[q]
        /\ pc'[o] \in {"succeed", "raise", "work"}
        /\ pc'[o] = "succeed" => KindOf[has[o]] = "transfer" \/ closed[has[o]]
    BY <1>8 DEF FinishTransfer, FinishClose, RetryClose
  <2> QED
    BY <2>1, <2>2
<1>9. ASSUME NEW o \in Owners, Complete(o) PROVE Truthful'
  <2>1. UNCHANGED <<effects, closed, misread>> /\ pc[o] = "succeed" /\ has[o] \in Items
    BY <1>9 DEF Complete, threadLocal, crmVars
  <2>2. /\ UNCHANGED everSubmitted
        /\ \A i \in Items : status'[i] = "succeeded" => status[i] = "succeeded" \/ i = has[o]
    BY <1>9, <2>1 DEF Complete, Call, repoVars, Repo!CompleteItem
  <2>3. \A q \in Owners : (pc'[q] = pc[q] /\ has'[q] = has[q]) \/ pc'[q] \in {"top", "raise"}
    BY <1>9 DEF Complete, Call
  <2>4. \A q \in Owners : Knows(q)'
    BY <2>1, <2>3
  <2>5. \A i \in Items : Told(i)'
    <3>1. Knows(o) /\ \A i \in Items : Told(i)
      OBVIOUS
    <3> QED
      BY <2>1, <2>2, <3>1
  <2> QED
    BY <2>4, <2>5
<1> QED
  BY <1>1, <1>2, <1>3, <1>4, <1>5, <1>6, <1>7, <1>8, <1>9, QuietOrHandles DEF Handles

-----------------------------------------------------------------------------
(* The effects a claim may still have.  A transfer is saved once per claim *)
(* and a close is clicked once in each round of its loop: one token each.  *)

Closing(i) == KindOf[i] = "service_close"

MayAct(o, n) ==
  \/ pc[o] = "claimed" /\ (n = 1 \/ Closing(has[o]))
  \/ pc[o] = "work" /\ (IF Closing(has[o]) THEN n >= round[o] ELSE n = 1)
  \/ pc[o] \in {"acted", "confirm"} /\ Closing(has[o]) /\ n > round[o]

Tokens(i) == {t \in Owners \X {1, 2} : has[t[1]] = i /\ MayAct(t[1], t[2])}

Allowed(i) == IF Closing(i) THEN 2 * attempts[i] ELSE attempts[i]

Budget(i) == IsFiniteSet(Tokens(i)) /\ effects[i] + misread[i] + Cardinality(Tokens(i)) <= Allowed(i)

Budgeted == \A i \in Items : Budget(i)

LEMMA BudgetKeeps ==
  ASSUME Base, NEW i \in Items, Budget(i), Tokens(i)' \subseteq Tokens(i),
         effects'[i] = effects[i], misread'[i] = misread[i], attempts'[i] = attempts[i]
  PROVE  Budget(i)'
<1>1. IsFiniteSet(Tokens(i)') /\ Cardinality(Tokens(i)') <= Cardinality(Tokens(i))
  BY FS_Subset DEF Budget
<1>2. Cardinality(Tokens(i)) \in Nat /\ Cardinality(Tokens(i)') \in Nat
  BY <1>1, FS_CardinalityType DEF Budget
<1>3. attempts[i] \in Nat /\ effects[i] \in Nat /\ misread[i] \in Nat
  BY DEF Base, RowsSafe, Repo!TypeOK, Typed
<1> QED
  BY <1>1, <1>2, <1>3 DEF Budget, Allowed, Closing

LEMMA BudgetSpends ==
  ASSUME Base, NEW i \in Items, Budget(i), NEW t \in Tokens(i), Tokens(i)' \subseteq Tokens(i) \ {t},
         effects'[i] + misread'[i] = effects[i] + misread[i] + 1, attempts'[i] = attempts[i]
  PROVE  Budget(i)'
<1>1. /\ IsFiniteSet(Tokens(i) \ {t})
      /\ Cardinality(Tokens(i) \ {t}) = Cardinality(Tokens(i)) - 1
  BY FS_RemoveElement DEF Budget
<1>2. IsFiniteSet(Tokens(i)') /\ Cardinality(Tokens(i)') <= Cardinality(Tokens(i)) - 1
  BY <1>1, FS_Subset
<1>3. Cardinality(Tokens(i)) \in Nat /\ Cardinality(Tokens(i)') \in Nat
  BY <1>2, FS_CardinalityType DEF Budget
<1>4. attempts[i] \in Nat /\ effects[i] \in Nat /\ misread[i] \in Nat
  BY DEF Base, RowsSafe, Repo!TypeOK, Typed
<1> QED
  BY <1>2, <1>3, <1>4 DEF Budget, Allowed, Closing

LEMMA AddOne ==
  ASSUME NEW S, IsFiniteSet(S), NEW x
  PROVE  /\ IsFiniteSet(S \cup {x}) /\ Cardinality(S \cup {x}) \in Nat
         /\ Cardinality(S \cup {x}) <= Cardinality(S) + 1
<1>1. Cardinality(S) \in Nat
  BY FS_CardinalityType
<1>2. IsFiniteSet(S \cup {x})
  BY FS_AddElement
<1>3. Cardinality(S \cup {x}) = IF x \in S THEN Cardinality(S) ELSE Cardinality(S) + 1
  BY FS_AddElement
<1> QED
  BY <1>1, <1>2, <1>3

LEMMA BudgetGrows ==
  ASSUME Base, NEW i \in Items, Budget(i), NEW o \in Owners,
         Tokens(i)' \subseteq Tokens(i) \cup (IF Closing(i) THEN {<<o, 1>>, <<o, 2>>} ELSE {<<o, 1>>}),
         effects'[i] = effects[i], misread'[i] = misread[i], attempts'[i] = attempts[i] + 1
  PROVE  Budget(i)'
<1> DEFINE one == Tokens(i) \cup {<<o, 1>>}
           two == one \cup {<<o, 2>>}
<1>1. attempts[i] \in Nat /\ effects[i] \in Nat /\ misread[i] \in Nat
  BY DEF Base, RowsSafe, Repo!TypeOK, Typed
<1>2. IsFiniteSet(Tokens(i)) /\ Cardinality(Tokens(i)) \in Nat
  BY FS_CardinalityType DEF Budget
<1>3. IsFiniteSet(one) /\ Cardinality(one) \in Nat /\ Cardinality(one) <= Cardinality(Tokens(i)) + 1
  BY <1>2, AddOne
<1>4. IsFiniteSet(two) /\ Cardinality(two) \in Nat /\ Cardinality(two) <= Cardinality(one) + 1
  BY <1>3, AddOne
<1>5. CASE Closing(i)
  <2>1. Tokens(i)' \subseteq two
    BY <1>5
  <2>2. IsFiniteSet(Tokens(i)') /\ Cardinality(Tokens(i)') \in Nat /\ Cardinality(Tokens(i)') <= Cardinality(two)
    BY <1>4, <2>1, FS_Subset, FS_CardinalityType
  <2> HIDE DEF one, two
  <2> QED
    BY <1>1, <1>2, <1>3, <1>4, <1>5, <2>2 DEF Budget, Allowed, Closing
<1>6. CASE ~Closing(i)
  <2>1. Tokens(i)' \subseteq one
    BY <1>6
  <2>2. IsFiniteSet(Tokens(i)') /\ Cardinality(Tokens(i)') \in Nat /\ Cardinality(Tokens(i)') <= Cardinality(one)
    BY <1>3, <2>1, FS_Subset, FS_CardinalityType
  <2> HIDE DEF one, two
  <2> QED
    BY <1>1, <1>2, <1>3, <1>6, <2>2 DEF Budget, Allowed, Closing
<1> QED
  BY <1>5, <1>6

\* Where only one thread moves, only its tokens change.
LEMMA TokensOf ==
  ASSUME NEW i, NEW o \in Owners, \A q \in Owners \ {o} : Stays(q)
  PROVE  \A t \in Tokens(i)' : t \in Tokens(i) \/ (\E n \in {1, 2} : t = <<o, n>> /\ has'[o] = i /\ MayAct(o, n)')
BY DEF Tokens, MayAct, Stays

LEMMA TokensShrink ==
  ASSUME NEW i, NEW o \in Owners, \A q \in Owners \ {o} : Stays(q),
         \A n \in {1, 2} : has'[o] = i /\ MayAct(o, n)' => has[o] = i /\ MayAct(o, n)
  PROVE  Tokens(i)' \subseteq Tokens(i)
<1> SUFFICES ASSUME NEW t \in Tokens(i)', t \notin Tokens(i) PROVE FALSE
  OBVIOUS
<1> PICK n \in {1, 2} : t = <<o, n>> /\ has'[o] = i /\ MayAct(o, n)'
  BY TokensOf
<1>1. has[o] = i /\ MayAct(o, n)
  OBVIOUS
<1> QED
  BY <1>1 DEF Tokens

LEMMA BudgetStep == Base /\ Budgeted /\ [Next]_vars => Budgeted'
<1> SUFFICES ASSUME Base, Budgeted, [Next]_vars, NEW i \in Items PROVE Budget(i)'
  BY DEF Budgeted
<1> Base' /\ Budget(i)
  BY StepBase DEF Budgeted
<1> USE DEF Working, Go
<1>0. /\ pc \in [Owners -> {"dead", "top", "claim"} \cup Working]
      /\ has \in [Owners -> Items \cup {NoItem}] /\ round \in [Owners -> 1..2]
      /\ effects \in [Items -> Nat] /\ misread \in [Items -> Nat] /\ attempts \in [Items -> Nat]
      /\ \A o \in Owners : pc[o] \in Working <=> has[o] # NoItem
  BY DEF Base, Typed, Busy, RowsSafe, Repo!TypeOK
<1>1. CASE Quiet
  <2>1. Tokens(i)' \subseteq Tokens(i)
    BY <1>1 DEF Quiet, Stays, Drops, Tokens, MayAct
  <2> QED
    BY <1>1, <2>1, BudgetKeeps DEF Quiet
<1>2. ASSUME NEW o \in Owners, Claim(o) PROVE Budget(i)'
  <2>1. /\ UNCHANGED <<effects, misread, round>> /\ pc[o] = "claim"
        /\ \A q \in Owners \ {o} : Stays(q)
    BY <1>0, <1>2 DEF Claim, threadLocal, crmVars, Stays
  <2>2. CASE \E h \in Items : Repo!ClaimItem(h, o) /\ (pc'[o] \notin Working \/ has'[o] = h)
    <3> PICK h \in Items : Repo!ClaimItem(h, o) /\ (pc'[o] \notin Working \/ has'[o] = h)
      BY <2>2
    <3>1. attempts' = [attempts EXCEPT ![h] = @ + 1]
      BY DEF Repo!ClaimItem
    <3>2. has'[o] # NoItem => pc'[o] \in Working
      BY DEF Base, Busy
    <3>3. CASE h = i
      <4>1. pc'[o] \in Working => pc'[o] = "claimed"
        BY <1>0, <1>2 DEF Claim
      <4>2. has'[o] = i => pc'[o] = "claimed"
        BY <4>1, <3>2
      <4>3. Tokens(i)' \subseteq Tokens(i) \cup (IF Closing(i) THEN {<<o, 1>>, <<o, 2>>} ELSE {<<o, 1>>})
        BY <2>1, <4>2, TokensOf DEF MayAct, Closing
      <4> QED
        BY <1>0, <2>1, <3>1, <3>3, <4>3, BudgetGrows
    <3>4. CASE h # i
      <4>1. has'[o] # i
        BY <3>2, <3>4
      <4>2. Tokens(i)' \subseteq Tokens(i)
        BY <2>1, <4>1, TokensOf
      <4> QED
        BY <1>0, <2>1, <3>1, <3>4, <4>2, BudgetKeeps
    <3> QED
      BY <3>3, <3>4
  <2>3. CASE UNCHANGED <<attempts, has>>
    <3>1. has[o] # i
      BY <1>0, <2>1
    <3>2. Tokens(i)' \subseteq Tokens(i)
      BY <2>1, <2>3, <3>1, TokensOf
    <3> QED
      BY <2>1, <2>3, <3>2, BudgetKeeps
  <2>4. \/ \E h \in Items : Repo!ClaimItem(h, o) /\ (pc'[o] \notin Working \/ has'[o] = h)
        \/ UNCHANGED <<attempts, has>>
    BY <1>0, <1>2 DEF Claim, repoVars
  <2> QED
    BY <2>2, <2>3, <2>4
<1>3. ASSUME NEW o \in Owners, Start(o) PROVE Budget(i)'
  <2>1. /\ UNCHANGED <<effects, misread>> /\ pc[o] = "claimed" /\ has[o] \in Items
        /\ pc'[o] \in {"work", "dead"} /\ round'[o] = 1
        /\ has'[o] = IF pc'[o] = "work" THEN has[o] ELSE NoItem
        /\ \A q \in Owners \ {o} : Stays(q)
    BY <1>0, <1>3 DEF Start, Call, crmVars, Stays
  <2>2. UNCHANGED attempts
    BY <1>3, <2>1 DEF Start, Call, repoVars, Repo!StartItem
  <2>3. \A n \in {1, 2} : has'[o] = i /\ MayAct(o, n)' => has[o] = i /\ MayAct(o, n)
    BY <2>1 DEF MayAct, Closing
  <2>4. Tokens(i)' \subseteq Tokens(i)
    BY <2>1, <2>3, TokensShrink
  <2> QED
    BY <2>1, <2>2, <2>4, BudgetKeeps
<1>4. ASSUME NEW o \in Owners, SafeWork(o) \/ LogAndMark(o) \/ FinishTransfer(o) \/ Complete(o)
      PROVE  Budget(i)'
  <2>1. /\ UNCHANGED <<effects, misread, round>> /\ has'[o] \in {has[o], NoItem} /\ has[o] \in Items
        /\ \A q \in Owners \ {o} : Stays(q)
        /\ \/ pc'[o] \in {"succeed", "raise", "top"}
           \/ pc[o] = "acted" /\ pc'[o] = "confirm"
    BY <1>0, <1>4 DEF SafeWork, LogAndMark, FinishTransfer, Complete, Call, threadLocal, crmVars, Stays
  <2>2. UNCHANGED attempts
    BY <1>4, <2>1 DEF SafeWork, LogAndMark, FinishTransfer, Complete, Call, repoVars,
                      Repo!MarkSubmitted, Repo!CompleteItem
  <2>3. \A n \in {1, 2} : has'[o] = i /\ MayAct(o, n)' => has[o] = i /\ MayAct(o, n)
    BY <2>1 DEF MayAct, Closing
  <2>4. Tokens(i)' \subseteq Tokens(i)
    BY <2>1, <2>3, TokensShrink
  <2> QED
    BY <2>1, <2>2, <2>4, BudgetKeeps
<1>5. ASSUME NEW o \in Owners, SaveTransfer(o) PROVE Budget(i)'
  <2>1. /\ UNCHANGED <<round, has, attempts>> /\ has[o] \in Items /\ pc[o] = "work"
        /\ KindOf[has[o]] = "transfer" /\ pc'[o] \in {"acted", "raise"}
        /\ \/ effects' = effects /\ misread' = misread
           \/ effects' = [effects EXCEPT ![has[o]] = @ + 1] /\ misread' = misread
           \/ effects' = effects /\ misread' = [misread EXCEPT ![has[o]] = @ + 1]
        /\ \A q \in Owners \ {o} : Stays(q)
    BY <1>0, <1>5 DEF SaveTransfer, repoVars, Stays
  <2>2. \A n \in {1, 2} : ~MayAct(o, n)'
    BY <2>1 DEF MayAct, Closing
  <2>3. Tokens(i)' \subseteq Tokens(i) \ {<<o, 1>>}
    BY <2>1, <2>2, TokensOf DEF Tokens
  <2>4. has[o] = i => <<o, 1>> \in Tokens(i)
    BY <2>1 DEF Tokens, MayAct, Closing
  <2> QED
    BY <1>0, <2>1, <2>3, <2>4, BudgetKeeps, BudgetSpends
<1>6. ASSUME NEW o \in Owners, CloseOrder(o) PROVE Budget(i)'
  <2>1. /\ UNCHANGED <<has, attempts, misread>> /\ has[o] \in Items /\ pc[o] = "work"
        /\ Closing(has[o]) /\ round[o] \in {1, 2}
        /\ \A q \in Owners \ {o} : Stays(q)
    BY <1>0, <1>6 DEF CloseOrder, RetryClose, repoVars, Stays, Closing
  <2>2. CASE /\ effects' = [effects EXCEPT ![has[o]] = @ + 1]
             /\ pc'[o] = "acted" /\ UNCHANGED round
    <3>1. \A n \in {1, 2} : MayAct(o, n)' => MayAct(o, n) /\ n # round[o]
      BY <2>1, <2>2 DEF MayAct, Closing
    <3>2. Tokens(i)' \subseteq Tokens(i) \ {<<o, round[o]>>}
      BY <2>1, <3>1, TokensOf DEF Tokens
    <3>3. has[o] = i => <<o, round[o]>> \in Tokens(i)
      BY <2>1 DEF Tokens, MayAct, Closing
    <3> QED
      BY <1>0, <2>1, <2>2, <3>2, <3>3, BudgetKeeps, BudgetSpends
  <2>3. CASE /\ UNCHANGED effects
             /\ pc'[o] \in {"succeed", "raise"} \/ (pc'[o] = "work" /\ round[o] = 1 /\ round'[o] = 2)
    <3>1. \A n \in {1, 2} : MayAct(o, n)' => MayAct(o, n)
      BY <2>1, <2>3 DEF MayAct, Closing
    <3>2. Tokens(i)' \subseteq Tokens(i)
      BY <2>1, <3>1, TokensShrink
    <3> QED
      BY <2>1, <2>3, <3>2, BudgetKeeps
  <2> QED
    BY <1>0, <1>6, <2>2, <2>3 DEF CloseOrder, RetryClose
<1>7. ASSUME NEW o \in Owners, FinishClose(o) PROVE Budget(i)'
  <2>1. /\ UNCHANGED <<effects, misread, has, attempts>> /\ has[o] \in Items /\ pc[o] = "confirm"
        /\ Closing(has[o]) /\ round[o] \in {1, 2}
        /\ \A q \in Owners \ {o} : Stays(q)
        /\ pc'[o] \in {"succeed", "raise"} \/ (pc'[o] = "work" /\ round[o] = 1 /\ round'[o] = 2)
    BY <1>0, <1>7 DEF FinishClose, RetryClose, repoVars, crmVars, Stays, Closing
  <2>2. \A n \in {1, 2} : MayAct(o, n)' => MayAct(o, n)
    BY <2>1 DEF MayAct, Closing
  <2>3. Tokens(i)' \subseteq Tokens(i)
    BY <2>1, <2>2, TokensShrink
  <2> QED
    BY <2>1, <2>3, BudgetKeeps
<1> QED
  BY <1>1, <1>2, <1>3, <1>4, <1>5, <1>6, <1>7, QuietOrHandles DEF Handles

LEMMA InitRecords == Init => Truthful /\ Budgeted
<1> SUFFICES ASSUME Init PROVE Truthful /\ Budgeted
  OBVIOUS
<1>1. Truthful
  BY DEF Init, Repo!Init, Truthful, Knows, Told, Acts
<1>2. ASSUME NEW i \in Items PROVE Budget(i)
  <2>1. Tokens(i) = {}
    BY DEF Init, Tokens
  <2> QED
    BY <2>1, FS_EmptySet DEF Init, Repo!Init, Budget, Allowed
<1> QED
  BY <1>1, <1>2 DEF Budgeted

(* What the rows say of the CRM is true on every node, but for the orders  *)
(* _save_transfer_header takes for saved because of a message, and every   *)
(* effect, these included, is accounted for by a claim, whatever crashes,  *)
(* raises or runs out.                                                     *)
THEOREM RecordsCorrect == Spec => []RecordsMatchCrm
<1>1. Init => Base /\ Truthful /\ Budgeted
  BY InitBase, InitRecords
<1>2. Base /\ Truthful /\ Budgeted /\ [Next]_vars => (Base /\ Truthful /\ Budgeted)'
  BY StepBase, TruthfulStep, BudgetStep
<1>3. Base /\ Truthful /\ Budgeted => RecordsMatchCrm
  <2> SUFFICES ASSUME Base, Truthful, Budgeted, NEW i \in Items
               PROVE  /\ Told(i)
                      /\ effects[i] + misread[i] <= (IF KindOf[i] = "service_close" THEN 2 ELSE 1) * attempts[i]
    BY DEF RecordsMatchCrm, Told, Acts
  <2>1. Budget(i) /\ attempts[i] \in Nat /\ effects[i] \in Nat /\ misread[i] \in Nat
    BY DEF Budgeted, Base, RowsSafe, Repo!TypeOK, Typed
  <2>2. Cardinality(Tokens(i)) \in Nat
    BY <2>1, FS_CardinalityType DEF Budget
  <2>3. effects[i] + misread[i] <= Allowed(i)
    BY <2>1, <2>2 DEF Budget, Allowed
  <2> QED
    BY <2>1, <2>3 DEF Truthful, Allowed, Closing
<1> QED
  BY <1>1, <1>2, <1>3, PTL DEF Spec

-----------------------------------------------------------------------------
(* What happens to the rows.                                               *)

Calm(i) == expiries[i] = 0 /\ faults = 0

LEMMA CalmBefore == ASSUME Base, [Next]_vars, NEW i \in Items, Calm(i)' PROVE Calm(i)
<1>1. /\ faults \in Nat /\ expiries \in [Items -> Nat] /\ faults' = 0 /\ expiries'[i] = 0
  BY DEF Base, Typed, RowsSafe, Repo!TypeOK, Calm
<1>2. expiries'[i] >= expiries[i]
  <2>1. CASE UNCHANGED repoVars
    BY <1>1, <2>1 DEF repoVars
  <2>2. ASSUME NEW h \in Items, NEW o \in Owners, Repo!HolderStep(h, o) PROVE UNCHANGED expiries
    BY <2>2 DEF Repo!HolderStep, Repo!ClaimItem, Repo!StartItem, Repo!RenewLease, Repo!MarkSubmitted,
                Repo!CompleteItem, Repo!FailItem
  <2>3. ASSUME NEW h \in Items, Repo!LeaseExpires(h) PROVE expiries'[i] >= expiries[i]
    BY <1>1, <2>3 DEF Repo!LeaseExpires
  <2>4. ASSUME NEW S \in SUBSET Items, Repo!RecoverExpired(S) PROVE UNCHANGED expiries
    BY <2>4 DEF Repo!RecoverExpired
  <2>5. ASSUME NEW j \in Jobs, Repo!CreateJob(j) \/ Repo!RequestStop(j) PROVE UNCHANGED expiries
    BY <2>5 DEF Repo!CreateJob, Repo!RequestStop
  <2> QED
    BY <1>1, <2>1, <2>2, <2>3, <2>4, <2>5, StepImplements DEF Repo!Next
<1>3. faults' \in {faults, faults + 1}
  <2>1. ASSUME NEW o \in Owners, ThreadStep(o) PROVE faults' \in {faults, faults + 1}
    BY <2>1 DEF ThreadStep, Leave, Recover, Claim, Start, SafeWork, SaveTransfer, CloseOrder, LogAndMark,
                FinishTransfer, FinishClose, Complete, Fail, Call, Fault, threadLocal
  <2>2. ASSUME NEW o \in Owners, Renew(o) \/ SlotLogin(o) \/ SlotLogout(o)
        PROVE  faults' \in {faults, faults + 1}
    BY <2>2 DEF Renew, SlotLogin, SlotLogout, Fault
  <2>3. ASSUME NEW n \in Nodes, StartScheduler(n) \/ ReconcileSlots(n) \/ Crash(n)
        PROVE  faults' \in {faults, faults + 1}
    BY <2>3 DEF StartScheduler, ReconcileSlots, Crash, Fault
  <2>4. ASSUME NEW j \in Jobs, CreateJob(j) \/ StopJob(j) PROVE faults' = faults
    BY <2>4 DEF CreateJob, StopJob, environment
  <2>5. ASSUME NEW h \in Items, CrmCloses(h) \/ LeaseRunsOut(h) \/ LeaseStalls(h) PROVE faults' = faults
    BY <2>5 DEF CrmCloses, LeaseRunsOut, LeaseStalls, environment
  <2>6. CASE UNCHANGED vars
    BY <2>6 DEF vars
  <2> QED
    BY <2>1, <2>2, <2>3, <2>4, <2>5, <2>6 DEF Next
<1> QED
  BY <1>1, <1>2, <1>3 DEF Calm

\* In a step that no handler makes: nobody becomes an owner, and the row of
\* a transfer that lost no lease only appears, or is given back as failed.
QuietRows ==
  /\ \A i \in Items : owner'[i] \in {owner[i], NoOwner}
  /\ \A i \in Items : KindOf[i] = "transfer" /\ Calm(i)' =>
       \/ status'[i] = status[i] /\ owner'[i] = owner[i]
       \/ status[i] = "absent" /\ status'[i] = "pending" /\ owner'[i] = owner[i]
       \/ \E o \in Owners : has[o] = i /\ Drops(o) /\ pc[o] = "raise" /\ Repo!FailItem(i, o)

LEMMA QuietRecoverRows == ASSUME Base, [Next]_vars, RecoverAll PROVE QuietRows
<1>1. ASSUME NEW i \in Items, lease[i] = "expired" PROVE ~Calm(i)'
  BY <1>1, CalmBefore DEF Base, RowsSafe, ExpiryCounted, Calm
<1>2. CASE UNCHANGED repoVars
  BY <1>2 DEF repoVars, QuietRows
<1>3. ASSUME NEW S \in SUBSET Items, Repo!RecoverExpired(S) PROVE QuietRows
  <2>1. \A i \in S : lease[i] = "expired"
    BY <1>3 DEF Repo!RecoverExpired
  <2>2. \A i \in Items : /\ status'[i] = IF i \in S THEN Repo!AfterLoss(i) ELSE status[i]
                         /\ owner'[i] = IF i \in S THEN NoOwner ELSE owner[i]
    BY <1>3 DEF Repo!RecoverExpired
  <2> QED
    BY <1>1, <2>1, <2>2 DEF QuietRows
<1> QED
  BY <1>2, <1>3 DEF RecoverAll

LEMMA QuietRowsOrHandles == Base /\ [Next]_vars => QuietRows \/ \E o \in Owners : Handles(o)
<1> SUFFICES ASSUME Base, [Next]_vars PROVE QuietRows \/ \E o \in Owners : Handles(o)
  OBVIOUS
<1> USE DEF Go
<1>1. CASE status' = status /\ owner' = owner
  BY <1>1 DEF QuietRows
<1>2. CASE RecoverAll
  BY <1>2, QuietRecoverRows
<1>3. ASSUME NEW o \in Owners, Fail(o) PROVE QuietRows
  <2>1. /\ pc[o] = "raise" /\ has[o] \in Items
        /\ pc' \in {[pc EXCEPT ![o] = "top"], [pc EXCEPT ![o] = "dead"]}
        /\ has' = [has EXCEPT ![o] = NoItem]
        /\ Repo!FailItem(has[o], o) \/ UNCHANGED repoVars
    BY <1>3, WorkingHas DEF Fail, Call, Working
  <2>2. Drops(o)
    BY <2>1 DEF Drops, Working, Base, Typed
  <2>3. CASE Repo!FailItem(has[o], o)
    <3>1. /\ owner' = [owner EXCEPT ![has[o]] = NoOwner]
          /\ status' = [status EXCEPT ![has[o]] = Repo!AfterFailure(has[o])]
      BY <2>3 DEF Repo!FailItem, Repo!Release
    <3>2. owner \in [Items -> Owners \cup {NoOwner}] /\ status \in [Items -> Repo!Statuses]
      BY DEF Base, RowsSafe, Repo!TypeOK
    <3> QED
      BY <2>1, <2>2, <2>3, <3>1, <3>2 DEF QuietRows
  <2>4. CASE UNCHANGED repoVars
    BY <2>4 DEF repoVars, QuietRows
  <2> QED
    BY <2>1, <2>3, <2>4
<1>4. ASSUME NEW j \in Jobs, CreateJob(j) PROVE QuietRows
  <2>1. /\ status' = [i \in Items |-> IF JobOf[i] = j THEN "pending" ELSE status[i]]
        /\ \A i \in Items : JobOf[i] = j => status[i] = "absent"
        /\ owner' = owner
    BY <1>4 DEF CreateJob, Repo!CreateJob
  <2> QED
    BY <2>1 DEF QuietRows
<1>5. ASSUME NEW j \in Jobs, StopJob(j) PROVE QuietRows
  <2>1. /\ owner' = owner
        /\ \A i \in Items : status'[i] = status[i] \/ JobOf[i] = j
        /\ \A i \in Items : JobOf[i] = j => KindOf[i] = "query"
    BY <1>5 DEF StopJob, Repo!RequestStop
  <2> QED
    BY <2>1 DEF QuietRows
<1>6. ASSUME NEW o \in Owners, Renew(o) PROVE status' = status /\ owner' = owner
  <2>1. has[o] \in Items
    BY <1>6, WorkingHas DEF Renew, Base, Busy
  <2> QED
    BY <1>6, <2>1 DEF Renew, repoVars, Repo!RenewLease
<1>7. ASSUME NEW i \in Items, CrmCloses(i) \/ LeaseRunsOut(i) \/ LeaseStalls(i)
      PROVE  status' = status /\ owner' = owner
  BY <1>7 DEF CrmCloses, LeaseRunsOut, LeaseStalls, repoVars, Repo!LeaseExpires
<1>8. ASSUME NEW o \in Owners, Leave(o) \/ SlotLogin(o) \/ SlotLogout(o) PROVE status' = status /\ owner' = owner
  BY <1>8 DEF Leave, SlotLogin, SlotLogout, repoVars
<1>9. ASSUME NEW o \in Owners, Recover(o) PROVE RecoverAll \/ (status' = status /\ owner' = owner)
  BY <1>9 DEF Recover, Call, repoVars
<1>10. ASSUME NEW n \in Nodes, StartScheduler(n) \/ ReconcileSlots(n) \/ Crash(n)
       PROVE  RecoverAll \/ (status' = status /\ owner' = owner)
  BY <1>10 DEF StartScheduler, ReconcileSlots, Crash, repoVars
<1>11. CASE UNCHANGED vars
  BY <1>1, <1>11 DEF vars, repoVars
<1> QED
  BY <1>1, <1>2, <1>3, <1>4, <1>5, <1>6, <1>7, <1>8, <1>9, <1>10, <1>11 DEF Next, ThreadStep, Handles

\* A handler changes nothing but its own thread and item.
LEMMA Elsewhere ==
  ASSUME Base, NEW o \in Owners, Handles(o), ~Claim(o)
  PROVE  /\ has[o] \in Items
         /\ \A q \in Owners \ {o} : Stays(q)
         /\ has'[o] \in {has[o], NoItem}
         /\ \A i \in Items : owner'[i] \in {owner[i], NoOwner}
         /\ \A i \in Items \ {has[o]} :
              /\ status'[i] = status[i] /\ owner'[i] = owner[i]
              /\ effects'[i] = effects[i] /\ everSubmitted'[i] = everSubmitted[i]
<1> USE DEF Go, Stays
<1>0. pc[o] \in Working
  BY DEF Handles, Start, SafeWork, SaveTransfer, CloseOrder, LogAndMark, FinishTransfer, FinishClose,
         Complete, Working
<1>1. has[o] \in Items
  BY <1>0, WorkingHas
<1>2. /\ owner \in [Items -> Owners \cup {NoOwner}] /\ effects \in [Items -> Nat]
      /\ status \in [Items -> Repo!Statuses] /\ everSubmitted \in [Items -> BOOLEAN]
      /\ has \in [Owners -> Items \cup {NoItem}]
  BY DEF Base, RowsSafe, Repo!TypeOK, Typed
<1> DEFINE Rows == /\ \A i \in Items : owner'[i] \in {owner[i], NoOwner}
                   /\ \A i \in Items \ {has[o]} :
                        /\ status'[i] = status[i] /\ owner'[i] = owner[i]
                        /\ everSubmitted'[i] = everSubmitted[i]
<1>3. ASSUME UNCHANGED repoVars PROVE Rows
  BY <1>3 DEF repoVars
<1>4. ASSUME Repo!StartItem(has[o], o) \/ Repo!MarkSubmitted(has[o], o) \/ Repo!CompleteItem(has[o], o)
      PROVE  Rows
  BY <1>1, <1>2, <1>4 DEF Repo!StartItem, Repo!MarkSubmitted, Repo!CompleteItem, Repo!Release
<1>5. Rows
  BY <1>3, <1>4 DEF Handles, Start, SafeWork, SaveTransfer, CloseOrder, LogAndMark, FinishTransfer,
                    FinishClose, Complete, Call
<1>6. \A i \in Items \ {has[o]} : effects'[i] = effects[i]
  BY <1>2 DEF Handles, Start, SafeWork, SaveTransfer, CloseOrder, LogAndMark, FinishTransfer,
              FinishClose, Complete, threadLocal, crmVars
<1>7. /\ \A q \in Owners \ {o} : Stays(q)
      /\ has'[o] \in {has[o], NoItem}
  <2>1. CASE Start(o) \/ SaveTransfer(o) \/ CloseOrder(o) \/ FinishClose(o)
    BY <1>2, <2>1 DEF Base, Typed, Start, SaveTransfer, CloseOrder, FinishClose, RetryClose, Call
  <2>2. CASE SafeWork(o) \/ LogAndMark(o) \/ FinishTransfer(o) \/ Complete(o)
    BY <1>2, <2>2 DEF Base, Typed, SafeWork, LogAndMark, FinishTransfer, Complete, Call, threadLocal
  <2> QED
    BY <2>1, <2>2 DEF Handles
<1> QED
  <2>1. \A i \in Items \ {has[o]} : /\ status'[i] = status[i] /\ owner'[i] = owner[i]
                                    /\ effects'[i] = effects[i] /\ everSubmitted'[i] = everSubmitted[i]
    BY <1>5, <1>6
  <2>2. \A i \in Items : owner'[i] \in {owner[i], NoOwner}
    BY <1>5
  <2> HIDE DEF Rows
  <2> QED
    BY <1>1, <1>7, <2>1, <2>2

-----------------------------------------------------------------------------
(* A worker that may still save a transfer once it was marked has lost it. *)

Fresh(i) ==
  KindOf[i] = "transfer" /\ everSubmitted[i] =>
    \A o \in Owners : has[o] = i /\ pc[o] \in {"claimed", "work"} => owner[i] # o

LEMMA FreshStep == ASSUME Base, [Next]_vars, NEW i \in Items, Fresh(i) PROVE Fresh(i)'
<1> SUFFICES ASSUME KindOf[i] = "transfer", everSubmitted'[i], NEW q \in Owners,
                    has'[q] = i, pc'[q] \in {"claimed", "work"}, owner'[i] = q
             PROVE  FALSE
  BY DEF Fresh
<1> USE DEF Go, Working
<1>0. i # NoItem /\ q # NoOwner
  OBVIOUS
<1>1. CASE Quiet /\ QuietRows
  <2>1. has[q] = i /\ pc[q] \in {"claimed", "work"} /\ everSubmitted[i] /\ owner[i] = q
    BY <1>0, <1>1 DEF Quiet, QuietRows, Stays, Drops
  <2> QED
    BY <2>1 DEF Fresh
<1>2. ASSUME NEW o \in Owners, Claim(o) PROVE FALSE
  <2>1. everSubmitted' = everSubmitted
    BY <1>2 DEF Claim, repoVars, Repo!ClaimItem
  <2>2. ~Repo!Claimable(i)
    BY <2>1 DEF Base, RowsSafe, Repo!NoReplayAfterSubmit, Repo!Claimable, Repo!Unsafe, UnsafeKinds
  <2>3. owner'[i] = owner[i]
    BY <1>2, <2>2 DEF Claim, repoVars, Repo!ClaimItem, Base, RowsSafe, Repo!TypeOK
  <2>4. q # o => has[q] = i /\ pc[q] \in {"claimed", "work"}
    BY <1>2 DEF Claim, Base, Typed
  <2>5. q # o
    <3>1. CASE q = o
      <4>1. \E h \in Items : Repo!ClaimItem(h, o) /\ has' = [has EXCEPT ![o] = h]
        BY <1>2, <3>1 DEF Claim, Base, Typed
      <4>2. \E h \in Items : Repo!Claimable(h) /\ has'[o] = h
        BY <4>1 DEF Repo!ClaimItem, Base, Typed
      <4> QED
        BY <2>2, <3>1, <4>2
    <3> QED
      BY <3>1
  <2> QED
    BY <2>1, <2>3, <2>4, <2>5 DEF Fresh
<1>3. ASSUME NEW o \in Owners, Handles(o), ~Claim(o) PROVE FALSE
  <2>1. owner[i] = q
    BY <1>0, <1>3, Elsewhere
  <2>2. CASE q # o
    <3>1. has[q] = i /\ pc[q] \in {"claimed", "work"}
      BY <1>3, <2>2, Elsewhere DEF Stays
    <3>2. ~everSubmitted[i]
      BY <2>1, <3>1 DEF Fresh
    <3>3. Repo!MarkSubmitted(has[o], o) /\ has[o] = i
      BY <1>3, <3>2, Elsewhere DEF Handles, Start, SafeWork, SaveTransfer, CloseOrder, LogAndMark,
         FinishTransfer, FinishClose, Complete, Call, repoVars, Repo!StartItem, Repo!CompleteItem
    <3> QED
      BY <2>1, <2>2, <3>3 DEF Repo!MarkSubmitted
  <2>3. CASE q = o
    <3>1. has[o] = i
      BY <1>0, <1>3, <2>3, Elsewhere
    <3>2. pc[o] = "claimed" /\ everSubmitted[i]
      BY <1>3, <2>3, <3>1 DEF Base, Typed, Handles, Start, SafeWork, SaveTransfer, CloseOrder, LogAndMark,
         FinishTransfer, FinishClose, Complete, Call, repoVars, Repo!StartItem
    <3> QED
      BY <2>1, <2>3, <3>1, <3>2 DEF Fresh
  <2> QED
    BY <2>2, <2>3
<1> QED
  BY <1>1, <1>2, <1>3, QuietOrHandles, QuietRowsOrHandles

(* After a transfer was marked, only a worker that lost its lease can save *)
(* an order for it.                                                        *)
THEOREM ZombiesCorrect == Spec => OnlyZombiesActAfterSubmit
<1> DEFINE FreshAll == \A i \in Items : Fresh(i)
           Act == \A i \in Items :
                    KindOf[i] = "transfer" /\ everSubmitted[i] /\ effects'[i] > effects[i] =>
                      \E o \in Owners : has[o] = i /\ owner[i] # o
<1>1. Init => FreshAll
  BY DEF Init, Repo!Init, Fresh
<1>2. Base /\ FreshAll /\ [Next]_vars => FreshAll'
  BY FreshStep
<1>3. Base /\ FreshAll /\ [Next]_vars => [Act]_vars
  <2> SUFFICES ASSUME Base, FreshAll, [Next]_vars, NEW i \in Items, KindOf[i] = "transfer",
                      everSubmitted[i], effects'[i] > effects[i]
               PROVE  \E o \in Owners : has[o] = i /\ owner[i] # o
    OBVIOUS
  <2>1. effects[i] \in Nat /\ effects'[i] # effects[i]
    BY DEF Base, Typed
  <2>2. PICK o \in Owners : Handles(o)
    BY <2>1, QuietOrHandles DEF Quiet
  <2>3. ~Claim(o)
    BY <2>1 DEF Claim, threadLocal, crmVars
  <2>4. has[o] = i
    BY <2>1, <2>2, <2>3, Elsewhere
  <2>5. pc[o] = "work"
    BY <2>1, <2>2, <2>3, <2>4 DEF Handles, Start, SafeWork, SaveTransfer, CloseOrder, LogAndMark,
         FinishTransfer, FinishClose, Complete, threadLocal, crmVars
  <2> QED
    BY <2>4, <2>5 DEF Fresh
<1> QED
  BY <1>1, <1>2, <1>3, SchedulerSafe, PTL DEF Spec, OnlyZombiesActAfterSubmit

-----------------------------------------------------------------------------
(* While no lease ran out and nothing failed, a transfer has one worker,   *)
(* its row says where that worker is, and no order is repeated.            *)

Alone(o, i) ==
  /\ owner[i] = o
  /\ pc[o] = "claimed" => status[i] = "leased"
  /\ pc[o] \in {"work", "acted"} => status[i] = "running"
  /\ pc[o] \in {"confirm", "succeed"} => status[i] = "submitted_to_crm"
  /\ pc[o] \in {"claimed", "work"} => effects[i] = 0
  /\ pc[o] = "raise" /\ effects[i] > 0 => status[i] = "submitted_to_crm"

Single(i) ==
  KindOf[i] = "transfer" /\ Calm(i) =>
    /\ \A o \in Owners : has[o] = i => Alone(o, i)
    /\ effects[i] <= 1
    /\ effects[i] > 0 => status[i] \in Repo!Active \cup {"succeeded", "needs_review"}

LEMMA SingleQuiet ==
  ASSUME Base, [Next]_vars, NEW i \in Items, Single(i), KindOf[i] = "transfer", Calm(i)', Quiet, QuietRows
  PROVE  Single(i)'
<1>1. Calm(i)
  BY CalmBefore
<1>2. effects' = effects /\ \A o \in Owners : Stays(o) \/ Drops(o)
  BY DEF Quiet
<1>3. NoItem # i
  OBVIOUS
<1>4. CASE status'[i] = status[i] /\ owner'[i] = owner[i]
  BY <1>1, <1>2, <1>3, <1>4 DEF Single, Alone, Stays, Drops
<1>5. CASE status[i] = "absent" /\ status'[i] = "pending" /\ owner'[i] = owner[i]
  <2>1. \A o \in Owners : has[o] # i
    BY <1>1, <1>5 DEF Single, Alone, Base, RowsSafe, Repo!LeaseIffActive
  <2>2. ~(effects[i] > 0)
    BY <1>1, <1>5 DEF Single
  <2>3. \A o \in Owners : has'[o] # i
    BY <1>2, <1>3, <2>1 DEF Stays, Drops
  <2> QED
    BY <1>1, <1>2, <2>2, <2>3 DEF Single
<1>6. ASSUME NEW o \in Owners, has[o] = i, Drops(o), pc[o] = "raise", Repo!FailItem(i, o) PROVE Single(i)'
  <2>1. owner[i] = o /\ status'[i] = Repo!AfterFailure(i)
    BY <1>6 DEF Repo!FailItem, Base, RowsSafe, Repo!TypeOK
  <2>2. \A q \in Owners : has'[q] # i
    BY <1>1, <1>2, <1>3, <1>6, <2>1 DEF Single, Alone, Stays, Drops
  <2>3. effects[i] > 0 => status'[i] = "needs_review"
    BY <1>1, <1>6, <2>1 DEF Single, Alone, Repo!AfterFailure, Repo!Unsafe, UnsafeKinds
  <2> QED
    BY <1>1, <1>2, <2>2, <2>3 DEF Single
<1> QED
  BY <1>4, <1>5, <1>6 DEF QuietRows

LEMMA SingleClaim ==
  ASSUME Base, [Next]_vars, NEW i \in Items, Single(i), KindOf[i] = "transfer", Calm(i)',
         NEW o \in Owners, Claim(o)
  PROVE  Single(i)'
<1>1. Calm(i) /\ faults' = 0 /\ faults = 0
  BY CalmBefore DEF Calm
<1>2. effects' = effects /\ pc[o] = "claim" /\ has[o] # i
  BY DEF Claim, threadLocal, crmVars, Base, Busy, Working
<1>3. CASE UNCHANGED <<repoVars, has>> /\ pc' = [pc EXCEPT ![o] = "top"]
  BY <1>1, <1>2, <1>3 DEF Single, Alone, repoVars, Base, Typed
<1>4. ASSUME NEW h \in Items, Repo!ClaimItem(h, o), has' = [has EXCEPT ![o] = h],
             pc' = [pc EXCEPT ![o] = "claimed"]
      PROVE  Single(i)'
  <2>1. /\ pc \in [Owners -> {"dead", "top", "claim"} \cup Working] /\ has \in [Owners -> Items \cup {NoItem}]
        /\ owner \in [Items -> Owners \cup {NoOwner}] /\ status \in [Items -> Repo!Statuses]
    BY DEF Base, RowsSafe, Repo!TypeOK, Typed
  <2>2. /\ Repo!Claimable(h) /\ status' = [status EXCEPT ![h] = "leased"]
        /\ owner' = [owner EXCEPT ![h] = o]
    BY <1>4 DEF Repo!ClaimItem
  <2>3. /\ \A q \in Owners \ {o} : pc'[q] = pc[q] /\ has'[q] = has[q]
        /\ pc'[o] = "claimed" /\ has'[o] = h
    BY <1>4, <2>1
  <2>4. CASE h # i
    <3>1. status'[i] = status[i] /\ owner'[i] = owner[i]
      BY <2>1, <2>2, <2>4
    <3> QED
      BY <1>1, <1>2, <2>3, <2>4, <3>1 DEF Single, Alone
  <2>5. CASE h = i
    <3>1. status[i] \in {"pending", "failed"} /\ status'[i] = "leased" /\ owner'[i] = o
      BY <2>1, <2>2, <2>5 DEF Repo!Claimable
    <3>2. \A q \in Owners : has[q] # i
      BY <1>1, <3>1 DEF Single, Alone, Base, RowsSafe, Repo!LeaseIffActive
    <3>3. effects[i] = 0
      BY <1>1, <3>1 DEF Single, Base, Typed
    <3>4. \A q \in Owners : has'[q] = i => q = o
      BY <2>3, <3>2
    <3> QED
      BY <1>2, <2>3, <3>1, <3>3, <3>4 DEF Single, Alone
  <2> QED
    BY <2>4, <2>5
<1>5. faults' # faults + 1
  BY <1>1
<1>6. \/ UNCHANGED <<repoVars, has>> /\ pc' = [pc EXCEPT ![o] = "top"]
      \/ \E h \in Items : /\ Repo!ClaimItem(h, o) /\ has' = [has EXCEPT ![o] = h]
                          /\ pc' = [pc EXCEPT ![o] = "claimed"]
  BY <1>5 DEF Claim, Go, Fault
<1> QED
  BY <1>3, <1>4, <1>6

\* What the worker of a transfer does to its row while all is well.
LEMMA CalmHandler ==
  ASSUME Base, [Next]_vars, NEW i \in Items, KindOf[i] = "transfer", Calm(i)', effects[i] <= 1,
         NEW o \in Owners, Handles(o), ~Claim(o), has[o] = i, Alone(o, i)
  PROVE  /\ has'[o] = i => Alone(o, i)'
         /\ effects'[i] <= 1
         /\ status'[i] \in Repo!Active \cup {"succeeded"}
<1>0. faults' # faults + 1 /\ i # NoItem /\ o # NoOwner
  BY CalmBefore DEF Calm
<1>1. /\ pc \in [Owners -> {"dead", "top", "claim"} \cup Working] /\ has \in [Owners -> Items \cup {NoItem}]
      /\ owner \in [Items -> Owners \cup {NoOwner}] /\ status \in [Items -> Repo!Statuses]
      /\ effects \in [Items -> Nat]
  BY DEF Base, RowsSafe, Repo!TypeOK, Typed
<1>2. owner[i] = o /\ status[i] \in Repo!Active
  BY <1>0 DEF Alone, Base, RowsSafe, Repo!LeaseIffActive
<1> USE DEF Go, Call, Fault, Working
<1>3. CASE Start(o)
  <2>1. pc[o] = "claimed" /\ status[i] = "leased" /\ effects[i] = 0
    BY <1>3 DEF Start, Alone
  <2>2. Repo!StartItem(i, o) /\ pc' = [pc EXCEPT ![o] = "work"] /\ UNCHANGED effects
    BY <1>0, <1>2, <1>3, <2>1 DEF Start, crmVars
  <2>3. pc'[o] = "work" /\ owner'[i] = o /\ status'[i] = "running" /\ effects'[i] = 0
    BY <1>1, <1>2, <2>1, <2>2 DEF Repo!StartItem
  <2> QED
    BY <2>3 DEF Alone
<1>4. CASE SafeWork(o) \/ CloseOrder(o) \/ FinishClose(o)
  BY <1>4 DEF SafeWork, CloseOrder, FinishClose, UnsafeKinds
<1>5. CASE SaveTransfer(o)
  <2>1. pc[o] = "work" /\ status[i] = "running" /\ effects[i] = 0
    BY <1>5 DEF SaveTransfer, Alone
  <2>2. /\ UNCHANGED <<status, owner>>
        /\ \/ pc' = [pc EXCEPT ![o] = "acted"] /\ effects' = [effects EXCEPT ![i] = @ + 1]
           \/ pc' = [pc EXCEPT ![o] = "acted"] /\ UNCHANGED effects
           \/ pc' = [pc EXCEPT ![o] = "raise"] /\ UNCHANGED effects
    BY <1>0, <1>5 DEF SaveTransfer, repoVars
  <2>3. /\ owner'[i] = o /\ status'[i] = "running" /\ effects'[i] <= 1
        /\ \/ pc'[o] = "acted"
           \/ pc'[o] = "raise" /\ effects'[i] = 0
    BY <1>1, <1>2, <2>1, <2>2
  <2> QED
    BY <2>3 DEF Alone
<1>6. CASE LogAndMark(o)
  <2>1. pc[o] = "acted" /\ status[i] = "running"
    BY <1>6 DEF LogAndMark, Alone
  <2>2. Repo!MarkSubmitted(i, o) /\ pc' = [pc EXCEPT ![o] = "confirm"] /\ UNCHANGED effects
    BY <1>0, <1>2, <1>6, <2>1 DEF LogAndMark, threadLocal, crmVars
  <2>3. pc'[o] = "confirm" /\ owner'[i] = o /\ status'[i] = "submitted_to_crm" /\ effects'[i] <= 1
    BY <1>1, <1>2, <2>1, <2>2 DEF Repo!MarkSubmitted
  <2> QED
    BY <2>3 DEF Alone
<1>7. CASE FinishTransfer(o)
  <2>1. pc[o] = "confirm" /\ status[i] = "submitted_to_crm"
    BY <1>7 DEF FinishTransfer, Alone
  <2>2. /\ UNCHANGED <<status, owner, effects>>
        /\ pc' = [pc EXCEPT ![o] = "succeed"] \/ pc' = [pc EXCEPT ![o] = "raise"]
    BY <1>7 DEF FinishTransfer, repoVars, threadLocal, crmVars
  <2> QED
    BY <1>1, <1>2, <2>1, <2>2 DEF Alone
<1>8. CASE Complete(o)
  <2>1. pc[o] = "succeed"
    BY <1>8 DEF Complete
  <2>2. /\ Repo!CompleteItem(i, o) /\ pc' = [pc EXCEPT ![o] = "top"] /\ UNCHANGED effects
        /\ has' = [has EXCEPT ![o] = IF pc'[o] = "top" THEN NoItem ELSE i]
    BY <1>0, <1>2, <1>8, <2>1 DEF Complete, threadLocal, crmVars, Repo!Holds
  <2>3. status' = [status EXCEPT ![i] = "succeeded"]
    BY <2>2 DEF Repo!CompleteItem
  <2> QED
    BY <1>0, <1>1, <2>2, <2>3
<1> QED
  BY <1>3, <1>4, <1>5, <1>6, <1>7, <1>8 DEF Handles

LEMMA SingleHandles ==
  ASSUME Base, [Next]_vars, NEW i \in Items, Single(i), KindOf[i] = "transfer", Calm(i)',
         NEW o \in Owners, Handles(o), ~Claim(o)
  PROVE  Single(i)'
<1>0. Calm(i) /\ i # NoItem
  BY CalmBefore
<1>1. /\ \A q \in Owners \ {o} : Stays(q)
      /\ has'[o] \in {has[o], NoItem}
  BY Elsewhere
<1>2. CASE has[o] # i
  <2>1. status'[i] = status[i] /\ owner'[i] = owner[i] /\ effects'[i] = effects[i]
    BY <1>2, Elsewhere
  <2>2. \A q \in Owners : has'[q] = i => has[q] = i /\ pc'[q] = pc[q]
    BY <1>0, <1>1, <1>2 DEF Stays
  <2> QED
    BY <1>0, <2>1, <2>2 DEF Single, Alone
<1>3. CASE has[o] = i
  <2>1. Alone(o, i) /\ effects[i] <= 1
    BY <1>0, <1>3 DEF Single
  <2>2. \A q \in Owners : has'[q] = i => q = o
    BY <1>0, <1>1, <1>3 DEF Single, Alone, Stays
  <2>3. /\ has'[o] = i => Alone(o, i)'
        /\ effects'[i] <= 1
        /\ status'[i] \in Repo!Active \cup {"succeeded"}
    BY <1>3, <2>1, CalmHandler
  <2> QED
    BY <2>2, <2>3 DEF Single
<1> QED
  BY <1>2, <1>3

LEMMA SingleStep == ASSUME Base, [Next]_vars, NEW i \in Items, Single(i) PROVE Single(i)'
<1> SUFFICES ASSUME KindOf[i] = "transfer", Calm(i)' PROVE Single(i)'
  BY DEF Single
<1> QED
  BY QuietOrHandles, QuietRowsOrHandles, SingleQuiet, SingleClaim, SingleHandles

(* A second order for one transfer needs a lost lease or a fault: the      *)
(* retry of failed transfers alone never saves one.                        *)
THEOREM DuplicatesExplained == Spec => []DuplicateNeedsLoss
<1> DEFINE SingleAll == \A i \in Items : Single(i)
<1>1. Init => SingleAll
  BY DEF Init, Repo!Init, Single
<1>2. Base /\ SingleAll /\ [Next]_vars => SingleAll'
  BY SingleStep
<1>3. Base /\ SingleAll => DuplicateNeedsLoss
  BY DEF Single, DuplicateNeedsLoss, Calm, Base, Typed, RowsSafe, Repo!TypeOK
<1> QED
  BY <1>1, <1>2, <1>3, SchedulerSafe, PTL DEF Spec

=============================================================================
