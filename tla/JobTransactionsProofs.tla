------------------------ MODULE JobTransactionsProofs ------------------------
(***************************************************************************)
(* Proofs about JobTransactions, for any jobs, items, owners and number of *)
(* sessions: what an open transaction may rely on, that the commits have   *)
(* row by row the effects that JobItems promises, and that a refresh of    *)
(* the jobs row, which counts without locks and may write late, counts     *)
(* nothing that does not stay counted.                                     *)
(***************************************************************************)
EXTENDS JobTransactions, FiniteSetTheorems, TLAPS

USE SessionsAssumption, ColumnsAssumption
USE DEF Promise!JobItemsAssumption, Promise!Active, Promise!Terminal, Promise!ItemsOf, NoWrite

-----------------------------------------------------------------------------
(* The invariant.                                                          *)

\* What transaction x found in row i when it locked it, and will write.
Found(x, i) ==
  \/ /\ x.op = "recover"
     /\ status[i] \in Promise!Active /\ lease[i] = "expired"
     /\ x.rows[i] = Promise!AfterLoss(i)
  \/ /\ x.op = "complete"
     /\ status[i] \in Promise!Active /\ owner[i] = x.who
     /\ x.rows[i] = "succeeded"
  \/ /\ x.op = "fail"
     /\ status[i] \in Promise!Active /\ owner[i] = x.who
     /\ x.rows[i] = Promise!AfterFailure(i)
  \/ /\ x.op = "stop" /\ x.job = JobOf[i]
     /\ status[i] \in {"pending", "failed"}
     /\ x.rows[i] = "cancelled"

\* The rows x has written are as it found them; complete and fail write one;
\* the job of each is refreshed before the commit, which locks it.
RowsAsFound(x) ==
  /\ \A i \in Items : x.rows[i] # NoWrite => /\ Found(x, i)
                                             /\ JobOf[i] \in x.todo \cup x.locked
  /\ x.op \in {"complete", "fail"} =>
       \A i, k \in Items : x.rows[i] # NoWrite /\ x.rows[k] # NoWrite => i = k

\* A stop has locked its job and written all its waiting items.
StopHoldsJob(x) ==
  x.op = "stop" =>
    /\ x.job \in x.locked /\ x.todo \subseteq {x.job}
    /\ \A i \in Items : JobOf[i] = x.job /\ status[i] \in {"pending", "failed"} =>
         x.rows[i] # NoWrite

\* Between transactions nothing is locked or written.
NothingOpen(x) ==
  x.op \in {"idle", "create", "claim"} =>
    /\ x.rows = [i \in Items |-> NoWrite] /\ x.jobRows = [j \in Jobs |-> NoRow]
    /\ x.todo = {} /\ x.locked = {} /\ x.read = NoRow

\* What the arguments of the operation are, and the jobs that are refreshed.
Arguments(x) ==
  /\ x.op = "create" => x.job \in Jobs
  /\ x.op \in {"claim", "complete", "fail"} => x.who \in Owners
  /\ x.read # NoRow => x.job \in x.todo
  /\ \A j \in x.todo \cup x.locked : Created(j)
  /\ \A j \in Jobs : x.jobRows[j] # NoRow => j \in x.locked

Sound(x) == RowsAsFound(x) /\ StopHoldsJob(x) /\ NothingOpen(x) /\ Arguments(x)

\* No row and no job is locked by two transactions.
Apart(x, y) ==
  /\ \A i \in Items : x.rows[i] = NoWrite \/ y.rows[i] = NoWrite
  /\ \A j \in x.locked : j \notin y.locked

\* The items of a job exist exactly when the job does.
ItemsWithJob == \A i \in Items : Created(JobOf[i]) <=> status[i] # "absent"

IInv ==
  /\ TypeOK
  /\ Promise!LeaseIffActive
  /\ ItemsWithJob
  /\ \A s \in Sessions : Sound(txn[s])
  /\ \A s, t \in Sessions : s # t => Apart(txn[s], txn[t])

-----------------------------------------------------------------------------

LEMMA NoRowType == NoRow \in JobRows
  BY FS_CardinalityType DEF NoRow, JobRows

LEMMA IdleType == Idle \in Transactions
  BY NoRowType DEF Idle, Transactions

LEMMA IdleSound == Sound(Idle) /\ \A x : Apart(Idle, x) /\ Apart(x, Idle)
  BY DEF Idle, Sound, RowsAsFound, StopHoldsJob, NothingOpen, Arguments, Apart

LEMMA InitIInv == Init => IInv
<1> SUFFICES ASSUME Init PROVE IInv
  OBVIOUS
<1>1. TypeOK
  BY NoRowType, IdleType DEF Init, Promise!Init, TypeOK, Promise!TypeOK, Promise!Statuses, Promise!Leases
<1>2. Promise!LeaseIffActive /\ ItemsWithJob
  BY DEF Init, Promise!Init, Promise!LeaseIffActive, ItemsWithJob, Created
<1> QED
  BY <1>1, <1>2, IdleSound DEF Init, IInv

\* A step that only changes the transaction of s keeps the invariant if the
\* new transaction is sound and apart from the others.
LEMMA SessionKeeps ==
  ASSUME IInv, NEW s \in Sessions, NEW x \in Transactions,
         txn' = [txn EXCEPT ![s] = x], UNCHANGED <<itemVars, jobRow>>,
         Sound(x), \A t \in Sessions \ {s} : Apart(x, txn[t])
  PROVE  IInv'
<1>1. TypeOK'
  BY DEF IInv, TypeOK, Promise!TypeOK, itemVars
<1>2. Promise!LeaseIffActive' /\ ItemsWithJob'
  BY DEF IInv, Promise!LeaseIffActive, ItemsWithJob, Created, itemVars
<1>3. ASSUME NEW t \in Sessions PROVE Sound(txn[t])'
  <2>1. Sound(txn'[t])
    BY DEF IInv, TypeOK
  <2> QED
    BY <2>1 DEF Sound, RowsAsFound, Found, StopHoldsJob, NothingOpen, Arguments, Created, itemVars,
       Promise!AfterLoss, Promise!AfterFailure, Promise!Unsafe
<1>4. ASSUME NEW t \in Sessions, NEW u \in Sessions, t # u PROVE Apart(txn[t], txn[u])'
  <2>1. Apart(txn'[t], txn'[u])
    BY <1>4 DEF IInv, TypeOK, Apart
  <2> QED
    BY <2>1 DEF Apart
<1> QED
  BY <1>1, <1>2, <1>3, <1>4 DEF IInv

-----------------------------------------------------------------------------
(* Steps that open, advance or end a transaction without committing.       *)

LEMMA EndKeeps ==
  ASSUME IInv, NEW s \in Sessions, txn' = [txn EXCEPT ![s] = Idle], UNCHANGED <<itemVars, jobRow>>
  PROVE  IInv'
  BY SessionKeeps, IdleType, IdleSound

LEMMA CreateLookupKeeps ==
  ASSUME IInv, NEW s \in Sessions, NEW j \in Jobs, CreateLookup(s, j)
  PROVE  IInv'
<1> DEFINE x == [Idle EXCEPT !.op = "create", !.job = j]
<1>1. x \in Transactions
  BY IdleType DEF Transactions, Idle
<1>2. Sound(x) /\ \A y : Apart(x, y)
  BY DEF Idle, Sound, RowsAsFound, StopHoldsJob, NothingOpen, Arguments, Apart
<1> HIDE DEF x
<1> QED
  BY <1>1, <1>2, SessionKeeps DEF CreateLookup, x

LEMMA ClaimType ==
  ASSUME NEW who \in Owners
  PROVE  LET x == [Idle EXCEPT !.op = "claim", !.who = who]
         IN  x \in Transactions /\ Sound(x) /\ \A y : Apart(x, y)
  BY IdleType DEF Transactions, Idle, Sound, RowsAsFound, StopHoldsJob, NothingOpen, Arguments, Apart

\* A row that has a status has a job.
LEMMA RowHasJob ==
  ASSUME IInv, NEW i \in Items, status[i] # "absent"
  PROVE  JobOf[i] \in Jobs /\ Created(JobOf[i])
  BY DEF IInv, ItemsWithJob

LEMMA OpenKeeps ==
  ASSUME IInv, NEW s \in Sessions, NEW op \in {"recover", "complete", "fail"},
         NEW who \in Owners \cup {NoOwner}, op # "recover" => who \in Owners,
         NEW rows \in [Items -> Promise!Statuses \cup {NoWrite}], NEW todo \in SUBSET Jobs,
         Open(s, op, who, rows, todo), UNCHANGED <<itemVars, jobRow>>,
         \A j \in todo : Created(j),
         RowsAsFound([Idle EXCEPT !.op = op, !.who = who, !.rows = rows, !.todo = todo]),
         \A i \in Items : rows[i] # NoWrite => RowFree(i)
  PROVE  IInv'
<1> DEFINE x == [Idle EXCEPT !.op = op, !.who = who, !.rows = rows, !.todo = todo]
<1>1. x \in Transactions
  BY IdleType DEF Transactions
<1>2. Sound(x)
  BY DEF Idle, Sound, StopHoldsJob, NothingOpen, Arguments
<1>3. \A t \in Sessions \ {s} : Apart(x, txn[t])
  BY DEF Apart, RowFree, Idle
<1> HIDE DEF x
<1> QED
  BY <1>1, <1>2, <1>3, SessionKeeps DEF Open, x

LEMMA BeginRecoverKeeps ==
  ASSUME IInv, NEW s \in Sessions, NEW who \in Owners \cup {NoOwner}, BeginRecover(s, who)
  PROVE  IInv'
<1>1. CASE Expired = {} /\ who = NoOwner
  BY <1>1, EndKeeps DEF BeginRecover
<1>2. CASE Expired = {} /\ who # NoOwner
  BY <1>2, ClaimType, SessionKeeps DEF BeginRecover
<1>3. CASE Expired # {}
  <2> DEFINE rows == Become(Expired, Promise!AfterLoss)
             todo == {JobOf[i] : i \in Expired}
  <2>1. rows \in [Items -> Promise!Statuses \cup {NoWrite}]
    BY DEF Become, Promise!AfterLoss, Promise!Statuses
  <2>2. todo \in SUBSET Jobs /\ \A j \in todo : Created(j)
    BY RowHasJob DEF Expired
  <2>3. RowsAsFound([Idle EXCEPT !.op = "recover", !.who = who, !.rows = rows, !.todo = todo])
    BY DEF RowsAsFound, Found, Idle, Become, Expired
  <2>4. \A i \in Items : rows[i] # NoWrite => RowFree(i)
    BY DEF BeginRecover, Become
  <2>5. Open(s, "recover", who, rows, todo) /\ UNCHANGED <<itemVars, jobRow>>
    BY <1>3 DEF BeginRecover
  <2> HIDE DEF rows, todo
  <2> QED
    BY <2>1, <2>2, <2>3, <2>4, <2>5, OpenKeeps
<1> QED
  BY <1>1, <1>2, <1>3

LEMMA BeginCompleteKeeps ==
  ASSUME IInv, NEW s \in Sessions, NEW i \in Items, NEW o \in Owners, BeginComplete(s, i, o)
  PROVE  IInv'
<1> DEFINE rows == Become({i}, LAMBDA k : "succeeded")
<1>1. rows \in [Items -> Promise!Statuses \cup {NoWrite}]
  BY DEF Become, Promise!Statuses
<1>2. {JobOf[i]} \in SUBSET Jobs /\ \A j \in {JobOf[i]} : Created(j)
  BY RowHasJob DEF BeginComplete
<1>3. RowsAsFound([Idle EXCEPT !.op = "complete", !.who = o, !.rows = rows, !.todo = {JobOf[i]}])
  BY DEF RowsAsFound, Found, Idle, Become, BeginComplete
<1>4. \A k \in Items : rows[k] # NoWrite => RowFree(k)
  BY DEF BeginComplete, Become
<1>5. Open(s, "complete", o, rows, {JobOf[i]}) /\ UNCHANGED <<itemVars, jobRow>>
  BY DEF BeginComplete
<1> HIDE DEF rows
<1> QED
  BY <1>1, <1>2, <1>3, <1>4, <1>5, OpenKeeps

LEMMA BeginFailKeeps ==
  ASSUME IInv, NEW s \in Sessions, NEW i \in Items, NEW o \in Owners, BeginFail(s, i, o)
  PROVE  IInv'
<1> DEFINE rows == Become({i}, Promise!AfterFailure)
<1>1. rows \in [Items -> Promise!Statuses \cup {NoWrite}]
  BY DEF Become, Promise!AfterFailure, Promise!Statuses
<1>2. status[i] \in Promise!Active
  BY DEF BeginFail, IInv, Promise!LeaseIffActive
<1>3. {JobOf[i]} \in SUBSET Jobs /\ \A j \in {JobOf[i]} : Created(j)
  BY <1>2, RowHasJob
<1>4. RowsAsFound([Idle EXCEPT !.op = "fail", !.who = o, !.rows = rows, !.todo = {JobOf[i]}])
  BY <1>2 DEF RowsAsFound, Found, Idle, Become, BeginFail
<1>5. \A k \in Items : rows[k] # NoWrite => RowFree(k)
  BY DEF BeginFail, Become
<1>6. Open(s, "fail", o, rows, {JobOf[i]}) /\ UNCHANGED <<itemVars, jobRow>>
  BY DEF BeginFail
<1> HIDE DEF rows
<1> QED
  BY <1>1, <1>3, <1>4, <1>5, <1>6, OpenKeeps

LEMMA BeginStopKeeps ==
  ASSUME IInv, NEW s \in Sessions, NEW j \in Jobs, BeginStop(s, j)
  PROVE  IInv'
<1> DEFINE waiting == {i \in Promise!ItemsOf(j) : status[i] \in {"pending", "failed"}}
           rows == Become(waiting, LAMBDA k : "cancelled")
           x == [Idle EXCEPT !.op = "stop", !.job = j, !.todo = {j}, !.locked = {j}, !.rows = rows]
<1>1. rows \in [Items -> Promise!Statuses \cup {NoWrite}]
  BY DEF Become, Promise!Statuses
<1>2. x \in Transactions
  <2>1. ASSUME NEW r \in [Items -> Promise!Statuses \cup {NoWrite}]
        PROVE  [Idle EXCEPT !.op = "stop", !.job = j, !.todo = {j}, !.locked = {j}, !.rows = r]
                 \in Transactions
    BY IdleType DEF Transactions
  <2> HIDE DEF rows
  <2> QED
    BY <1>1, <2>1
<1>3. RowsAsFound(x) /\ StopHoldsJob(x)
  BY DEF RowsAsFound, StopHoldsJob, Found, Idle, Become
<1>4. NothingOpen(x) /\ Arguments(x)
  BY DEF BeginStop, NothingOpen, Arguments, Idle
<1>5. \A t \in Sessions \ {s} : Apart(x, txn[t])
  BY DEF BeginStop, Apart, RowFree, JobFree, Idle, Become
<1>6. txn' = [txn EXCEPT ![s] = x] /\ UNCHANGED <<itemVars, jobRow>>
  BY DEF BeginStop
<1> HIDE DEF x
<1> QED
  BY <1>2, <1>3, <1>4, <1>5, <1>6, SessionKeeps DEF Sound

(* What _refresh_job counts.                                               *)

DoneSet(s, j) == {i \in Promise!ItemsOf(j) : CountsAsDone(s, i)}
SucceededSet(s, j) == {i \in Promise!ItemsOf(j) : Seen(s, i) = "succeeded"}
FailedSet(s, j) == {i \in Promise!ItemsOf(j) : CountsAsFailed(s, i)}
LostSet(s, j) == {i \in Promise!ItemsOf(j) : CountsAsDone(s, i) /\ Seen(s, i) # "succeeded"}

LEMMA SetOfItems ==
  ASSUME NEW S \in SUBSET Items
  PROVE  IsFiniteSet(S) /\ Cardinality(S) \in 0..Cardinality(Items)
  BY FS_Subset, FS_CardinalityType

LEMMA CountedFields ==
  ASSUME NEW s \in Sessions, NEW j \in Jobs
  PROVE  LET v == CountedRow(s, j)
             done == Cardinality(DoneSet(s, j))
             succeeded == Cardinality(SucceededSet(s, j))
             failed == Cardinality(FailedSet(s, j))
         IN  v = [status |-> RefreshedStatus(done, Cardinality(Promise!ItemsOf(j)), succeeded, failed),
                  completed |-> done, succeeded |-> succeeded, failed |-> failed]
  BY DEF CountedRow, DoneSet, SucceededSet, FailedSet

LEMMA CountedType ==
  ASSUME NEW s \in Sessions, NEW j \in Jobs
  PROVE  CountedRow(s, j) \in JobRows /\ CountedRow(s, j) # NoRow
<1> DEFINE done == Cardinality(DoneSet(s, j))
           succeeded == Cardinality(SucceededSet(s, j))
           failed == Cardinality(FailedSet(s, j))
           result == RefreshedStatus(done, Cardinality(Promise!ItemsOf(j)), succeeded, failed)
<1>1. done \in 0..Cardinality(Items) /\ succeeded \in 0..Cardinality(Items) /\ failed \in 0..Cardinality(Items)
  BY SetOfItems DEF DoneSet, SucceededSet, FailedSet
<1>2. result \in {"running", "succeeded", "partial", "failed"}
  BY DEF RefreshedStatus
<1>3. CountedRow(s, j) = [status |-> result, completed |-> done, succeeded |-> succeeded, failed |-> failed]
  BY CountedFields
<1> HIDE DEF done, succeeded, failed, result
<1> QED
  BY <1>1, <1>2, <1>3 DEF JobRows, NoRow

-----------------------------------------------------------------------------
(* Steps of _refresh_job, and steps that leave the rows alone.             *)

LEMMA RefreshReadKeeps ==
  ASSUME IInv, NEW s \in Sessions, NEW j \in Jobs, RefreshRead(s, j)
  PROVE  IInv'
<1> DEFINE x == [txn[s] EXCEPT !.read = CountedRow(s, j), !.job = j]
<1>1. txn[s] \in Transactions
  BY DEF IInv, TypeOK
<1>2. x \in Transactions
  BY <1>1, CountedType DEF Transactions
<1>3. /\ x.op = txn[s].op /\ x.who = txn[s].who /\ x.rows = txn[s].rows /\ x.todo = txn[s].todo
      /\ x.locked = txn[s].locked /\ x.jobRows = txn[s].jobRows /\ x.job = j
      /\ (x.op = "stop" => j = txn[s].job)
  BY <1>1 DEF Transactions, RefreshRead, IInv, Sound, StopHoldsJob
<1>4. Sound(txn[s]) /\ InTransaction(s) /\ j \in txn[s].todo
  BY DEF IInv, RefreshRead
<1> HIDE DEF x
<1>5. Sound(x)
  BY <1>3, <1>4 DEF Sound, RowsAsFound, Found, StopHoldsJob, NothingOpen, Arguments, InTransaction
<1>6. \A t \in Sessions \ {s} : Apart(x, txn[t])
  BY <1>3 DEF IInv, Apart
<1>7. txn' = [txn EXCEPT ![s] = x] /\ UNCHANGED <<itemVars, jobRow>>
  BY DEF RefreshRead, x
<1> QED
  BY <1>2, <1>5, <1>6, <1>7, SessionKeeps

LEMMA RefreshWriteKeeps ==
  ASSUME IInv, NEW s \in Sessions, RefreshWrite(s)
  PROVE  IInv'
<1> DEFINE j == txn[s].job
           x == [txn[s] EXCEPT !.jobRows[j] = txn[s].read, !.read = NoRow,
                               !.locked = @ \cup {j}, !.todo = @ \ {j}]
<1>1. txn[s] \in Transactions /\ Sound(txn[s]) /\ j \in txn[s].todo /\ txn[s].read # NoRow
  BY DEF IInv, TypeOK, RefreshWrite, Sound, Arguments
<1>2. j \in Jobs
  BY <1>1 DEF Transactions
<1>3. x \in Transactions
  BY <1>1, <1>2, NoRowType DEF Transactions
<1>4. /\ x.op = txn[s].op /\ x.who = txn[s].who /\ x.rows = txn[s].rows /\ x.job = j
      /\ x.todo = txn[s].todo \ {j} /\ x.locked = txn[s].locked \cup {j}
      /\ x.jobRows = [txn[s].jobRows EXCEPT ![j] = txn[s].read] /\ x.read = NoRow
      /\ x.op \notin {"idle", "create", "claim"}
  BY <1>1 DEF Transactions, RefreshWrite, InTransaction
<1>5. \A t \in Sessions \ {s} : j \notin txn[t].locked
  BY DEF RefreshWrite, JobFree
<1>6. txn' = [txn EXCEPT ![s] = x] /\ UNCHANGED <<itemVars, jobRow>>
  BY DEF RefreshWrite
<1> HIDE DEF x
<1>7. RowsAsFound(x) /\ StopHoldsJob(x) /\ NothingOpen(x)
  BY <1>1, <1>2, <1>4 DEF Sound, RowsAsFound, Found, StopHoldsJob, NothingOpen
<1>8. Arguments(x)
  BY <1>1, <1>2, <1>4 DEF Sound, Arguments, Transactions
<1>9. \A t \in Sessions \ {s} : Apart(x, txn[t])
  BY <1>4, <1>5 DEF IInv, Apart
<1> QED
  BY <1>3, <1>6, <1>7, <1>8, <1>9, SessionKeeps DEF Sound

-----------------------------------------------------------------------------
(* Steps that change rows.                                                 *)

\* An open transaction stays sound if the rows it has written keep status
\* and owner, and a lease only runs out; and if no other row of a job it
\* stops begins to wait.
LEMMA SoundKept ==
  ASSUME IInv, NEW t \in Sessions, txn'[t] = txn[t],
         \A j \in Jobs : Created(j) => Created(j)',
         \A i \in Items :
           \/ /\ status'[i] = status[i] /\ owner'[i] = owner[i]
              /\ lease'[i] = lease[i] \/ lease[i] = "live"
           \/ /\ txn[t].rows[i] = NoWrite
              /\ \/ status'[i] \notin {"pending", "failed"}
                 \/ status[i] \in {"pending", "failed"}
                 \/ JobOf[i] \notin txn[t].locked
  PROVE  Sound(txn[t])'
<1> DEFINE x == txn[t]
<1>1. Sound(x) /\ x \in Transactions
  BY DEF IInv, TypeOK
<1>2. x' = x
  OBVIOUS
<1> HIDE DEF x
<1>3. RowsAsFound(x)'
  <2>1. ASSUME NEW i \in Items, x.rows[i] # NoWrite
        PROVE  Found(x, i)' /\ JobOf[i] \in x.todo \cup x.locked
    <3>1. Found(x, i) /\ JobOf[i] \in x.todo \cup x.locked
      BY <1>1, <2>1 DEF Sound, RowsAsFound
    <3>2. status'[i] = status[i] /\ owner'[i] = owner[i] /\ (lease'[i] = lease[i] \/ lease[i] = "live")
      BY <2>1 DEF x
    <3> QED
      BY <1>2, <3>1, <3>2 DEF Found, Promise!AfterLoss, Promise!AfterFailure, Promise!Unsafe
  <2> QED
    BY <1>1, <1>2, <2>1 DEF Sound, RowsAsFound
<1>4. StopHoldsJob(x)'
  <2>1. StopHoldsJob(x)
    BY <1>1 DEF Sound
  <2>2. ASSUME NEW i \in Items, status'[i] \in {"pending", "failed"}, x.rows[i] = NoWrite
        PROVE  status[i] \in {"pending", "failed"} \/ JobOf[i] \notin x.locked
    BY <2>2 DEF x
  <2> QED
    BY <1>2, <2>1, <2>2 DEF StopHoldsJob
<1>5. NothingOpen(x)' /\ Arguments(x)'
  <2>1. x.todo \subseteq Jobs /\ x.locked \subseteq Jobs
    BY <1>1 DEF Transactions
  <2> QED
    BY <1>1, <1>2, <2>1 DEF Sound, NothingOpen, Arguments
<1> QED
  BY <1>3, <1>4, <1>5 DEF Sound, x

\* The rest of the invariant when the rows change and a session may end.
LEMMA RowsKeep ==
  ASSUME IInv, TypeOK', Promise!LeaseIffActive', ItemsWithJob',
         \A t \in Sessions : txn'[t] = txn[t] \/ txn'[t] = Idle,
         \A t \in Sessions : txn'[t] = txn[t] => Sound(txn[t])'
  PROVE  IInv'
<1>1. ASSUME NEW t \in Sessions PROVE Sound(txn[t])'
  <2>1. CASE txn'[t] = Idle
    BY <2>1 DEF Idle, Sound, RowsAsFound, StopHoldsJob, NothingOpen, Arguments
  <2> QED
    BY <2>1
<1>2. ASSUME NEW t \in Sessions, NEW u \in Sessions, t # u PROVE Apart(txn[t], txn[u])'
  <2>1. Apart(txn'[t], txn'[u])
    BY <1>2, IdleSound DEF IInv
  <2> QED
    BY <2>1 DEF Apart
<1> QED
  BY <1>1, <1>2 DEF IInv

LEMMA StartItemKeeps ==
  ASSUME IInv, NEW i \in Items, NEW o \in Owners, StartItem(i, o)
  PROVE  IInv' /\ Promise!StartItem(i, o)
<1>1. Promise!StartItem(i, o)
  BY DEF StartItem, Promise!StartItem, Promise!Holds
<1>2. TypeOK' /\ Promise!LeaseIffActive' /\ ItemsWithJob'
  BY DEF StartItem, IInv, TypeOK, Promise!TypeOK, Promise!Statuses, Promise!Leases,
     Promise!LeaseIffActive, ItemsWithJob, Created
<1>3. ASSUME NEW t \in Sessions PROVE txn'[t] = txn[t] /\ Sound(txn[t])'
  <2>1. txn'[t] = txn[t] /\ txn[t].rows[i] = NoWrite /\ \A j \in Jobs : Created(j) => Created(j)'
    BY DEF StartItem, RowFree, Created
  <2>2. \A k \in Items :
        \/ /\ status'[k] = status[k] /\ owner'[k] = owner[k] /\ lease'[k] = lease[k]
        \/ k = i /\ status'[k] \notin {"pending", "failed"}
    BY DEF StartItem, IInv, TypeOK, Promise!TypeOK
  <2> QED
    BY <2>1, <2>2, SoundKept
<1> QED
  BY <1>1, <1>2, <1>3, RowsKeep

LEMMA RenewLeaseKeeps ==
  ASSUME IInv, NEW i \in Items, NEW o \in Owners, RenewLease(i, o)
  PROVE  IInv' /\ Promise!RenewLease(i, o)
<1>1. Promise!RenewLease(i, o)
  BY DEF RenewLease, Promise!RenewLease, Promise!Holds
<1>2. TypeOK' /\ Promise!LeaseIffActive' /\ ItemsWithJob'
  BY DEF RenewLease, IInv, TypeOK, Promise!TypeOK, Promise!Statuses, Promise!Leases,
     Promise!LeaseIffActive, ItemsWithJob, Created
<1>3. ASSUME NEW t \in Sessions PROVE txn'[t] = txn[t] /\ Sound(txn[t])'
  <2>1. txn'[t] = txn[t] /\ txn[t].rows[i] = NoWrite /\ \A j \in Jobs : Created(j) => Created(j)'
    BY DEF RenewLease, RowFree, Created
  <2>2. \A k \in Items :
        \/ /\ status'[k] = status[k] /\ owner'[k] = owner[k] /\ lease'[k] = lease[k]
        \/ k = i /\ status'[k] \notin {"pending", "failed"}
    BY DEF RenewLease, IInv, TypeOK, Promise!TypeOK
  <2> QED
    BY <2>1, <2>2, SoundKept
<1> QED
  BY <1>1, <1>2, <1>3, RowsKeep

LEMMA MarkSubmittedKeeps ==
  ASSUME IInv, NEW i \in Items, NEW o \in Owners, MarkSubmitted(i, o)
  PROVE  IInv' /\ Promise!MarkSubmitted(i, o)
<1>1. Promise!MarkSubmitted(i, o)
  BY DEF MarkSubmitted, Promise!MarkSubmitted, Promise!Holds
<1>2. TypeOK' /\ Promise!LeaseIffActive' /\ ItemsWithJob'
  BY DEF MarkSubmitted, IInv, TypeOK, Promise!TypeOK, Promise!Statuses, Promise!Leases,
     Promise!LeaseIffActive, ItemsWithJob, Created
<1>3. ASSUME NEW t \in Sessions PROVE txn'[t] = txn[t] /\ Sound(txn[t])'
  <2>1. txn'[t] = txn[t] /\ txn[t].rows[i] = NoWrite /\ \A j \in Jobs : Created(j) => Created(j)'
    BY DEF MarkSubmitted, RowFree, Created
  <2>2. \A k \in Items :
        \/ /\ status'[k] = status[k] /\ owner'[k] = owner[k] /\ lease'[k] = lease[k]
        \/ k = i /\ status'[k] \notin {"pending", "failed"}
    BY DEF MarkSubmitted, IInv, TypeOK, Promise!TypeOK
  <2> QED
    BY <2>1, <2>2, SoundKept
<1> QED
  BY <1>1, <1>2, <1>3, RowsKeep

LEMMA LeaseExpiresKeeps ==
  ASSUME IInv, NEW i \in Items, LeaseExpires(i)
  PROVE  IInv' /\ Promise!LeaseExpires(i)
<1> USE DEF LeaseExpires, Promise!LeaseExpires
<1>1. TypeOK' /\ Promise!LeaseIffActive' /\ ItemsWithJob'
  BY DEF IInv, TypeOK, Promise!TypeOK, Promise!Statuses, Promise!Leases,
     Promise!LeaseIffActive, ItemsWithJob, Created
<1>2. ASSUME NEW t \in Sessions PROVE txn'[t] = txn[t] /\ Sound(txn[t])'
  <2>1. txn'[t] = txn[t] /\ \A j \in Jobs : Created(j) => Created(j)'
    BY DEF Created
  <2>2. \A k \in Items : /\ status'[k] = status[k] /\ owner'[k] = owner[k]
                         /\ lease'[k] = lease[k] \/ lease[k] = "live"
    BY DEF IInv, TypeOK, Promise!TypeOK
  <2> QED
    BY <2>1, <2>2, SoundKept
<1> QED
  BY <1>1, <1>2, RowsKeep

LEMMA ClaimItemKeeps ==
  ASSUME IInv, NEW s \in Sessions, ClaimItem(s)
  PROVE  IInv' /\ \E i \in Items, o \in Owners : Promise!ClaimItem(i, o)
<1>1. PICK i \in Candidates(s) :
        /\ status' = [status EXCEPT ![i] = "leased"]
        /\ attempts' = [attempts EXCEPT ![i] = @ + 1]
        /\ owner' = [owner EXCEPT ![i] = txn[s].who]
        /\ lease' = [lease EXCEPT ![i] = "live"]
        /\ jobRow' = [jobRow EXCEPT ![JobOf[i]].status = "running"]
  BY DEF ClaimItem
<1>2. /\ i \in Items /\ Promise!Claimable(i) /\ ~stopRequested[JobOf[i]] /\ RowFree(i)
      /\ JobFree(s, JobOf[i])
  BY DEF Candidates
<1>3. /\ txn[s].op = "claim" /\ txn' = [txn EXCEPT ![s] = Idle]
      /\ UNCHANGED <<stopRequested, everSubmitted, expiries>>
  BY DEF ClaimItem
<1>4. txn[s].who \in Owners
  BY <1>3 DEF IInv, Sound, Arguments
<1>5. Promise!ClaimItem(i, txn[s].who)
  BY <1>1, <1>2, <1>3 DEF Promise!ClaimItem
<1>6. TypeOK'
  <2>1. Promise!TypeOK'
    BY <1>1, <1>2, <1>3, <1>4 DEF IInv, TypeOK, Promise!TypeOK, Promise!Statuses, Promise!Leases
  <2>2. jobRow' \in [Jobs -> JobRows]
    BY <1>1, <1>2 DEF IInv, TypeOK, JobRows
  <2>3. txn' \in [Sessions -> Transactions]
    BY <1>3, IdleType DEF IInv, TypeOK
  <2> QED
    BY <2>1, <2>2, <2>3 DEF TypeOK
<1>7. \A j \in Jobs : Created(j)' <=> Created(j)
  <2>1. Created(JobOf[i])
    BY <1>2, RowHasJob DEF Promise!Claimable
  <2>2. jobRow'[JobOf[i]].status = "running"
    BY <1>1, <1>2 DEF IInv, TypeOK, JobRows
  <2>3. \A j \in Jobs \ {JobOf[i]} : jobRow'[j] = jobRow[j]
    BY <1>1, <1>2 DEF IInv, TypeOK
  <2> QED
    BY <2>1, <2>2, <2>3 DEF Created, NoRow
<1>8. Promise!LeaseIffActive' /\ ItemsWithJob'
  BY <1>1, <1>2, <1>4, <1>7 DEF IInv, TypeOK, Promise!TypeOK, Promise!LeaseIffActive, ItemsWithJob,
     Promise!Claimable
<1>9. ASSUME NEW t \in Sessions, txn'[t] = txn[t] PROVE Sound(txn[t])'
  <2>1. txn[t].rows[i] = NoWrite
    BY <1>2 DEF RowFree
  <2>2. \A k \in Items :
        \/ status'[k] = status[k] /\ owner'[k] = owner[k] /\ lease'[k] = lease[k]
        \/ k = i /\ status'[k] = "leased"
    BY <1>1, <1>2 DEF IInv, TypeOK, Promise!TypeOK
  <2> QED
    BY <1>7, <1>9, <2>1, <2>2, SoundKept
<1>10. \A t \in Sessions : txn'[t] = txn[t] \/ txn'[t] = Idle
  BY <1>3 DEF IInv, TypeOK
<1> QED
  BY <1>2, <1>4, <1>5, <1>6, <1>8, <1>9, <1>10, RowsKeep

LEMMA CreateInsertKeeps ==
  ASSUME IInv, NEW s \in Sessions, CreateInsert(s)
  PROVE  IInv' /\ (UNCHANGED itemVars \/ \E j \in Jobs : Promise!CreateJob(j))
<1> DEFINE j == txn[s].job
<1>1. CASE KeyTaken(j)
  BY <1>1, EndKeeps DEF CreateInsert
<1>2. CASE ~KeyTaken(j)
  <2>1. /\ txn' = [txn EXCEPT ![s] = Idle]
        /\ jobRow' = [jobRow EXCEPT ![j] = [NoRow EXCEPT !.status = "pending"]]
        /\ status' = [i \in Items |-> IF JobOf[i] = j THEN "pending" ELSE status[i]]
        /\ UNCHANGED <<attempts, owner, lease, stopRequested, everSubmitted, expiries>>
    BY <1>2 DEF CreateInsert
  <2>2. j \in Jobs /\ ~Created(j)
    BY <1>2 DEF CreateInsert, IInv, Sound, Arguments, KeyTaken
  <2>3. \A i \in Items : JobOf[i] = j => status[i] = "absent"
    BY <2>2 DEF IInv, ItemsWithJob
  <2>4. Promise!CreateJob(j)
    BY <2>1, <2>2, <2>3 DEF Promise!CreateJob
  <2>5. TypeOK'
    <3>1. Promise!TypeOK'
      BY <2>1 DEF IInv, TypeOK, Promise!TypeOK, Promise!Statuses
    <3>2. [NoRow EXCEPT !.status = "pending"] \in JobRows
      BY NoRowType DEF JobRows
    <3> QED
      BY <2>1, <3>1, <3>2, IdleType DEF IInv, TypeOK
  <2>6. \A k \in Jobs : Created(k)' <=> Created(k) \/ k = j
    <3>1. jobRow'[j].status = "pending"
      BY <2>1, <2>2 DEF IInv, TypeOK, NoRow
    <3>2. \A k \in Jobs \ {j} : jobRow'[k] = jobRow[k]
      BY <2>1 DEF IInv, TypeOK
    <3> QED
      BY <3>1, <3>2 DEF Created, NoRow
  <2>7. Promise!LeaseIffActive' /\ ItemsWithJob'
    BY <2>1, <2>3, <2>6 DEF IInv, Promise!LeaseIffActive, ItemsWithJob
  <2>8. ASSUME NEW t \in Sessions, txn'[t] = txn[t] PROVE Sound(txn[t])'
    <3>1. j \notin txn[t].locked
      BY <2>2 DEF IInv, Sound, Arguments
    <3>2. \A i \in Items : JobOf[i] = j => txn[t].rows[i] = NoWrite
      BY <2>3 DEF IInv, Sound, RowsAsFound, Found
    <3>3. \A i \in Items : JobOf[i] # j => status'[i] = status[i]
      BY <2>1
    <3> QED
      BY <2>1, <2>6, <2>8, <3>1, <3>2, <3>3, SoundKept
  <2>9. \A t \in Sessions : txn'[t] = txn[t] \/ txn'[t] = Idle
    BY <2>1 DEF IInv, TypeOK
  <2> QED
    BY <2>2, <2>4, <2>5, <2>7, <2>8, <2>9, RowsKeep
<1> QED
  BY <1>1, <1>2

-----------------------------------------------------------------------------
(* The commit.                                                             *)

\* The columns of a row that x, about to commit, has written, and of others.
LEMMA CommitRows ==
  ASSUME IInv, NEW s \in Sessions, Commit(s), NEW i \in Items
  PROVE  /\ txn[s].rows[i] = NoWrite =>
              status'[i] = status[i] /\ owner'[i] = owner[i] /\ lease'[i] = lease[i]
         /\ txn[s].rows[i] # NoWrite =>
              /\ Found(txn[s], i) /\ JobOf[i] \in txn[s].locked
              /\ status'[i] = txn[s].rows[i]
              /\ txn[s].op # "stop" => owner'[i] = NoOwner /\ lease'[i] = "none"
              /\ txn[s].op = "stop" => owner'[i] = owner[i] /\ lease'[i] = lease[i]
  BY DEF Commit, Seen, IInv, Sound, RowsAsFound

LEMMA CommitJobs ==
  ASSUME IInv, NEW s \in Sessions, Commit(s), NEW j \in Jobs
  PROVE  /\ Created(j)' <=> Created(j)
         /\ stopRequested'[j] = ((txn[s].op = "stop" /\ txn[s].job = j) \/ stopRequested[j])
<1>1. jobRow'[j] = IF txn[s].jobRows[j] = NoRow THEN jobRow[j] ELSE txn[s].jobRows[j]
  BY DEF Commit
<1>2. txn[s].jobRows[j] # NoRow => Created(j)
  BY DEF IInv, Sound, Arguments
<1> QED
  BY <1>1, <1>2 DEF Created, Commit, NoRow

LEMMA CommitKeeps ==
  ASSUME IInv, NEW s \in Sessions, Commit(s)
  PROVE  IInv'
<1>1. txn[s] \in Transactions /\ Sound(txn[s]) /\ InTransaction(s)
  BY DEF IInv, TypeOK, Commit
<1> DEFINE next == IF txn[s].op = "recover" /\ txn[s].who # NoOwner
                   THEN [Idle EXCEPT !.op = "claim", !.who = txn[s].who]
                   ELSE Idle
<1>2. next \in Transactions /\ Sound(next) /\ \A y : Apart(next, y) /\ Apart(y, next)
  <2>1. CASE txn[s].op = "recover" /\ txn[s].who # NoOwner
    <3>1. txn[s].who \in Owners
      BY <1>1, <2>1 DEF Transactions
    <3> QED
      BY <2>1, <3>1, ClaimType DEF Apart, Idle
  <2> QED
    BY <2>1, IdleType, IdleSound
<1>3. txn' = [txn EXCEPT ![s] = next]
  BY DEF Commit
<1> HIDE DEF next
<1>4. TypeOK'
  <2>1. status' \in [Items -> Promise!Statuses]
    BY <1>1 DEF Commit, Seen, Transactions, IInv, TypeOK, Promise!TypeOK
  <2>2. owner' \in [Items -> Owners \cup {NoOwner}] /\ lease' \in [Items -> Promise!Leases]
    BY DEF Commit, IInv, TypeOK, Promise!TypeOK, Promise!Leases
  <2>3. stopRequested' \in [Jobs -> BOOLEAN]
    BY DEF Commit
  <2>4. jobRow' \in [Jobs -> JobRows]
    BY <1>1 DEF Commit, Transactions, IInv, TypeOK
  <2>5. txn' \in [Sessions -> Transactions]
    BY <1>2, <1>3 DEF IInv, TypeOK
  <2> QED
    BY <2>1, <2>2, <2>3, <2>4, <2>5 DEF TypeOK, Promise!TypeOK, IInv, Commit
<1>5. Promise!LeaseIffActive'
  BY CommitRows DEF Promise!LeaseIffActive, IInv, Found, Promise!AfterLoss, Promise!AfterFailure
<1>6. ItemsWithJob'
  <2>1. ASSUME NEW i \in Items PROVE status'[i] # "absent" <=> status[i] # "absent"
    BY CommitRows DEF Found, Promise!AfterLoss, Promise!AfterFailure
  <2> QED
    BY <2>1, CommitJobs DEF IInv, ItemsWithJob
<1>7. ASSUME NEW t \in Sessions PROVE Sound(txn[t])'
  <2>1. CASE t = s
    <3>1. txn'[t] = Idle \/ \E w \in Owners : txn'[t] = [Idle EXCEPT !.op = "claim", !.who = w]
      BY <1>1, <1>3, <2>1 DEF next, IInv, TypeOK, Transactions
    <3>2. CASE txn'[t] = Idle
      BY <3>2 DEF Idle, Sound, RowsAsFound, StopHoldsJob, NothingOpen, Arguments
    <3>3. ASSUME NEW w \in Owners, txn'[t] = [Idle EXCEPT !.op = "claim", !.who = w]
          PROVE  Sound(txn[t])'
      BY <3>3 DEF Idle, Sound, RowsAsFound, StopHoldsJob, NothingOpen, Arguments
    <3> QED
      BY <3>1, <3>2, <3>3
  <2>2. CASE t # s
    <3>1. txn'[t] = txn[t] /\ Apart(txn[s], txn[t])
      BY <1>3, <2>2 DEF IInv, TypeOK
    <3>2. \A j \in Jobs : Created(j) => Created(j)'
      BY CommitJobs
    <3>3. ASSUME NEW i \in Items, txn[s].rows[i] # NoWrite
          PROVE  txn[t].rows[i] = NoWrite /\ JobOf[i] \notin txn[t].locked
      BY <3>1, <3>3, CommitRows DEF Apart
    <3>4. ASSUME NEW i \in Items, txn[s].rows[i] = NoWrite
          PROVE  status'[i] = status[i] /\ owner'[i] = owner[i] /\ lease'[i] = lease[i]
      BY <3>4, CommitRows
    <3> QED
      BY <3>1, <3>2, <3>3, <3>4, SoundKept
  <2> QED
    BY <2>1, <2>2
<1>8. ASSUME NEW t \in Sessions, NEW u \in Sessions, t # u PROVE Apart(txn[t], txn[u])'
  <2>1. Apart(txn'[t], txn'[u])
    BY <1>2, <1>3, <1>8 DEF IInv, TypeOK
  <2> QED
    BY <2>1 DEF Apart
<1> QED
  BY <1>4, <1>5, <1>6, <1>7, <1>8 DEF IInv

\* A commit is the step that JobItems has for the operation, or changes no
\* row.
LEMMA CommitPromised ==
  ASSUME IInv, NEW s \in Sessions, Commit(s)
  PROVE  [Promise!Next]_Promise!vars
<1> DEFINE S == {i \in Items : txn[s].rows[i] # NoWrite}
<1>1. txn[s] \in Transactions /\ Sound(txn[s]) /\ InTransaction(s)
  BY DEF IInv, TypeOK, Commit
<1>2. /\ status' \in [Items -> Promise!Statuses]
      /\ owner' \in [Items -> Owners \cup {NoOwner}] /\ lease' \in [Items -> Promise!Leases]
      /\ stopRequested' \in [Jobs -> BOOLEAN]
      /\ Promise!TypeOK /\ UNCHANGED <<attempts, everSubmitted, expiries>>
  BY CommitKeeps DEF IInv, TypeOK, Promise!TypeOK, Commit
<1>3. txn[s].op # "stop" => stopRequested' = stopRequested
  BY <1>2, CommitJobs DEF Promise!TypeOK
<1>4. CASE S = {} /\ txn[s].op # "stop"
  <2>1. \A i \in Items : status'[i] = status[i] /\ owner'[i] = owner[i] /\ lease'[i] = lease[i]
    BY <1>4, CommitRows
  <2>2. status' = status /\ owner' = owner /\ lease' = lease
    BY <1>2, <2>1 DEF Promise!TypeOK
  <2> QED
    BY <1>2, <1>3, <1>4, <2>2 DEF Promise!vars
<1>5. CASE S # {} /\ txn[s].op = "recover"
  <2>1. \A i \in S : status[i] \in Promise!Active /\ lease[i] = "expired"
    BY <1>5, CommitRows DEF Found
  <2>2. \A i \in Items :
          /\ status'[i] = IF i \in S THEN Promise!AfterLoss(i) ELSE status[i]
          /\ owner'[i] = IF i \in S THEN NoOwner ELSE owner[i]
          /\ lease'[i] = IF i \in S THEN "none" ELSE lease[i]
    BY <1>5, CommitRows DEF Found
  <2>3. /\ status' = [i \in Items |-> IF i \in S THEN Promise!AfterLoss(i) ELSE status[i]]
        /\ owner' = [i \in Items |-> IF i \in S THEN NoOwner ELSE owner[i]]
        /\ lease' = [i \in Items |-> IF i \in S THEN "none" ELSE lease[i]]
    BY <1>2, <2>2
  <2>4. Promise!RecoverExpired(S)
    BY <1>2, <1>3, <1>5, <2>1, <2>3 DEF Promise!RecoverExpired
  <2> QED
    BY <2>4 DEF Promise!Next
<1>6. CASE S # {} /\ txn[s].op \in {"complete", "fail"}
  <2>1. PICK i \in Items : S = {i}
    BY <1>1, <1>6 DEF Sound, RowsAsFound
  <2>2. txn[s].who \in Owners /\ owner[i] = txn[s].who /\ status[i] \in Promise!Active
    BY <1>1, <1>6, <2>1, CommitRows DEF Sound, Arguments, Found
  <2> DEFINE after == IF txn[s].op = "complete" THEN "succeeded" ELSE Promise!AfterFailure(i)
  <2>3. \A k \in Items :
          /\ status'[k] = IF k = i THEN after ELSE status[k]
          /\ owner'[k] = IF k = i THEN NoOwner ELSE owner[k]
          /\ lease'[k] = IF k = i THEN "none" ELSE lease[k]
    BY <1>6, <2>1, CommitRows DEF Found
  <2> HIDE DEF after
  <2>4. /\ status' = [status EXCEPT ![i] = after]
        /\ owner' = [owner EXCEPT ![i] = NoOwner] /\ lease' = [lease EXCEPT ![i] = "none"]
    BY <1>2, <2>3 DEF Promise!TypeOK
  <2>5. Promise!CompleteItem(i, txn[s].who) \/ Promise!FailItem(i, txn[s].who)
    BY <1>2, <1>3, <1>6, <2>2, <2>4
    DEF after, Promise!CompleteItem, Promise!FailItem, Promise!Holds, Promise!Release
  <2> QED
    BY <2>2, <2>5 DEF Promise!Next, Promise!HolderStep
<1>7. CASE txn[s].op = "stop"
  <2> DEFINE j == txn[s].job
  <2>1. j \in Jobs /\ Created(j)
    BY <1>1, <1>7 DEF Sound, StopHoldsJob, Arguments, Transactions
  <2>2. \E i \in Promise!ItemsOf(j) : status[i] # "absent"
    BY <2>1 DEF IInv, ItemsWithJob
  <2>3. \A i \in Items :
          /\ status'[i] = IF JobOf[i] = j /\ status[i] \in {"pending", "failed"}
                          THEN "cancelled" ELSE status[i]
          /\ owner'[i] = owner[i] /\ lease'[i] = lease[i]
    BY <1>1, <1>7, CommitRows DEF Sound, StopHoldsJob, Found
  <2>4. /\ status' = [i \in Items |-> IF JobOf[i] = j /\ status[i] \in {"pending", "failed"}
                                       THEN "cancelled" ELSE status[i]]
        /\ owner' = owner /\ lease' = lease
    BY <1>2, <2>3 DEF Promise!TypeOK
  <2>5. stopRequested' = [stopRequested EXCEPT ![j] = TRUE]
    <3>1. stopRequested'[j] = TRUE
      BY <1>7, <2>1, CommitJobs
    <3>2. ASSUME NEW k \in Jobs \ {j} PROVE stopRequested'[k] = stopRequested[k]
      <4>1. stopRequested'[k] = (FALSE \/ stopRequested[k])
        BY <1>7, <3>2, CommitJobs
      <4> QED
        BY <1>2, <4>1 DEF Promise!TypeOK
    <3> QED
      BY <1>2, <2>1, <3>1, <3>2 DEF Promise!TypeOK
  <2>6. Promise!RequestStop(j)
    BY <1>2, <2>2, <2>4, <2>5 DEF Promise!RequestStop
  <2> QED
    BY <2>1, <2>6 DEF Promise!Next
<1> QED
  BY <1>1, <1>4, <1>5, <1>6, <1>7 DEF InTransaction

-----------------------------------------------------------------------------

LEMMA StepIInv ==
  IInv /\ [Next]_vars => IInv' /\ [Promise!Next]_Promise!vars
<1> SUFFICES ASSUME IInv, [Next]_vars
             PROVE  IInv' /\ [Promise!Next]_Promise!vars
  OBVIOUS
<1> USE DEF itemVars, Promise!vars
<1>1. ASSUME NEW s \in Sessions, SessionStep(s)
      PROVE  IInv' /\ [Promise!Next]_Promise!vars
  <2>1. ASSUME NEW j \in Jobs, CreateLookup(s, j) \/ BeginStop(s, j) \/ RefreshRead(s, j)
        PROVE  IInv' /\ UNCHANGED itemVars
    BY <2>1, CreateLookupKeeps, BeginStopKeeps, RefreshReadKeeps DEF CreateLookup, BeginStop, RefreshRead
  <2>2. ASSUME NEW who \in Owners \cup {NoOwner}, BeginRecover(s, who)
        PROVE  IInv' /\ UNCHANGED itemVars
    BY <2>2, BeginRecoverKeeps DEF BeginRecover
  <2>3. ASSUME NEW i \in Items, NEW o \in Owners, BeginComplete(s, i, o) \/ BeginFail(s, i, o)
        PROVE  IInv' /\ UNCHANGED itemVars
    BY <2>3, BeginCompleteKeeps, BeginFailKeeps DEF BeginComplete, BeginFail
  <2>4. CASE RefreshWrite(s)
    BY <2>4, RefreshWriteKeeps DEF RefreshWrite
  <2>5. CASE ClaimNothing(s) \/ Rollback(s)
    BY <2>5, EndKeeps DEF ClaimNothing, Rollback
  <2>6. CASE CreateInsert(s)
    BY <2>6, CreateInsertKeeps DEF Promise!Next
  <2>7. CASE ClaimItem(s)
    BY <2>7, ClaimItemKeeps DEF Promise!Next, Promise!HolderStep
  <2>8. CASE Commit(s)
    BY <2>8, CommitKeeps, CommitPromised
  <2> QED
    BY <1>1, <2>1, <2>2, <2>3, <2>4, <2>5, <2>6, <2>7, <2>8 DEF SessionStep
<1>2. ASSUME NEW i \in Items, NEW o \in Owners, StartItem(i, o) \/ RenewLease(i, o) \/ MarkSubmitted(i, o)
      PROVE  IInv' /\ [Promise!Next]_Promise!vars
  BY <1>2, StartItemKeeps, RenewLeaseKeeps, MarkSubmittedKeeps DEF Promise!Next, Promise!HolderStep
<1>3. ASSUME NEW i \in Items, LeaseExpires(i)
      PROVE  IInv' /\ [Promise!Next]_Promise!vars
  BY <1>3, LeaseExpiresKeeps DEF Promise!Next
<1>4. CASE UNCHANGED vars
  <2>1. UNCHANGED Promise!vars /\ TypeOK' /\ Promise!LeaseIffActive' /\ ItemsWithJob'
    BY <1>4 DEF vars, IInv, TypeOK, Promise!TypeOK, Promise!LeaseIffActive, ItemsWithJob, Created
  <2>2. ASSUME NEW t \in Sessions PROVE txn'[t] = txn[t] /\ Sound(txn[t])'
    BY <1>4, SoundKept DEF vars, Created
  <2> QED
    BY <2>1, <2>2, RowsKeep
<1> QED
  BY <1>1, <1>2, <1>3, <1>4 DEF Next

(* The invariant that the promise rests on: what an open transaction found *)
(* is still there when it commits.                                         *)
THEOREM TransactionsSound == Spec => []IInv
  BY InitIInv, StepIInv, PTL DEF Spec

(* Types, and the values the schema's CHECK admits.                        *)
THEOREM TransactionsTyped == Spec => []TypeOK
<1>1. IInv => TypeOK
  BY DEF IInv
<1> QED
  BY <1>1, TransactionsSound, PTL

(* However the transactions of the job repository interleave and whichever *)
(* of them roll back, every commit is one step of JobItems, and no other   *)
(* step changes a row.                                                     *)
THEOREM TransactionsImplement == Spec => Implements
<1>1. Init => Promise!Init
  BY DEF Init
<1> QED
  BY <1>1, TransactionsSound, StepIInv, PTL DEF Spec, Implements, Promise!Spec

-----------------------------------------------------------------------------
(* What is settled stays settled.                                          *)

\* JobItems: no step takes an item back that is counted as done, or changes
\* whether it succeeded.
LEMMA SettledKept ==
  ASSUME Promise!TypeOK, Promise!LeaseIffActive, [Promise!Next]_Promise!vars, NEW i \in Items
  PROVE  /\ attempts[i] \in Nat /\ attempts'[i] \in Nat /\ attempts'[i] >= attempts[i]
         /\ Promise!Settled(i) =>
              Promise!Settled(i)' /\ (status'[i] = "succeeded" <=> status[i] = "succeeded")
         /\ status[i] # "skipped" => status'[i] # "skipped"
<1> USE DEF Promise!TypeOK, Promise!LeaseIffActive, Promise!Settled, Promise!Exhausted
<1> DEFINE Kept == /\ attempts'[i] \in Nat /\ attempts'[i] >= attempts[i]
                   /\ Promise!Settled(i) => /\ Promise!Settled(i)'
                                            /\ status'[i] = "succeeded" <=> status[i] = "succeeded"
                   /\ status[i] # "skipped" => status'[i] # "skipped"
<1>1. ASSUME NEW j \in Jobs, Promise!CreateJob(j) PROVE Kept
  BY <1>1 DEF Promise!CreateJob
<1>2. ASSUME NEW j \in Jobs, Promise!RequestStop(j) PROVE Kept
  BY <1>2 DEF Promise!RequestStop
<1>3. ASSUME NEW k \in Items, NEW o \in Owners, Promise!HolderStep(k, o) PROVE Kept
  <2>1. CASE Promise!ClaimItem(k, o)
    BY <2>1 DEF Promise!ClaimItem, Promise!Claimable
  <2>2. CASE Promise!StartItem(k, o)
    BY <2>2 DEF Promise!StartItem
  <2>3. CASE Promise!RenewLease(k, o)
    BY <2>3 DEF Promise!RenewLease
  <2>4. CASE Promise!MarkSubmitted(k, o)
    BY <2>4 DEF Promise!MarkSubmitted
  <2>5. CASE Promise!CompleteItem(k, o)
    BY <2>5 DEF Promise!CompleteItem, Promise!Holds
  <2>6. CASE Promise!FailItem(k, o)
    <3>1. status[k] \in Promise!Active
      BY <2>6 DEF Promise!FailItem
    <3> QED
      BY <2>6, <3>1 DEF Promise!FailItem, Promise!AfterFailure
  <2> QED
    BY <1>3, <2>1, <2>2, <2>3, <2>4, <2>5, <2>6 DEF Promise!HolderStep
<1>4. ASSUME NEW S \in SUBSET Items, Promise!RecoverExpired(S) PROVE Kept
  BY <1>4 DEF Promise!RecoverExpired, Promise!AfterLoss
<1>5. ASSUME NEW k \in Items, Promise!LeaseExpires(k) PROVE Kept
  BY <1>5 DEF Promise!LeaseExpires
<1>6. CASE UNCHANGED Promise!vars
  BY <1>6 DEF Promise!vars
<1> QED
  BY <1>1, <1>2, <1>3, <1>4, <1>5, <1>6 DEF Promise!Next

-----------------------------------------------------------------------------
(* The invariant of the counters.                                          *)

Finished == {"succeeded", "partial", "failed"}

\* v says of job j no more than transaction s sees.
Backed(s, v, j) ==
  /\ v.completed <= Cardinality(DoneSet(s, j))
  /\ v.succeeded <= Cardinality(SucceededSet(s, j))
  /\ v.failed <= Cardinality(LostSet(s, j))
  /\ v.status \in Finished =>
       /\ \A i \in Promise!ItemsOf(j) : CountsAsDone(s, i)
       /\ v.status = "succeeded" <=> \A i \in Promise!ItemsOf(j) : Seen(s, i) = "succeeded"
       /\ v.status = "partial" => \E i \in Promise!ItemsOf(j) : Seen(s, i) = "succeeded"
       /\ v.status = "failed" => \A i \in Promise!ItemsOf(j) : Seen(s, i) # "succeeded"

\* What s has counted is backed by what it sees.
CountsBacked(s) ==
  /\ txn[s].read # NoRow => Backed(s, txn[s].read, txn[s].job)
  /\ \A j \in Jobs : txn[s].jobRows[j] # NoRow => Backed(s, txn[s].jobRows[j], j)

\* No action of the repository writes "skipped", which would be counted as
\* completed and as neither succeeded nor failed.
NothingSkipped == \A i \in Items : status[i] # "skipped"

CountInv ==
  /\ NothingSkipped
  /\ \A s \in Sessions : CountsBacked(s)
  /\ ProgressNotOverstated
  /\ FinishedMeansSettled

-----------------------------------------------------------------------------

\* What an open transaction has counted as done is done for it until it ends.
LEMMA SeenKept ==
  ASSUME IInv, [Next]_vars, NEW s \in Sessions, txn'[s].rows = txn[s].rows, NEW i \in Items
  PROVE  CountsAsDone(s, i) => /\ CountsAsDone(s, i)'
                               /\ Seen(s, i)' = "succeeded" <=> Seen(s, i) = "succeeded"
<1>1. /\ attempts[i] \in Nat /\ attempts'[i] \in Nat /\ attempts'[i] >= attempts[i]
      /\ Promise!Settled(i) =>
              Promise!Settled(i)' /\ (status'[i] = "succeeded" <=> status[i] = "succeeded")
  BY StepIInv, SettledKept DEF IInv, TypeOK
<1>2. MaxAttempts[i] \in Nat
  OBVIOUS
<1> QED
  BY <1>1, <1>2 DEF CountsAsDone, Seen, Promise!Settled, Promise!Exhausted

LEMMA BackedKept ==
  ASSUME IInv, [Next]_vars, NEW s \in Sessions, txn'[s].rows = txn[s].rows,
         NEW v \in JobRows, NEW j \in Jobs, Backed(s, v, j)
  PROVE  Backed(s, v, j)'
<1>1. \A i \in Promise!ItemsOf(j) :
        CountsAsDone(s, i) => /\ CountsAsDone(s, i)'
                              /\ Seen(s, i)' = "succeeded" <=> Seen(s, i) = "succeeded"
  BY SeenKept
<1>2. /\ DoneSet(s, j) \subseteq DoneSet(s, j)' /\ SucceededSet(s, j) \subseteq SucceededSet(s, j)'
      /\ LostSet(s, j) \subseteq LostSet(s, j)'
  BY <1>1 DEF DoneSet, SucceededSet, LostSet, CountsAsDone
<1>3. /\ DoneSet(s, j)' \in SUBSET Items /\ SucceededSet(s, j)' \in SUBSET Items
      /\ LostSet(s, j)' \in SUBSET Items
  BY DEF DoneSet, SucceededSet, LostSet
<1>4. /\ Cardinality(DoneSet(s, j)) <= Cardinality(DoneSet(s, j)')
      /\ Cardinality(SucceededSet(s, j)) <= Cardinality(SucceededSet(s, j)')
      /\ Cardinality(LostSet(s, j)) <= Cardinality(LostSet(s, j)')
  BY <1>2, <1>3, SetOfItems, FS_Subset
<1>5. /\ Cardinality(DoneSet(s, j)) \in Int /\ Cardinality(DoneSet(s, j)') \in Int
      /\ Cardinality(SucceededSet(s, j)) \in Int /\ Cardinality(SucceededSet(s, j)') \in Int
      /\ Cardinality(LostSet(s, j)) \in Int /\ Cardinality(LostSet(s, j)') \in Int
      /\ v.completed \in Int /\ v.succeeded \in Int /\ v.failed \in Int
  BY <1>2, <1>3, SetOfItems DEF JobRows
<1>6. v.status = "partial" => (\E i \in Promise!ItemsOf(j) : Seen(s, i) = "succeeded")'
  BY <1>1 DEF Backed, Finished
<1> QED
  BY <1>1, <1>4, <1>5, <1>6 DEF Backed

\* The numbers of _refresh_job are those of the rows it sees.
LEMMA CountedBacked ==
  ASSUME IInv, NothingSkipped, NEW s \in Sessions, NEW j \in Jobs
  PROVE  Backed(s, CountedRow(s, j), j)
<1> DEFINE done == Cardinality(DoneSet(s, j))
           succeeded == Cardinality(SucceededSet(s, j))
           failed == Cardinality(FailedSet(s, j))
           total == Cardinality(Promise!ItemsOf(j))
           result == RefreshedStatus(done, total, succeeded, failed)
<1>1. CountedRow(s, j) = [status |-> result, completed |-> done, succeeded |-> succeeded, failed |-> failed]
  BY CountedFields
<1>2. /\ IsFiniteSet(Promise!ItemsOf(j)) /\ IsFiniteSet(SucceededSet(s, j)) /\ IsFiniteSet(FailedSet(s, j))
      /\ done \in Int /\ succeeded \in Nat /\ failed \in Nat /\ total \in Int
  BY SetOfItems DEF DoneSet, SucceededSet, FailedSet
<1>3. ASSUME NEW i \in Items PROVE Seen(s, i) # "skipped"
  BY DEF NothingSkipped, Seen, IInv, Sound, RowsAsFound, Found, Promise!AfterLoss, Promise!AfterFailure
<1>4. ASSUME result \in Finished PROVE \A i \in Promise!ItemsOf(j) : CountsAsDone(s, i)
  <2>1. total <= done
    BY <1>2, <1>4 DEF RefreshedStatus, Finished
  <2>2. DoneSet(s, j) \in SUBSET Promise!ItemsOf(j)
    BY DEF DoneSet
  <2>3. done <= total /\ (done = total => DoneSet(s, j) = Promise!ItemsOf(j))
    BY <1>2, <2>2, FS_Subset
  <2>4. DoneSet(s, j) = Promise!ItemsOf(j)
    BY <1>2, <2>1, <2>3
  <2> QED
    BY <2>4 DEF DoneSet
<1>5. ASSUME result \in Finished
      PROVE  result = "succeeded" <=> \A i \in Promise!ItemsOf(j) : Seen(s, i) = "succeeded"
  <2>1. result = "succeeded" <=> failed = 0
    BY <1>5 DEF RefreshedStatus, Finished
  <2>2. failed = 0 <=> FailedSet(s, j) = {}
    BY <1>2, FS_EmptySet
  <2>3. FailedSet(s, j) = {} <=> \A i \in Promise!ItemsOf(j) : Seen(s, i) = "succeeded"
    BY <1>3, <1>4, <1>5 DEF FailedSet, CountsAsFailed, CountsAsDone
  <2> QED
    BY <2>1, <2>2, <2>3
<1>6. ASSUME result = "failed" PROVE \A i \in Promise!ItemsOf(j) : Seen(s, i) # "succeeded"
  <2>1. succeeded = 0
    BY <1>2, <1>6 DEF RefreshedStatus
  <2>2. SucceededSet(s, j) = {}
    BY <1>2, <2>1, FS_EmptySet
  <2> QED
    BY <2>2 DEF SucceededSet
<1>7. ASSUME result = "partial" PROVE \E i \in Promise!ItemsOf(j) : Seen(s, i) = "succeeded"
  <2>1. succeeded > 0
    BY <1>7 DEF RefreshedStatus
  <2>2. SucceededSet(s, j) # {}
    BY <1>2, <2>1, FS_EmptySet
  <2> QED
    BY <2>2 DEF SucceededSet
<1>8. failed <= Cardinality(LostSet(s, j))
  <2>1. FailedSet(s, j) \subseteq LostSet(s, j) /\ LostSet(s, j) \in SUBSET Items
    BY DEF FailedSet, LostSet, CountsAsFailed
  <2> QED
    BY <2>1, SetOfItems, FS_Subset
<1> HIDE DEF done, succeeded, failed, result
<1>9. done <= done /\ succeeded <= succeeded
  BY <1>2
<1>10. /\ CountedRow(s, j).completed = done /\ CountedRow(s, j).succeeded = succeeded
       /\ CountedRow(s, j).failed = failed /\ CountedRow(s, j).status = result
  BY <1>1
<1> QED
  BY <1>4, <1>5, <1>6, <1>7, <1>8, <1>9, <1>10 DEF Backed, done, succeeded

-----------------------------------------------------------------------------
(* How a step changes what a session has counted, and the jobs rows.       *)

\* Session s has nothing counted, or has kept its rows and counts; or it has
\* just counted, or moved its count to the row it is about to commit.
CountsEvolve(s) ==
  \/ txn'[s].read = NoRow /\ \A j \in Jobs : txn'[s].jobRows[j] = NoRow
  \/ /\ txn'[s].rows = txn[s].rows
     /\ \/ txn'[s].read = NoRow
        \/ txn'[s].read = txn[s].read /\ txn'[s].job = txn[s].job
        \/ txn'[s].job \in Jobs /\ txn'[s].read = CountedRow(s, txn'[s].job)
     /\ \A j \in Jobs : \/ txn'[s].jobRows[j] = txn[s].jobRows[j]
                        \/ txn[s].read # NoRow /\ txn[s].job = j /\ txn'[s].jobRows[j] = txn[s].read

\* The row of job j keeps its numbers and is not finished by the step, or a
\* session commits its count.
RowEvolves(j) ==
  \/ jobRow'[j] = jobRow[j]
  \/ /\ jobRow'[j].status \in {"pending", "running"}
     /\ jobRow'[j].completed \in {0, jobRow[j].completed}
     /\ jobRow'[j].succeeded \in {0, jobRow[j].succeeded}
     /\ jobRow'[j].failed \in {0, jobRow[j].failed}
  \/ \E s \in Sessions : Commit(s) /\ txn[s].jobRows[j] # NoRow /\ jobRow'[j] = txn[s].jobRows[j]

LEMMA OthersCount ==
  ASSUME IInv, NEW s \in Sessions, \A t \in Sessions \ {s} : txn'[t] = txn[t],
         txn'[s].read = NoRow, \A j \in Jobs : txn'[s].jobRows[j] = NoRow
  PROVE  \A t \in Sessions : CountsEvolve(t)
  BY DEF CountsEvolve

LEMMA StepCounts ==
  ASSUME IInv, [Next]_vars
  PROVE  \A t \in Sessions : CountsEvolve(t)
<1>1. ASSUME NEW s \in Sessions, SessionStep(s) PROVE \A t \in Sessions : CountsEvolve(t)
  <2>1. ASSUME NEW j \in Jobs, CreateLookup(s, j) PROVE \A t \in Sessions : CountsEvolve(t)
    BY <2>1, OthersCount DEF IInv, TypeOK, CreateLookup, Idle
  <2>2. ASSUME NEW j \in Jobs, BeginStop(s, j) PROVE \A t \in Sessions : CountsEvolve(t)
    BY <2>2, OthersCount DEF IInv, TypeOK, BeginStop, Idle
  <2>3. ASSUME NEW j \in Jobs, RefreshRead(s, j) PROVE \A t \in Sessions : CountsEvolve(t)
    BY <2>3 DEF RefreshRead, IInv, TypeOK, Transactions, CountsEvolve
  <2>4. ASSUME NEW who \in Owners \cup {NoOwner}, BeginRecover(s, who)
        PROVE  \A t \in Sessions : CountsEvolve(t)
    <3>1. s \in DOMAIN txn
      BY DEF IInv, TypeOK
    <3>2. CASE Expired = {}
      <4>1. CASE txn' = [txn EXCEPT ![s] = Idle]
        BY <4>1, <3>1, OthersCount DEF Idle, IInv, TypeOK
      <4>2. CASE txn' = [txn EXCEPT ![s] = [Idle EXCEPT !.op = "claim", !.who = who]]
        BY <4>2, <3>1, OthersCount DEF Idle, IInv, TypeOK
      <4> QED
        BY <2>4, <3>2, <4>1, <4>2 DEF BeginRecover
    <3>3. CASE Expired # {}
      <4> DEFINE rows == Become(Expired, Promise!AfterLoss)
                 todo == {JobOf[i] : i \in Expired}
      <4> HIDE DEF rows, todo
      <4>1. txn' = [txn EXCEPT ![s] = [Idle EXCEPT !.op = "recover", !.who = who, !.rows = rows, !.todo = todo]]
        BY <2>4, <3>3 DEF BeginRecover, Open, rows, todo
      <4>2. \A t \in Sessions \ {s} : txn'[t] = txn[t]
        BY <4>1 DEF IInv, TypeOK
      <4>3. txn'[s].read = NoRow /\ \A j \in Jobs : txn'[s].jobRows[j] = NoRow
        BY <3>1, <4>1 DEF Idle
      <4> QED
        BY <4>2, <4>3, OthersCount
    <3> QED
      BY <3>2, <3>3
  <2>5. ASSUME NEW i \in Items, NEW o \in Owners, BeginComplete(s, i, o) \/ BeginFail(s, i, o)
        PROVE  \A t \in Sessions : CountsEvolve(t)
    <3>1. PICK op, rows, todo : Open(s, op, o, rows, todo)
      BY <2>5 DEF BeginComplete, BeginFail
    <3>2. txn' = [txn EXCEPT ![s] = [Idle EXCEPT !.op = op, !.who = o, !.rows = rows, !.todo = todo]]
      BY <3>1 DEF Open
    <3>3. s \in DOMAIN txn /\ \A t \in Sessions \ {s} : txn'[t] = txn[t]
      BY <3>2 DEF IInv, TypeOK
    <3>4. txn'[s].read = NoRow /\ \A j \in Jobs : txn'[s].jobRows[j] = NoRow
      BY <3>2, <3>3 DEF Idle
    <3> QED
      BY <3>3, <3>4, OthersCount
  <2>6. CASE CreateInsert(s) \/ ClaimItem(s) \/ ClaimNothing(s) \/ Rollback(s)
    <3>1. txn' = [txn EXCEPT ![s] = Idle]
      BY <2>6 DEF CreateInsert, ClaimItem, ClaimNothing, Rollback
    <3> QED
      BY <3>1, OthersCount DEF IInv, TypeOK, Idle
  <2>7. CASE RefreshWrite(s)
    BY <2>7 DEF RefreshWrite, IInv, TypeOK, Transactions, CountsEvolve
  <2>8. CASE Commit(s)
    BY <2>8, OthersCount DEF IInv, TypeOK, Commit, Idle
  <2> QED
    BY <1>1, <2>1, <2>2, <2>3, <2>4, <2>5, <2>6, <2>7, <2>8 DEF SessionStep
<1>2. CASE UNCHANGED txn
  BY <1>2 DEF CountsEvolve
<1> QED
  BY <1>1, <1>2 DEF Next, StartItem, RenewLease, MarkSubmitted, LeaseExpires, vars

LEMMA StepRows ==
  ASSUME IInv, [Next]_vars, NEW j \in Jobs
  PROVE  RowEvolves(j)
<1>1. ASSUME NEW s \in Sessions, SessionStep(s) PROVE RowEvolves(j)
  <2>1. CASE UNCHANGED jobRow
    BY <2>1 DEF RowEvolves
  <2>2. CASE CreateInsert(s)
    <3>1. jobRow' = jobRow \/ jobRow' = [jobRow EXCEPT ![txn[s].job] = [NoRow EXCEPT !.status = "pending"]]
      BY <2>2 DEF CreateInsert
    <3> QED
      BY <3>1 DEF RowEvolves, NoRow, IInv, TypeOK
  <2>3. CASE ClaimItem(s)
    <3>1. PICK i \in Candidates(s) : jobRow' = [jobRow EXCEPT ![JobOf[i]].status = "running"]
      BY <2>3 DEF ClaimItem
    <3> QED
      BY <3>1 DEF RowEvolves, Candidates, IInv, TypeOK, JobRows
  <2>4. CASE Commit(s)
    BY <2>4 DEF Commit, RowEvolves
  <2> QED
    BY <1>1, <2>1, <2>2, <2>3, <2>4
    DEF SessionStep, CreateLookup, BeginStop, RefreshRead, BeginRecover, BeginComplete, BeginFail,
        ClaimNothing, RefreshWrite, Rollback
<1>2. CASE UNCHANGED jobRow
  BY <1>2 DEF RowEvolves
<1> QED
  BY <1>1, <1>2 DEF Next, StartItem, RenewLease, MarkSubmitted, LeaseExpires, vars

-----------------------------------------------------------------------------

LEMMA StepBacked ==
  ASSUME IInv, NothingSkipped, [Next]_vars, NEW s \in Sessions, CountsBacked(s)
  PROVE  CountsBacked(s)'
<1>1. CountsEvolve(s)
  BY StepCounts
<1>2. CASE txn'[s].read = NoRow /\ \A j \in Jobs : txn'[s].jobRows[j] = NoRow
  BY <1>2 DEF CountsBacked
<1>3. CASE ~(txn'[s].read = NoRow /\ \A j \in Jobs : txn'[s].jobRows[j] = NoRow)
  <2>1. txn[s] \in Transactions /\ Sound(txn[s])
    BY DEF IInv, TypeOK
  <2>2. txn[s].read # NoRow => txn[s].job \in Jobs
    BY <2>1 DEF Sound, Arguments, Transactions
  <2>3. txn'[s].rows = txn[s].rows
    BY <1>1, <1>3 DEF CountsEvolve
  <2>4. ASSUME NEW v \in JobRows, NEW j \in Jobs, v # NoRow,
               \/ v = txn'[s].read /\ j = txn'[s].job
               \/ v = txn'[s].jobRows[j]
        PROVE  Backed(s, v, j)'
    <3>1. \/ v = txn[s].read /\ j = txn[s].job
          \/ v = txn[s].jobRows[j]
          \/ v = CountedRow(s, j)
      BY <1>1, <1>3, <2>4 DEF CountsEvolve
    <3>2. Backed(s, v, j)
      BY <2>4, <3>1, CountedBacked DEF CountsBacked
    <3> QED
      BY <2>3, <3>2, BackedKept
  <2>5. txn'[s] \in Transactions /\ Sound(txn[s])'
    BY StepIInv DEF IInv, TypeOK
  <2>6. /\ txn'[s].read \in JobRows /\ \A j \in Jobs : txn'[s].jobRows[j] \in JobRows
        /\ (txn'[s].read # NoRow => txn'[s].job \in Jobs)
    BY <2>5 DEF Sound, Arguments, Transactions
  <2> QED
    BY <2>4, <2>6 DEF CountsBacked
<1> QED
  BY <1>2, <1>3

\* What the status of row v says of the items that succeeded and are settled.
Says(v, j, Done, Won) ==
  v.status \in Finished =>
    /\ Done = Promise!ItemsOf(j)
    /\ v.status = "succeeded" <=> Won = Promise!ItemsOf(j)
    /\ v.status = "partial" => Won # {}
    /\ v.status = "failed" => Won = {}

WonItems(j) == {i \in Promise!ItemsOf(j) : status[i] = "succeeded"}
LostItems(j) == {i \in SettledItems(j) : status[i] # "succeeded"}

LEMMA WonAreSettled ==
  ASSUME NEW j \in Jobs
  PROVE  {i \in SettledItems(j) : status[i] = "succeeded"} = WonItems(j)
  BY DEF WonItems, SettledItems, Promise!Settled

\* The numbers of a jobs row, and those a commit gives it, are of its items.
LEMMA StepProgress ==
  ASSUME IInv, CountInv, [Next]_vars
  PROVE  ProgressNotOverstated' /\ FinishedMeansSettled'
<1> SUFFICES ASSUME NEW j \in Jobs
             PROVE  /\ jobRow'[j].completed <= Cardinality(SettledItems(j)')
                    /\ jobRow'[j].succeeded <= Cardinality(WonItems(j)')
                    /\ jobRow'[j].failed <= Cardinality(LostItems(j)')
                    /\ Says(jobRow'[j], j, SettledItems(j)', WonItems(j)')
  <2>1. \A k \in Jobs : {i \in SettledItems(k)' : status'[i] = "succeeded"} = WonItems(k)'
    BY DEF WonItems, SettledItems, Promise!Settled
  <2> QED
    BY <2>1 DEF ProgressNotOverstated, FinishedMeansSettled, Says, WonItems, LostItems, Finished
<1>1. RowEvolves(j) /\ jobRow[j] \in JobRows
  BY StepRows DEF IInv, TypeOK
<1>2. \A i \in Items : Promise!Settled(i) =>
        Promise!Settled(i)' /\ (status'[i] = "succeeded" <=> status[i] = "succeeded")
  BY StepIInv, SettledKept DEF IInv, TypeOK
<1>3. /\ jobRow[j].completed <= Cardinality(SettledItems(j))
      /\ jobRow[j].succeeded <= Cardinality(WonItems(j))
      /\ jobRow[j].failed <= Cardinality(LostItems(j))
      /\ Says(jobRow[j], j, SettledItems(j), WonItems(j))
  <2>1. ProgressNotOverstated /\ FinishedMeansSettled
    BY DEF CountInv
  <2>2. Says(jobRow[j], j, SettledItems(j), WonItems(j))
    BY <2>1 DEF FinishedMeansSettled, Says, WonItems, Finished
  <2> QED
    BY <2>1, <2>2, WonAreSettled DEF ProgressNotOverstated, LostItems
<1>4. /\ SettledItems(j) \subseteq SettledItems(j)' /\ SettledItems(j)' \in SUBSET Promise!ItemsOf(j)
      /\ SettledItems(j)' \in SUBSET Items
      /\ WonItems(j) \subseteq WonItems(j)' /\ WonItems(j)' \in SUBSET Items
      /\ LostItems(j) \subseteq LostItems(j)' /\ LostItems(j)' \in SUBSET Items
      /\ SettledItems(j) = Promise!ItemsOf(j) => WonItems(j)' = WonItems(j)
  BY <1>2 DEF SettledItems, WonItems, LostItems, Promise!Settled
<1>5. /\ Cardinality(SettledItems(j)) <= Cardinality(SettledItems(j)')
      /\ Cardinality(WonItems(j)) <= Cardinality(WonItems(j)')
      /\ Cardinality(LostItems(j)) <= Cardinality(LostItems(j)')
      /\ Cardinality(SettledItems(j)) \in Nat /\ Cardinality(SettledItems(j)') \in Nat
      /\ Cardinality(WonItems(j)) \in Nat /\ Cardinality(WonItems(j)') \in Nat
      /\ Cardinality(LostItems(j)) \in Nat /\ Cardinality(LostItems(j)') \in Nat
      /\ jobRow[j].completed \in Int /\ jobRow[j].succeeded \in Int /\ jobRow[j].failed \in Int
  BY <1>1, <1>4, SetOfItems, FS_Subset DEF JobRows
<1>6. CASE jobRow'[j] = jobRow[j]
  <2>1. Says(jobRow[j], j, SettledItems(j)', WonItems(j)')
    BY <1>3, <1>4 DEF Says
  <2> QED
    BY <1>3, <1>5, <1>6, <2>1
<1>7. CASE /\ jobRow'[j].status \in {"pending", "running"}
           /\ jobRow'[j].completed \in {0, jobRow[j].completed}
           /\ jobRow'[j].succeeded \in {0, jobRow[j].succeeded}
           /\ jobRow'[j].failed \in {0, jobRow[j].failed}
  BY <1>3, <1>5, <1>7 DEF Finished, Says
<1>8. ASSUME NEW s \in Sessions, Commit(s), txn[s].jobRows[j] # NoRow, jobRow'[j] = txn[s].jobRows[j]
      PROVE  /\ jobRow'[j].completed <= Cardinality(SettledItems(j)')
             /\ jobRow'[j].succeeded <= Cardinality(WonItems(j)')
             /\ jobRow'[j].failed <= Cardinality(LostItems(j)')
             /\ Says(jobRow'[j], j, SettledItems(j)', WonItems(j)')
  <2>1. Backed(s, txn[s].jobRows[j], j)
    BY <1>8 DEF CountInv, CountsBacked
  <2>2. \A i \in Items : status'[i] = Seen(s, i) /\ attempts'[i] = attempts[i]
    BY <1>8 DEF Commit
  <2>3. \A i \in Items : Promise!Settled(i)' <=> CountsAsDone(s, i)
    BY <2>2 DEF Promise!Settled, CountsAsDone, Promise!Exhausted
  <2>4. /\ SettledItems(j)' = DoneSet(s, j) /\ WonItems(j)' = SucceededSet(s, j)
        /\ LostItems(j)' = LostSet(s, j)
    BY <2>2, <2>3 DEF SettledItems, WonItems, LostItems, DoneSet, SucceededSet, LostSet
  <2>5. Says(txn[s].jobRows[j], j, DoneSet(s, j), SucceededSet(s, j))
    BY <2>1 DEF Backed, Says, DoneSet, SucceededSet
  <2> QED
    BY <1>8, <2>1, <2>4, <2>5 DEF Backed
<1> QED
  BY <1>1, <1>6, <1>7, <1>8 DEF RowEvolves

LEMMA StepCountInv == IInv /\ CountInv /\ [Next]_vars => CountInv'
<1> SUFFICES ASSUME IInv, CountInv, [Next]_vars PROVE CountInv'
  OBVIOUS
<1>1. NothingSkipped'
  BY StepIInv, SettledKept DEF NothingSkipped, CountInv, IInv, TypeOK
<1> QED
  BY <1>1, StepBacked, StepProgress DEF CountInv

LEMMA InitCountInv == Init => CountInv
<1> SUFFICES ASSUME Init PROVE CountInv
  OBVIOUS
<1>1. NothingSkipped /\ \A s \in Sessions : CountsBacked(s)
  BY DEF Init, Promise!Init, NothingSkipped, CountsBacked, Idle
<1>2. ProgressNotOverstated
  <2>1. ASSUME NEW S \in SUBSET Items PROVE 0 <= Cardinality(S)
    BY SetOfItems
  <2> QED
    BY <2>1 DEF Init, ProgressNotOverstated, NoRow, SettledItems
<1>3. FinishedMeansSettled
  BY DEF Init, FinishedMeansSettled, NoRow
<1> QED
  BY <1>1, <1>2, <1>3 DEF CountInv

LEMMA CountsSound == Spec => []CountInv
  BY InitCountInv, StepCountInv, TransactionsSound, PTL DEF Spec

(* The counters a page shows, of items done, succeeded and failed, never   *)
(* run ahead of the rows, whichever counts are overtaken by other          *)
(* transactions before they are written.                                   *)
THEOREM ProgressCorrect == Spec => []ProgressNotOverstated
<1>1. CountInv => ProgressNotOverstated
  BY DEF CountInv
<1> QED
  BY <1>1, CountsSound, PTL

(* A job that is shown as finished is finished for good, and its status is *)
(* what its items say: all succeeded, some and not all, or none.           *)
THEOREM FinishedCorrect == Spec => []FinishedMeansSettled
<1>1. CountInv => FinishedMeansSettled
  BY DEF CountInv
<1> QED
  BY <1>1, CountsSound, PTL

-----------------------------------------------------------------------------
(* Idempotency keys.                                                       *)

\* A step creates no job, or one whose key no job has.
LEMMA StepCreates ==
  ASSUME IInv, [Next]_vars
  PROVE  \/ \A j \in Jobs : Created(j)' <=> Created(j)
         \/ \E k \in Jobs : ~KeyTaken(k) /\ \A j \in Jobs \ {k} : Created(j)' <=> Created(j)
<1>1. ASSUME NEW s \in Sessions, SessionStep(s)
      PROVE  \/ \A j \in Jobs : Created(j)' <=> Created(j)
             \/ \E k \in Jobs : ~KeyTaken(k) /\ \A j \in Jobs \ {k} : Created(j)' <=> Created(j)
  <2>1. CASE UNCHANGED jobRow
    BY <2>1 DEF Created
  <2>2. CASE CreateInsert(s) /\ ~KeyTaken(txn[s].job)
    <3>1. txn[s].job \in Jobs
      BY <2>2 DEF CreateInsert, IInv, Sound, Arguments
    <3>2. \A j \in Jobs \ {txn[s].job} : jobRow'[j] = jobRow[j]
      BY <2>2 DEF CreateInsert, IInv, TypeOK
    <3> QED
      BY <2>2, <3>1, <3>2 DEF Created
  <2>3. CASE ClaimItem(s)
    <3>1. ASSUME NEW i \in Items PROVE status'[i] # "absent" <=> status[i] # "absent"
      BY <2>3 DEF ClaimItem, Candidates, Promise!Claimable, IInv, TypeOK, Promise!TypeOK
    <3> QED
      BY <2>3, <3>1, ClaimItemKeeps DEF IInv, ItemsWithJob
  <2>4. CASE Commit(s)
    BY <2>4, CommitJobs
  <2> QED
    BY <1>1, <2>1, <2>2, <2>3, <2>4
    DEF SessionStep, CreateLookup, CreateInsert, BeginStop, RefreshRead, BeginRecover, BeginComplete,
        BeginFail, ClaimNothing, RefreshWrite, Rollback
<1>2. CASE UNCHANGED jobRow
  BY <1>2 DEF Created
<1> QED
  BY <1>1, <1>2 DEF Next, StartItem, RenewLease, MarkSubmitted, LeaseExpires, vars

(* However lookups and inserts of requests with one idempotency key        *)
(* interleave, there is one job for the key.                               *)
THEOREM OneJobCorrect == Spec => []OneJobPerKey
<1>1. Init => OneJobPerKey
  BY DEF Init, OneJobPerKey, Created
<1>2. IInv /\ OneJobPerKey /\ [Next]_vars => OneJobPerKey'
  BY StepCreates DEF OneJobPerKey, KeyTaken
<1> QED
  BY <1>1, <1>2, TransactionsSound, PTL DEF Spec

=============================================================================
