--------------------------- MODULE JobTransactions ---------------------------
(***************************************************************************)
(* JobRepository (cluster/jobs.py) as PostgreSQL runs it: every method is  *)
(* a READ COMMITTED transaction of some pooled connection (a session),     *)
(* several sessions of several nodes run at once, and a session that loses *)
(* its connection rolls back.  A transaction that only touches rows it has *)
(* locked from its first statement on is one step; complete_item,          *)
(* fail_item, recover_expired_items and request_stop are several, because  *)
(* _refresh_job reads the other items of the job without locking them and  *)
(* then overwrites the counters of the jobs row.                           *)
(*                                                                         *)
(* A session waits for a row another one has locked, except claim_item,    *)
(* which skips such rows.  What a session has written is visible to itself *)
(* at once and to the others when it commits.                              *)
(***************************************************************************)
EXTENDS Integers, FiniteSets

CONSTANTS Jobs, Items, JobOf, Kinds, KindOf, UnsafeKinds, MaxAttempts,
          Owners, NoOwner, MaxExpiries,
          Sessions,      (* database connections                           *)
          KeyOf          (* the idempotency_key a create request carries   *)

\* Every caller of create_job refuses an empty list of items.
ASSUME SessionsAssumption ==
  /\ Sessions # {}
  /\ DOMAIN KeyOf = Jobs
  /\ IsFiniteSet(Items)
  /\ \A j \in Jobs : \E i \in Items : JobOf[i] = j

VARIABLES
  status, attempts, owner, lease, stopRequested,  (* as committed           *)
  everSubmitted, expiries,                        (* histories of JobItems  *)
  jobRow,   (* status and counters of the jobs row, as committed            *)
  txn       (* what each session is doing                                   *)

itemVars == <<status, attempts, owner, lease, stopRequested, everSubmitted, expiries>>
vars == <<itemVars, jobRow, txn>>

\* What the repository promises, and the vocabulary shared with it.
Promise == INSTANCE JobItems

ASSUME ColumnsAssumption == Promise!JobItemsAssumption

-----------------------------------------------------------------------------

NoWrite == "-"
NoRow == [status |-> NoWrite, completed |-> 0, succeeded |-> 0, failed |-> 0]

Idle == [op |-> "idle", who |-> NoOwner, job |-> NoWrite,
         rows |-> [i \in Items |-> NoWrite],
         todo |-> {}, read |-> NoRow, locked |-> {}, jobRows |-> [j \in Jobs |-> NoRow]]

\* Operations whose transaction is open; "claim" and "create" lie between
\* two transactions, or between a read and the write it decided.
InTransaction(s) == txn[s].op \in {"recover", "complete", "fail", "stop"}

RowFree(i) == \A s \in Sessions : txn[s].rows[i] = NoWrite
JobFree(s, j) == \A t \in Sessions \ {s} : j \notin txn[t].locked

\* A statement of session s sees committed rows and its own writes.
Seen(s, i) == IF txn[s].rows[i] = NoWrite THEN status[i] ELSE txn[s].rows[i]

Expired == {i \in Items : status[i] \in Promise!Active /\ lease[i] = "expired"}

\* Mutant of CountsAsDone: failed items count before their last attempt.
CountsFailedAsDone(s, i) == Seen(s, i) \in Promise!Terminal \cup {"failed"}

\* _refresh_job: which items count as completed and as failed ...
CountsAsDone(s, i) ==
  Seen(s, i) \in Promise!Terminal \/ (Seen(s, i) = "failed" /\ Promise!Exhausted(i))
CountsAsFailed(s, i) ==
  CountsAsDone(s, i) /\ Seen(s, i) \in {"needs_review", "cancelled", "failed"}

\* Mutant of RefreshedStatus: the failures are looked at first.
RefreshedStatusSwapped(completed, total, succeeded, failed) ==
  IF failed = 0 THEN "succeeded"
  ELSE IF completed < total THEN "running"
  ELSE IF succeeded > 0 THEN "partial" ELSE "failed"

\* Mutant of RefreshedStatus: a status the schema's CHECK does not admit.
RefreshedStatusUnknown(completed, total, succeeded, failed) ==
  IF completed < total THEN "running" ELSE "completed"

\* ... the status it derives from the counts ...
RefreshedStatus(completed, total, succeeded, failed) ==
  IF completed < total THEN "running"
  ELSE IF failed = 0 THEN "succeeded"
  ELSE IF succeeded > 0 THEN "partial" ELSE "failed"

\* ... and the row it writes.
CountedRow(s, j) ==
  LET number(Test(_)) == Cardinality({i \in Promise!ItemsOf(j) : Test(i)})
      completed == number(LAMBDA i : CountsAsDone(s, i))
      succeeded == number(LAMBDA i : Seen(s, i) = "succeeded")
      failed == number(LAMBDA i : CountsAsFailed(s, i))
      total == Cardinality(Promise!ItemsOf(j))
  IN [status |-> RefreshedStatus(completed, total, succeeded, failed),
      completed |-> completed, succeeded |-> succeeded, failed |-> failed]

\* The first writing statement of a transaction: rows it locks and writes,
\* jobs it must refresh before it commits.
Open(s, op, who, rows, todo) ==
  txn' = [txn EXCEPT ![s] = [Idle EXCEPT !.op = op, !.who = who, !.rows = rows, !.todo = todo]]

Become(S, value(_)) == [i \in Items |-> IF i \in S THEN value(i) ELSE NoWrite]

-----------------------------------------------------------------------------

Init ==
  /\ Promise!Init
  /\ jobRow = [j \in Jobs |-> NoRow]
  /\ txn = [s \in Sessions |-> Idle]

Created(j) == jobRow[j] # NoRow
KeyTaken(j) == \E k \in Jobs : KeyOf[k] = KeyOf[j] /\ Created(k)

\* create_job first looks its key up; a job found is returned as it is.
CreateLookup(s, j) ==
  /\ txn[s].op = "idle"
  /\ ~KeyTaken(j)
  /\ txn' = [txn EXCEPT ![s] = [Idle EXCEPT !.op = "create", !.job = j]]
  /\ UNCHANGED <<itemVars, jobRow>>

\* Mutant of CreateInsert: no UNIQUE constraint on idempotency_key.
CreateInsertAlways(s) ==
  LET j == txn[s].job IN
  /\ txn[s].op = "create"
  /\ ~Created(j)
  /\ txn' = [txn EXCEPT ![s] = Idle]
  /\ jobRow' = [jobRow EXCEPT ![j] = [NoRow EXCEPT !.status = "pending"]]
  /\ status' = [i \in Items |-> IF JobOf[i] = j THEN "pending" ELSE status[i]]
  /\ UNCHANGED <<attempts, owner, lease, stopRequested, everSubmitted, expiries>>

\* ... then inserts job and items.  If the key was inserted meanwhile the
\* UNIQUE constraint raises and the caller gets an error.
CreateInsert(s) ==
  LET j == txn[s].job IN
  /\ txn[s].op = "create"
  /\ txn' = [txn EXCEPT ![s] = Idle]
  /\ \/ /\ KeyTaken(j)
        /\ UNCHANGED <<itemVars, jobRow>>
     \/ /\ ~KeyTaken(j)
        /\ jobRow' = [jobRow EXCEPT ![j] = [NoRow EXCEPT !.status = "pending"]]
        /\ status' = [i \in Items |-> IF JobOf[i] = j THEN "pending" ELSE status[i]]
        /\ UNCHANGED <<attempts, owner, lease, stopRequested, everSubmitted, expiries>>

\* recover_expired_items; who is the owner for whom claim_item calls it, or
\* NoOwner when a scheduler starts.
BeginRecover(s, who) ==
  /\ txn[s].op = "idle"
  /\ \A i \in Expired : RowFree(i)
  /\ IF Expired = {}
     THEN txn' = [txn EXCEPT ![s] = IF who = NoOwner THEN Idle
                                    ELSE [Idle EXCEPT !.op = "claim", !.who = who]]
     ELSE Open(s, "recover", who, Become(Expired, Promise!AfterLoss),
               {JobOf[i] : i \in Expired})
  /\ UNCHANGED <<itemVars, jobRow>>

\* The second transaction of claim_item.  It locks one claimable item and
\* its job, skipping what is locked, and touches nothing else: one step.
Candidates(s) == {i \in Items : /\ Promise!Claimable(i)
                                /\ ~stopRequested[JobOf[i]]
                                /\ RowFree(i) /\ JobFree(s, JobOf[i])}

ClaimItem(s) ==
  /\ txn[s].op = "claim"
  /\ \E i \in Candidates(s) :
       /\ status' = [status EXCEPT ![i] = "leased"]
       /\ attempts' = [attempts EXCEPT ![i] = @ + 1]
       /\ owner' = [owner EXCEPT ![i] = txn[s].who]
       /\ lease' = [lease EXCEPT ![i] = "live"]
       /\ jobRow' = [jobRow EXCEPT ![JobOf[i]].status = "running"]
  /\ txn' = [txn EXCEPT ![s] = Idle]
  /\ UNCHANGED <<stopRequested, everSubmitted, expiries>>

\* Nothing is claimable, or what is belongs to a job whose row is locked for
\* a moment by the foreign key of a log line that is being inserted.
ClaimNothing(s) ==
  /\ txn[s].op = "claim"
  /\ txn' = [txn EXCEPT ![s] = Idle]
  /\ UNCHANGED <<itemVars, jobRow>>

\* start_item, renew_lease and mark_submitted are one UPDATE of one row.
StartItem(i, o) ==
  /\ RowFree(i)
  /\ owner[i] = o /\ status[i] = "leased"
  /\ status' = [status EXCEPT ![i] = "running"]
  /\ UNCHANGED <<attempts, owner, lease, stopRequested, everSubmitted, expiries, jobRow, txn>>

RenewLease(i, o) ==
  /\ RowFree(i)
  /\ owner[i] = o /\ status[i] \in Promise!Active
  /\ lease' = [lease EXCEPT ![i] = "live"]
  /\ UNCHANGED <<status, attempts, owner, stopRequested, everSubmitted, expiries, jobRow, txn>>

\* Mutant of MarkSubmitted: fail_item reads without FOR UPDATE, so the row
\* may be marked between its SELECT and its UPDATE.
MarkSubmittedUnlocked(i, o) ==
  /\ owner[i] = o /\ status[i] \in {"leased", "running"}
  /\ status' = [status EXCEPT ![i] = "submitted_to_crm"]
  /\ everSubmitted' = [everSubmitted EXCEPT ![i] = TRUE]
  /\ UNCHANGED <<attempts, owner, lease, stopRequested, expiries, jobRow, txn>>

MarkSubmitted(i, o) ==
  /\ RowFree(i)
  /\ owner[i] = o /\ status[i] \in {"leased", "running"}
  /\ status' = [status EXCEPT ![i] = "submitted_to_crm"]
  /\ everSubmitted' = [everSubmitted EXCEPT ![i] = TRUE]
  /\ UNCHANGED <<attempts, owner, lease, stopRequested, expiries, jobRow, txn>>

BeginComplete(s, i, o) ==
  /\ txn[s].op = "idle"
  /\ RowFree(i)
  /\ owner[i] = o /\ status[i] \in Promise!Active
  /\ Open(s, "complete", o, Become({i}, LAMBDA k : "succeeded"), {JobOf[i]})
  /\ UNCHANGED <<itemVars, jobRow>>

BeginFail(s, i, o) ==
  /\ txn[s].op = "idle"
  /\ RowFree(i)
  /\ owner[i] = o
  /\ Open(s, "fail", o, Become({i}, Promise!AfterFailure), {JobOf[i]})
  /\ UNCHANGED <<itemVars, jobRow>>

\* request_stop locks the jobs row first, so nothing of the job is claimed,
\* completed, failed or recovered between its two updates: one step.
BeginStop(s, j) ==
  LET waiting == {i \in Promise!ItemsOf(j) : status[i] \in {"pending", "failed"}} IN
  /\ txn[s].op = "idle"
  /\ Created(j)
  /\ JobFree(s, j)
  /\ \A i \in waiting : RowFree(i)
  /\ txn' = [txn EXCEPT ![s] =
       [Idle EXCEPT !.op = "stop", !.job = j, !.todo = {j}, !.locked = {j},
                    !.rows = Become(waiting, LAMBDA k : "cancelled")]]
  /\ UNCHANGED <<itemVars, jobRow>>

\* _refresh_job: the SELECT, which takes no lock ...
RefreshRead(s, j) ==
  /\ InTransaction(s)
  /\ j \in txn[s].todo
  /\ txn[s].read = NoRow
  /\ txn' = [txn EXCEPT ![s].read = CountedRow(s, j), ![s].job = j]
  /\ UNCHANGED <<itemVars, jobRow>>

\* ... and the UPDATE, which waits for the row of the job.
RefreshWrite(s) ==
  LET j == txn[s].job IN
  /\ InTransaction(s)
  /\ txn[s].read # NoRow
  /\ JobFree(s, j)
  /\ txn' = [txn EXCEPT ![s].jobRows[j] = txn[s].read, ![s].read = NoRow,
                        ![s].locked = @ \cup {j}, ![s].todo = @ \ {j}]
  /\ UNCHANGED <<itemVars, jobRow>>

Commit(s) ==
  LET wrote(i) == txn[s].rows[i] # NoWrite
      stops(j) == txn[s].op = "stop" /\ txn[s].job = j
  IN
  /\ InTransaction(s)
  /\ txn[s].todo = {}
  /\ status' = [i \in Items |-> Seen(s, i)]
  /\ owner' = [i \in Items |-> IF wrote(i) /\ txn[s].op # "stop" THEN NoOwner ELSE owner[i]]
  /\ lease' = [i \in Items |-> IF wrote(i) /\ txn[s].op # "stop" THEN "none" ELSE lease[i]]
  /\ stopRequested' = [j \in Jobs |-> stops(j) \/ stopRequested[j]]
  /\ jobRow' = [j \in Jobs |-> IF txn[s].jobRows[j] = NoRow THEN jobRow[j] ELSE txn[s].jobRows[j]]
  /\ txn' = [txn EXCEPT ![s] = IF txn[s].op = "recover" /\ txn[s].who # NoOwner
                               THEN [Idle EXCEPT !.op = "claim", !.who = txn[s].who]
                               ELSE Idle]
  /\ UNCHANGED <<attempts, everSubmitted, expiries>>

\* The connection is lost before the COMMIT reached the server.
Rollback(s) ==
  /\ txn[s].op # "idle"
  /\ txn' = [txn EXCEPT ![s] = Idle]
  /\ UNCHANGED <<itemVars, jobRow>>

LeaseExpires(i) == Promise!LeaseExpires(i) /\ UNCHANGED <<jobRow, txn>>

SessionStep(s) ==
  \/ \E j \in Jobs : CreateLookup(s, j) \/ BeginStop(s, j) \/ RefreshRead(s, j)
  \/ \E who \in Owners \cup {NoOwner} : BeginRecover(s, who)
  \/ \E i \in Items, o \in Owners : BeginComplete(s, i, o) \/ BeginFail(s, i, o)
  \/ CreateInsert(s) \/ ClaimItem(s) \/ ClaimNothing(s)
  \/ RefreshWrite(s) \/ Commit(s) \/ Rollback(s)

Next ==
  \/ \E s \in Sessions : SessionStep(s)
  \/ \E i \in Items, o \in Owners : StartItem(i, o) \/ RenewLease(i, o) \/ MarkSubmitted(i, o)
  \/ \E i \in Items : LeaseExpires(i)

Spec == Init /\ [][Next]_vars

-----------------------------------------------------------------------------

(* Types, and what a transaction may have locked.                          *)
JobRows == [status : {NoWrite, "pending", "running", "succeeded", "partial", "failed"},
            completed : 0..Cardinality(Items), succeeded : 0..Cardinality(Items),
            failed : 0..Cardinality(Items)]

Transactions ==
  [op : {"idle", "create", "recover", "claim", "complete", "fail", "stop"},
   who : Owners \cup {NoOwner}, job : Jobs \cup {NoWrite},
   rows : [Items -> Promise!Statuses \cup {NoWrite}],
   todo : SUBSET Jobs, read : JobRows, locked : SUBSET Jobs, jobRows : [Jobs -> JobRows]]

TypeOK ==
  /\ Promise!TypeOK
  /\ jobRow \in [Jobs -> JobRows]
  /\ txn \in [Sessions -> Transactions]

(* However the transactions interleave and whichever of them roll back,    *)
(* their commits have, row by row, the effects JobItems promises: no       *)
(* update decided on a status that another session has changed since.      *)
Implements == Promise!Spec

SettledItems(j) == {i \in Promise!ItemsOf(j) : Promise!Settled(i)}

(* The counters a page shows never run ahead of the rows: a refresh reads  *)
(* without locks and may write late, but what it counted as done, as       *)
(* succeeded or as failed stays so.                                        *)
ProgressNotOverstated ==
  \A j \in Jobs :
    /\ jobRow[j].completed <= Cardinality(SettledItems(j))
    /\ jobRow[j].succeeded <= Cardinality({i \in SettledItems(j) : status[i] = "succeeded"})
    /\ jobRow[j].failed <= Cardinality({i \in SettledItems(j) : status[i] # "succeeded"})

(* A job reported as finished is finished for good: every item is settled, *)
(* all of them succeeded if the job did, some but not all of them if it is *)
(* partial, none of them if it failed.                                     *)
FinishedMeansSettled ==
  \A j \in Jobs :
    jobRow[j].status \in {"succeeded", "partial", "failed"} =>
      LET succeeded == {i \in Promise!ItemsOf(j) : status[i] = "succeeded"} IN
      /\ SettledItems(j) = Promise!ItemsOf(j)
      /\ jobRow[j].status = "succeeded" <=> succeeded = Promise!ItemsOf(j)
      /\ jobRow[j].status = "partial" => succeeded # {}
      /\ jobRow[j].status = "failed" => succeeded = {}

(* Requests with the same idempotency key never create two jobs, however   *)
(* their lookups and inserts interleave.                                   *)
OneJobPerKey ==
  \A j, k \in Jobs : Created(j) /\ Created(k) /\ KeyOf[j] = KeyOf[k] => j = k

Quiet == \A s \in Sessions : ~InTransaction(s)

(* Claimed of the system: progress is not lost.  When every item of a job  *)
(* is settled and no transaction is open, the job is not shown as running. *)
ProgressCaughtUp ==
  Quiet => \A j \in Jobs :
    Created(j) /\ SettledItems(j) = Promise!ItemsOf(j) => jobRow[j].status # "running"

(* Claimed of the system: stopping a job cancels what is waiting.  With no *)
(* transaction open, no item of a stopped job is waiting to be claimed.    *)
StoppedJobHasNothingWaiting ==
  Quiet => \A i \in Items : stopRequested[JobOf[i]] => ~Promise!Claimable(i)

=============================================================================
