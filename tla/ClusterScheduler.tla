-------------------------- MODULE ClusterScheduler --------------------------
(***************************************************************************)
(* cluster/scheduler.py on every node, the item handlers of app.py it      *)
(* calls, the CRM they act on, and the job_items rows (JobItems) through   *)
(* which the nodes share the work.                                         *)
(*                                                                         *)
(* A slot (a lease owner "node:slot") has at most one dispatch thread,     *)
(* which claims an item, starts a renewer thread for its lease, runs the   *)
(* handler of the item's kind and reports the outcome.  The thread ignores *)
(* what start_item, mark_submitted, complete_item and fail_item return: a  *)
(* worker that lost its lease works on to the end.                         *)
(*                                                                         *)
(* Faults: a node crashes; a repository call raises, before or after its   *)
(* transaction committed; a lease runs out although its renewer lives; the *)
(* CRM saves an order and gives no recognisable answer.  All are bounded   *)
(* by constants.  That a transfer takes a message for a saved order that   *)
(* is none is no fault: it may happen in any attempt.                      *)
(***************************************************************************)
EXTENDS Integers

CONSTANTS Jobs, Items, JobOf, KindOf, MaxAttempts, Owners, NoOwner, MaxExpiries,
          Nodes, NodeOf,   (* the node of each slot                          *)
          Takes,           (* the kinds a slot claims                        *)
          NoItem,
          MaxStalls,       (* leases that run out under a living renewer     *)
          MaxCrashes,      (* node crashes                                   *)
          MaxFaults        (* calls that raise, unclear answers, logouts     *)

UnsafeKinds == {"transfer", "service_close"}
Kinds == UnsafeKinds \cup {"query", "library_lookup", "transfer_summary"}

ASSUME SchedulerAssumption ==
  /\ NodeOf \in [Owners -> Nodes]
  /\ Takes \in [Owners -> SUBSET Kinds]
  /\ NoItem \notin Items
  /\ MaxStalls \in Nat /\ MaxCrashes \in Nat /\ MaxFaults \in Nat

VARIABLES
  status, attempts, owner, lease, stopRequested, everSubmitted, expiries,
  scheduler,  (* per node: "none", "running", or "broken" by a failed start  *)
  loggedIn,   (* per slot: the slot is logged in to the CRM                  *)
  slotStop,   (* per slot: the stop event of its dispatch thread             *)
  pc,         (* per slot: where its dispatch thread is, "dead" without one  *)
  has,        (* per slot: the item the thread works on                      *)
  renewing,   (* per slot: its renewer thread lives                          *)
  round,      (* per slot: attempt loop of close_service_orders, 1 or 2      *)
  effects,    (* per item: transfers saved, or close confirmations clicked   *)
  closed,     (* per item: the CRM shows the service order as closed         *)
  misread,    (* history, per item: transfers taken for saved that were not  *)
  crashes, faults

repoVars == <<status, attempts, owner, lease, stopRequested, everSubmitted, expiries>>
threadVars == <<slotStop, pc, has, renewing, round>>
crmVars == <<effects, closed, misread>>
vars == <<repoVars, threadVars, crmVars, scheduler, loggedIn, crashes, faults>>

Repo == INSTANCE JobItems

ASSUME RowsAssumption == Repo!JobItemsAssumption

Working == {"claimed", "work", "acted", "confirm", "succeed", "raise"}

-----------------------------------------------------------------------------

Init ==
  /\ Repo!Init
  /\ scheduler = [n \in Nodes |-> "none"]
  /\ loggedIn = [o \in Owners |-> FALSE]
  /\ slotStop = [o \in Owners |-> FALSE]
  /\ pc = [o \in Owners |-> "dead"]
  /\ has = [o \in Owners |-> NoItem]
  /\ renewing = [o \in Owners |-> FALSE]
  /\ round = [o \in Owners |-> 1]
  /\ effects = [i \in Items |-> 0]
  /\ closed = [i \in Items |-> FALSE]
  /\ misread = [i \in Items |-> 0]
  /\ crashes = 0
  /\ faults = 0

Go(o, next) == pc' = [pc EXCEPT ![o] = next]

Fault == faults < MaxFaults /\ faults' = faults + 1

\* One repository call of a thread: it has its effect, or it does nothing
\* and says so, or it raises with or without the effect.
Call(Effect, Possible, o, after, raised) ==
  \/ /\ Effect \/ (~Possible /\ UNCHANGED repoVars)
     /\ Go(o, after)
     /\ UNCHANGED faults
  \/ /\ Effect \/ UNCHANGED repoVars
     /\ Go(o, raised)
     /\ Fault

RecoverAll ==
  LET expired == {i \in Items : status[i] \in Repo!Active /\ lease[i] = "expired"}
  IN IF expired = {} THEN UNCHANGED repoVars ELSE Repo!RecoverExpired(expired)

\* reconcile_slots for the slots of one node: threads of slots that are gone
\* are told to stop, dead threads of slots that are there are replaced.
Reconciled(n) ==
  LET mine(o) == NodeOf[o] = n
      starts(o) == mine(o) /\ loggedIn[o] /\ pc[o] = "dead"
  IN /\ slotStop' = [o \in Owners |-> IF starts(o) THEN FALSE
                                      ELSE slotStop[o] \/ (mine(o) /\ ~loggedIn[o] /\ pc[o] # "dead")]
     /\ pc' = [o \in Owners |-> IF starts(o) THEN "top" ELSE pc[o]]

-----------------------------------------------------------------------------
(* The node: app.py starts its scheduler on the first request, once.       *)

\* _ensure_cluster_scheduler publishes the object before start() returned;
\* a start() that raises is never repeated.
StartScheduler(n) ==
  /\ scheduler[n] = "none"
  /\ \/ /\ RecoverAll
        /\ Reconciled(n)
        /\ scheduler' = [scheduler EXCEPT ![n] = "running"]
        /\ UNCHANGED faults
     \/ /\ Fault
        /\ scheduler' = [scheduler EXCEPT ![n] = "broken"]
        /\ UNCHANGED <<repoVars, pc, slotStop>>
  /\ UNCHANGED <<has, renewing, round, crmVars, loggedIn, crashes>>

ReconcileSlots(n) ==
  /\ scheduler[n] = "running"
  /\ Reconciled(n)
  /\ UNCHANGED <<repoVars, has, renewing, round, crmVars, scheduler, loggedIn, crashes, faults>>

\* The process dies with its threads and comes back without scheduler.
Crash(n) ==
  LET gone(o) == NodeOf[o] = n IN
  /\ crashes < MaxCrashes
  /\ crashes' = crashes + 1
  /\ scheduler' = [scheduler EXCEPT ![n] = "none"]
  /\ loggedIn' = [o \in Owners |-> loggedIn[o] /\ ~gone(o)]
  /\ slotStop' = [o \in Owners |-> slotStop[o] /\ ~gone(o)]
  /\ pc' = [o \in Owners |-> IF gone(o) THEN "dead" ELSE pc[o]]
  /\ has' = [o \in Owners |-> IF gone(o) THEN NoItem ELSE has[o]]
  /\ renewing' = [o \in Owners |-> renewing[o] /\ ~gone(o)]
  /\ UNCHANGED <<repoVars, round, crmVars, faults>>

\* CRMWorker.logged_in, which the scheduler polls: a login, or the start-up
\* check of a remembered one; a logout or a session the CRM ended.
SlotLogin(o) ==
  /\ ~loggedIn[o]
  /\ loggedIn' = [loggedIn EXCEPT ![o] = TRUE]
  /\ UNCHANGED <<repoVars, threadVars, crmVars, scheduler, crashes, faults>>

SlotLogout(o) ==
  /\ loggedIn[o]
  /\ loggedIn' = [loggedIn EXCEPT ![o] = FALSE]
  /\ Fault
  /\ UNCHANGED <<repoVars, threadVars, crmVars, scheduler, crashes>>

-----------------------------------------------------------------------------
(* The dispatch thread of a slot.                                          *)

threadLocal == <<slotStop, round, crmVars, scheduler, loggedIn, crashes>>

\* The loop condition fails: the thread ends.
Leave(o) ==
  /\ pc[o] = "top" /\ slotStop[o]
  /\ Go(o, "dead")
  /\ UNCHANGED <<repoVars, has, renewing, faults, threadLocal>>

\* Mutant of Recover: claim_item does not recover expired leases.
RecoverNothing(o) ==
  /\ pc[o] = "top" /\ ~slotStop[o] /\ loggedIn[o]
  /\ Go(o, "claim")
  /\ UNCHANGED <<repoVars, has, renewing, faults, threadLocal>>

\* claim_item, first transaction.  A call that raises ends the thread.
Recover(o) ==
  /\ pc[o] = "top" /\ ~slotStop[o] /\ loggedIn[o]
  /\ Call(RecoverAll, TRUE, o, "claim", "dead")
  /\ UNCHANGED <<has, renewing, threadLocal>>

\* claim_item, second transaction.  (Rows it skips because another session
\* has locked them only delay it: JobTransactions.)
Claim(o) ==
  LET mine == {i \in Items : KindOf[i] \in Takes[o] /\ Repo!Claimable(i) /\ ~stopRequested[JobOf[i]]}
  IN
  /\ pc[o] = "claim"
  /\ \/ \E i \in mine :
          /\ Repo!ClaimItem(i, o)
          /\ \/ /\ Go(o, "claimed")
                /\ has' = [has EXCEPT ![o] = i]
                /\ UNCHANGED faults
             \/ Go(o, "dead") /\ Fault /\ UNCHANGED has
     \/ /\ mine = {}
        /\ Go(o, "top")
        /\ UNCHANGED <<repoVars, has, faults>>
     \/ /\ Go(o, "dead") /\ Fault
        /\ UNCHANGED <<repoVars, has>>
  /\ UNCHANGED <<renewing, threadLocal>>

\* start_item, whose result nobody reads; then the renewer is started and
\* the handler called.
Start(o) ==
  LET i == has[o] IN
  /\ pc[o] = "claimed"
  /\ Call(Repo!StartItem(i, o), owner[i] = o /\ status[i] = "leased", o, "work", "dead")
  /\ renewing' = [renewing EXCEPT ![o] = pc'[o] = "work"]
  /\ has' = [has EXCEPT ![o] = IF pc'[o] = "work" THEN i ELSE NoItem]
  /\ round' = [round EXCEPT ![o] = 1]
  /\ UNCHANGED <<slotStop, crmVars, scheduler, loggedIn, crashes>>

\* _renew_loop: one round.  It ends when the lease is no longer ours, and
\* dies of an exception, which nobody catches or notices.
Renew(o) ==
  LET i == has[o] IN
  /\ renewing[o]
  /\ \/ Repo!RenewLease(i, o) /\ UNCHANGED <<renewing, faults>>
     \/ /\ ~Repo!Holds(i, o)
        /\ renewing' = [renewing EXCEPT ![o] = FALSE]
        /\ UNCHANGED <<repoVars, faults>>
     \/ /\ Fault
        /\ renewing' = [renewing EXCEPT ![o] = FALSE]
        /\ UNCHANGED repoVars
  /\ UNCHANGED <<pc, has, threadLocal>>

\* query, library_lookup, transfer_summary: the CRM is only read.
SafeWork(o) ==
  /\ pc[o] = "work" /\ KindOf[has[o]] \notin UnsafeKinds
  /\ Go(o, "succeed") \/ Go(o, "raise")
  /\ UNCHANGED <<repoVars, has, renewing, faults, threadLocal>>

\* Mutant of SaveTransfer: the order is announced before it is saved.
SaveTransferAnnounced(o) ==
  /\ pc[o] = "work" /\ KindOf[has[o]] = "transfer"
  /\ Go(o, "acted")
  /\ UNCHANGED <<repoVars, has, renewing, faults, threadLocal>>

\* create_transfer up to the saved header.  The order exists and is seen, or
\* it exists and _save_transfer_header reports a failure, or it does not; or
\* it does not and a message with "saved" or "success" in it, be it that
\* saving failed, is taken for the order.
SaveTransfer(o) ==
  LET i == has[o] IN
  /\ pc[o] = "work" /\ KindOf[i] = "transfer"
  /\ \/ /\ effects' = [effects EXCEPT ![i] = @ + 1]
        /\ \/ Go(o, "acted") /\ UNCHANGED faults
           \/ Go(o, "raise") /\ Fault
        /\ UNCHANGED misread
     \/ /\ misread' = [misread EXCEPT ![i] = @ + 1]
        /\ Go(o, "acted")
        /\ UNCHANGED <<effects, faults>>
     \/ /\ UNCHANGED <<effects, misread, faults>>
        /\ Go(o, "raise")
  /\ UNCHANGED <<repoVars, has, renewing, slotStop, round, closed, scheduler, loggedIn, crashes>>

\* Mutant of RetryClose: the attempt loop does not end.
RetryCloseForever(o) ==
  \/ UNCHANGED round /\ Go(o, "work")
  \/ UNCHANGED round /\ Go(o, "raise")

\* close_service_orders goes through its loop once more, or gives up; an
\* exception makes it give up at once.
RetryClose(o) ==
  \/ round[o] = 1 /\ round' = [round EXCEPT ![o] = 2] /\ Go(o, "work")
  \/ UNCHANGED round /\ Go(o, "raise")

\* _close_current_service_order: an order seen as closed is left alone,
\* otherwise (also if a closed one is not recognised) the confirmation is
\* clicked, or cannot be.
CloseOrder(o) ==
  LET i == has[o] IN
  /\ pc[o] = "work" /\ KindOf[i] = "service_close"
  /\ \/ closed[i] /\ Go(o, "succeed") /\ UNCHANGED <<effects, round>>
     \/ /\ effects' = [effects EXCEPT ![i] = @ + 1]
        /\ Go(o, "acted")
        /\ UNCHANGED round
     \/ RetryClose(o) /\ UNCHANGED effects
  /\ UNCHANGED <<repoVars, has, renewing, faults, slotStop, closed, misread, scheduler, loggedIn, crashes>>

\* The CRM finishes a clicked confirmation, in its own time.
CrmCloses(i) ==
  /\ KindOf[i] = "service_close" /\ effects[i] > 0 /\ ~closed[i]
  /\ closed' = [closed EXCEPT ![i] = TRUE]
  /\ UNCHANGED <<repoVars, threadVars, effects, misread, scheduler, loggedIn, crashes, faults>>

\* Mutant of LogAndMark: the message of the saved order is only logged.
LogOnly(o) ==
  /\ pc[o] = "acted"
  /\ Go(o, "confirm")
  /\ UNCHANGED <<repoVars, has, renewing, faults, threadLocal>>

\* The log callback: append_log and then mark_submitted, whose refusal goes
\* unnoticed.  If either raises, the CRM operation ends as failed.
LogAndMark(o) ==
  LET i == has[o]
      markable == owner[i] = o /\ status[i] \in {"leased", "running"}
  IN
  /\ pc[o] = "acted"
  /\ Call(Repo!MarkSubmitted(i, o), markable, o, "confirm", "raise")
  /\ UNCHANGED <<has, renewing, threadLocal>>

\* Mutant of FinishTransfer: a transfer that fails is begun once more.
FinishTransferRetrying(o) ==
  /\ pc[o] = "confirm" /\ KindOf[has[o]] = "transfer"
  /\ Go(o, "succeed") \/ Go(o, "work") \/ Go(o, "raise")
  /\ UNCHANGED <<repoVars, has, renewing, faults, threadLocal>>

\* The rest of the operation.  A transfer gets its details and is confirmed
\* or not.  A close is seen to be done, or tried once more, or given up.
FinishTransfer(o) ==
  /\ pc[o] = "confirm" /\ KindOf[has[o]] = "transfer"
  /\ Go(o, "succeed") \/ Go(o, "raise")
  /\ UNCHANGED <<repoVars, has, renewing, faults, threadLocal>>

\* Mutant of FinishClose: the click is taken for the result.
FinishCloseOptimistic(o) ==
  /\ pc[o] = "confirm" /\ KindOf[has[o]] = "service_close"
  /\ Go(o, "succeed")
  /\ UNCHANGED <<repoVars, has, renewing, faults, threadLocal>>

FinishClose(o) ==
  /\ pc[o] = "confirm" /\ KindOf[has[o]] = "service_close"
  /\ \/ closed[has[o]] /\ Go(o, "succeed") /\ UNCHANGED round
     \/ RetryClose(o)
  /\ UNCHANGED <<repoVars, has, renewing, faults, slotStop, crmVars, scheduler, loggedIn, crashes>>

\* Mutant of Complete: the finally clause does not stop the renewer.
CompleteStillRenewing(o) ==
  LET i == has[o] IN
  /\ pc[o] = "succeed"
  /\ Call(Repo!CompleteItem(i, o), Repo!Holds(i, o), o, "top", "raise")
  /\ has' = [has EXCEPT ![o] = IF pc'[o] = "top" THEN NoItem ELSE i]
  /\ UNCHANGED <<renewing, threadLocal>>

\* complete_item; if it raises, the except branch calls fail_item.
Complete(o) ==
  LET i == has[o] IN
  /\ pc[o] = "succeed"
  /\ Call(Repo!CompleteItem(i, o), Repo!Holds(i, o), o, "top", "raise")
  /\ has' = [has EXCEPT ![o] = IF pc'[o] = "top" THEN NoItem ELSE i]
  /\ renewing' = [renewing EXCEPT ![o] = @ /\ pc'[o] # "top"]
  /\ UNCHANGED threadLocal

\* fail_item; if it raises, the thread ends and the lease is left behind.
Fail(o) ==
  LET i == has[o] IN
  /\ pc[o] = "raise"
  /\ Call(Repo!FailItem(i, o), owner[i] = o, o, "top", "dead")
  /\ has' = [has EXCEPT ![o] = NoItem]
  /\ renewing' = [renewing EXCEPT ![o] = FALSE]
  /\ UNCHANGED threadLocal

ThreadStep(o) ==
  \/ Leave(o) \/ Recover(o) \/ Claim(o) \/ Start(o)
  \/ SafeWork(o) \/ SaveTransfer(o) \/ CloseOrder(o)
  \/ LogAndMark(o) \/ FinishTransfer(o) \/ FinishClose(o)
  \/ Complete(o) \/ Fail(o)

-----------------------------------------------------------------------------
(* Users and the clock.                                                    *)

environment == <<threadVars, crmVars, scheduler, loggedIn, crashes, faults>>

CreateJob(j) == Repo!CreateJob(j) /\ UNCHANGED environment

\* /api/crm/batch/stop, the only caller of request_stop: query jobs.
StopJob(j) ==
  /\ \A i \in Repo!ItemsOf(j) : KindOf[i] = "query"
  /\ Repo!RequestStop(j)
  /\ UNCHANGED environment

\* The holder renews the lease in time, or is about to start its renewer.
Tended(i) ==
  \E o \in Owners : has[o] = i /\ owner[i] = o /\ (renewing[o] \/ pc[o] = "claimed")

LeaseRunsOut(i) == ~Tended(i) /\ Repo!LeaseExpires(i) /\ UNCHANGED environment

LeaseStalls(i) ==
  /\ Tended(i) /\ expiries[i] < MaxStalls
  /\ Repo!LeaseExpires(i)
  /\ UNCHANGED environment

Next ==
  \/ \E o \in Owners : ThreadStep(o) \/ Renew(o) \/ SlotLogin(o) \/ SlotLogout(o)
  \/ \E n \in Nodes : StartScheduler(n) \/ ReconcileSlots(n) \/ Crash(n)
  \/ \E j \in Jobs : CreateJob(j) \/ StopJob(j)
  \/ \E i \in Items : CrmCloses(i) \/ LeaseRunsOut(i) \/ LeaseStalls(i)

Spec == Init /\ [][Next]_vars

-----------------------------------------------------------------------------

(* What the code's scheduling justifies: started threads run on, a node    *)
(* that is up is asked for its services (which starts the scheduler) and   *)
(* polls its slots, time passes.  Outside the code: somebody logs a slot   *)
(* in that is not.  Nothing makes a fault, a stall or a crash happen.      *)
Fairness ==
  /\ \A o \in Owners : WF_vars(ThreadStep(o)) /\ WF_vars(SlotLogin(o))
  /\ \A n \in Nodes : WF_vars(StartScheduler(n)) /\ WF_vars(ReconcileSlots(n))
  /\ \A i \in Items : WF_vars(LeaseRunsOut(i))

FairSpec == Spec /\ Fairness

-----------------------------------------------------------------------------

(* Types; a thread that works has an item, one that does not has none, and *)
(* a renewer lives only while its thread works.                            *)
TypeOK ==
  /\ Repo!TypeOK
  /\ scheduler \in [Nodes -> {"none", "running", "broken"}]
  /\ loggedIn \in [Owners -> BOOLEAN] /\ slotStop \in [Owners -> BOOLEAN]
  /\ pc \in [Owners -> {"dead", "top", "claim"} \cup Working]
  /\ has \in [Owners -> Items \cup {NoItem}]
  /\ \A o \in Owners : pc[o] \in Working <=> has[o] # NoItem
  /\ \A o \in Owners : renewing[o] => pc[o] \in Working
  /\ round \in [Owners -> 1..2]
  /\ effects \in [Items -> Nat] /\ closed \in [Items -> BOOLEAN] /\ misread \in [Items -> Nat]
  /\ crashes \in 0..MaxCrashes /\ faults \in 0..MaxFaults

(* What the rows claim about the CRM is true, whoever wrote them: an item  *)
(* marked as submitted was acted on and a transfer that succeeded exists,  *)
(* unless _save_transfer_header misread a message for it; a service order  *)
(* whose closing succeeded is closed; and attempts accounts for every      *)
(* effect: a claim saves, or misreads, one order or clicks at most twice.  *)
RecordsMatchCrm ==
  \A i \in Items :
    /\ everSubmitted[i] => effects[i] + misread[i] > 0
    /\ status[i] = "succeeded" /\ KindOf[i] = "transfer" => effects[i] + misread[i] > 0
    /\ KindOf[i] = "service_close" => misread[i] = 0 /\ (status[i] = "succeeded" => closed[i])
    /\ effects[i] + misread[i] <= (IF KindOf[i] = "service_close" THEN 2 ELSE 1) * attempts[i]

(* A second order for the same transfer needs a lost lease, a repository   *)
(* call that raised or an answer of the CRM that was not understood:       *)
(* the retry of failed items alone, which max_attempts = 2 allows for      *)
(* transfers, never repeats an order that was saved.                       *)
DuplicateNeedsLoss ==
  \A i \in Items : KindOf[i] = "transfer" /\ effects[i] > 1 =>
    expiries[i] > 0 \/ faults > 0

(* Once a transfer is marked as submitted only a worker that had it before *)
(* and lost its lease can still save an order for it.                      *)
OnlyZombiesActAfterSubmit ==
  [][\A i \in Items :
       KindOf[i] = "transfer" /\ everSubmitted[i] /\ effects'[i] > effects[i] =>
         \E o \in Owners : has[o] = i /\ owner[i] # o]_vars

(* Every item that waits is settled in the end, or its job is stopped:     *)
(* crashes, lost leases and dead threads only delay it.                    *)
EveryItemSettles ==
  \A i \in Items : status[i] = "pending" ~> (Repo!Settled(i) \/ stopRequested[JobOf[i]])

(* Claimed of the system: a fault never creates a second transfer order.   *)
NoDuplicateTransfer == \A i \in Items : KindOf[i] = "transfer" => effects[i] <= 1

=============================================================================
