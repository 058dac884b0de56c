------------------------------ MODULE LocalJobs ------------------------------
(***************************************************************************)
(* The jobs a single node runs itself when it has no cluster database      *)
(* (src/app.py): batch queries, service closings, product lookups,         *)
(* transfer summaries and transfers.  Each is a dictionary under the lock  *)
(* of its kind, a route that checks, creates it and starts a thread, and   *)
(* the thread, which calls the CRM through the slots' workers.  A start is *)
(* one thread t; its job has the same name, except that all lookups share  *)
(* the one dictionary library_query_job.                                   *)
(***************************************************************************)
EXTENDS Integers, Sequences, FiniteSets, Functions

CONSTANTS Starts,         \* how many starts there are, a bound of the model
          SlotOrder,      \* crm_pool.query_slots
          TransferSlot,   \* the transfer slot
          Items,          \* barcodes of a batch, orders of a closing
          Retries,        \* retry_limit of a batch
          LibraryLimit    \* LIBRARY_QUERY_SLOT_RETRY_LIMIT

ASSUME LocalJobsAssumption == /\ Starts \in Nat
                              /\ SlotOrder \in Seq(Range(SlotOrder))
                              /\ Items \in Nat \ {0}
                              /\ Retries \in 0..5
                              /\ LibraryLimit \in Nat \ {0}
                              /\ TransferSlot \notin Range(SlotOrder)

VARIABLES jobs,        \* batch_jobs, service_close_jobs, summary_jobs, transfer_jobs
          rows,        \* results of a batch, rows_by_index of a closing
          library,     \* library_query_job
          latest,      \* latest_..._job_by_slot, by kind
          cooling,     \* query_slot_cooldowns that have not run out
          thread,      \* the request and then the thread of each start
          helper,      \* the worker threads of a closing, by slot
          closed,      \* orders closed in the CRM
          overlapped   \* closings whose selection another start overlapped

vars == <<jobs, rows, library, latest, cooling, thread, helper, closed, overlapped>>

Threads == 1..Starts   \* numbered in the order the requests come in
QuerySlots == Range(SlotOrder)
Numbers == 1..Items
NoThread == 0
Waiting == 0           \* a helper between two orders
Out == -1              \* a helper that found the queue empty
Direct == {"batch", "summary", "transfer"}
SlotsOf(k) == IF k = "batch" THEN QuerySlots ELSE {TransferSlot}

NoJob == [kind |-> "none", running |-> FALSE, success |-> FALSE,
          stop |-> FALSE, error |-> FALSE, current |-> 0]
Idle == [kind |-> "none", pc |-> "idle", slots |-> {}, at |-> 0, tried |-> {},
         item |-> 0, attempt |-> 0, ok |-> FALSE, late |-> 0]

Init ==
    /\ jobs = [t \in Threads |-> NoJob]
    /\ rows = [t \in Threads |-> [i \in Numbers |-> "none"]]
    /\ library = [running |-> FALSE, success |-> FALSE, shows |-> NoThread]
    /\ latest = [k \in Direct \cup {"close"} |->
                    [s \in QuerySlots \cup {TransferSlot} |-> NoThread]]
    /\ cooling = {}
    /\ thread = [t \in Threads |-> Idle]
    /\ helper = [t \in Threads |-> [s \in QuerySlots |-> Out]]
    /\ closed = {} /\ overlapped = {}

-----------------------------------------------------------------------------
(* Shorthands. *)

At(t, k, pc) == thread[t].kind = k /\ thread[t].pc = pc
Goto(t, pc) == thread' = [thread EXCEPT ![t].pc = pc]
Return(t) == thread' = [thread EXCEPT ![t] =
                           [Idle EXCEPT !.kind = thread[t].kind, !.pc = "over",
                                        !.ok = thread[t].ok]]

\* _query_slot_has_running_batch, _query_slot_has_running_service_close and
\* the same check in the start routes.
RunningOn(k, s) == latest[k][s] # NoThread /\ jobs[latest[k][s]].running

\* The job's last write: it no longer runs and shows its outcome.
EndJob(t, ok, err) ==
    jobs' = [jobs EXCEPT ![t].running = FALSE, ![t].stop = FALSE,
                         ![t].success = ok, ![t].error = err]

\* A new dictionary, entered under every slot it uses; the selections under
\* way do not see it.
CreateJob(t, k, slots) ==
    /\ jobs' = [jobs EXCEPT ![t] = [NoJob EXCEPT !.kind = k, !.running = TRUE]]
    /\ latest' = [latest EXCEPT ![k] =
                    [s \in DOMAIN @ |-> IF s \in slots THEN t ELSE @[s]]]
    /\ overlapped' = overlapped \cup
                     {u \in Threads \ {t} : At(u, "close", "scan") /\ k \in {"batch", "close"}}

-----------------------------------------------------------------------------
(* Starting. *)

IsNext(t) == thread[t] = Idle /\ \A u \in 1..(t - 1) : thread[u] # Idle

\* The routes that check and create under one lock.
StartDirect(t, k, s) ==
    /\ IsNext(t)
    /\ s \in SlotsOf(k)
    /\ ~RunningOn(k, s)
    /\ CreateJob(t, k, {s})
    /\ thread' = [thread EXCEPT ![t] = [Idle EXCEPT !.kind = k, !.pc = "begin", !.slots = {s}]]
    /\ UNCHANGED <<rows, library, cooling, helper, closed>>

\* The routes that first look for idle slots, the last slot first.
StartSelection(t, k) ==
    /\ IsNext(t)
    /\ k = "library" => ~library.running
    /\ thread' = [thread EXCEPT ![t] = [Idle EXCEPT !.kind = k, !.pc = "scan", !.at = Len(SlotOrder)]]
    /\ UNCHANGED <<jobs, rows, library, latest, cooling, helper, closed, overlapped>>

Free(s) == s \notin cooling /\ ~RunningOn("batch", s) /\ ~RunningOn("close", s)

\* Mutant: the running jobs of a slot are not looked at.
ScanUnchecked(t) ==
    LET s == SlotOrder[thread[t].at] IN
    /\ thread[t].pc = "scan" /\ thread[t].at > 0
    /\ \E pick \in BOOLEAN :
          /\ pick => s \notin cooling /\ s \notin thread[t].tried
          /\ thread' = [thread EXCEPT ![t].at = @ - 1,
                                      ![t].slots = IF pick THEN @ \cup {s} ELSE @]
    /\ UNCHANGED <<jobs, rows, library, latest, cooling, helper, closed, overlapped>>

\* One slot of _select_idle_query_workers_desc.  Skipping is always possible:
\* its worker may be busy or not logged in.  Busy is seen only once the worker
\* has taken the call from its queue, so picking does not exclude it.
Scan(t) ==
    LET s == SlotOrder[thread[t].at] IN
    /\ thread[t].pc = "scan" /\ thread[t].at > 0
    /\ \E pick \in BOOLEAN :
          /\ pick => Free(s) /\ s \notin thread[t].tried
          /\ thread' = [thread EXCEPT ![t].at = @ - 1,
                                      ![t].slots = IF pick THEN @ \cup {s} ELSE @]
    /\ UNCHANGED <<jobs, rows, library, latest, cooling, helper, closed, overlapped>>

\* The first slot the selection met: the one latest in SlotOrder.
First(slots) == SlotOrder[CHOOSE i \in DOMAIN SlotOrder :
                            /\ SlotOrder[i] \in slots
                            /\ \A j \in DOMAIN SlotOrder : SlotOrder[j] \in slots => j <= i]

Selected(t) == thread[t].pc = "scan" /\ thread[t].at = 0

\* A route that found no slot answers with an error.
RefuseStart(t) ==
    /\ Selected(t) /\ thread[t].slots = {} /\ thread[t].attempt = 0
    /\ Return(t)
    /\ UNCHANGED <<jobs, rows, library, latest, cooling, helper, closed, overlapped>>

CreateClose(t) ==
    /\ Selected(t) /\ thread[t].kind = "close" /\ thread[t].slots # {}
    /\ CreateJob(t, "close", thread[t].slots)
    /\ Goto(t, "begin")
    /\ helper' = [helper EXCEPT ![t] = [s \in QuerySlots |->
                    IF s \in thread[t].slots THEN Waiting ELSE Out]]
    /\ UNCHANGED <<rows, library, cooling, closed>>

\* Mutant: the route does not look a second time.
CreateLibraryAnyway(t) ==
    /\ Selected(t) /\ thread[t].kind = "library" /\ thread[t].slots # {} /\ thread[t].attempt = 0
    /\ library' = [running |-> TRUE, success |-> FALSE, shows |-> t]
    /\ thread' = [thread EXCEPT ![t].pc = "begin", ![t].attempt = 1,
                                ![t].slots = {First(thread[t].slots)}]
    /\ UNCHANGED <<jobs, rows, latest, cooling, helper, closed, overlapped>>

\* The route looks at the running flag again before it claims the dictionary.
CreateLibrary(t) ==
    /\ Selected(t) /\ thread[t].kind = "library" /\ thread[t].slots # {} /\ thread[t].attempt = 0
    /\ IF library.running
       THEN Return(t) /\ UNCHANGED library
       ELSE /\ library' = [running |-> TRUE, success |-> FALSE, shows |-> t]
            /\ thread' = [thread EXCEPT ![t].pc = "begin", ![t].attempt = 1,
                                        ![t].slots = {First(thread[t].slots)}]
    /\ UNCHANGED <<jobs, rows, latest, cooling, helper, closed, overlapped>>

-----------------------------------------------------------------------------
(* A batch query: _run_batch_job. *)

\* An exception is caught nowhere: the thread is gone, the job still "runs".
Die(t) == Goto(t, "died") /\ UNCHANGED <<jobs, rows>>

EndBatch(t) == EndJob(t, FALSE, FALSE) /\ Return(t) /\ UNCHANGED rows

\* Not logged in, and not after a check either: every barcode fails at once.
CheckLogin(t) ==
    /\ At(t, "batch", "begin")
    /\ \/ /\ thread' = [thread EXCEPT ![t].pc = "item", ![t].item = 1]
          /\ UNCHANGED <<jobs, rows>>
       \/ /\ EndJob(t, FALSE, TRUE)
          /\ rows' = [rows EXCEPT ![t] = [i \in Numbers |-> "failed"]]
          /\ Return(t)
       \/ Die(t)
    /\ UNCHANGED <<library, latest, cooling, helper, closed, overlapped>>

TakeItem(t) ==
    /\ At(t, "batch", "item") /\ thread[t].item <= Items
    /\ IF jobs[t].stop
       THEN EndBatch(t)
       ELSE /\ jobs' = [jobs EXCEPT ![t].current = thread[t].item]
            /\ thread' = [thread EXCEPT ![t].pc = "attempt", ![t].attempt = 1]
            /\ UNCHANGED rows
    /\ UNCHANGED <<library, latest, cooling, helper, closed, overlapped>>

\* Mutant: the stop flag is looked at once for every item only.
BeforeAttemptBlind(t) ==
    /\ At(t, "batch", "attempt")
    /\ Goto(t, "query") /\ UNCHANGED <<jobs, rows>>
    /\ UNCHANGED <<library, latest, cooling, helper, closed, overlapped>>

\* _batch_stop_requested, before every attempt.
BeforeAttempt(t) ==
    /\ At(t, "batch", "attempt")
    /\ IF jobs[t].stop THEN EndBatch(t) ELSE Goto(t, "query") /\ UNCHANGED <<jobs, rows>>
    /\ UNCHANGED <<library, latest, cooling, helper, closed, overlapped>>

Query(t) ==
    /\ At(t, "batch", "query")
    /\ \/ \E ok \in BOOLEAN :
             LET again == ~ok /\ thread[t].attempt <= Retries IN
             thread' = [thread EXCEPT ![t].ok = ok,
                                      ![t].pc = IF again THEN "attempt" ELSE "record",
                                      ![t].attempt = IF again THEN @ + 1 ELSE @,
                                      ![t].late = IF jobs[t].stop THEN @ + 1 ELSE @]
       \/ Goto(t, "died")
    /\ UNCHANGED <<jobs, rows, library, latest, cooling, helper, closed, overlapped>>

\* update_barcode_query_slot, under the lock, before a success is counted,
\* writes a file and may raise.
Record(t) ==
    LET i == thread[t].item IN
    /\ At(t, "batch", "record")
    /\ \/ /\ rows' = [rows EXCEPT ![t][i] = IF thread[t].ok THEN "ok" ELSE "failed"]
          /\ thread' = [thread EXCEPT ![t].pc = "item", ![t].item = @ + 1,
                                      ![t].attempt = 0, ![t].ok = FALSE]
          /\ UNCHANGED jobs
       \/ thread[t].ok /\ Die(t)
    /\ UNCHANGED <<library, latest, cooling, helper, closed, overlapped>>

\* A stop that came after the last item was taken up is dropped here.
FinishBatch(t) ==
    /\ At(t, "batch", "item") /\ thread[t].item > Items
    /\ EndBatch(t)
    /\ UNCHANGED <<library, latest, cooling, helper, closed, overlapped>>

RequestStop(t) ==
    /\ jobs[t].kind = "batch" /\ jobs[t].running /\ ~jobs[t].stop
    /\ jobs' = [jobs EXCEPT ![t].stop = TRUE]
    /\ UNCHANGED <<rows, library, latest, cooling, thread, helper, closed, overlapped>>

-----------------------------------------------------------------------------
(* Closing service orders: _run_service_close_job and its run_worker threads. *)

\* Mutant: one order too many is taken from the queue.
TakeOrderTwice(t, s) ==
    /\ At(t, "close", "begin") /\ helper[t][s] = Waiting
    /\ IF thread[t].item <= Items
       THEN /\ thread' = [thread EXCEPT ![t].item = @ + 1]
            /\ helper' = [helper EXCEPT ![t][s] = thread[t].item + 1]
       ELSE helper' = [helper EXCEPT ![t][s] = Out] /\ UNCHANGED thread
    /\ UNCHANGED <<jobs, rows, library, latest, cooling, closed, overlapped>>

\* order_queue.get_nowait: thread[t].item orders have left the shared queue.
TakeOrder(t, s) ==
    /\ At(t, "close", "begin") /\ helper[t][s] = Waiting
    /\ IF thread[t].item < Items
       THEN /\ thread' = [thread EXCEPT ![t].item = @ + 1]
            /\ helper' = [helper EXCEPT ![t][s] = thread[t].item + 1]
       ELSE helper' = [helper EXCEPT ![t][s] = Out] /\ UNCHANGED thread
    /\ UNCHANGED <<jobs, rows, library, latest, cooling, closed, overlapped>>

\* Mutant: an exception leaves the order without a row and is not kept.
CloseOrderUncaught(t, s) ==
    LET i == helper[t][s] IN
    /\ At(t, "close", "begin") /\ i \in Numbers
    /\ \E now \in {closed, closed \cup {i}}, outcome \in {"ok", "failed", "raised"} :
          /\ outcome = "ok" => i \in now
          /\ closed' = now
          /\ rows' = [rows EXCEPT ![t][i] = IF outcome = "raised" THEN @ ELSE outcome]
          /\ jobs' = [jobs EXCEPT ![t].current = @ + 1]
    /\ helper' = [helper EXCEPT ![t][s] = Waiting]
    /\ UNCHANGED <<library, latest, cooling, thread, overlapped>>

\* worker.close_service_orders([row]): an order is reported as closed only
\* when the page shows it so; it may be closed all the same when the call
\* fails or raises.  Either way the order has a row and is counted.
CloseOrder(t, s) ==
    LET i == helper[t][s] IN
    /\ At(t, "close", "begin") /\ i \in Numbers
    /\ \E now \in {closed, closed \cup {i}}, outcome \in {"ok", "failed", "raised"} :
          /\ outcome = "ok" => i \in now
          /\ closed' = now
          /\ rows' = [rows EXCEPT ![t][i] = IF outcome = "ok" THEN "ok" ELSE "failed"]
          /\ jobs' = [jobs EXCEPT ![t].current = @ + 1, ![t].error = @ \/ outcome = "raised"]
    /\ helper' = [helper EXCEPT ![t][s] = Waiting]
    /\ UNCHANGED <<library, latest, cooling, thread, overlapped>>

\* After the join: rows are counted, closings recorded in the result catalog
\* (which may raise: then the rows are lost) and the outcome is shown.
Tally(t) ==
    /\ At(t, "close", "begin")
    /\ \A s \in QuerySlots : helper[t][s] = Out
    /\ LET failed == \E i \in Numbers : rows[t][i] = "failed" IN
       \/ EndJob(t, ~failed /\ ~jobs[t].error, jobs[t].error) /\ UNCHANGED rows
       \/ /\ \E i \in Numbers : rows[t][i] = "ok"
          /\ EndJob(t, FALSE, TRUE)
          /\ rows' = [rows EXCEPT ![t] = [i \in Numbers |-> "none"]]
    /\ Return(t)
    /\ UNCHANGED <<library, latest, cooling, helper, closed, overlapped>>

-----------------------------------------------------------------------------
(* Transfers and summaries. *)

\* create_transfer succeeds, fails or raises; what it did in the CRM by then is
\* CrmOrders' matter.
SubmitTransfer(t) ==
    /\ At(t, "transfer", "begin")
    /\ \E ok \in BOOLEAN : EndJob(t, ok, ~ok) /\ IF ok THEN Goto(t, "apply") ELSE Return(t)
    /\ UNCHANGED <<rows, library, latest, cooling, helper, closed, overlapped>>

\* Mutant: the exception handler marks the job as running again.
ApplyTransferRunning(t) ==
    /\ At(t, "transfer", "apply")
    /\ \/ UNCHANGED jobs
       \/ jobs' = [jobs EXCEPT ![t].running = TRUE]
    /\ Return(t)
    /\ UNCHANGED <<rows, library, latest, cooling, helper, closed, overlapped>>

\* Distributor history and the dealer of every barcode are written after the
\* job was shown as a success; an exception there shows it as a failure.
ApplyTransfer(t) ==
    /\ At(t, "transfer", "apply")
    /\ \/ UNCHANGED jobs
       \/ EndJob(t, FALSE, TRUE)
    /\ Return(t)
    /\ UNCHANGED <<rows, library, latest, cooling, helper, closed, overlapped>>

\* Mutant: without the try, an exception leaves the job running.
BuildSummaryLost(t) ==
    /\ At(t, "summary", "begin")
    /\ \/ \E ok \in BOOLEAN : EndJob(t, ok, ~ok) /\ Return(t)
       \/ Return(t) /\ UNCHANGED jobs
    /\ UNCHANGED <<rows, library, latest, cooling, helper, closed, overlapped>>

\* _run_summary_job: every way out, an exception included, goes through finish.
BuildSummary(t) ==
    /\ At(t, "summary", "begin")
    /\ \E ok \in BOOLEAN : EndJob(t, ok, ~ok)
    /\ Return(t)
    /\ UNCHANGED <<rows, library, latest, cooling, helper, closed, overlapped>>

-----------------------------------------------------------------------------
(* A product lookup: _run_library_query_job, with its changes of slot. *)

MaxAttempts == IF LibraryLimit < Len(SlotOrder) THEN LibraryLimit ELSE Len(SlotOrder)

\* A failed attempt: the slot cools down and another one is looked for.
\* ok: the lookup has been a success before and yet goes on.
AnotherSlot(t, ok) ==
    /\ cooling' = cooling \cup thread[t].slots
    /\ IF thread[t].attempt < MaxAttempts
       THEN thread' = [thread EXCEPT ![t].pc = "scan", ![t].at = Len(SlotOrder), ![t].slots = {},
                                     ![t].attempt = @ + 1, ![t].tried = @ \cup thread[t].slots,
                                     ![t].ok = ok]
       ELSE thread' = [thread EXCEPT ![t].pc = "lose", ![t].ok = ok]

\* On success the dictionary says so before the temporary result is removed.
LookUp(t) ==
    /\ At(t, "library", "begin")
    /\ \/ /\ library' = [library EXCEPT !.running = FALSE, !.success = TRUE]
          /\ cooling' = cooling \ thread[t].slots
          /\ Goto(t, "clean")
       \/ AnotherSlot(t, thread[t].ok) /\ UNCHANGED library
    /\ UNCHANGED <<jobs, rows, latest, helper, closed, overlapped>>

\* delete_temporary_query_result: an exception counts as a failed attempt.
CleanUp(t) ==
    /\ At(t, "library", "clean")
    /\ \/ Return(t) /\ UNCHANGED cooling
       \/ AnotherSlot(t, TRUE)
    /\ UNCHANGED <<jobs, rows, library, latest, helper, closed, overlapped>>

SwitchSlot(t) ==
    /\ Selected(t) /\ thread[t].kind = "library" /\ thread[t].attempt > 0
    /\ IF thread[t].slots = {}
       THEN Goto(t, "lose")
       ELSE thread' = [thread EXCEPT ![t].pc = "begin", ![t].slots = {First(@)}]
    /\ UNCHANGED <<jobs, rows, library, latest, cooling, helper, closed, overlapped>>

LoseLookUp(t) ==
    /\ At(t, "library", "lose")
    /\ library' = [library EXCEPT !.running = FALSE, !.success = FALSE]
    /\ Return(t)
    /\ UNCHANGED <<jobs, rows, latest, cooling, helper, closed, overlapped>>

CoolDown(s) ==
    /\ s \in cooling
    /\ cooling' = cooling \ {s}
    /\ UNCHANGED <<jobs, rows, library, latest, thread, helper, closed, overlapped>>

-----------------------------------------------------------------------------
Step(t) ==
    \/ Scan(t) \/ RefuseStart(t) \/ CreateClose(t) \/ CreateLibrary(t)
    \/ CheckLogin(t) \/ TakeItem(t) \/ BeforeAttempt(t) \/ Query(t) \/ Record(t) \/ FinishBatch(t)
    \/ Tally(t) \/ SubmitTransfer(t) \/ ApplyTransfer(t) \/ BuildSummary(t)
    \/ LookUp(t) \/ CleanUp(t) \/ SwitchSlot(t) \/ LoseLookUp(t)

HelperStep(t, s) == TakeOrder(t, s) \/ CloseOrder(t, s)
ThreadStep(t) == Step(t) \/ \E s \in QuerySlots : HelperStep(t, s)

\* Every start has run its course: nothing is left to happen but stop
\* requests to jobs whose thread died.
Terminating ==
    /\ \A t \in Threads : thread[t].pc \in {"over", "died"}
    /\ UNCHANGED vars

Next ==
    \/ \E t \in Threads :
          \/ \E k \in Direct : \E s \in SlotsOf(k) : StartDirect(t, k, s)
          \/ \E k \in {"close", "library"} : StartSelection(t, k)
          \/ RequestStop(t)
          \/ ThreadStep(t)
    \/ \E s \in QuerySlots : CoolDown(s)
    \/ Terminating

\* Some thread runs, a route's, a job's or a helper, as long as one can,
\* because the workers answer their calls; users owe nothing.
Fairness == WF_vars(\E t \in Threads : ThreadStep(t))

Spec == Init /\ [][Next]_vars /\ Fairness

-----------------------------------------------------------------------------
(* Properties. *)

\* The shapes of the dictionaries, threads and helpers.
TypeOK ==
    /\ \A t \in Threads :
          /\ jobs[t].kind \in {"none", "close"} \cup Direct
          /\ thread[t].slots \subseteq QuerySlots \cup {TransferSlot}
          /\ jobs[t].current \in 0..Items
          /\ \A f \in {"running", "success", "stop", "error"} : jobs[t][f] \in BOOLEAN
          /\ thread[t].item \in 0..(Items + 1)
          /\ thread[t].attempt \in 0..(IF thread[t].kind = "library" THEN MaxAttempts ELSE Retries + 1)
          /\ thread[t].at \in 0..Len(SlotOrder)
          /\ helper[t] \in [QuerySlots -> {Out, Waiting} \cup Numbers]
          /\ rows[t] \in [Numbers -> {"none", "ok", "failed"}]
    /\ library.shows \in Threads \cup {NoThread}
    /\ cooling \subseteq QuerySlots /\ closed \subseteq Numbers

\* An accepted stop lets at most one more query of the batch happen, whatever
\* point between two checks it reached the thread at (_batch_stop_requested
\* before every attempt, the check of every item).
StopWithinOneQuery == \A t \in Threads : thread[t].late <= 1

\* What a closing shows is true of the CRM, although its helpers share a
\* queue and any of them may raise: a closing shown as a success has closed
\* every order of it, a row of success is a closed order, and no order is left
\* without a row unless the recording of the closings raised
\* (_run_service_close_job).
ReportsMatchCrm ==
    \A t \in Threads : jobs[t].kind = "close" =>
        /\ jobs[t].success => Numbers \subseteq closed
        /\ \A i \in Numbers : rows[t][i] = "ok" => i \in closed
        /\ ~jobs[t].running /\ ~jobs[t].error => \A i \in Numbers : rows[t][i] # "none"

\* A closing takes a slot on which a batch or another closing runs only if
\* some closing's selection was overlapped by another start: the checks of
\* _select_idle_query_workers_desc are sound except for that window.
ClosingsTakeFreeSlots ==
    [][\A t \in Threads :
          /\ jobs[t].kind = "none" /\ jobs'[t].kind = "close"
          /\ \E u \in Threads : /\ jobs[u].running /\ jobs[u].kind \in {"batch", "close"}
                                /\ thread[u].slots \cap thread'[t].slots # {}
          => overlapped' # {}]_vars

LookingUp(t) == /\ thread[t].kind = "library" /\ thread[t].attempt > 0
                /\ thread[t].pc \notin {"clean", "over"}

\* Two lookups work at the same time, and so write to the one dictionary,
\* only after some lookup, one of the two or a third, had succeeded, failed to
\* clean up and gone on: it clears the flag of whoever came meanwhile.  The
\* flag otherwise keeps them apart, although the route releases the lock
\* between its two checks.
LookupsApart ==
    \A t, u \in Threads : t # u /\ LookingUp(t) /\ LookingUp(u) =>
        \E v \in Threads : thread[v].kind = "library" /\ thread[v].ok

\* Every job of these four kinds lives as JobLife says.
Life == INSTANCE JobLife
        WITH Jobs <- Threads, Total <- Items,
             phase <- [t \in Threads |-> IF jobs[t].kind = "none" THEN "absent"
                                         ELSE IF jobs[t].running THEN "running" ELSE "ended"],
             count <- [t \in Threads |->
                         IF jobs[t].kind = "batch"
                         THEN Cardinality({i \in Numbers : rows[t][i] # "none"})
                         ELSE jobs[t].current],
             shown <- [t \in Threads |-> jobs[t].success]
LivesAsPromised == Life!Spec

\* Every job that runs ends, stop or no stop, unless its thread died of an
\* exception, which only a batch's can.
EveryJobEnds ==
    \A t \in Threads :
        jobs[t].running ~> ~jobs[t].running \/ At(t, "batch", "died")
=============================================================================
