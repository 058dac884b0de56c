# A TLA+ model of the CRM barcode query cluster

The program is a Flask application that drives a CRM web site through Playwright browsers: it
looks barcodes up, searches products, summarises and creates transfer orders, and closes service
orders. On one machine it keeps its jobs in memory. As a cluster, several nodes share the work
through one PostgreSQL database (jobs, items, leases, logs, result rows) and one R2 bucket (the
result pages). A browser profile that is logged in to the CRM is a *slot*; each node has several
query and transfer slots.

What makes it worth a model: work that must not be done twice (a transfer order, the closing of a
service order) is handed out through leases, by processes that can die at any point, to a system
outside the database, and the bookkeeping is done by concurrent READ COMMITTED transactions.

Paths below are relative to the root of the repository.

## Contents

| file | what it is |
|---|---|
| `JobItems.tla` | what the job repository promises: the rows of `job_items`, one action per committed transaction |
| `JobTransactions.tla` | how PostgreSQL runs the repository: open transactions, row locks, stale counts; implements `JobItems` |
| `ClusterScheduler.tla` | nodes, dispatch threads, renewers, handlers and the CRM, over the rows of `JobItems` |
| `CrmSession.tla` | the browser session of a slot: login, logout, the barcode report, crashes |
| `CrmOrders.tla` | what a session enters into the CRM: queries, move orders, closings of service orders |
| `CrmWorker.tla` | the thread, queue and cached flags around one session, and its callers |
| `ResultCatalog.tla` | result pages in R2, their records, and the rows with users' notes |
| `CatalogTables.tla` | accounts, product rules and distributors: tables replaced from lists that were read before |
| `JobLife.tla` | what a page may rely on when it polls an in-process job |
| `LocalJobs.tla` | the five kinds of in-process jobs and their threads; implements `JobLife` |
| `BulkLogin.tla` | a bulk login on one node: slots, captcha, cancelling |
| `ClusterBulkLogin.tla` | the coordinator of a bulk login over all nodes |
| `JobItemsProofs.tla`, `JobTransactionsProofs.tla`, `ClusterSchedulerProofs.tla`, `ResultCatalogProofs.tla`, `CatalogTablesProofs.tla`, `LocalJobsProofs.tla`, `CrmWorkerProofs.tla`, `ClusterBulkLoginProofs.tla` | proofs about the module of that name for all values of its constants |
| `MC*.tla`, `*.cfg` | the instances TLC checks |
| `PROJECT.json` | components, runs, mutants, the map from definitions to lines of code, findings, hazards, theorems |

    tlc -workers 2 -config MCJobItems.cfg MCJobItems.tla
    tlapm JobItemsProofs.tla      # and the other *Proofs.tla; the longest take about four minutes

## The system, part by part

For each part: its state, its operations, whom it meets, what is hard, what makes it correct.

### Job queue: `cluster/jobs.py`, `cluster/schema/0001`, `0002` -- modelled

* State: a `jobs` row (status, counters, stop flag, idempotency key), its `job_items` rows
  (status, attempts, lease owner and end), `job_logs` lines.
* Operations: `create_job`, `claim_item` (which recovers expired leases first), `start_item`,
  `renew_lease`, `mark_submitted`, `complete_item`, `fail_item`, `recover_expired_items`,
  `request_stop`, `append_log`, and the readers; `_refresh_job` recounts inside four of them.
* Meets: every scheduler thread of every node, and the web requests that create, poll and stop
  jobs. All share the tables; nothing else.
* Hard: transactions of several nodes interleave; a holder that was declared dead still reports;
  `_refresh_job` reads without locks and writes afterwards.
* Correct when: an item is worked on by whoever owns its lease and nobody else's outcome is taken;
  an unsafe item known to be in the CRM is never run again; attempts are bounded; outcomes are
  final; a stopped job is not resumed; the counters tell the truth.

### Cluster scheduler: `cluster/scheduler.py`, `_ensure_cluster_scheduler` in `app.py` -- modelled in part

* State: one object per process with a table slot -> (thread, stop event); a manager thread; per
  item in work a renewer thread.
* Operations: `start`, `reconcile_slots` (every second, by the manager), the dispatch loop, the
  renew loop, `stop` (which nothing calls).
* Meets: the repository (claims and reports), `CRMWorker` (is the slot logged in?), the handlers.
* Hard: any exception outside the handler ends a dispatch thread; results of repository calls are
  ignored; leases can run out under a thread that works on; processes restart.
* Correct when: work that waits is done as long as some slot is there, and a fault costs a delay
  or a review by a person but not a second effect.

### Item handlers: `_handle_cluster_*_item` in `app.py` -- modelled in part

* A handler drives `CRMSession` and hears of its progress through a log callback; when the message
  says that the order was saved (or the confirmation clicked) the callback marks the item as
  submitted. `close_service_orders` tries twice on its own.
* Hard: between the CRM's effect and the mark lies a window; the callback's order (log, then mark)
  and its exceptions matter.
* `ClusterScheduler` models what concerns the item, `CrmOrders` how the session gets there, and
  `ResultCatalog` what a handler publishes.

### Result publication: `cluster/services.py`, `objects.py`, `catalog.py`, `publish_cluster_query_result` -- modelled in part (`ResultCatalog`)

* State: R2 objects by key, `object_records` (hash, deleted), `barcode_records` (hash, remark,
  archive flag, closed orders and other notes), a local file cache.
* Operations: publish (read the notes, upload, record, upsert), delete (object, record, row), edit
  a remark, archive, note the slot of a query, record a closed order (load all, save all), clean up
  after a lookup.
* Meets: the item handlers and web requests of every node.
* Hard: two stores without a common transaction; every edit writes a whole row back.
* Correct when: a row never points at a page that was not uploaded; the three places agree again
  after any undisturbed operation; an edit is undone only by a writer with an older copy.

### Accounts, product library, distributors: `catalog.py`, `load_accounts`, `upsert_product_library`, `*_distributor_history*` -- modelled in part (`CatalogTables`)

* State: `app_accounts`, `product_rules`, `distributors` with a deleted flag.
* Operations: list, edit the list, replace the table by it (DELETE and INSERTs in one transaction);
  for distributors, set all deleted flags from a list, upsert a list.
* Hard: the list is read in another transaction than the one that replaces; under READ COMMITTED
  two replacements overlap; accounts without a new password take their hash by username; lists are
  cut at 100 and 300.
* Correct when: the administrator stays, no two accounts share a password hash, a replacement
  changes only what it is about, a deleted distributor stays deleted until somebody asks for it.

### In-process jobs: batch query, product lookup, transfer summary, transfer, service close -- modelled in part (`LocalJobs`)

* State: dictionaries of jobs under one lock per kind, latest job per slot, slot cooldowns, a
  `Queue` of service orders shared by the workers of one batch; one dictionary for all lookups.
* Operations: start (select slots, create the entry, start a thread), run, stop, poll.
* Hard: slots are selected by checking several locks one after the other and used later; stop
  requests race the end; a helper may raise with orders left in the queue.
* Correct when: jobs live as `JobLife` says, what an ended job shows is true of the CRM, a stop
  lets at most one more query happen, every job ends.

### Bulk login on a node, and across nodes -- modelled in part (`BulkLogin`, `ClusterBulkLogin`)

* State: a job with one status per slot (pending, opening, waiting, submitting, logged in, failed);
  at the coordinator a merged state per node with error counts, in `runtime_config`.
* Operations: start, submit captcha, cancel, poll; the coordinator calls nodes over encrypted HTTP
  under an advisory lock that does not wait.
* Hard: a captcha is brought to a slot by two threads at once; a cancel while the thread runs on; a
  start whose answer is late; a request that is dropped because the lock is taken.
* Correct when: each slot is submitted by one thread and no captcha is forgotten beside a waiting
  slot; a success shown is one; a login that was started settles.

### `CRMSession`, `CRMWorker`, `CRMWorkerPool` -- modelled in part (`CrmSession`, `CrmOrders`, `CrmWorker`)

* State: per slot one browser with a page, a report tab and a `logged_in` belief; one queue and one
  thread, because Playwright objects belong to a thread; cached flags under `state_lock`.
* Operations: login in one step or two, logout, cancel, status check, query, transfer, closing,
  closing idle tabs, shutdown; callers wait for the answer without a timeout.
* Hard: the CRM answers through pages only; a browser can die at any step, and many checks take an
  exception for an answer; two threads write the cached flags.
* Correct when: what is reported is what the CRM holds, a slot shown as logged in is believed to be,
  every call returns.

### Database pool, migrations, readiness, node registry -- not modelled

See "Not modelled".

## What is modelled

### `JobItems`: the promise

| variable | code |
|---|---|
| `status`, `attempts`, `owner` | the columns; `"absent"` before the INSERT |
| `lease` | `lease_expires_at`: NULL, in the future, or passed (`none`, `live`, `expired`) |
| `stopRequested` | `jobs.stop_requested` |
| `everSubmitted`, `expiries` | history, not in the code: was the item ever `submitted_to_crm`, how often did its lease run out |

One action per method, as its committed effect: guard = WHERE clause and early return, primed
variables = SET clause. `claim_item` is two transactions, so it is `RecoverExpired` and then
`ClaimItem`. `RecoverExpired(S)` takes any non-empty set of expired items, since each transaction
compares with its own `now()`. `LeaseExpires` is the clock; its bound `MaxExpiries` is the only one.
Left out: texts, results, references, the order in which claims scan the table (a claim takes any
claimable row, which includes the first), the time stamps.

### `JobTransactions`: the transactions behind it

`txn[s]` is the open transaction of a database session: operation, rows written (locked until the
end), jobs still to refresh, the counts read, jobs rows written. `complete_item`, `fail_item`,
`recover_expired_items` and `request_stop` are: first write (`Begin...`), then per job
`RefreshRead` (the unlocked SELECT) and `RefreshWrite` (waits for the lock on the jobs row), then
`Commit`. `create_job` is a lookup and, later, an insert. The transactions that write only rows they
lock in one statement are one step. Others see a transaction's writes when it commits; it sees them
at once. A lost connection, and PostgreSQL's choice of a deadlock victim, is `Rollback`, possible in
every open transaction. `claim_item` skips locked rows, and may find nothing although there is
something: inserting a log line locks the jobs row for a moment through its foreign key.

`jobRow` holds the status and counters a page polls. The constants let two requests carry one
idempotency key, of which only one can ever create its job.

### `ClusterScheduler`: nodes, threads and the CRM

It instantiates `JobItems` for the rows (`Repo`) and adds:

| variable | code |
|---|---|
| `scheduler` | `CLUSTER_SCHEDULER` of a node: none, running, or created but not started |
| `loggedIn` | `CRMWorker.logged_in`, as the slot provider reports it |
| `slotStop`, `pc`, `has`, `renewing` | the slot's stop event, where its thread is, its item, its renewer |
| `round` | the attempt loop of `close_service_orders` |
| `effects`, `closed` | the CRM: orders saved or confirmations clicked; the service order shows as closed |
| `misread` | history, not in the code: how often a message was taken for a saved order that was not |

A dispatch thread goes `top` (recover) -> `claim` -> `claimed` (start) -> `work` (the CRM) ->
`acted` (callback: log and mark) -> `confirm` -> `succeed` | `raise` -> `top`. `Call` is one
repository call: it takes effect, or is refused and nobody notices, or raises with or without having
taken effect. Where an exception leads is the code's: out of the thread, into the CRM operation, or
to the `except` branch.

A slot has one thread in the model. In the code an old thread and its successor could only coexist
if the entry were removed while the old one lives; `reconcile_slots` removes dead ones only.
`stop()` is left out because nothing calls it. The three kinds that only read the CRM share one step.

### `CrmSession`, `CrmOrders`, `CrmWorker`: a slot and its worker

One thread runs a session's methods one after another. A short method (`login_step1`, `logout`, ...)
is an operator from the session to the set of its outcomes, `[to |-> session, says |-> answer]`;
queries, transfers and closings have several steps, because the CRM and the browser may change in
between.

| variable | code |
|---|---|
| `session.browser`, `page`, `report` | the Playwright context: none, open, crashed; what the page shows; the report's tab |
| `session.loggedIn`, `needsNavigation` | the attributes of `CRMSession` |
| `session.cookie` | the CRM (external): it still accepts the session |
| `moves`, `services` | the CRM (external): orders saved, how often each detail was entered, confirmed; service orders open, closing, closed |
| `task` | where `_run` and the method are, attempts, items left, what will be reported |
| `queue`, `calls`, `shown`, `stopped` | `tasks`, the callers, the three cached flags, the thread's end |

`SessionChanges` is the CRM ending the session, the browser crashing, a report arriving. What is sent
to the CRM is taken or not, independently of what the page then shows (`Taken`; `TakenOfSaved` for what
needs a saved order). A transfer's methods may therefore read a yes where the CRM took nothing: a
message with 保存 or 成功 in it, 保存失败 too, is a saved order (`SaveHeader`); no dialog and no known
failure word is an added detail (`AddDetail`); a missing confirm button, as on a login page, is a
confirmation (`Confirm`). `task.misread` is history: which of these answers were wrong. Queries and
closings take only what they see of the barcode's page or of the service order for a success, unless the
browser crashes under them.

### `ResultCatalog`: pages, records and rows

A client is a request or a handler; `client[c]` is its operation, its next store access and the notes
it has read. `object`, `record`, `row` are the three places. `Raise` ends a client anywhere. `fresh`,
`alone`, `settled`, `uploaded` are history: whether a client's copy is current, whether another
operation worked on the same object. Hashes are page numbers; of the notes the model keeps one each
that is overwritten (remark, archive flag) and one that is added to (closed orders).

### `CatalogTables`: lists read and written back

`client[c]` holds the list that was loaded, with the client's edit in it, the hashes by username, and
the rows its DELETE saw. A replacement inserts its list unless a key is taken by a row its DELETE did
not see: then it is rolled back. `stale` is history: the keys others wrote since the list was loaded.
Password hashes are known by the account and edit they were set for.

### `LocalJobs`: threads of a single node

`thread[t]` is a start: its request first, then the thread of its job; `jobs[t]` its dictionary (all
lookups share `library`), `rows[t]` its results, `helper[t]` the workers of a closing. Each critical
section and each call of a worker is a step; whatever a worker answers is a choice. `closed` is
the CRM's side of a closing; what a transfer has done there is `CrmOrders`' matter. `Scan` looks at one slot per step, as `_select_idle_query_workers_desc`
does without a common lock. `overlapped` is history.

`LocalJobs` implements `JobLife` (`LivesAsPromised`). The mapping takes a job's phase from its
dictionary (absent without one, running, ended), its count from the results of a batch or the
`current` of a closing, and `shown` from `success`.

### `BulkLogin` and `ClusterBulkLogin`

`job[c][n]` is node n's job for login c with the status of each slot; `run[c][n]` its threads: the
opener (`_run_bulk_login_job`) and one per captcha (`_submit_bulk_login_pending`); `session[n]` the
slots that are logged in. `state[c]` is the coordinator's row; `late` the requests that timed out and
may still arrive. `CallNodes` calls all nodes of a row at once: each call is answered, carried out
without an answer, lost, or carried out later, and the row is written or not. The start of a login
while another one runs is modelled; the run has one login, so only a repeated start meets a job.

## The runs

| run | instance | properties | shows |
|---|---|---|---|
| `items` | one transfer, two queries (one without retry), two owners, each lease lost at most once | `TypeOK`, `LeaseIffActive`, `NoReplayAfterSubmit`, `AttemptsBounded`, `TerminalIsForever`, `StopIsFinal` | the row protocol is right under every order of operations of honest and late holders |
| `transactions` | two sessions, a job of a transfer and a retried query, a second request with the same key, one owner | `TypeOK`, `ProgressNotOverstated`, `FinishedMeansSettled`, `OneJobPerKey`, `Implements` | interleaved transactions have the effects `JobItems` promises; counters may lag but overstate neither what is done, nor what succeeded, nor what failed; a job called finished is finished, and with that outcome |
| `scheduler_transfer` | one transfer, a slot on each of two nodes; a crash, a stalled lease, a fault, misread messages | `TypeOK`, `RecordsMatchCrm`, `DuplicateNeedsLoss`, `OnlyZombiesActAfterSubmit` | a row claims an order the CRM did not save only where a message was misread; a second order needs a lost lease or a failed call |
| `scheduler_live` | a service order and a query, one slot, a crash and a stalled lease, fairness | `RecordsMatchCrm`, `EveryItemSettles` | waiting work is settled unless its job is stopped; a closing that is recorded happened; attempts account for every click |
| `result_catalog` | two clients, two barcodes, two pages queried, three edits of notes | `TypeOK`, `RowAfterUpload`, `SettledStoresAgree`, `FreshWritersKeepNotes` | a row's page was uploaded before; a disagreement of the three places takes a raised call or two operations at once, and the next undisturbed one repairs it; notes are lost to stale copies only |
| `catalog_tables` | two clients, three accounts, two prefixes, two distributors, three operations | `TypeOK`, `AccountsSound`, `FreshReplacementsKeepRows`, `HiddenReappearsOnPurpose` | the administrator stays and hashes stay apart; rows are lost to stale lists only; deleted distributors come back on purpose, by a stale list, or beyond the cap |
| `local_jobs` | two starts of any kinds, two query slots, a transfer slot, two items, one retry, fairness | `TypeOK`, `StopWithinOneQuery`, `ReportsMatchCrm`, `LookupsApart`, `ClosingsTakeFreeSlots`, `LivesAsPromised`, `EveryJobEnds` | jobs live as `JobLife` promises and closings tell the truth; the two windows the code leaves (selection, clean-up of a lookup) are the only ones |
| `cluster_bulk_login` | two servers, one with a slot to log in, a captcha, a cancel, a late request, fairness | `TypeOK`, `CaptchaHandling`, `ClusterSuccessIsTrue`, `LoginsSettle` | threads divide the slots without gap or overlap; a shown success is one unless it was cancelled; the page gets an end or a question |
| `crm_worker` | two calls of any methods, two barcodes, two details, a service order, two attempts of everything, fairness | `TypeOK`, `ReportsAreTrue`, `ShownLoginIsBelieved`, `CallsReturn` | an order is sound however its transfer ends; a transfer that succeeded misses only what it misread; unless the browser crashed, what a query or a closing reports is so; a login that is shown is believed; calls return, unless the worker was shut down |
| `lost_progress` | as `transactions`, no lease runs out | `ProgressCaughtUp` (violated) | finding 1 |
| `stopped_job` | one session | `StoppedJobHasNothingWaiting` (violated) | finding 2 |
| `transfer_crash` | as `scheduler_transfer`, a crash only | `NoDuplicateTransfer` (violated) | finding 3 |

`JobTransactions` implements `JobItems`: `Implements == Promise!Spec`, where the mapping is the
identity on the committed rows and drops `jobRow` and `txn`. Most steps of a transaction are stutters
of `JobItems`; `Commit` is its action. `LocalJobs` implements `JobLife` (`LivesAsPromised`): a job
begins once, counts upwards, ends once, and a success shown afterwards may be taken back but never
granted. The taking back is real: `_run_transfer_job` shows the saved order before it saves the
distributor's history, and an exception there turns the success into a failure.

Deadlock is checked in every run. It would mean that every session or thread waits for a lock or an
answer at once; a created job can always be asked to stop, and an idle slot always asks again. Where
a bounded number of operations comes to a legitimate end, `Terminating` says what that end is, so any
other stop is an error.

### Bounds, and why they are enough

* Two owners, slots or sessions: every property is about one holder and one rival (a late holder, a
  second transaction, the recovering node); a third would be a second rival of the same kind.
* `MaxAttempts` 1 and 2: with and without a retry. `MaxExpiries` 1 or 2 leases lost per item: enough
  for a recovered item to be claimed by another owner while the first still works, and in
  `scheduler_live` for a crash after a stall.
* `MaxStalls`, `MaxCrashes`, `MaxFaults` 1 each in `scheduler_transfer`: one fault of each sort, in
  any order and at any point. `MaxFaults` counts calls that raise, saved orders that are not
  recognised, and sessions the CRM ends. A misread message is no fault: any claim may meet one.
* Two jobs with one key and three items: both counters of a job can race, one job can be finished
  while the other request fails.
* In `scheduler_live` `MaxFaults` is 0. With a fault the first `recover_expired_items` of a node may
  raise; the scheduler object then exists but was never started, and `_ensure_cluster_scheduler`
  does not try again. On a single node nothing settles after that until the process restarts. This
  is recorded as a hazard; no document of the repository promises otherwise.

* `MaxPages` 2 and `MaxEdits` 3 in `result_catalog`: a publication across another one, or across an
  edit that began before it, with one more edit to notice the loss. `MaxEdits` 3 in `catalog_tables`:
  one operation that fills the table and two that overlap. `MaxShown` 2 and `MaxHidden` 1 stand for
  the caps 100 and 300: with two distributors the second is exceeded.
* `Starts` 2 in `local_jobs`: every pair of kinds, one overlapping the other; two items, one retry and
  two slots let helpers share a queue and a lookup change its slot. `LibraryLimit` 3 is the code's.
  What a third start adds (a lookup beside two others) is covered by the proofs, for any number.
* In `cluster_bulk_login` the coordinator's own node has no slot to log in (it is never lost), the
  other node has one; one captcha meets both the opener and its own thread; `MaxLate` 1 lets a start, a
  captcha or a cancel arrive after the page was told of its failure. A second captcha, after a
  wrong one, is outside the instance (`MaxCaptchas` 1): with 2 the states run into the millions.
* `MaxCalls` 2 in `crm_worker`: what one method leaves behind meets every other method, including a
  shutdown. The attempts are 2 each; the code has 3 for a detail, 3 for a confirmation, 2 for a
  closing, and the loops treat all but the last attempt alike. One service order is enough for the run, as the
  orders of a closing do not meet; the proof is for any number.

### Fairness, and why the code justifies it

`FairSpec` adds weak fairness of: each dispatch thread's steps (started threads are scheduled; every
wait in the CRM driver has a timeout), `StartScheduler` (nearly every request asks for the services,
and so does the readiness probe), `ReconcileSlots` (the manager polls every second), `LeaseRunsOut`
(time passes), and, outside the code, `SlotLogin` (a user logs a slot in again after a restart).
`LocalJobs` assumes that some thread takes a step while one can (the workers answer their calls, by
`CallsReturn`); `CrmWorker` that the worker's thread runs (every wait of the CRM driver has a timeout)
and that an answered caller goes on; `ClusterBulkLogin` that each node's threads run and that polls
that change the row happen again and again: a page polls every two seconds until the login is done
(`templates/crm.html`), and one that is opened again adopts it. This last one is strong fairness, as a
poll may fail or be refused any number of times, but not for ever.

Nothing makes a fault, a stall, a crash, a stop, a user's captcha or the CRM's closing happen; a closing that never
happens ends as a failure after two rounds.

## What is proved

A theorem holds for every value of the constants that satisfies the assumptions of its module: any
number of jobs, items, nodes, slots, sessions, clients and starts, any limits and any number of
crashes, stalls and faults. Nothing else is assumed. Every invariant and action property of the
passing runs is proved, with both refinements; the lemmas of a module say how one step acts on each
part of its invariant, and the temporal step combines them.

### `JobItemsProofs`: the rows

| theorem | states | argument |
|---|---|---|
| `TypeCorrect` | `Spec => []TypeOK` | inductive as it stands |
| `LeaseCorrect` | `Spec => []LeaseIffActive` | inductive with `TypeOK` |
| `NoReplay` | `Spec => []NoReplayAfterSubmit` | inductive with `LeaseIffActive`: `fail_item` asks for the owner only, so one needs to know that whoever is the owner holds an active row |
| `AttemptsCorrect` | `Spec => []AttemptsBounded` | not inductive: a pending row is claimed whatever its attempts. Strengthened with `PendingBudget`: before a row is pending, and while a lost lease waits for its recovery, one attempt is still unspent |
| `TerminalCorrect` | `Spec => TerminalIsForever` | every action that writes a row needs it absent, waiting or active; for `fail_item` by `LeaseIffActive` |
| `StopCorrect` | `Spec => StopIsFinal` | only `ClaimItem` makes a row active, and it asks for the stop flag |

Assumed (`JobItemsAssumption`): the columns' types, limits of at least one, the empty owner is no
owner.

### `JobTransactionsProofs`: transactions and counters

| theorem | states | argument |
|---|---|---|
| `TransactionsSound` | `Spec => []IInv` | each open transaction still finds what it found when it locked its rows (`Found`, `Sound`), and two of them never hold one row (`Apart`) |
| `TransactionsTyped` | `Spec => []TypeOK` | part of `IInv` |
| `TransactionsImplement` | `Spec => Implements` | `Commit` has row by row the effect of one action of `JobItems`, because what was found is still there; every other step is an action on one row or a stutter |
| `ProgressCorrect` | `Spec => []ProgressNotOverstated` | not inductive: the counts of an open `_refresh_job` are old. Strengthened with `CountsBacked`: what was counted as done, succeeded or failed is so for its reader, hence still so when the count is committed (`SettledKept`, which needs `LeaseIffActive`) |
| `FinishedCorrect` | `Spec => []FinishedMeansSettled` | the same invariant, in which a finished status says which items it saw succeed (`Says`), with `NothingSkipped`: a skipped item would count as completed and as neither succeeded nor failed, and no operation writes that status |
| `OneJobCorrect` | `Spec => []OneJobPerKey` | the unique index refuses the second insert, whatever its lookup saw |

Assumed (`SessionsAssumption`, `ColumnsAssumption`): there is a session, every job has a request key
or none, finitely many items exist and every job has one (all callers of `create_job` refuse an empty
list; `JobItems` has no other sign of a job than its items), and what `JobItems` assumes.

### `ClusterSchedulerProofs`: nodes and the CRM

| theorem | states | argument |
|---|---|---|
| `SchedulerTyped` | `Spec => []TypeOK` | with `RowsSafe`, the row invariants of `JobItems`; a thread has an item exactly while it works (`Busy`) |
| `SchedulerImplements` | `Spec => Repo!Spec` | each step of a node is one action of `JobItems` or leaves the rows alone, also when the call raises or is refused |
| `RecordsCorrect` | `Spec => []RecordsMatchCrm` | two invariants: `Truthful` (what a thread is about to report has happened: `acted` and after means an order or a misread message, `succeed` means closed) and `Budgeted` (effects in the CRM, misread messages, and what threads may still add to them, counted as `Tokens`, never exceed what the claims allow, so zombies are paid for by earlier attempts) |
| `DuplicatesExplained` | `Spec => []DuplicateNeedsLoss` | `Single`: while nothing was lost and no fault was met, one thread at most has the item, it is the owner, and where it is says what the row says; a saved order leaves the row active or settled |
| `ZombiesCorrect` | `Spec => OnlyZombiesActAfterSubmit` | `Fresh`: once a transfer is marked, a thread before its effect is not the owner |

Assumed (`SchedulerAssumption`, `RowsAssumption`): slots lie on nodes, the value for "no item" is no
item, the bounds are natural numbers, and what `JobItems` assumes. The proofs do not use
the fairness of `FairSpec`.

### `ResultCatalogProofs`: pages, records and rows

| theorem | states | argument |
|---|---|---|
| `CatalogTyped` | `Spec => []TypeOK` | `Typed` and, per client, which pages and copies its operation can have at this access (`Sound`) |
| `RowAfterUploadCorrect` | `Spec => []RowAfterUpload` | a publication that reached the row has uploaded its page (`Sound`); no other operation brings a hash |
| `StoresAgree` | `Spec => []SettledStoresAgree` | not inductive: agreement is restored in several steps. `Stores` says, for a client that is alone with a barcode, which of the three places it has already written, and that nobody else is at work where the barcode is settled |
| `FreshWritersCorrect` | `Spec => FreshWritersKeepNotes` | `Copies`: a copy that is fresh equals the row |

Assumed (`CatalogAssumption`): the empty remark is one of the remarks, the bounds are natural numbers.

### `CatalogTablesProofs`: accounts, rules, distributors

| theorem | states | argument |
|---|---|---|
| `TablesTyped` | `Spec => []TypeOK` | with `Reads`: what a client has in hand follows from its operation and place |
| `AccountsCorrect` | `Spec => []AccountsSound` | a hash may be on its way in the list of a client. `Tied`, `Unseen`, `Dated` and `EditsApart` say that every hash in the table or in a client's hands belongs to one username, and that a new one is nowhere yet |
| `FreshReplacementsCorrect` | `Spec => FreshReplacementsKeepRows` | `RulesRead` and `AccountsRead`: outside its `about` and the stale keys, a client's list is the table |
| `HiddenCorrect` | `Spec => HiddenReappearsOnPurpose` | `DealersRead`: what a client takes for deleted is so, but for what others did since; the cut at the cap counts the deleted ones |

Assumed (`TablesAssumption`): the administrator's id and name exist, the empty name is none, the bounds
are natural numbers, and the distributors are finitely many (the caps speak of how many there are).

### `LocalJobsProofs`: in-process jobs

| theorem | states | argument |
|---|---|---|
| `LocalTyped` | `Spec => []TypeOK` | `Typed` and `Fits` |
| `StopCorrect` | `Spec => []StopWithinOneQuery` | `BatchFits`: once a query came back after a stop, the next place where the thread can be is a check |
| `ReportsCorrect` | `Spec => []ReportsMatchCrm` | `CloseFits`: while a closing runs, an order has a row exactly if it is neither in the queue nor in the hands of a worker, no two workers hold one order (`QueueFits`), and a row of success is a closed order. |
| `LookupsCorrect` | `Spec => []LookupsApart` | `OneLookup`: as long as none has gone on after a success, at most one lookup works, and then the running flag is set |
| `ClosingsCorrect` | `Spec => ClosingsTakeFreeSlots` | `SlotsKnown`: as long as no start came across a selection, a slot in use is entered under the job that uses it, and what a closing has selected is free. The latest entry alone says too little once a later job overwrote it |
| `LivesCorrect` | `Spec => LivesAsPromised` | each step of a start changes its phase, count and success as `JobLife` allows (`Lives`) and those of no other start |

`Fits` is about one start only, so that one lemma for each action says what it does to its own start
(`Proper`), and the rest is the same argument for all actions. Assumed (`LocalJobsAssumption`): the
numbers are natural ones in the code's ranges, `SlotOrder` is a sequence, the transfer slot is no query
slot.

### `CrmWorkerProofs`: a slot and its worker

| theorem | states | argument |
|---|---|---|
| `WorkerTyped` | `Spec => []TypeOK` | `OnePlace`: a call is in one place of the queue or is the task, never both, and only then does its caller wait. Each method of the session is proved to leave a session, operator by operator (the `...Typed` lemmas) |
| `WorkerReportsCorrect` | `Spec => []ReportsAreTrue` | not inductive: an order is judged by what its method has gone through. `TaskFits` says this for each place of a method; for a transfer at its details it is `Entering`: those behind it are in the order or misread, those to come are not in it, and the one at hand (`Chosen`) less often than the attempt it is at, as an attempt adds it once at most (`Attempted`). An order reported as closed stays closed |
| `LoginShownCorrect` | `Spec => []ShownLoginIsBelieved` | `Believed`: what is shown was true when the worker told it, and what the session knows afterwards only becomes less |

Assumed (`CrmOrdersAssumption`): the limits of attempts are positive natural numbers, as in the code.

### `ClusterBulkLoginProofs`: a bulk login

| theorem | states | argument |
|---|---|---|
| `TypeCorrect` | `Spec => []TypeOK` | `Typed`, with the shape of a job and its threads (`Shaped`) |
| `CaptchasHandled` | `Spec => []CaptchaHandling` | each part needs its own strengthening. `SubmitFits`: a slot in submission is in the hands of exactly one thread. `Watched`: beside a captcha and a waiting slot there is a thread that has still to look, or goes on after what it does now. `Finishing`: while settled slots have a job that is not done, a thread is under way that finalizes; a captcha's thread that found nothing waiting does so too. `OpenerFits`: the slots the opener has yet to come to are as the start left them, which keeps others' hands off them |
| `SuccessIsTrue` | `Spec => []ClusterSuccessIsTrue` | not inductive: the row is older than the nodes. `DoneFits`: in a job that is done and not cancelled every slot is settled, and one that counts as logged in is. `Told`: what a node has said of a job that is done remains true, because a done job's slots no longer change and the model logs no slot out (a logout by the user or the CRM is outside it) |

`Local` collects the conjuncts about one job on one node, so that each action of a thread is proved for
its own job, and a request (`HandleServed`) for the job it is about, whenever it arrives. The bound of the
model on threads is harmless: `Spare` counts the threads at work and the captchas under way, which
never exceed the captchas sent, so a captcha always finds a free thread. Assumed
(`BulkLoginAssumption`, `ClusterBulkLoginAssumption`): the bounds are natural numbers, the pages reach
a node, a node's slots are listed in a sequence and none twice (`_make_slots` numbers them).

### What proving changed

* `LookupsApart` used to say that two lookups work at once only if one of the two had gone on after a
  success. With two starts TLC agrees. The proof failed, and with `Starts = 3` TLC finds the reason: the
  lookup that went on clears the running flag when it ends, while the second works, and a third starts
  beside the second. The property now says that some lookup, perhaps a third, has gone on.
* `Implements` is false of a job without items: `request_stop` of such a job sets its flag, and in
  `JobItems` a job exists through its items. No run had one. The assumption above now says so, and the
  callers of `create_job` see to it.

### Only model-checked

Liveness (`EveryItemSettles`, `EveryJobEnds`, `CallsReturn`, `LoginsSettle`), which is beyond the
prover, as is ENABLED. All else that the passing runs check is proved. The three properties of the
findings are false.

## Findings

1. **Progress can stay behind for ever** (`lost_progress`). Two items of a job end in overlapping
   transactions. Each `_refresh_job` counts without seeing the other's uncommitted outcome; the later
   UPDATE overwrites the earlier. All items are settled, nothing refreshes the job again, and
   `/api/crm/batch/status` says `running` for good. The design document promises that progress is
   not lost. (`ProgressNotOverstated` and `FinishedMeansSettled` do hold: the error is on one side.)
   Taking the jobs row's lock before counting would repair it.
2. **A stopped job can keep a waiting item** (`stopped_job`). `request_stop` cancels what is pending
   or failed at that moment. A held item that fails or is recovered afterwards becomes `failed` or
   `pending` again; no claim takes it, nothing cancels it, the job never finishes. The test of
   `request_stop` stops a job nobody works on and expects all items to be cancelled.
3. **A crash can duplicate a transfer** (`transfer_crash`). The mark follows the CRM's save; a process
   that dies in between leaves the item `running`, so its recovery makes it `pending`. The design
   document says such faults never create an automatic duplicate. What does hold is
   `DuplicateNeedsLoss` and `OnlyZombiesActAfterSubmit`: failures that are reported never repeat a
   saved order, and after the mark only a worker that had the item before can still act.

## What else the models show

Not contradicted by any document of the repository, and visible in the shape of a property or of its
exception:

* Two publications of one barcode at once, or a publication and a deletion, can leave a row whose
  hash is not that of the object (`SettledStoresAgree` excludes them); the reader then refuses the
  file until the next publication.
* Recording a closed order saves the notes of every barcode as they were when it began: remarks and
  archive flags set meanwhile are undone (`FreshWritersKeepNotes` speaks of fresh copies only).
* Restoring a deleted distributor writes the list of deleted ones back cut to 300; those beyond are
  offered again.
* A product lookup that succeeded and then failed to remove its temporary files starts over on another
  slot, next to the lookup that was allowed to begin; when it ends it clears the running flag, and a
  third may begin beside the second (`LookupsApart`).
* A batch whose thread dies of `update_barcode_query_slot` is shown as running for ever (the exception
  in `EveryJobEnds`), and its slot refuses further batches.
* Two starts can pick one slot while one of them is still selecting (`ClosingsTakeFreeSlots`).
* A captcha or a cancel that arrives while a poll holds the advisory lock is dropped and answered as a
  success. A login that was cancelled may be shown as successful, because slots that were never settled
  count neither as failed nor as missing. A captcha that arrives after a cancel is still submitted.
* `_submit_bulk_login_slot` clears the captcha after an error, whichever captcha is there by then: a
  newer one that came meanwhile is forgotten for the slots still to come, unless its own thread brings
  it to them.
* A detail whose dialog stays open is entered again although the CRM may have taken it: the order then
  lists it twice (`ReportsAreTrue` allows it only when an attempt was repeated).
* A transfer may succeed without its order, a detail or its confirmation. A message with 保存 or 成功 is
  taken for a saved order before failure words are looked for, so that 保存失败 ("saving failed") marks the
  item as submitted, and the failure that follows puts it up for review as one that is in the CRM, although
  it could have been tried again; no visible dialog and no known failure word
  for an added detail, also on the login page of an expired session; a missing confirm button for a
  confirmation, on a login page too or when the browser died. `ReportsAreTrue` and `RecordsMatchCrm` allow
  these (`misread`) and nothing else.
* `_close_browser` stops half way when the context of a dead browser cannot be closed; `is_alive` then
  still says yes, and every login of the slot fails until that succeeds.
* Calls that reach a worker after its shutdown wait for ever (the exception in `CallsReturn`).

## Not modelled, and why

* The database pool: one lock around the replacement; what its failures do to callers is in
  `ClusterScheduler`, `JobTransactions` and `ResultCatalog`.
* Schema migrations: run once, under an advisory lock, before anything else.
* `job_logs` and the page's log cursor: nothing is decided on them.
* Cryptography and framing of requests between nodes. What their nonces give, that a request is
  carried out once at most, is used in `ClusterBulkLogin`.
* Node registry, heartbeats, slot rows, runtime configuration: rows overwritten whole, for display.
* The readiness probe; the local cache of result files; the JSON files desktop mode uses instead of
  the tables; `_apply_transfer_local_dealer`, which has the shape of the recording of a closed order.
* In `CRMSession`, selectors, waits and the reading of tables and dialogs, which become the set of
  their outcomes; the pages of a transfer summary; in `CRMWorker`, the file that remembers logins and
  the resizing of the pool.
* In `BulkLogin`, a second scope with slots in common.
* Excel and HTML parsing, templates and assets, launcher, legacy import, deployment scripts:
  sequential, without shared state.

## Plan

Models, where room allows: the database pool with migrations and readiness; `job_logs` and the cursor;
then what can be proved of them.
