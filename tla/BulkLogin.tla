------------------------------ MODULE BulkLogin ------------------------------
(***************************************************************************)
(* A bulk login on one node (src/app.py): the job and the status of each   *)
(* of its slots, the thread that opens the login pages one after another,  *)
(* a thread for every captcha that arrives, and cancelling.  The job of    *)
(* login c on node n is job[c][n]: the coordinator chooses its id.         *)
(* ClusterBulkLogin adds the coordinator.                                  *)
(***************************************************************************)
EXTENDS Integers, Sequences, FiniteSets, Functions

CONSTANTS Nodes,         \* the server nodes
          SlotOrder,     \* their slots, a sequence for each node
          MaxLogins,     \* cluster logins, a bound of the model
          MaxCaptchas    \* captchas sent to one login, a bound of the model

\* The pool numbers its slots (_make_slots), so none is listed twice.
ASSUME BulkLoginAssumption == /\ SlotOrder \in [Nodes -> Seq(UNION {Range(SlotOrder[n]) : n \in Nodes})]
                              /\ \A n \in Nodes : IsInjective(SlotOrder[n])
                              /\ MaxLogins \in Nat /\ MaxCaptchas \in Nat

VARIABLES job,       \* bulk_login_jobs
          run,       \* the threads of each job
          session    \* the slots whose CRM session is logged in

nodeVars == <<job, run, session>>

Logins == 1..MaxLogins
Captchas == 1..MaxCaptchas
NoCaptcha == 0
Opener == 0                         \* the thread of _run_bulk_login_job
Helpers == 1..(MaxLogins * MaxCaptchas)
Runners == {Opener} \cup Helpers   \* and those of _submit_bulk_login_pending
Slots(n) == Range(SlotOrder[n])
Active == {"pending", "opening", "submitting"}
Statuses == Active \cup {"not in job", "waiting", "logged in", "failed"}

NoJob == [exists |-> FALSE, running |-> FALSE, done |-> FALSE, success |-> FALSE,
          stop |-> FALSE, step1 |-> FALSE, captcha |-> NoCaptcha, status |-> <<>>]
NoRun == [pc |-> "none", at |-> 0, captcha |-> NoCaptcha, todo |-> {}, slot |-> "none"]

NodeInit ==
    /\ job = [c \in Logins |-> [n \in Nodes |-> NoJob]]
    /\ run = [c \in Logins |-> [n \in Nodes |-> [r \in Runners |-> NoRun]]]
    /\ \E in \in SUBSET UNION {Slots(n) : n \in Nodes} : session = [n \in Nodes |-> in \cap Slots(n)]

-----------------------------------------------------------------------------
(* Shorthands. *)

WithStatus(c, n, st) == {s \in Slots(n) : job[c][n].exists /\ job[c][n].status[s] = st}
HasActive(c, n) == \E st \in Active : WithStatus(c, n, st) # {}
SetStatus(c, n, s, st) == job' = [job EXCEPT ![c][n].status[s] = st]
At(c, n, r, pc) == run[c][n][r].pc = pc
Goto(c, n, r, pc) == run' = [run EXCEPT ![c][n][r].pc = pc]

\* What _bulk_login_status_payload reports, as far as the coordinator uses it.
Summary(j, n) == [running |-> j.running, done |-> j.done,
                  waiting |-> \E s \in Slots(n) : j.status[s] = "waiting",
                  failed  |-> \E s \in Slots(n) : j.status[s] = "failed"]

-----------------------------------------------------------------------------
(* Requests: _start_local_bulk_login and its siblings, in one lock each. *)

\* The slots that are not logged in; a job without any is done at once.
NewJob(n) ==
    LET todo == Slots(n) \ session[n] IN
    [NoJob EXCEPT !.exists = TRUE, !.running = todo # {}, !.done = todo = {}, !.success = todo = {},
                  !.status = [s \in Slots(n) |-> IF s \in todo THEN "pending" ELSE "not in job"]]

\* The scope's running job, if another login has one here.
Running(n) == {c \in Logins : job[c][n].running}

\* The job a start request ends up with: its own if it came before, the one
\* that runs, or a new one.
Started(c, n) == IF job[c][n].exists \/ Running(n) = {} THEN c ELSE CHOOSE d \in Running(n) : TRUE

\* What each request leaves of the job and the threads of login c on node n.
Now(c, n) == [job |-> job[c][n], run |-> run[c][n]]

StartLocal(c, n) ==
    IF Started(c, n) # c \/ job[c][n].exists THEN Now(c, n)
    ELSE [job |-> NewJob(n),
          run |-> IF NewJob(n).running
                  THEN [run[c][n] EXCEPT ![Opener] = [NoRun EXCEPT !.pc = "next", !.at = 1]]
                  ELSE run[c][n]]

FreeHelper(c, n) == CHOOSE r \in Helpers : run[c][n][r].pc \in {"none", "over"}

\* The captcha is kept for slots still to come, and a thread submits it to
\* those that wait; nothing asks whether the job has been cancelled.
CaptchaLocal(c, n, k) ==
    IF ~job[c][n].exists THEN Now(c, n)
    ELSE [job |-> [job[c][n] EXCEPT !.captcha = k],
          run |-> [run[c][n] EXCEPT ![FreeHelper(c, n)] = [NoRun EXCEPT !.pc = "look"]]]

\* Mutant: a cancelled job goes on running until its opener has noticed.
CancelLocalStopOnly(c, n) ==
    [job |-> IF job[c][n].exists THEN [job[c][n] EXCEPT !.stop = TRUE, !.done = TRUE] ELSE job[c][n],
     run |-> run[c][n]]

CancelLocal(c, n) ==
    IF ~job[c][n].exists THEN Now(c, n)
    ELSE [job |-> [job[c][n] EXCEPT !.stop = TRUE, !.running = FALSE, !.done = TRUE],
          run |-> run[c][n]]

Handle(kind, c, n, k) ==
    CASE kind = "start" -> StartLocal(c, n)
      [] kind = "captcha" -> CaptchaLocal(c, n, k)
      [] kind = "cancel" -> CancelLocal(c, n)
      [] kind = "status" -> Now(c, n)

-----------------------------------------------------------------------------
(* The thread that opens the login pages: _run_bulk_login_job. *)

SlotAt(c, n) == SlotOrder[n][run[c][n][Opener].at]
Advance(c, n) == run' = [run EXCEPT ![c][n][Opener].pc = "next", ![c][n][Opener].at = @ + 1]
Leave(c, n) == run' = [run EXCEPT ![c][n][Opener].pc = "opened", ![c][n][Opener].at = 0]

OpenNext(c, n) ==
    LET more == run[c][n][Opener].at <= Len(SlotOrder[n]) IN
    /\ At(c, n, Opener, "next")
    /\ CASE ~more \/ job[c][n].stop -> Leave(c, n) /\ UNCHANGED job
         [] more /\ ~job[c][n].stop /\ job[c][n].status[SlotAt(c, n)] = "not in job" ->
              Advance(c, n) /\ UNCHANGED job
         [] OTHER -> SetStatus(c, n, SlotAt(c, n), "opening") /\ Goto(c, n, Opener, "open")
    /\ UNCHANGED session

\* worker.login_step1, tried twice: an error, the session was or is logged
\* in, or the captcha form.
Open(c, n) ==
    LET s == SlotAt(c, n) IN
    /\ At(c, n, Opener, "open")
    /\ \/ SetStatus(c, n, s, "failed") /\ Advance(c, n) /\ UNCHANGED session
       \/ /\ SetStatus(c, n, s, "logged in") /\ Advance(c, n)
          /\ session' = [session EXCEPT ![n] = @ \cup {s}]
       \/ /\ s \notin session[n]
          /\ SetStatus(c, n, s, "waiting") /\ Goto(c, n, Opener, "offer") /\ UNCHANGED session

\* A captcha that came early is submitted by this thread.  It is read after
\* the slot waits, so it cannot fall between this thread and its own.
Offer(c, n) ==
    /\ At(c, n, Opener, "offer")
    /\ IF job[c][n].captcha = NoCaptcha
       THEN Advance(c, n)
       ELSE run' = [run EXCEPT ![c][n][Opener].pc = "claim",
                               ![c][n][Opener].captcha = job[c][n].captcha,
                               ![c][n][Opener].todo = {SlotAt(c, n)}]
    /\ UNCHANGED <<job, session>>

Opened(c, n) ==
    /\ At(c, n, Opener, "opened")
    /\ job' = [job EXCEPT ![c][n].step1 = TRUE,
                          ![c][n].running = @ /\ ~job[c][n].stop,
                          ![c][n].done = @ \/ job[c][n].stop]
    /\ Goto(c, n, Opener, "look")
    /\ UNCHANGED session

-----------------------------------------------------------------------------
(* Submitting: _submit_bulk_login_pending and _submit_bulk_login_slot. *)

\* _finalize_bulk_login_job_if_ready.
Finalized(c, n) ==
    LET j == job[c][n] IN
    IF j.done \/ ~j.step1 \/ WithStatus(c, n, "waiting") # {} \/ HasActive(c, n) THEN job
    ELSE [job EXCEPT ![c][n].running = FALSE, ![c][n].done = TRUE,
                     ![c][n].success = WithStatus(c, n, "failed") = {}]

\* Before a captcha's thread ends, or the opener finalizes once more.
Look(c, n, r) ==
    LET j == job[c][n]
        ended == IF r = Opener THEN "last" ELSE "over" IN
    /\ At(c, n, r, "look")
    /\ IF j.captcha = NoCaptcha THEN Goto(c, n, r, ended)
       ELSE IF WithStatus(c, n, "waiting") = {} THEN Goto(c, n, r, "leave")
       ELSE run' = [run EXCEPT ![c][n][r].pc = "claim", ![c][n][r].captcha = j.captcha,
                               ![c][n][r].todo = WithStatus(c, n, "waiting")]
    /\ UNCHANGED <<job, session>>

\* Where a thread is when it has nothing left to submit.
Emptied(c, n, r) ==
    IF r = Opener /\ run[c][n][r].at > 0
    THEN [run[c][n][r] EXCEPT !.pc = "next", !.at = @ + 1, !.captcha = NoCaptcha, !.slot = "none"]
    ELSE [run[c][n][r] EXCEPT !.pc = "finalize", !.captcha = NoCaptcha, !.slot = "none"]

\* Mutant: whoever found the slot waiting submits the captcha to it.
ClaimUnchecked(c, n, r) ==
    /\ At(c, n, r, "claim")
    /\ IF run[c][n][r].todo = {}
       THEN run' = [run EXCEPT ![c][n][r] = Emptied(c, n, r)] /\ UNCHANGED job
       ELSE \E s \in run[c][n][r].todo :
               /\ SetStatus(c, n, s, "submitting")
               /\ run' = [run EXCEPT ![c][n][r].pc = "submit", ![c][n][r].slot = s,
                                     ![c][n][r].todo = @ \ {s}]
    /\ UNCHANGED session

\* The first of several threads takes a waiting slot; the others pass it by.
Claim(c, n, r) ==
    /\ At(c, n, r, "claim")
    /\ IF run[c][n][r].todo = {}
       THEN run' = [run EXCEPT ![c][n][r] = Emptied(c, n, r)] /\ UNCHANGED job
       ELSE \E s \in run[c][n][r].todo :
               IF job[c][n].status[s] = "waiting"
               THEN /\ SetStatus(c, n, s, "submitting")
                    /\ run' = [run EXCEPT ![c][n][r].pc = "submit", ![c][n][r].slot = s,
                                          ![c][n][r].todo = @ \ {s}]
               ELSE run' = [run EXCEPT ![c][n][r].todo = @ \ {s}] /\ UNCHANGED job
    /\ UNCHANGED session

\* worker.login_step2, after another login_step1 when the captcha field is
\* gone: logged in, a wrong captcha (the slot waits again) or an error.
Submit(c, n, r) ==
    LET s == run[c][n][r].slot IN
    /\ At(c, n, r, "submit")
    /\ \/ /\ SetStatus(c, n, s, "logged in") /\ Goto(c, n, r, "claim")
          /\ session' = [session EXCEPT ![n] = @ \cup {s}]
       \/ /\ \/ SetStatus(c, n, s, "failed")
             \/ s \notin session[n] /\ SetStatus(c, n, s, "waiting")
          /\ Goto(c, n, r, "forget") /\ UNCHANGED session

\* After an error the captcha is dropped, whichever captcha it is by now.
Forget(c, n, r) ==
    /\ At(c, n, r, "forget")
    /\ job' = [job EXCEPT ![c][n].captcha = NoCaptcha]
    /\ Goto(c, n, r, "claim")
    /\ UNCHANGED session

Finalize(c, n, r) ==
    /\ run[c][n][r].pc \in {"finalize", "leave", "last"}
    /\ job' = Finalized(c, n)
    /\ Goto(c, n, r, IF At(c, n, r, "finalize") THEN "look"
                     ELSE IF r = Opener /\ At(c, n, r, "leave") THEN "last" ELSE "over")
    /\ UNCHANGED session

-----------------------------------------------------------------------------
NodeStep(c, n) ==
    \/ OpenNext(c, n) \/ Open(c, n) \/ Offer(c, n) \/ Opened(c, n)
    \/ \E r \in Runners : Look(c, n, r) \/ Claim(c, n, r) \/ Submit(c, n, r)
                          \/ Forget(c, n, r) \/ Finalize(c, n, r)

-----------------------------------------------------------------------------
(* Properties. *)

\* The shapes of jobs and threads.
NodeTypeOK ==
    /\ \A c \in Logins, n \in Nodes :
          /\ job[c][n].exists => /\ job[c][n].status \in [Slots(n) -> Statuses]
                                 /\ job[c][n].running = ~job[c][n].done
          /\ job[c][n].captcha \in Captchas \cup {NoCaptcha}
          /\ \A r \in Runners : run[c][n][r].todo \subseteq Slots(n)
    /\ \A n \in Nodes : session[n] \subseteq Slots(n)

\* A slot is being submitted by exactly one of the threads that try, and only
\* while its status says so.
OneSubmitter(c, n) ==
    \A s \in Slots(n) :
        Cardinality({r \in Runners : At(c, n, r, "submit") /\ run[c][n][r].slot = s})
            = IF s \in WithStatus(c, n, "submitting") THEN 1 ELSE 0

\* A captcha that was accepted and a slot that waits for one never lie side by
\* side with no thread left to bring them together.
CaptchaWatched(c, n) ==
    job[c][n].captcha # NoCaptcha /\ WithStatus(c, n, "waiting") # {}
        => \E r \in Runners : run[c][n][r].pc \notin {"none", "last", "over"}

\* When every page was opened, every slot is settled and every thread gone,
\* some thread has marked the job as done.
SettledMeansDone(c, n) ==
    /\ job[c][n].step1 /\ WithStatus(c, n, "waiting") = {} /\ ~HasActive(c, n)
    /\ \A r \in Runners : run[c][n][r].pc \in {"none", "over"}
    => job[c][n].done

\* The threads of a bulk login divide its work without gap or overlap,
\* although each sees job and slots in a lock of its own
\* (_submit_bulk_login_slot, _finalize_bulk_login_job_if_ready).
CaptchaHandling ==
    \A c \in Logins, n \in Nodes :
        OneSubmitter(c, n) /\ CaptchaWatched(c, n) /\ SettledMeansDone(c, n)
=============================================================================
