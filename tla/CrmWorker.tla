------------------------------ MODULE CrmWorker ------------------------------
(***************************************************************************)
(* The worker of a slot (CRMWorker in src/app.py): one thread owns the     *)
(* session and takes method calls from a queue; callers wait for their     *)
(* answer without a timeout and read what the worker has last told about   *)
(* the session.  logout and cancel_login write that once more themselves,  *)
(* when their answer has come.                                             *)
(***************************************************************************)
EXTENDS CrmOrders, Sequences

CONSTANTS MaxCalls         \* calls, a bound of the model

VARIABLES queue,     \* tasks
          calls,     \* the callers
          shown,     \* browser_running, logged_in_cache, remembered_logged_in_cache
          stopped    \* the worker's thread has returned

vars == <<session, moves, services, task, queue, calls, shown, stopped>>

Calls == 1..MaxCalls
NoCall == [kind |-> "none", arg |-> "nothing", is |-> "none"]
NotShown == [running |-> FALSE, loggedIn |-> FALSE, remembered |-> FALSE]

\* The session's methods, with what they are called for.
Methods ==
    [kind : {"step1", "step2", "login", "logout", "cancel", "check", "idle", "shutdown", "close"}, arg : {"nothing"}]
    \cup [kind : {"query"}, arg : Barcodes]
    \cup [kind : {"transfer"}, arg : {"confirm", "save only"}]

Init == /\ session \in {[NoSession EXCEPT !.cookie = c] : c \in BOOLEAN}
        /\ moves = [c \in Calls |-> NoMove]
        /\ services \in [ServiceOrders -> {"open", "closed"}]
        /\ task = NoTask /\ queue = <<>>
        /\ calls = [c \in Calls |-> NoCall]
        /\ shown \in {[NotShown EXCEPT !.remembered = r] : r \in BOOLEAN}
        /\ stopped = FALSE

-----------------------------------------------------------------------------
(* Callers. *)

\* _call: any thread, at any time, also after the shutdown.
Call(c) ==
    /\ calls[c].is = "none" /\ \A d \in 1..(c - 1) : calls[d].is # "none"
    /\ \E m \in Methods : calls' = [calls EXCEPT ![c] = [kind |-> m.kind, arg |-> m.arg, is |-> "waiting"]]
    /\ queue' = Append(queue, c)
    /\ UNCHANGED <<ordersVars, shown, stopped>>

\* What logout, cancel_login and shutdown write when they have been answered.
Overwritten(kind) ==
    CASE kind = "logout" -> NotShown
      [] kind = "cancel" -> [shown EXCEPT !.running = @ /\ shown.loggedIn]
      [] kind = "shutdown" -> [shown EXCEPT !.running = FALSE, !.loggedIn = FALSE]

Overwrite(c) ==
    /\ calls[c].is = "answered"
    /\ calls' = [calls EXCEPT ![c].is = "returned"]
    /\ shown' = Overwritten(calls[c].kind)
    /\ UNCHANGED <<ordersVars, queue, stopped>>

-----------------------------------------------------------------------------
(* The worker's thread: _run. *)

Pc == [step1 |-> "login", step2 |-> "login", login |-> "login", logout |-> "login", cancel |-> "login", check |-> "login",
       idle |-> "login", shutdown |-> "login", query |-> "query", transfer |-> "form", close |-> "close"]

\* Mutant: the task stays in the queue while it runs.
TakeTaskPeek ==
    /\ ~stopped /\ task.pc = "none" /\ queue # <<>>
    /\ LET c == Head(queue)
           kind == calls[c].kind IN
          task' = [NoTask EXCEPT !.call = c, !.kind = kind, !.arg = calls[c].arg, !.pc = Pc[kind],
                                 !.todo = CASE kind = "transfer" -> Details
                                            [] kind = "close" -> ServiceOrders
                                            [] OTHER -> {}]
    /\ UNCHANGED <<session, moves, services, queue, calls, shown, stopped>>

TakeTask ==
    /\ ~stopped /\ task.pc = "none" /\ queue # <<>>
    /\ LET c == Head(queue)
           kind == calls[c].kind IN
          task' = [NoTask EXCEPT !.call = c, !.kind = kind, !.arg = calls[c].arg, !.pc = Pc[kind],
                                 !.todo = CASE kind = "transfer" -> Details
                                            [] kind = "close" -> ServiceOrders
                                            [] OTHER -> {}]
    /\ queue' = Tail(queue)
    /\ UNCHANGED <<session, moves, services, calls, shown, stopped>>

\* The short methods are one step each.
Method(kind, s) ==
    CASE kind = "step1" -> Caught(LoginStep1(s))
      [] kind = "step2" -> Caught(LoginStep2(s))
      [] kind = "login" -> Caught(LoginOnce(s))
      [] kind = "logout" -> Logout(s)
      [] kind = "cancel" -> CancelLogin(s)
      [] kind = "check" -> CheckLoginStatus(s)
      [] kind = "idle" -> CloseIdleReportTabs(s)
      [] kind = "shutdown" -> Shutdown(s)

RunMethod ==
    /\ task.pc = "login"
    /\ \E o \in Method(task.kind, session) :
          /\ session' = o.to
          /\ IF o.says = "error" THEN Raise ELSE Return(o.says = "yes")
    /\ UNCHANGED <<moves, services, queue, calls, shown, stopped>>

RunOrders == OrderStep /\ UNCHANGED <<queue, calls, shown, stopped>>

\* Mutant: only a method that returns is answered.
HandleRaisedSilently ==
    /\ task.pc = "raised"
    /\ session' \in Handled(session) /\ task' = NoTask
    /\ UNCHANGED <<moves, services, queue, calls, shown, stopped>>

\* An exception that left the method: after a crash the browser is closed.
HandleRaised ==
    /\ task.pc = "raised"
    /\ session' \in Handled(session) /\ Return(FALSE)
    /\ UNCHANGED <<moves, services, queue, calls, shown, stopped>>

\* Mutant: the session's flag is shown, with or without a browser.
UpdateStateFromFlag ==
    /\ task.pc = "ended"
    /\ shown' = [running |-> Alive(session), loggedIn |-> session.loggedIn, remembered |-> session.loggedIn]
    /\ task' = [task EXCEPT !.pc = "answer"]
    /\ UNCHANGED <<session, moves, services, queue, calls, stopped>>

\* _update_state.
UpdateState ==
    /\ task.pc = "ended"
    /\ shown' = [running |-> Alive(session), loggedIn |-> Alive(session) /\ session.loggedIn,
                 remembered |-> session.loggedIn]
    /\ task' = [task EXCEPT !.pc = "answer"]
    /\ UNCHANGED <<session, moves, services, queue, calls, stopped>>

\* The answer is given; after a shutdown the thread returns.
Answer ==
    /\ task.pc = "answer"
    /\ calls' = [calls EXCEPT ![task.call].is =
                    IF task.kind \in {"logout", "cancel", "shutdown"} THEN "answered" ELSE "returned"]
    /\ stopped' = (task.kind = "shutdown")
    /\ task' = NoTask
    /\ UNCHANGED <<session, moves, services, queue, shown>>

Worker == TakeTask \/ RunMethod \/ RunOrders \/ HandleRaised \/ UpdateState \/ Answer

-----------------------------------------------------------------------------
Outside == (SessionChanges \/ \E o \in ServiceOrders : CrmCloses(o)) /\ UNCHANGED <<queue, calls, shown, stopped>>

Terminating ==
    /\ \A c \in Calls : calls[c].is = "returned" \/ (calls[c].is = "waiting" /\ stopped)
    /\ UNCHANGED vars

Next == (\E c \in Calls : Call(c) \/ Overwrite(c)) \/ Worker \/ Outside \/ Terminating

\* The browser's driver returns from each of its calls, so the thread runs.
Fairness == WF_vars(Worker) /\ \A c \in Calls : WF_vars(Overwrite(c))

Spec == Init /\ [][Next]_vars /\ Fairness

-----------------------------------------------------------------------------
(* Properties. *)

\* The shapes of the session, the task and the queue of calls.
TypeOK ==
    /\ session \in Sessions
    /\ shown \in [running : BOOLEAN, loggedIn : BOOLEAN, remembered : BOOLEAN]
    /\ \A c \in Calls :
          LET places == Cardinality({i \in 1..Len(queue) : queue[i] = c}) + IF task.call = c THEN 1 ELSE 0 IN
          places \in {0, 1} /\ (places = 1 => calls[c].is = "waiting")

\* What a method reports against what the CRM holds (see CrmOrders).
ReportsAreTrue == TrueReport(task)

\* A slot is never shown as logged in (CRMWorker.logged_in, which selects the
\* slots of bulk logins and jobs) when its idle session does not believe so:
\* every way a method can end, and both threads' writes, end below the truth.
ShownLoginIsBelieved ==
    task.pc = "none" /\ shown.loggedIn => shown.running /\ Alive(session) /\ session.loggedIn

\* Every call returns, whatever the session goes through, unless the worker
\* has been shut down before it (CRMWorker._call waits without a timeout).
CallsReturn == \A c \in Calls : calls[c].is # "none" ~> calls[c].is = "returned" \/ stopped
=============================================================================
