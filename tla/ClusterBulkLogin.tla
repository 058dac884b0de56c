--------------------------- MODULE ClusterBulkLogin ---------------------------
(***************************************************************************)
(* A bulk login of all servers (src/app.py, _start_cluster_bulk_login and  *)
(* _cluster_bulk_login_action): the node a request reaches calls every     *)
(* node, merges the answers into a row of runtime configuration and shows  *)
(* what it has merged.  Calls time out after five seconds: the request may *)
(* be lost, or carried out without an answer, or carried out later.        *)
(***************************************************************************)
EXTENDS BulkLogin

CONSTANTS Home,      \* the node the pages' requests reach
          MaxLate    \* requests under way after their timeout, a bound of the model

ASSUME ClusterBulkLoginAssumption == Home \in Nodes /\ MaxLate \in Nat

VARIABLES state,   \* the rows "cluster-bulk-login:..."
          late     \* requests given up that may still arrive

vars == <<job, run, session, state, late>>

NoAnswer == [running |-> FALSE, done |-> FALSE, waiting |-> FALSE, failed |-> FALSE]
NoEntry == [job |-> 0, error |-> FALSE, errors |-> 0, skipped |-> FALSE, last |-> NoAnswer]
Skipped == [NoEntry EXCEPT !.error = TRUE, !.errors = 3, !.skipped = TRUE]
NoState == [begun |-> FALSE, saved |-> FALSE, cancelled |-> FALSE, sent |-> 0, nodes |-> [n \in Nodes |-> NoEntry]]

Init == /\ NodeInit
        /\ state = [c \in Logins |-> NoState]
        /\ late = {}

-----------------------------------------------------------------------------
(* What a status page is told: _cluster_bulk_login_payload. *)

Entry(c, n) == state[c].nodes[n]
GivenUp(e) == e.skipped \/ e.errors >= 3
ShownRunning(c) == \E n \in Nodes : LET e == Entry(c, n) IN
                      IF e.error THEN ~GivenUp(e) ELSE e.last.running
ShownDone(c) == /\ ~ShownRunning(c)
                /\ \A n \in Nodes : ~Entry(c, n).error => Entry(c, n).last.done
ShownWaiting(c) == \E n \in Nodes : LET e == Entry(c, n) IN
                      (e.error => ~GivenUp(e)) /\ e.last.waiting

\* Mutant: a login without errors is a success, whatever became of its slots.
ShownSuccessWithoutErrors(c) == ShownDone(c) /\ \A n \in Nodes : ~Entry(c, n).error

ShownSuccess(c) == /\ ShownDone(c)
                   /\ \A n \in Nodes : ~Entry(c, n).error /\ ~Entry(c, n).last.failed

-----------------------------------------------------------------------------
(* Actions of a coordinator. *)

\* _cluster_bulk_login_merge_results for one node: an answer clears the errors
\* and says which local job it is about.
Answered(e, j, summary) == [e EXCEPT !.job = j, !.error = FALSE, !.errors = 0, !.last = summary]

\* Mutant: failed calls are not counted.
FailedUncounted(e) == [e EXCEPT !.error = TRUE, !.errors = 1]

Failed(e) == [e EXCEPT !.error = TRUE, !.errors = IF @ < 3 THEN @ + 1 ELSE 3]

\* What may become of a call: answered; carried out, its answer lost; lost; or
\* given up and carried out later.  The node's call of itself is no network
\* call.  Polls change nothing: when they come late nobody notices.
Fates(n, kind) ==
    IF n = Home THEN {"answered"}
    ELSE {"answered", "unanswered", "lost"}
         \cup (IF kind # "status" /\ Cardinality(late) < MaxLate THEN {"late"} ELSE {})

\* All nodes of a row are called at once and their answers merged; the row is
\* written unless that fails.  One step: what the nodes do meanwhile commutes
\* with the calls of other nodes, and the lock keeps out other actions.
CallNodes(c, kind, nodes, k) ==
    LET called == {n \in Nodes : ~nodes[n].skipped} IN
    \E fate \in [called -> {"answered", "unanswered", "lost", "late"}] :
        LET carried == {n \in called : fate[n] \in {"answered", "unanswered"}}
            about(n) == nodes[n].job
            after(d, n) == IF n \in carried /\ d = about(n) THEN Handle(kind, d, n, k) ELSE Now(d, n)
            \* a refused start is answered about the job that runs
            answer(n) == IF kind = "start" THEN Started(about(n), n) ELSE about(n)
            row == [n \in Nodes |->
                       IF n \notin called THEN nodes[n]
                       ELSE LET j == after(answer(n), n).job IN
                            IF fate[n] = "answered" /\ j.exists
                            THEN Answered(nodes[n], answer(n), Summary(j, n))
                            \* without a job only cancelling succeeds, with nothing to report
                            ELSE IF fate[n] = "answered" /\ kind = "cancel"
                            THEN Answered(nodes[n], about(n), NoAnswer)
                            ELSE Failed(nodes[n])] IN
        /\ \A n \in called : fate[n] \in Fates(n, kind)
        /\ job' = [d \in Logins |-> [n \in Nodes |-> after(d, n).job]]
        /\ run' = [d \in Logins |-> [n \in Nodes |-> after(d, n).run]]
        /\ late' = late \cup {<<kind, about(n), n, k>> : n \in {m \in called : fate[m] = "late"}}
        /\ \E saved \in BOOLEAN :
              state' = [state EXCEPT
                  ![c].begun = TRUE,
                  ![c].saved = @ \/ saved,
                  ![c].nodes = IF saved THEN row ELSE @,
                  ![c].cancelled = @ \/ kind = "cancel",
                  ![c].sent = IF kind = "captcha" THEN k ELSE @]
        /\ UNCHANGED session

\* The login the row "cluster-bulk-login-latest:..." names.
Latest(d) == state[d].saved /\ \A e \in Logins : state[e].saved => e <= d

\* _create_cluster_bulk_login, under the lock of the scope: only when the
\* latest login neither runs nor waits.  Nodes that are offline are skipped.
StartLogin(c) ==
    /\ ~state[c].begun
    /\ \A d \in 1..(c - 1) : state[d].begun /\ (Latest(d) => ~ShownRunning(d) /\ ~ShownWaiting(d))
    /\ \E online \in SUBSET Nodes \ {{}} :
          CallNodes(c, "start",
                    [n \in Nodes |-> IF n \in online THEN [NoEntry EXCEPT !.job = c] ELSE Skipped],
                    NoCaptcha)

\* _cluster_bulk_login_action.  Whoever does not get the lock, and a poll
\* within two seconds of the last one, is shown the row and does nothing
\* else: a captcha or a cancel that meets a poll is dropped.
Poll(c) == state[c].saved /\ CallNodes(c, "status", state[c].nodes, NoCaptcha)

SendCaptcha(c) ==
    /\ state[c].saved /\ state[c].sent < MaxCaptchas
    /\ CallNodes(c, "captcha", state[c].nodes, state[c].sent + 1)

Cancel(c) ==
    /\ state[c].saved /\ ~state[c].cancelled
    /\ CallNodes(c, "cancel", state[c].nodes, NoCaptcha)

\* The nonce in a request's envelope lets it be carried out once at most.
ArriveLate(m) ==
    LET after == Handle(m[1], m[2], m[3], m[4]) IN
    /\ m \in late
    /\ job' = [job EXCEPT ![m[2]][m[3]] = after.job]
    /\ run' = [run EXCEPT ![m[2]][m[3]] = after.run]
    /\ late' = late \ {m}
    /\ UNCHANGED <<session, state>>

-----------------------------------------------------------------------------
Node(c, n) == NodeStep(c, n) /\ UNCHANGED <<state, late>>

\* A start whose row could not be written leaves jobs nobody asks about.
Terminating ==
    /\ late = {} /\ \A c \in Logins : state[c].begun /\ ~state[c].saved
    /\ \A c \in Logins, n \in Nodes, r \in Runners : run[c][n][r].pc \in {"none", "over"}
    /\ UNCHANGED vars

Next ==
    \/ \E c \in Logins : \/ StartLogin(c) \/ Poll(c) \/ SendCaptcha(c) \/ Cancel(c)
                         \/ \E n \in Nodes : Node(c, n)
    \/ \E m \in late : ArriveLate(m)
    \/ Terminating

\* A page polls until the login is shown as done (one that is opened again
\* adopts the login), the row can be written in the end, and each node's
\* threads run.
Fairness ==
    \A c \in Logins : /\ SF_vars(Poll(c) /\ state'[c].nodes # state[c].nodes)
                      /\ \A n \in Nodes : WF_vars(Node(c, n))

Spec == Init /\ [][Next]_vars /\ Fairness

-----------------------------------------------------------------------------
(* Properties. *)

\* The shapes of the rows, the nodes' jobs and their threads.
TypeOK ==
    /\ NodeTypeOK
    /\ \A c \in Logins, n \in Nodes :
          /\ Entry(c, n).job \in Logins \cup {0}
          /\ Entry(c, n).errors \in 0..3
          /\ Entry(c, n).error = (Entry(c, n).errors > 0)
    /\ late \subseteq {"start", "captcha", "cancel"} \X Logins \X Nodes \X (Captchas \cup {NoCaptcha})

\* A success shown for the whole cluster is one: every slot of every server is
\* logged in, although the answers are old and some were lost - unless the
\* login was cancelled: cancelled slots count as neither failed nor missing.
ClusterSuccessIsTrue ==
    \A c \in Logins : state[c].saved /\ ShownSuccess(c) =>
        \A n \in Nodes : \/ session[n] = Slots(n)
                         \/ job[Entry(c, n).job][n].stop

\* Whatever calls are lost, a login that was started is in the end shown as
\* done or as waiting for a captcha: the page that polls it can stop, or ask.
LoginsSettle ==
    \A c \in Logins : state[c].saved ~> ShownDone(c) \/ ShownWaiting(c)
=============================================================================
