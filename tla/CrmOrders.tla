------------------------------ MODULE CrmOrders ------------------------------
(***************************************************************************)
(* The orders a session works on in the CRM (src/app.py): create_transfer  *)
(* enters a move order and confirms it, close_service_orders closes        *)
(* service orders.  Both read the outcome of every click from the page,    *)
(* and try again when they do not see it.  The CRM's side is external: it  *)
(* takes what it is sent, or not, and a transfer's methods may read a yes  *)
(* where it has not, or a no where it has.                                 *)
(***************************************************************************)
EXTENDS CrmSession

CONSTANTS Details,         \* what a move order is to hold
          ServiceOrders,
          DetailAttempts,  \* attempts to add a detail: _retry_detail_action
          ConfirmAttempts, \* clicks on the confirm button: _confirm_transfer
          CloseAttempts    \* attempts to close a service order

ASSUME CrmOrdersAssumption == {DetailAttempts, ConfirmAttempts, CloseAttempts} \subseteq Nat \ {0}

VARIABLES session,   \* the CRMSession
          moves,     \* the CRM: the move orders that were saved
          services,  \* the CRM: what became of each service order
          task       \* what the session's thread works on

ordersVars == <<session, moves, services, task>>

NoMove == [saved |-> FALSE, details |-> [d \in Details |-> 0], confirmed |-> FALSE]
NoResult == [of |-> "nothing", saved |-> FALSE, confirmed |-> FALSE, orders |-> {}]

\* misread is history, not in the code: what a transfer has taken for done
\* although the CRM had not done it.
NoneMisread == [header |-> FALSE, details |-> {}, confirm |-> FALSE]
NoTask == [call |-> 0, kind |-> "none", arg |-> "nothing", pc |-> "none", attempt |-> 1,
           todo |-> {}, again |-> FALSE, ok |-> FALSE, crashed |-> FALSE, misread |-> NoneMisread,
           result |-> NoResult]

\* A method's next step, its return and an exception that leaves it.
Step(pc) == task' = [task EXCEPT !.pc = pc, !.attempt = 1]
Return(ok) == task' = [task EXCEPT !.pc = "ended", !.ok = ok]
Raise == task' = [task EXCEPT !.pc = "raised"]

\* Which of them an outcome leads to.
Continue(o, pc) ==
    /\ session' = o.to
    /\ CASE o.says = "yes" -> Step(pc) [] o.says = "no" -> Return(FALSE) [] o.says = "error" -> Raise

-----------------------------------------------------------------------------
(* Barcodes: query_barcode. *)

QueryOpen ==
    /\ task.pc = "query"
    /\ \E o \in OpenReport(session) : Continue(o, "submit")
    /\ UNCHANGED <<moves, services>>

QuerySubmit ==
    /\ task.pc = "submit"
    /\ \E o \in SubmitBarcode(session, task.arg) : Continue(o, "extract")
    /\ UNCHANGED <<moves, services>>

QueryExtract ==
    /\ task.pc = "extract"
    /\ \E o \in ExtractReport(session) :
          /\ session' = o.to
          /\ task' = [task EXCEPT !.pc = "ended", !.ok = o.says = "yes",
                                  !.result.of = IF o.says = "yes" THEN session.report.of ELSE @]
    /\ UNCHANGED <<moves, services>>

-----------------------------------------------------------------------------
(* Move orders: create_transfer. *)

\* _return_to_move_list: the page shows the list, and the report's tab is gone.
ReturnToMoveList(s) ==
    IF s.browser # "open" THEN {[x EXCEPT !.needsNavigation = TRUE] : x \in Handled(s)}
    ELSE {[s EXCEPT !.needsNavigation = TRUE], [Portal(s) EXCEPT !.report = NoReport, !.needsNavigation = TRUE]}

\* fail(message): back to the list; what the CRM has taken stays there.
Fail == session' \in ReturnToMoveList(session) /\ Return(FALSE)

\* An exception in the method's body is a failure too.
Broken == session' \in Handled(session) /\ Return(FALSE)

\* The CRM takes what is sent from a page of a session it accepts, or not;
\* details and a confirmation it takes of an order it has.
Usable == session.browser = "open" /\ session.cookie
Taken(after) == {moves} \cup IF Usable THEN {after} ELSE {}
TakenOfSaved(after) == IF moves[task.call].saved THEN Taken(after) ELSE {moves}

\* To the form, with the type and the distributor filled in.
TransferForm ==
    /\ task.pc = "form"
    /\ \E o \in BeginJob(session) :
          IF o.says # "yes" THEN Continue(o, "header")
          ELSE \E back \in ReturnToMoveList(o.to) :
                  /\ session' = back
                  /\ \/ back.browser = "open" /\ back.page = "inside" /\ Step("header")
                     \/ Return(FALSE)
    /\ UNCHANGED <<moves, services>>

\* _save_transfer_header: the order's number, or any message that speaks of
\* success or of saving, "saving failed" too, says that it is saved.
SaveHeader ==
    /\ task.pc = "header"
    /\ moves' \in Taken([moves EXCEPT ![task.call].saved = TRUE])
    /\ \/ /\ session.browser = "open" /\ UNCHANGED session
          /\ task' = [task EXCEPT !.pc = "details", !.attempt = 1, !.result.saved = TRUE,
                                  !.misread.header = ~moves'[task.call].saved]
       \/ Fail \/ Broken
    /\ UNCHANGED services

\* Mutant: the attempt after which it gives up counts as one that worked.
RetryAndGoOn ==
    IF task.attempt < DetailAttempts THEN task' = [task EXCEPT !.attempt = @ + 1, !.again = TRUE] /\ UNCHANGED session
    ELSE /\ task' = [task EXCEPT !.todo = @ \ {CHOOSE d \in @ : TRUE}, !.attempt = 1]
         /\ UNCHANGED session

\* _retry_detail_action: the dialog is closed, and all begins again.
Retry ==
    IF task.attempt < DetailAttempts
    THEN task' = [task EXCEPT !.attempt = @ + 1, !.again = TRUE] /\ UNCHANGED session
    ELSE Fail

Detail == CHOOSE d \in task.todo : TRUE

\* One attempt at the next detail.  No dialog to be seen and no complaint with
\* one of the known words say that it is added, also on a login page or when
\* the page cannot be looked at any more; a dialog that stays may have added it.
AddDetail ==
    /\ task.pc = "details" /\ task.todo # {}
    /\ moves' \in TakenOfSaved([moves EXCEPT ![task.call].details[Detail] = @ + 1])
    /\ \/ /\ task' = [task EXCEPT !.todo = @ \ {Detail}, !.attempt = 1,
                                  !.misread.details = IF moves'[task.call].details[Detail] = 0
                                                      THEN @ \cup {Detail} ELSE @]
          /\ UNCHANGED session
       \/ Retry \/ Broken
    /\ UNCHANGED services

\* With every detail the order is confirmed, or left for an approval.
EndDetails ==
    /\ task.pc = "details" /\ task.todo = {}
    /\ IF task.arg = "save only" THEN session' \in ReturnToMoveList(session) /\ Return(TRUE)
       ELSE Step("confirm") /\ UNCHANGED session
    /\ UNCHANGED <<moves, services>>

\* _confirm_transfer: after a click a message of success or a missing button
\* say that it is confirmed; on a login page there is no button either, and one
\* that cannot be looked for counts as missing.
Confirm ==
    /\ task.pc = "confirm"
    /\ moves' \in TakenOfSaved([moves EXCEPT ![task.call].confirmed = TRUE])
    /\ \/ /\ session' \in ReturnToMoveList(session)
          /\ task' = [task EXCEPT !.pc = "ended", !.ok = TRUE, !.result.confirmed = TRUE,
                                  !.misread.confirm = ~moves'[task.call].confirmed]
       \/ task.attempt < ConfirmAttempts /\ task' = [task EXCEPT !.attempt = @ + 1] /\ UNCHANGED session
       \/ Fail \/ Broken
    /\ UNCHANGED services

-----------------------------------------------------------------------------
(* Service orders: close_service_orders. *)

\* _open_service_order_list: the report is closed first.  A crash is noticed
\* here and closes the browser; the next attempt starts another.
OpenServiceOrderList(s) ==
    LET listed(x) ==
          IF x.browser = "crashed" THEN To(Handled(x), "no")
          ELSE LET y == Portal(WithoutReport(x)) IN
               To({y}, "no") \cup IF y.page = "inside" THEN To({y}, "yes") ELSE {} IN
    Then(EnsureBrowser(s), listed)

CloseBegin ==
    LET listed(x) == Caught(OpenServiceOrderList(x)) IN
    /\ task.pc = "close"
    /\ \E o \in Then(BeginJob(session), listed) : Continue(o, "open")
    /\ UNCHANGED <<moves, services>>

Order == CHOOSE o \in task.todo : TRUE

\* The loop over the orders and their attempts.
NextOrder(reported) ==
    task' = [task EXCEPT !.pc = "open", !.attempt = 1, !.todo = @ \ {Order},
                         !.result.orders = IF reported THEN @ \cup {Order} ELSE @]
NextAttempt ==
    IF task.attempt < CloseAttempts THEN task' = [task EXCEPT !.pc = "open", !.attempt = @ + 1]
    ELSE NextOrder(FALSE)

\* List, search and detail page; then the order's state and the button.  An
\* exception ends the method and every order that is left.
CloseOpen ==
    /\ task.pc = "open" /\ task.todo # {}
    /\ \E o \in OpenServiceOrderList(session) :
          /\ session' = o.to
          /\ CASE o.says = "error" -> Return(FALSE) /\ UNCHANGED services
               [] o.says = "no" -> NextAttempt /\ UNCHANGED services
               [] o.says = "yes" ->
                    \/ services[Order] = "closed" /\ NextOrder(TRUE) /\ UNCHANGED services
                    \/ NextAttempt /\ UNCHANGED services
                    \/ Return(FALSE) /\ UNCHANGED services
                    \/ /\ services[Order] # "closed"
                       /\ services' \in {services, [services EXCEPT ![Order] = "closing"]}
                       /\ task' = [task EXCEPT !.pc = "wait"]
    /\ UNCHANGED moves

\* _wait_service_close_result: the state read from the page, or no luck.
CloseWait ==
    /\ task.pc = "wait"
    /\ \/ session.browser = "open" /\ services[Order] = "closed" /\ NextOrder(TRUE) /\ UNCHANGED session
       \/ NextAttempt /\ UNCHANGED session
       \/ Broken
    /\ UNCHANGED <<moves, services>>

CloseEnd ==
    /\ task.pc = "open" /\ task.todo = {}
    /\ Return(task.result.orders = ServiceOrders)
    /\ UNCHANGED <<session, moves, services>>

-----------------------------------------------------------------------------
(* What happens outside. *)

SessionChanges ==
    /\ session' \in Changed(session)
    /\ task' = [task EXCEPT !.crashed = @ \/ session'.browser = "crashed"]
    /\ UNCHANGED <<moves, services>>

CrmCloses(o) ==
    /\ services[o] = "closing"
    /\ services' = [services EXCEPT ![o] = "closed"]
    /\ UNCHANGED <<session, moves, task>>

OrderStep == QueryOpen \/ QuerySubmit \/ QueryExtract
             \/ TransferForm \/ SaveHeader \/ AddDetail \/ EndDetails \/ Confirm
             \/ CloseBegin \/ CloseOpen \/ CloseWait \/ CloseEnd

\* What a transfer leaves in the CRM, however it ends: each detail once, or as
\* often as it was tried when an attempt was repeated, and a confirmation only
\* of an order that is to be confirmed and had a yes for every detail.
OrderSound(t) ==
    LET m == moves[t.call] IN
    t.kind = "transfer" =>
        /\ \A d \in Details : m.details[d] <= IF t.again THEN DetailAttempts ELSE 1
        /\ m.confirmed => /\ t.arg # "save only"
                          /\ \A d \in Details : m.details[d] >= 1 \/ d \in t.misread.details

\* What a transfer that succeeded says is there, but for what it misread.
OrderComplete(t) ==
    LET m == moves[t.call] IN
    /\ m.saved \/ t.misread.header
    /\ \A d \in Details : m.details[d] >= 1 \/ d \in t.misread.details
    /\ t.result.confirmed => m.confirmed \/ t.misread.confirm

\* What a method reports against what the CRM holds: the saved page is that of
\* the barcode asked for and the service orders reported are closed, unless the
\* browser crashed under the method; an order is sound at any time, and
\* complete when the transfer succeeded.
TrueReport(t) ==
    /\ OrderSound(t)
    /\ t.pc = "ended" =>
          /\ t.kind = "transfer" /\ t.ok => OrderComplete(t)
          /\ t.kind = "query" /\ t.ok /\ ~t.crashed => t.result.of = t.arg
          /\ t.kind = "close" /\ ~t.crashed => \A o \in t.result.orders : services[o] = "closed"
=============================================================================
