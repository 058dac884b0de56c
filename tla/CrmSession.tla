------------------------------ MODULE CrmSession ------------------------------
(***************************************************************************)
(* The browser session of one CRM slot (CRMSession in src/app.py): the     *)
(* browser, whether it believes to be logged in, and its barcode report.   *)
(* One thread runs a session's methods one after another, so a method is   *)
(* what it may leave behind: an operator that maps the session to the set  *)
(* of its outcomes [to |-> session, says |-> answer].  Of the CRM's pages  *)
(* the model keeps what the methods look at.                               *)
(***************************************************************************)
EXTENDS Integers, FiniteSets

CONSTANTS Barcodes

NoReport == [is |-> "none", of |-> "nothing"]
Prompt == [is |-> "prompt", of |-> "nothing"]

\* page: the CRM page; report: the tab of the barcode report; cookie: the CRM
\* still accepts the session.
NoSession == [browser |-> "none", page |-> "login", report |-> NoReport, cookie |-> FALSE,
              loggedIn |-> FALSE, needsNavigation |-> TRUE]

Answers == {"yes", "no", "error"}       \* "error": the method raises
Says(outcomes, answer) == {o \in outcomes : o.says = answer}
To(outcomes, answer) == {[to |-> s, says |-> answer] : s \in outcomes}

\* What follows in a method when its first part says "yes".
Then(outcomes, Rest(_)) ==
    {o \in outcomes : o.says # "yes"} \cup UNION {Rest(o.to) : o \in Says(outcomes, "yes")}

\* The logins and the service orders report what was raised as a failure.
Caught(outcomes) == {[o EXCEPT !.says = IF @ = "error" THEN "no" ELSE @] : o \in outcomes}

-----------------------------------------------------------------------------
(* The browser. *)

\* page.url answers although the page has crashed.
Alive(s) == s.browser # "none"

\* _close_browser: closing the context of a crashed browser may raise, and
\* then everything stays.  Session cookies may go with the browser.
Closed(s) ==
    {[s EXCEPT !.browser = "none", !.report = NoReport, !.cookie = c] : c \in {s.cookie, FALSE}}
    \cup (IF s.browser = "crashed" THEN {s} ELSE {})

LoggedOut(s) == [s EXCEPT !.loggedIn = FALSE, !.needsNavigation = TRUE]
LoggedIn(s) == [s EXCEPT !.loggedIn = TRUE, !.needsNavigation = TRUE]

\* _handle_browser_exception: only a crash closes the browser.
Handled(s) == IF s.browser = "crashed" THEN {LoggedOut(x) : x \in Closed(s)} ELSE {s}

\* Where the CRM's portal takes a page: inside, or to the login form.
Portal(s) == [s EXCEPT !.page = IF s.cookie THEN "inside" ELSE "login"]

\* _ensure_browser: a browser that runs is kept, whatever its state.  The
\* launch may raise, the first page may not open.
EnsureBrowser(s) ==
    IF Alive(s) THEN To({s}, "yes")
    ELSE LET open == Portal([s EXCEPT !.browser = "open"]) IN
         {[to |-> IF s.cookie THEN LoggedIn(open) ELSE [open EXCEPT !.loggedIn = FALSE], says |-> "yes"],
          [to |-> [open EXCEPT !.page = "login"], says |-> "no"],
          [to |-> s, says |-> "error"]}

\* The answers of _is_current_page_logged_in, which looks for words: on the
\* report's tab they may or may not be there.
LooksLoggedIn(s) ==
    IF s.browser # "open" THEN {FALSE}
    ELSE IF s.report # NoReport THEN BOOLEAN
    ELSE {s.page = "inside"}

-----------------------------------------------------------------------------
(* Logging in and out. *)

\* _reset_unfinished_login: a half finished login starts over in a new browser.
ResetUnfinishedLogin(s) ==
    IF ~Alive(s) THEN To({LoggedOut(s)}, "no")
    ELSE UNION {IF seen THEN To({[s EXCEPT !.loggedIn = TRUE]}, "yes")
                ELSE To({LoggedOut(x) : x \in Closed(s)}, "no") : seen \in LooksLoggedIn(s)}

\* What the page shows when the account, the password and the button that
\* sends the captcha have been tried; each of them is skipped when it raises.
FormSent(s) ==
    {s} \cup IF s.browser = "crashed" THEN {}
             ELSE {[s EXCEPT !.page = "captcha"], [s EXCEPT !.page = "inside", !.cookie = TRUE]}

\* login_step1: the field for the captcha, or the portal, or a failure.
\* Whatever raises is a failure, and a crash is not noticed.
FillLoginForm(s) ==
    UNION {CASE x.browser = "crashed" \/ x.page = "login" -> To({x}, "no")
             [] x.page = "captcha" -> To({x}, "yes") \cup To({x}, "no")
             [] x.page = "inside" -> To({LoggedIn(x)}, "yes") \cup To({x}, "no") : x \in FormSent(s)}

\* login, which is called without a captcha: an address without "login" is
\* taken for a login, and it says yes whatever it finds.
FillLoginFormOnce(s) ==
    To({IF x.page = "inside" THEN [x EXCEPT !.loggedIn = TRUE] ELSE x : x \in FormSent(s)}, "yes")

\* Both first look whether the slot is logged in, before and after the
\* browser is there.
Login(s, Fill(_)) ==
    LET opened == UNION {EnsureBrowser(o.to) : o \in Says(ResetUnfinishedLogin(s), "no")}
        filled(x) == UNION {IF seen THEN To({[x EXCEPT !.loggedIn = TRUE]}, "yes") ELSE Fill(x)
                              : seen \in LooksLoggedIn(x)} IN
    Says(ResetUnfinishedLogin(s), "yes") \cup Then(opened, filled)

LoginStep1(s) == Login(s, FillLoginForm)
LoginOnce(s) == Login(s, FillLoginFormOnce)

\* login_step2: without the captcha's field it waits to find itself logged in.
LoginStep2(s) ==
    LET submitted(x) ==
          IF x.browser = "open" /\ x.page = "captcha"
          THEN To({LoggedIn([x EXCEPT !.page = "inside", !.cookie = TRUE])}, "yes") \cup To({x}, "no")
          ELSE UNION {IF seen THEN To({LoggedIn(x)}, "yes") ELSE To({x}, "no") : seen \in LooksLoggedIn(x)} IN
    Then(EnsureBrowser(s), submitted)

Logout(s) == To({LoggedOut(x) : x \in Closed(s)}, "yes")

CancelLogin(s) ==
    To(IF s.loggedIn THEN {s} ELSE {[x EXCEPT !.needsNavigation = TRUE] : x \in Closed(s)}, "yes")

\* Only this finds out that the CRM has ended the session, and only when the
\* page shows it.
CheckLoginStatus(s) ==
    LET looked(x) ==
          IF x.page # "inside" /\ x.report = NoReport THEN To({[x EXCEPT !.loggedIn = FALSE]}, "no")
          ELSE UNION {To({[x EXCEPT !.loggedIn = seen]}, IF seen THEN "yes" ELSE "no")
                        : seen \in LooksLoggedIn(x)} IN
    Then(EnsureBrowser(s), looked)

\* The browser goes, the flag stays: it is remembered for the next start.
Shutdown(s) == To(Closed(s), "yes")

-----------------------------------------------------------------------------
(* The barcode report: query_barcode. *)

\* _close_query_report_pages_locked.
WithoutReport(s) ==
    IF s.report = NoReport \/ s.browser # "open" THEN s
    ELSE [s EXCEPT !.report = NoReport, !.needsNavigation = TRUE]

CloseIdleReportTabs(s) ==
    To({s}, "no") \cup IF WithoutReport(s) = s THEN {} ELSE To({WithoutReport(s)}, "yes")

\* How every job on a session begins.
BeginJob(s) ==
    LET checked(x) ==
          UNION {To({x}, IF x.loggedIn \/ seen THEN "yes" ELSE "no") : seen \in LooksLoggedIn(x)} IN
    Then(EnsureBrowser(s), checked)

\* prepare_next_report navigates and opens the report.  It swallows what is
\* raised: a crash or an expired login only says that there is no report.
PrepareNextReport(s) ==
    To({s, IF s.browser = "open" THEN Portal(s) ELSE s}, "no")
    \cup IF s.browser = "open" /\ s.cookie
         THEN To({[s EXCEPT !.report = Prompt, !.page = "inside"]}, "yes") ELSE {}

\* An exception: after a crash the browser is closed, otherwise the report.
QueryFailed(s) ==
    To(IF s.browser = "crashed" THEN Handled(s)
       ELSE {WithoutReport([s EXCEPT !.needsNavigation = TRUE])}, "no")

\* From the start to the field for the barcode: reuse the report's tab, reload
\* it, or close it and open the report again.
OpenReport(s) ==
    LET known(x) == [x EXCEPT !.needsNavigation = FALSE]
        again(x) == PrepareNextReport([x EXCEPT !.needsNavigation = TRUE])
        navigated(x) ==
          IF ~x.needsNavigation THEN To({x}, "yes")
          ELSE Then(PrepareNextReport(x), LAMBDA y : To({known(y)}, "yes"))
        switched(x) ==
          IF x.report # NoReport THEN To({x}, "yes")
          ELSE Then(again(x), LAMBDA y : To({known(y)}, "yes"))
        found(x) ==
          IF x.report = Prompt THEN To({x}, "yes")
          ELSE (IF x.browser = "open" THEN To({[x EXCEPT !.report = Prompt]}, "yes") ELSE {})
               \cup again([x EXCEPT !.report = NoReport])
        usable(x) == (IF x.browser = "open" THEN Then(switched(x), found) ELSE {}) \cup QueryFailed(x)
        fresh(x) == To({x, WithoutReport(x)}, "yes")
        body(x) == Then(Then(To({x}, "yes"), fresh), LAMBDA y : Then(navigated(y), usable)) IN
    Then(BeginJob(s), body)

\* The barcode goes to the CRM, unless nothing to submit it with is found.
SubmitBarcode(s, b) ==
    QueryFailed(s)
    \cup IF s.browser = "open"
         THEN To({s}, "no") \cup To({[s EXCEPT !.report = [is |-> "busy", of |-> b]]}, "yes")
         ELSE {}

\* What is there after a minute counts.  A crash looks like an empty result.
ExtractReport(s) ==
    IF s.browser = "open" /\ s.report.is = "data"
    THEN To({[s EXCEPT !.needsNavigation = FALSE]}, "yes")
    ELSE To({WithoutReport([s EXCEPT !.needsNavigation = TRUE])}, "no")

-----------------------------------------------------------------------------
(* What happens to a session from outside. *)

\* The CRM ends the session; the browser crashes; the report arrives.
Changed(s) ==
    {[s EXCEPT !.cookie = FALSE]}
    \cup (IF s.browser = "open" THEN {[s EXCEPT !.browser = "crashed"]} ELSE {})
    \cup (IF s.browser = "open" /\ s.report.is = "busy"
          THEN {[s EXCEPT !.report.is = a] : a \in {"data", "error"}} ELSE {})

Sessions ==
    [browser : {"none", "open", "crashed"}, page : {"login", "captcha", "inside"},
     report : {NoReport, Prompt} \cup [is : {"busy", "data", "error"}, of : Barcodes],
     cookie : BOOLEAN, loggedIn : BOOLEAN, needsNavigation : BOOLEAN]
=============================================================================
