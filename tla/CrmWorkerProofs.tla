--------------------------- MODULE CrmWorkerProofs ---------------------------
(***************************************************************************)
(* Proofs about CrmWorker, for any barcodes, details and service orders    *)
(* and any number of calls and attempts.                                   *)
(***************************************************************************)
EXTENDS CrmWorker, FiniteSetTheorems, TLAPS

USE CrmOrdersAssumption

-----------------------------------------------------------------------------
(* The session's methods leave a session.                                  *)

Outcomes == [to : Sessions, says : Answers]

Reports == {NoReport, Prompt} \cup [is : {"busy", "data", "error"}, of : Barcodes]

LEMMA SessionFields ==
  ASSUME NEW s \in Sessions
  PROVE  /\ s.browser \in {"none", "open", "crashed"} /\ s.page \in {"login", "captcha", "inside"}
         /\ s.report \in Reports /\ s.cookie \in BOOLEAN /\ s.loggedIn \in BOOLEAN
         /\ s.needsNavigation \in BOOLEAN
BY DEF Sessions, Reports

LEMMA SessionWritten ==
  ASSUME NEW s \in Sessions
  PROVE  /\ \A v \in {"none", "open", "crashed"} : [s EXCEPT !.browser = v] \in Sessions
         /\ \A v \in {"login", "captcha", "inside"} : [s EXCEPT !.page = v] \in Sessions
         /\ \A v \in Reports : [s EXCEPT !.report = v] \in Sessions
         /\ \A v \in BOOLEAN : [s EXCEPT !.cookie = v] \in Sessions
         /\ \A v \in BOOLEAN : [s EXCEPT !.loggedIn = v] \in Sessions
         /\ \A v \in BOOLEAN : [s EXCEPT !.needsNavigation = v] \in Sessions
BY DEF Sessions, Reports

LEMMA ClosedTyped == ASSUME NEW s \in Sessions PROVE Closed(s) \subseteq Sessions
<1> SUFFICES ASSUME NEW x \in Closed(s) PROVE x \in Sessions
  OBVIOUS
<1>1. CASE x = s
  BY <1>1
<1>2. CASE x # s
  <2>1. PICK c \in {s.cookie, FALSE} :
          x = [s EXCEPT !.browser = "none", !.report = NoReport, !.cookie = c]
    BY <1>2 DEF Closed
  <2>2. c \in BOOLEAN
    BY <2>1, SessionFields
  <2> QED
    BY <2>1, <2>2 DEF Sessions
<1> QED
  BY <1>1, <1>2

LEMMA FlagsTyped == ASSUME NEW s \in Sessions
                    PROVE LoggedOut(s) \in Sessions /\ LoggedIn(s) \in Sessions /\ Portal(s) \in Sessions
BY DEF LoggedOut, LoggedIn, Portal, Sessions

LEMMA HandledTyped == ASSUME NEW s \in Sessions PROVE Handled(s) \subseteq Sessions
BY ClosedTyped, FlagsTyped DEF Handled

LEMMA ToTyped == ASSUME NEW S \in SUBSET Sessions, NEW a \in Answers PROVE To(S, a) \subseteq Outcomes
BY DEF To, Outcomes

LEMMA OutcomeTyped ==
  ASSUME NEW s \in Sessions, NEW a \in Answers
  PROVE  /\ [to |-> s, says |-> a] \in Outcomes
         /\ [to |-> s, says |-> a].to = s /\ [to |-> s, says |-> a].says = a
BY DEF Outcomes

LEMMA OutcomeFields == ASSUME NEW o \in Outcomes PROVE o.to \in Sessions /\ o.says \in Answers
BY DEF Outcomes

LEMMA EnsureBrowserTyped == ASSUME NEW s \in Sessions PROVE EnsureBrowser(s) \subseteq Outcomes
<1> DEFINE open == Portal([s EXCEPT !.browser = "open"])
           in == LoggedIn(open)
           out == [open EXCEPT !.loggedIn = FALSE]
           lost == [open EXCEPT !.page = "login"]
<1>1. open \in Sessions
  BY FlagsTyped, SessionWritten
<1> HIDE DEF open
<1>2. in \in Sessions /\ out \in Sessions /\ lost \in Sessions
  BY <1>1, FlagsTyped, SessionWritten
<1>3. ASSUME NEW o \in EnsureBrowser(s)
      PROVE  \E x \in {s, in, out, lost}, a \in Answers : o = [to |-> x, says |-> a]
  BY <1>3 DEF EnsureBrowser, To, Answers, open
<1> HIDE DEF in, out, lost
<1> QED
  BY <1>2, <1>3, OutcomeTyped

LEMMA LooksTyped == ASSUME NEW s \in Sessions PROVE LooksLoggedIn(s) \subseteq BOOLEAN
BY DEF LooksLoggedIn

LEMMA ResetTyped == ASSUME NEW s \in Sessions PROVE ResetUnfinishedLogin(s) \subseteq Outcomes
<1> DEFINE still == [s EXCEPT !.loggedIn = TRUE]
           gone == {LoggedOut(x) : x \in Closed(s)}
<1>1. still \in Sessions /\ LoggedOut(s) \in Sessions /\ gone \in SUBSET Sessions
  BY SessionWritten, FlagsTyped, ClosedTyped
<1>2. \A o \in ResetUnfinishedLogin(s) : o \in To({LoggedOut(s)}, "no") \cup To({still}, "yes") \cup To(gone, "no")
  BY DEF ResetUnfinishedLogin
<1> HIDE DEF still, gone
<1>3. /\ To({LoggedOut(s)}, "no") \subseteq Outcomes /\ To({still}, "yes") \subseteq Outcomes
      /\ To(gone, "no") \subseteq Outcomes
  BY <1>1, ToTyped DEF Answers
<1> QED
  BY <1>2, <1>3

LEMMA FormSentTyped == ASSUME NEW s \in Sessions PROVE FormSent(s) \subseteq Sessions
<1> DEFINE captcha == [s EXCEPT !.page = "captcha"]
           inside == [s EXCEPT !.page = "inside"]
           in == [inside EXCEPT !.cookie = TRUE]
<1>1. captcha \in Sessions /\ inside \in Sessions
  BY SessionWritten
<1>2. FormSent(s) \subseteq {s, captcha, in}
  BY DEF FormSent, Sessions
<1> HIDE DEF captcha, inside
<1>3. in \in Sessions
  BY <1>1, SessionWritten
<1> HIDE DEF in
<1> QED
  BY <1>1, <1>2, <1>3

LEMMA FillLoginFormTyped == ASSUME NEW s \in Sessions PROVE FillLoginForm(s) \subseteq Outcomes
<1> SUFFICES ASSUME NEW o \in FillLoginForm(s) PROVE o \in Outcomes
  OBVIOUS
<1>1. PICK x \in FormSent(s) : o \in CASE x.browser = "crashed" \/ x.page = "login" -> To({x}, "no")
                                       [] x.page = "captcha" -> To({x}, "yes") \cup To({x}, "no")
                                       [] x.page = "inside" -> To({LoggedIn(x)}, "yes") \cup To({x}, "no")
  BY DEF FillLoginForm
<1>2. x \in Sessions /\ LoggedIn(x) \in Sessions
  BY FormSentTyped, FlagsTyped
<1>3. o \in To({x}, "yes") \cup To({x}, "no") \cup To({LoggedIn(x)}, "yes")
  BY <1>1, <1>2, SessionFields
<1>4. To({x}, "yes") \subseteq Outcomes /\ To({x}, "no") \subseteq Outcomes /\ To({LoggedIn(x)}, "yes") \subseteq Outcomes
  BY <1>2, ToTyped DEF Answers
<1> QED
  BY <1>3, <1>4

LEMMA FillLoginFormOnceTyped == ASSUME NEW s \in Sessions PROVE FillLoginFormOnce(s) \subseteq Outcomes
<1> DEFINE after == {IF x.page = "inside" THEN [x EXCEPT !.loggedIn = TRUE] ELSE x : x \in FormSent(s)}
<1>1. after \in SUBSET Sessions
  BY FormSentTyped, SessionWritten
<1>2. FillLoginFormOnce(s) = To(after, "yes")
  BY DEF FillLoginFormOnce
<1> HIDE DEF after
<1> QED
  BY <1>1, <1>2, ToTyped DEF Answers

\* What both logins do before they fill in the form.
LEMMA LoginStep1Typed == ASSUME NEW s \in Sessions PROVE LoginStep1(s) \subseteq Outcomes
<1> DEFINE opened == UNION {EnsureBrowser(o.to) : o \in Says(ResetUnfinishedLogin(s), "no")}
           filled(x) == UNION {IF seen THEN To({[x EXCEPT !.loggedIn = TRUE]}, "yes") ELSE FillLoginForm(x)
                                 : seen \in LooksLoggedIn(x)}
<1>1. opened \subseteq Outcomes
  BY ResetTyped, EnsureBrowserTyped, OutcomeFields DEF Says
<1>2. ASSUME NEW x \in Sessions PROVE filled(x) \subseteq Outcomes
  <2> DEFINE seen == [x EXCEPT !.loggedIn = TRUE]
  <2>1. seen \in Sessions
    BY SessionWritten
  <2>2. filled(x) \subseteq To({seen}, "yes") \cup FillLoginForm(x)
    OBVIOUS
  <2> HIDE DEF seen
  <2>3. To({seen}, "yes") \subseteq Outcomes
    BY <2>1, ToTyped DEF Answers
  <2> QED
    BY <2>2, <2>3, FillLoginFormTyped
<1>3. ASSUME NEW o \in LoginStep1(s)
      PROVE  o \in ResetUnfinishedLogin(s) \/ o \in opened \/ \E p \in opened : o \in filled(p.to)
  BY <1>3 DEF LoginStep1, Login, Then, Says
<1> HIDE DEF opened, filled
<1> QED
  BY <1>1, <1>2, <1>3, ResetTyped, OutcomeFields

LEMMA LoginOnceTyped == ASSUME NEW s \in Sessions PROVE LoginOnce(s) \subseteq Outcomes
<1> DEFINE opened == UNION {EnsureBrowser(o.to) : o \in Says(ResetUnfinishedLogin(s), "no")}
           filled(x) == UNION {IF seen THEN To({[x EXCEPT !.loggedIn = TRUE]}, "yes") ELSE FillLoginFormOnce(x)
                                 : seen \in LooksLoggedIn(x)}
<1>1. opened \subseteq Outcomes
  BY ResetTyped, EnsureBrowserTyped, OutcomeFields DEF Says
<1>2. ASSUME NEW x \in Sessions PROVE filled(x) \subseteq Outcomes
  <2> DEFINE seen == [x EXCEPT !.loggedIn = TRUE]
  <2>1. seen \in Sessions
    BY SessionWritten
  <2>2. filled(x) \subseteq To({seen}, "yes") \cup FillLoginFormOnce(x)
    OBVIOUS
  <2> HIDE DEF seen
  <2>3. To({seen}, "yes") \subseteq Outcomes
    BY <2>1, ToTyped DEF Answers
  <2> QED
    BY <2>2, <2>3, FillLoginFormOnceTyped
<1>3. ASSUME NEW o \in LoginOnce(s)
      PROVE  o \in ResetUnfinishedLogin(s) \/ o \in opened \/ \E p \in opened : o \in filled(p.to)
  BY <1>3 DEF LoginOnce, Login, Then, Says
<1> HIDE DEF opened, filled
<1> QED
  BY <1>1, <1>2, <1>3, ResetTyped, OutcomeFields

LEMMA LoginStep2Typed == ASSUME NEW s \in Sessions PROVE LoginStep2(s) \subseteq Outcomes
<1> DEFINE inside(x) == LoggedIn([x EXCEPT !.page = "inside", !.cookie = TRUE])
           submitted(x) ==
             IF x.browser = "open" /\ x.page = "captcha"
             THEN To({inside(x)}, "yes") \cup To({x}, "no")
             ELSE UNION {IF seen THEN To({LoggedIn(x)}, "yes") ELSE To({x}, "no") : seen \in LooksLoggedIn(x)}
<1>1. ASSUME NEW x \in Sessions PROVE submitted(x) \subseteq Outcomes
  <2>1. [x EXCEPT !.page = "inside", !.cookie = TRUE] \in Sessions
    BY DEF Sessions
  <2>2. inside(x) \in Sessions /\ LoggedIn(x) \in Sessions
    BY <2>1, FlagsTyped
  <2>3. submitted(x) \subseteq To({inside(x)}, "yes") \cup To({x}, "no") \cup To({LoggedIn(x)}, "yes")
    OBVIOUS
  <2> HIDE DEF inside, submitted
  <2>4. /\ To({inside(x)}, "yes") \subseteq Outcomes /\ To({x}, "no") \subseteq Outcomes
        /\ To({LoggedIn(x)}, "yes") \subseteq Outcomes
    BY <2>2, ToTyped DEF Answers
  <2> QED
    BY <2>3, <2>4
<1>2. ASSUME NEW o \in LoginStep2(s)
      PROVE  o \in EnsureBrowser(s) \/ \E p \in EnsureBrowser(s) : o \in submitted(p.to)
  BY <1>2 DEF LoginStep2, Then, Says
<1> HIDE DEF submitted
<1> QED
  BY <1>1, <1>2, EnsureBrowserTyped, OutcomeFields

LEMMA CaughtTyped == ASSUME NEW O \in SUBSET Outcomes PROVE Caught(O) \subseteq Outcomes
BY DEF Caught, Outcomes, Answers

LEMMA EndingsTyped ==
  ASSUME NEW s \in Sessions
  PROVE  Logout(s) \subseteq Outcomes /\ CancelLogin(s) \subseteq Outcomes /\ Shutdown(s) \subseteq Outcomes
<1>1. Logout(s) \subseteq Outcomes
  <2> DEFINE S == {LoggedOut(x) : x \in Closed(s)}
  <2>1. S \in SUBSET Sessions
    BY ClosedTyped, FlagsTyped
  <2> HIDE DEF S
  <2> QED
    BY <2>1, ToTyped DEF Logout, Answers, S
<1>2. CancelLogin(s) \subseteq Outcomes
  <2> DEFINE S == IF s.loggedIn THEN {s} ELSE {[x EXCEPT !.needsNavigation = TRUE] : x \in Closed(s)}
  <2>1. S \in SUBSET Sessions
    BY ClosedTyped, SessionWritten
  <2>2. CancelLogin(s) = To(S, "yes")
    BY DEF CancelLogin
  <2> HIDE DEF S
  <2> QED
    BY <2>1, <2>2, ToTyped DEF Answers
<1>3. Shutdown(s) \subseteq Outcomes
  BY ClosedTyped, ToTyped DEF Shutdown, Answers
<1> QED
  BY <1>1, <1>2, <1>3

LEMMA CheckLoginStatusTyped == ASSUME NEW s \in Sessions PROVE CheckLoginStatus(s) \subseteq Outcomes
<1> DEFINE looked(x) ==
             IF x.page # "inside" /\ x.report = NoReport THEN To({[x EXCEPT !.loggedIn = FALSE]}, "no")
             ELSE UNION {To({[x EXCEPT !.loggedIn = seen]}, IF seen THEN "yes" ELSE "no")
                           : seen \in LooksLoggedIn(x)}
<1>1. ASSUME NEW x \in Sessions PROVE looked(x) \subseteq Outcomes
  <2> DEFINE in == [x EXCEPT !.loggedIn = TRUE]
             out == [x EXCEPT !.loggedIn = FALSE]
  <2>1. in \in Sessions /\ out \in Sessions
    BY SessionWritten
  <2>2. looked(x) \subseteq To({out}, "no") \cup To({in}, "yes")
    BY LooksTyped
  <2> HIDE DEF in, out, looked
  <2>3. To({out}, "no") \subseteq Outcomes /\ To({in}, "yes") \subseteq Outcomes
    BY <2>1, ToTyped DEF Answers
  <2> QED
    BY <2>2, <2>3
<1>2. ASSUME NEW o \in CheckLoginStatus(s)
      PROVE  o \in EnsureBrowser(s) \/ \E p \in EnsureBrowser(s) : o \in looked(p.to)
  BY <1>2 DEF CheckLoginStatus, Then, Says
<1> HIDE DEF looked
<1> QED
  BY <1>1, <1>2, EnsureBrowserTyped, OutcomeFields

LEMMA WithoutReportTyped == ASSUME NEW s \in Sessions PROVE WithoutReport(s) \in Sessions
BY DEF WithoutReport, Sessions

LEMMA CloseIdleTyped == ASSUME NEW s \in Sessions PROVE CloseIdleReportTabs(s) \subseteq Outcomes
<1> DEFINE closed == WithoutReport(s)
<1>1. closed \in Sessions
  BY WithoutReportTyped
<1>2. CloseIdleReportTabs(s) \subseteq To({s}, "no") \cup To({closed}, "yes")
  BY DEF CloseIdleReportTabs
<1> HIDE DEF closed
<1> QED
  BY <1>1, <1>2, ToTyped DEF Answers

LEMMA BeginJobTyped == ASSUME NEW s \in Sessions PROVE BeginJob(s) \subseteq Outcomes
<1> DEFINE checked(x) ==
             UNION {To({x}, IF x.loggedIn \/ seen THEN "yes" ELSE "no") : seen \in LooksLoggedIn(x)}
<1>1. ASSUME NEW x \in Sessions PROVE checked(x) \subseteq Outcomes
  <2>1. checked(x) \subseteq To({x}, "yes") \cup To({x}, "no")
    OBVIOUS
  <2>2. To({x}, "yes") \subseteq Outcomes /\ To({x}, "no") \subseteq Outcomes
    BY ToTyped DEF Answers
  <2> QED
    BY <2>1, <2>2
<1>2. ASSUME NEW o \in BeginJob(s)
      PROVE  o \in EnsureBrowser(s) \/ \E p \in EnsureBrowser(s) : o \in checked(p.to)
  BY <1>2 DEF BeginJob, Then, Says
<1> HIDE DEF checked
<1> QED
  BY <1>1, <1>2, EnsureBrowserTyped, OutcomeFields

LEMMA PrepareTyped == ASSUME NEW s \in Sessions PROVE PrepareNextReport(s) \subseteq Outcomes
<1> DEFINE S == {s, IF s.browser = "open" THEN Portal(s) ELSE s}
           ready == [s EXCEPT !.report = Prompt, !.page = "inside"]
<1>1. S \in SUBSET Sessions
  BY FlagsTyped
<1>2. ready \in Sessions
  BY DEF Sessions
<1>3. PrepareNextReport(s) \subseteq To(S, "no") \cup To({ready}, "yes")
  BY DEF PrepareNextReport
<1> HIDE DEF S, ready
<1>4. To(S, "no") \subseteq Outcomes /\ To({ready}, "yes") \subseteq Outcomes
  BY <1>1, <1>2, ToTyped DEF Answers
<1> QED
  BY <1>3, <1>4

LEMMA QueryFailedTyped == ASSUME NEW s \in Sessions PROVE QueryFailed(s) \subseteq Outcomes
<1> DEFINE x == [s EXCEPT !.needsNavigation = TRUE]
           S == IF s.browser = "crashed" THEN Handled(s) ELSE {WithoutReport(x)}
<1>1. x \in Sessions
  BY SessionWritten
<1> HIDE DEF x
<1>2. S \in SUBSET Sessions
  BY <1>1, HandledTyped, WithoutReportTyped
<1>3. QueryFailed(s) = To(S, "no")
  BY DEF QueryFailed, x
<1> HIDE DEF S
<1> QED
  BY <1>2, <1>3, ToTyped DEF Answers

LEMMA OpenReportTyped == ASSUME NEW s \in Sessions PROVE OpenReport(s) \subseteq Outcomes
<1> DEFINE known(x) == [x EXCEPT !.needsNavigation = FALSE]
           again(x) == PrepareNextReport([x EXCEPT !.needsNavigation = TRUE])
           navigated(x) ==
             IF ~x.needsNavigation THEN To({x}, "yes")
             ELSE Then(PrepareNextReport(x), LAMBDA y : To({known(y)}, "yes"))
           switched(x) ==
             IF x.report # NoReport THEN To({x}, "yes")
             ELSE Then(again(x), LAMBDA y : To({known(y)}, "yes"))
           found(x) ==
             IF x.report = Prompt THEN To({x}, "yes")
             ELSE (IF x.browser = "open" THEN To({[x EXCEPT !.report = Prompt]}, "yes") ELSE {})
                  \cup again([x EXCEPT !.report = NoReport])
           usable(x) == (IF x.browser = "open" THEN Then(switched(x), found) ELSE {}) \cup QueryFailed(x)
           fresh(x) == To({x, WithoutReport(x)}, "yes")
           body(x) == Then(Then(To({x}, "yes"), fresh), LAMBDA y : Then(navigated(y), usable))
<1>1. ASSUME NEW x \in Sessions PROVE To({known(x)}, "yes") \subseteq Outcomes /\ To({x}, "yes") \subseteq Outcomes
  <2>1. known(x) \in Sessions
    BY SessionWritten
  <2> HIDE DEF known
  <2> QED
    BY <2>1, ToTyped DEF Answers
<1>2. ASSUME NEW x \in Sessions PROVE again(x) \subseteq Outcomes
  <2> DEFINE y == [x EXCEPT !.needsNavigation = TRUE]
  <2>1. y \in Sessions
    BY SessionWritten
  <2> HIDE DEF y
  <2>2. PrepareNextReport(y) \subseteq Outcomes
    BY <2>1, PrepareTyped
  <2> QED
    BY <2>2 DEF y
<1>3. ASSUME NEW x \in Sessions PROVE navigated(x) \subseteq Outcomes
  <2>1. ASSUME NEW o \in navigated(x)
        PROVE  o \in To({x}, "yes") \/ o \in PrepareNextReport(x)
               \/ \E p \in PrepareNextReport(x) : o \in To({known(p.to)}, "yes")
    BY <2>1 DEF Then, Says
  <2> HIDE DEF known, navigated
  <2> QED
    BY <1>1, <2>1, PrepareTyped, OutcomeFields
<1>4. ASSUME NEW x \in Sessions PROVE switched(x) \subseteq Outcomes
  <2>1. ASSUME NEW o \in switched(x)
        PROVE  o \in To({x}, "yes") \/ o \in again(x) \/ \E p \in again(x) : o \in To({known(p.to)}, "yes")
    BY <2>1 DEF Then, Says
  <2> HIDE DEF known, switched, again
  <2> QED
    BY <1>1, <1>2, <2>1, OutcomeFields
<1>5. ASSUME NEW x \in Sessions PROVE found(x) \subseteq Outcomes
  <2> DEFINE p == [x EXCEPT !.report = Prompt]
             n == [x EXCEPT !.report = NoReport]
  <2>1. p \in Sessions /\ n \in Sessions
    BY SessionWritten DEF Reports
  <2>2. found(x) \subseteq To({x}, "yes") \cup To({p}, "yes") \cup again(n)
    OBVIOUS
  <2> HIDE DEF p, n, again, found
  <2>3. again(n) \subseteq Outcomes /\ To({p}, "yes") \subseteq Outcomes
    BY <1>1, <1>2, <2>1
  <2> QED
    BY <1>1, <2>2, <2>3
<1>6. ASSUME NEW x \in Sessions PROVE usable(x) \subseteq Outcomes
  <2>1. ASSUME NEW o \in usable(x)
        PROVE  o \in QueryFailed(x) \/ o \in switched(x) \/ \E p \in switched(x) : o \in found(p.to)
    BY ZenonT(40), <2>1 DEF Then, Says
  <2> HIDE DEF found, switched, usable
  <2> QED
    BY <1>4, <1>5, <2>1, QueryFailedTyped, OutcomeFields
<1>7. ASSUME NEW x \in Sessions PROVE fresh(x) \subseteq Outcomes
  <2> DEFINE S == {x, WithoutReport(x)}
  <2>1. S \in SUBSET Sessions
    BY WithoutReportTyped
  <2> HIDE DEF S
  <2>2. To(S, "yes") \subseteq Outcomes
    BY <2>1, ToTyped DEF Answers
  <2> QED
    BY <2>2 DEF S
<1>8. ASSUME NEW x \in Sessions PROVE body(x) \subseteq Outcomes
  <2> DEFINE first == Then(To({x}, "yes"), fresh)
             second(y) == Then(navigated(y), usable)
  <2>1. ASSUME NEW o \in first PROVE o \in To({x}, "yes") \/ \E p \in To({x}, "yes") : o \in fresh(p.to)
    BY <2>1 DEF Then, Says
  <2>2. ASSUME NEW y \in Sessions, NEW o \in second(y)
        PROVE  o \in navigated(y) \/ \E p \in navigated(y) : o \in usable(p.to)
    BY <2>2 DEF Then, Says
  <2>3. ASSUME NEW o \in body(x) PROVE o \in first \/ \E p \in first : o \in second(p.to)
    BY <2>3 DEF Then, Says
  <2> HIDE DEF first, second, fresh, navigated, usable, body
  <2>4. first \subseteq Outcomes
    BY <1>1, <1>7, <2>1, OutcomeFields
  <2>5. ASSUME NEW y \in Sessions PROVE second(y) \subseteq Outcomes
    BY <1>3, <1>6, <2>2, <2>5, OutcomeFields
  <2> QED
    BY <2>3, <2>4, <2>5, OutcomeFields
<1>9. ASSUME NEW o \in OpenReport(s)
      PROVE  o \in BeginJob(s) \/ \E p \in BeginJob(s) : o \in body(p.to)
  BY <1>9 DEF OpenReport, Then, Says
<1> HIDE DEF body
<1> QED
  BY <1>8, <1>9, BeginJobTyped, OutcomeFields

LEMMA SubmitBarcodeTyped ==
  ASSUME NEW s \in Sessions, NEW b \in Barcodes
  PROVE  /\ SubmitBarcode(s, b) \subseteq Outcomes
         /\ \A o \in SubmitBarcode(s, b) :
              o.says = "yes" => o.to.report = [is |-> "busy", of |-> b] /\ o.to.browser = "open"
<1> DEFINE busy == [is |-> "busy", of |-> b]
           x == [s EXCEPT !.report = busy]
<1>1. busy \in Reports
  BY DEF Reports
<1>2. SubmitBarcode(s, b) \subseteq QueryFailed(s) \cup (IF s.browser = "open" THEN To({s}, "no") \cup To({x}, "yes") ELSE {})
  BY DEF SubmitBarcode
<1> HIDE DEF busy
<1>3. x \in Sessions /\ x.report = busy /\ x.browser = s.browser
  <2>1. x \in Sessions
    BY <1>1, SessionWritten
  <2>2. x.report = busy /\ x.browser = s.browser
    BY DEF Sessions
  <2> QED
    BY <2>1, <2>2
<1> HIDE DEF x
<1>4. To({s}, "no") \subseteq Outcomes /\ To({x}, "yes") \subseteq Outcomes
  BY <1>3, ToTyped DEF Answers
<1>5. \A o \in To({s}, "no") : o.says # "yes"
  BY DEF To
<1>6. \A o \in To({x}, "yes") : o.to = x
  BY DEF To
<1>7. \A o \in QueryFailed(s) : o.says # "yes"
  BY DEF QueryFailed, To
<1>8. SubmitBarcode(s, b) \subseteq Outcomes
  BY <1>2, <1>4, QueryFailedTyped
<1>9. ASSUME NEW o \in SubmitBarcode(s, b), o.says = "yes" PROVE o.to = x /\ s.browser = "open"
  BY <1>2, <1>5, <1>6, <1>7, <1>9
<1> QED
  BY <1>3, <1>8, <1>9 DEF busy

LEMMA ExtractReportTyped ==
  ASSUME NEW s \in Sessions
  PROVE  ExtractReport(s) \subseteq Outcomes /\ \A o \in ExtractReport(s) : o.says = "yes" => s.report.is = "data"
<1> DEFINE x == [s EXCEPT !.needsNavigation = FALSE]
           y == [s EXCEPT !.needsNavigation = TRUE]
           z == WithoutReport(y)
<1>1. x \in Sessions /\ y \in Sessions
  BY SessionWritten
<1>2. ExtractReport(s) = IF s.browser = "open" /\ s.report.is = "data" THEN To({x}, "yes") ELSE To({z}, "no")
  BY DEF ExtractReport
<1> HIDE DEF x, y
<1>3. z \in Sessions
  BY <1>1, WithoutReportTyped
<1> HIDE DEF z
<1>4. To({x}, "yes") \subseteq Outcomes /\ To({z}, "no") \subseteq Outcomes
  BY <1>1, <1>3, ToTyped DEF Answers
<1>5. \A o \in To({z}, "no") : o.says # "yes"
  BY DEF To
<1> QED
  BY <1>2, <1>4, <1>5

\* What happens to a session from outside: it keeps its belief and its
\* browser, and the barcode a report is about.
LEMMA ChangedTyped ==
  ASSUME NEW s \in Sessions, NEW x \in Changed(s)
  PROVE  /\ x \in Sessions /\ x.loggedIn = s.loggedIn /\ (Alive(s) => Alive(x))
         /\ s.report.is \in {"busy", "data", "error"} =>
              x.report.is \in {"busy", "data", "error"} /\ x.report.of = s.report.of
         /\ x.browser # "crashed" => x.browser = s.browser
<1>1. CASE x = [s EXCEPT !.cookie = FALSE]
  BY <1>1 DEF Sessions, Alive
<1>2. CASE x = [s EXCEPT !.browser = "crashed"] /\ s.browser = "open"
  BY <1>2 DEF Sessions, Alive
<1>3. CASE /\ s.browser = "open" /\ s.report.is = "busy"
           /\ \E a \in {"data", "error"} : x = [s EXCEPT !.report.is = a]
  <2>1. PICK a \in {"data", "error"} : x = [s EXCEPT !.report.is = a]
    BY <1>3
  <2> DEFINE r == [s.report EXCEPT !.is = a]
  <2>2. s.report \in [is : {"busy", "data", "error"}, of : Barcodes]
    BY <1>3, SessionFields DEF Reports, NoReport, Prompt
  <2>3. r \in Reports /\ r.is = a /\ r.of = s.report.of
    BY <2>2 DEF Reports
  <2>4. x = [s EXCEPT !.report = r]
    BY <2>1
  <2> HIDE DEF r
  <2>5. x \in Sessions
    BY <2>3, <2>4, SessionWritten
  <2>6. x.report = r /\ x.loggedIn = s.loggedIn /\ x.browser = s.browser
    BY <2>4 DEF Sessions
  <2> QED
    BY <2>1, <2>3, <2>5, <2>6 DEF Alive
<1> QED
  BY <1>1, <1>2, <1>3 DEF Changed

LEMMA ReturnToMoveListTyped == ASSUME NEW s \in Sessions PROVE ReturnToMoveList(s) \subseteq Sessions
<1> DEFINE a == [s EXCEPT !.needsNavigation = TRUE]
           b == Portal(s)
           c == [b EXCEPT !.report = NoReport, !.needsNavigation = TRUE]
<1>1. a \in Sessions /\ b \in Sessions
  BY SessionWritten, FlagsTyped
<1>2. \A x \in ReturnToMoveList(s) : x = a \/ x = c \/ \E y \in Handled(s) : x = [y EXCEPT !.needsNavigation = TRUE]
  BY DEF ReturnToMoveList
<1> HIDE DEF a, b
<1>3. c \in Sessions
  BY <1>1 DEF Sessions
<1> QED
  BY <1>1, <1>2, <1>3, HandledTyped, SessionWritten

LEMMA OpenServiceOrderListTyped == ASSUME NEW s \in Sessions PROVE OpenServiceOrderList(s) \subseteq Outcomes
<1> DEFINE listed(x) ==
             IF x.browser = "crashed" THEN To(Handled(x), "no")
             ELSE LET y == Portal(WithoutReport(x)) IN
                  To({y}, "no") \cup IF y.page = "inside" THEN To({y}, "yes") ELSE {}
<1>1. ASSUME NEW x \in Sessions PROVE listed(x) \subseteq Outcomes
  <2> DEFINE y == Portal(WithoutReport(x))
  <2>1. y \in Sessions
    BY WithoutReportTyped, FlagsTyped
  <2>2. listed(x) \subseteq To(Handled(x), "no") \cup To({y}, "no") \cup To({y}, "yes")
    OBVIOUS
  <2> HIDE DEF y, listed
  <2>3. /\ To(Handled(x), "no") \subseteq Outcomes /\ To({y}, "no") \subseteq Outcomes
        /\ To({y}, "yes") \subseteq Outcomes
    BY <2>1, HandledTyped, ToTyped DEF Answers
  <2> QED
    BY <2>2, <2>3
<1>2. ASSUME NEW o \in OpenServiceOrderList(s)
      PROVE  o \in EnsureBrowser(s) \/ \E p \in EnsureBrowser(s) : o \in listed(p.to)
  BY <1>2 DEF OpenServiceOrderList, Then, Says
<1> HIDE DEF listed
<1> QED
  BY <1>1, <1>2, EnsureBrowserTyped, OutcomeFields

-----------------------------------------------------------------------------
(* The inductive invariant.                                                *)

Short == {"step1", "step2", "login", "logout", "cancel", "check", "idle", "shutdown"}
Kinds == Short \cup {"query", "transfer", "close"}
Args == Barcodes \cup {"nothing", "confirm", "save only"}
Pcs == {"none", "login", "query", "submit", "extract", "form", "header", "details", "confirm",
        "close", "open", "wait", "raised", "ended", "answer"}
Things == Details \cup ServiceOrders
States == {"open", "closing", "closed"}
CallIds == Calls \cup {0}
Pages == Barcodes \cup {"nothing"}
Counts == [Details -> Nat]

CallRecord == [kind : Kinds \cup {"none"}, arg : Args, is : {"none", "waiting", "answered", "returned"}]
MoveRecord == [saved : BOOLEAN, details : Counts, confirmed : BOOLEAN]
ResultRecord == [of : Pages, saved : BOOLEAN, confirmed : BOOLEAN, orders : SUBSET ServiceOrders]
MisreadRecord == [header : BOOLEAN, details : SUBSET Details, confirm : BOOLEAN]
TaskRecord == [call : CallIds, kind : Kinds \cup {"none"}, arg : Args, pc : Pcs, attempt : Nat,
               todo : SUBSET Things, again : BOOLEAN, ok : BOOLEAN, crashed : BOOLEAN,
               misread : MisreadRecord, result : ResultRecord]
ShownRecord == [running : BOOLEAN, loggedIn : BOOLEAN, remembered : BOOLEAN]

Typed ==
  /\ session \in Sessions
  /\ moves \in [Calls -> MoveRecord]
  /\ services \in [ServiceOrders -> States]
  /\ task \in TaskRecord
  /\ queue \in Seq(Calls)
  /\ calls \in [Calls -> CallRecord]
  /\ shown \in ShownRecord
  /\ stopped \in BOOLEAN

\* A call waits in one place of the queue, or as the task.
Queued(c) == \E i \in 1..Len(queue) : queue[i] = c

OnePlace ==
  /\ \A i, j \in 1..Len(queue) : queue[i] = queue[j] => i = j
  /\ \A c \in Calls : Queued(c) => calls[c].is = "waiting" /\ c # task.call
  /\ task.pc # "none" => /\ task.call \in Calls /\ calls[task.call].is = "waiting"
                         /\ task.kind = calls[task.call].kind
  /\ task.pc = "none" => task.call = 0

\* What is called for what, and who writes the flags a second time.
CallFits(c) ==
  /\ calls[c].is # "none" => calls[c].kind \in Kinds
  /\ calls[c].kind = "query" => calls[c].arg \in Barcodes
  /\ calls[c].is = "answered" => calls[c].kind \in {"logout", "cancel", "shutdown"}
  /\ calls[c].is = "none" \/ Queued(c) => moves[c] = NoMove

Move == moves[task.call]

\* OrderSound, for a task t whose move order is m.
SoundFor(t, m) ==
  /\ \A d \in Details : m.details[d] <= IF t.again THEN DetailAttempts ELSE 1
  /\ m.confirmed => t.arg # "save only" /\ \A d \in Details : m.details[d] >= 1 \/ d \in t.misread.details

Chosen(S) == CHOOSE d \in S : TRUE

\* A task t that enters the details of m: those behind it had a yes, the next
\* one is there no more often than it was tried before, the others are not.
Entering(t, m) ==
  /\ m.saved \/ t.misread.header
  /\ \A d \in Details \ t.todo : /\ m.details[d] <= IF t.again THEN DetailAttempts ELSE 1
                                 /\ m.details[d] >= 1 \/ d \in t.misread.details
  /\ \A d \in t.todo : m.details[d] < IF d = Chosen(t.todo) THEN t.attempt ELSE 1
  /\ t.todo # {} => t.attempt \in 1..DetailAttempts /\ (~t.again => t.attempt = 1)
  /\ m.confirmed => t.todo = {} /\ t.arg # "save only"

\* Where a method is, and what it has reached so far.
TaskFits ==
  /\ task.pc = "login" => task.kind \in Short
  /\ task.pc \in {"query", "submit", "extract"} => task.kind = "query" /\ task.arg \in Barcodes
  /\ task.pc = "extract" => session.report.is \in {"busy", "data", "error"} /\ session.report.of = task.arg
  /\ task.pc \in {"form", "header", "details", "confirm"} =>
       task.kind = "transfer" /\ task.todo \subseteq Details /\ ~task.result.confirmed
  /\ task.pc \in {"form", "header"} => Move = NoMove /\ task.todo = Details /\ ~task.again
  /\ task.pc \in {"details", "confirm"} => Entering(task, Move)
  /\ task.pc = "confirm" => task.todo = {} /\ task.arg # "save only"
  /\ task.pc \in {"close", "open", "wait"} => task.kind = "close" /\ task.todo \subseteq ServiceOrders
  /\ task.pc = "wait" => task.todo # {}
  /\ \A o \in task.result.orders : services[o] = "closed"
  /\ TrueReport(task)

\* What is shown was true when the worker told it, and has only become less.
Believed ==
  task.pc \in {"none", "answer"} /\ shown.loggedIn => shown.running /\ Alive(session) /\ session.loggedIn

IInv == Typed /\ OnePlace /\ (\A c \in Calls : CallFits(c)) /\ TaskFits /\ Believed

LEMMA AttemptsPositive == DetailAttempts \in Nat /\ DetailAttempts >= 1
  OBVIOUS

LEMMA EnteringSound ==
  ASSUME NEW t \in TaskRecord, NEW m \in MoveRecord, t.todo \subseteq Details, Entering(t, m)
  PROVE  SoundFor(t, m)
<1>1. \A e \in Details : m.details[e] \in Nat
  BY DEF MoveRecord, Counts
<1>2. ASSUME NEW e \in Details PROVE m.details[e] <= IF t.again THEN DetailAttempts ELSE 1
  <2>1. CASE e \notin t.todo
    BY <2>1 DEF Entering
  <2>2. CASE e \in t.todo
    <3>1. /\ m.details[e] < IF e = Chosen(t.todo) THEN t.attempt ELSE 1
          /\ t.attempt \in 1..DetailAttempts /\ (~t.again => t.attempt = 1)
      BY <2>2 DEF Entering
    <3> QED
      BY <1>1, <3>1
  <2> QED
    BY <2>1, <2>2
<1>3. m.confirmed => t.arg # "save only" /\ \A d \in Details : m.details[d] >= 1 \/ d \in t.misread.details
  BY DEF Entering
<1> QED
  BY <1>2, <1>3 DEF SoundFor

\* An order without details, as a task has it that begins to enter them.
LEMMA EmptySound ==
  ASSUME NEW t, NEW m, \A d \in Details : m.details[d] = 0, ~m.confirmed
  PROVE  /\ SoundFor(t, m)
         /\ (m.saved \/ t.misread.header) /\ t.todo = Details /\ t.attempt = 1 => Entering(t, m)
<1>1. \A d \in Details : m.details[d] <= IF t.again THEN DetailAttempts ELSE 1
  <2>1. CASE t.again
    BY <2>1, AttemptsPositive
  <2>2. CASE ~t.again
    BY <2>2
  <2> QED
    BY <2>1, <2>2
<1>2. ASSUME t.todo = Details, t.attempt = 1
      PROVE  /\ \A d \in t.todo : m.details[d] < IF d = Chosen(t.todo) THEN t.attempt ELSE 1
             /\ t.attempt \in 1..DetailAttempts
  BY <1>2, AttemptsPositive
<1> QED
  BY <1>1, <1>2 DEF SoundFor, Entering

LEMMA InitIInv == Init => IInv
<1> SUFFICES ASSUME Init PROVE IInv
  OBVIOUS
<1> USE DEF Init
<1>1. PICK c \in BOOLEAN : session = [NoSession EXCEPT !.cookie = c]
  OBVIOUS
<1>2. session \in Sessions
  BY <1>1 DEF NoSession, Sessions, NoReport
<1>3. NoMove \in MoveRecord /\ NoCall \in CallRecord /\ NoResult \in ResultRecord
  BY DEF NoMove, MoveRecord, Counts, NoCall, CallRecord, Args, NoResult, ResultRecord, Pages
<1>4. NoTask \in TaskRecord
  BY <1>3 DEF NoTask, TaskRecord, CallIds, Args, Pcs, NoneMisread, MisreadRecord
<1>5. PICK r \in BOOLEAN : shown = [NotShown EXCEPT !.remembered = r]
  OBVIOUS
<1>6. shown \in ShownRecord /\ ~shown.loggedIn
  BY <1>5 DEF ShownRecord, NotShown
<1>7. Typed
  <2>1. moves \in [Calls -> MoveRecord] /\ calls \in [Calls -> CallRecord]
    BY <1>3
  <2>2. services \in [ServiceOrders -> States]
    BY DEF States
  <2>3. task \in TaskRecord /\ queue \in Seq(Calls)
    BY <1>4
  <2>4. stopped \in BOOLEAN
    OBVIOUS
  <2> QED
    BY <1>2, <1>6, <2>1, <2>2, <2>3, <2>4 DEF Typed
<1>8. OnePlace
  BY DEF OnePlace, Queued, NoTask
<1>9. ASSUME NEW d \in Calls PROVE CallFits(d)
  BY DEF CallFits, NoCall
<1>10. task.pc = "none" /\ task.kind = "none" /\ task.result.orders = {}
  BY DEF NoTask, NoResult
<1>11. TaskFits
  BY <1>10 DEF TaskFits, TrueReport, OrderSound
<1>12. Believed
  BY <1>6 DEF Believed
<1> QED
  BY <1>7, <1>8, <1>9, <1>11, <1>12 DEF IInv

-----------------------------------------------------------------------------
(* How a method goes on.                                                   *)

SameTask ==
  /\ task' \in TaskRecord
  /\ task'.call = task.call /\ task'.kind = task.kind /\ task'.arg = task.arg
  /\ task'.crashed <=> task.crashed

LEMMA TaskFields ==
  ASSUME NEW t \in TaskRecord
  PROVE  /\ t.call \in CallIds /\ t.kind \in Kinds \cup {"none"} /\ t.arg \in Args /\ t.pc \in Pcs
         /\ t.attempt \in Nat /\ t.todo \subseteq Things /\ t.again \in BOOLEAN /\ t.ok \in BOOLEAN
         /\ t.crashed \in BOOLEAN /\ t.misread \in MisreadRecord /\ t.result \in ResultRecord
BY DEF TaskRecord

LEMMA StepForm ==
  ASSUME task \in TaskRecord, NEW pc \in Pcs, Step(pc)
  PROVE  /\ SameTask /\ task'.pc = pc /\ task'.todo = task.todo /\ task'.again = task.again
         /\ task'.result = task.result /\ task'.misread = task.misread /\ task'.attempt = 1
BY DEF Step, SameTask, TaskRecord

LEMMA ReturnForm ==
  ASSUME task \in TaskRecord, NEW ok \in BOOLEAN, Return(ok)
  PROVE  /\ SameTask /\ task'.pc = "ended" /\ task'.ok = ok /\ task'.again = task.again
         /\ task'.result = task.result /\ task'.misread = task.misread
BY DEF Return, SameTask, TaskRecord, Pcs

LEMMA RaiseForm ==
  ASSUME task \in TaskRecord, Raise
  PROVE  /\ SameTask /\ task'.pc = "raised" /\ task'.result = task.result
         /\ task'.again = task.again /\ task'.misread = task.misread
BY DEF Raise, SameTask, TaskRecord, Pcs

\* A method that gives up returns no, or leaves with an exception.
GivesUp ==
  /\ SameTask /\ task'.pc \in {"ended", "raised"} /\ task'.result = task.result
  /\ task'.again = task.again /\ task'.misread = task.misread
  /\ task'.pc = "ended" => task'.ok = FALSE

LEMMA GivesUpForm ==
  ASSUME task \in TaskRecord, Return(FALSE) \/ Raise
  PROVE  GivesUp
BY ReturnForm, RaiseForm DEF GivesUp

LEMMA ContinueForm ==
  ASSUME task \in TaskRecord, NEW o \in Outcomes, NEW pc \in Pcs, Continue(o, pc)
  PROVE  /\ session' = o.to /\ session' \in Sessions
         /\ \/ o.says = "yes" /\ Step(pc)
            \/ GivesUp
<1>1. session' = o.to /\ o.to \in Sessions /\ o.says \in {"yes", "no", "error"}
  BY OutcomeFields DEF Continue, Answers
<1>2. CASE o.says = "yes"
  BY <1>1, <1>2 DEF Continue
<1>3. CASE o.says = "no"
  BY <1>1, <1>3, GivesUpForm DEF Continue
<1>4. CASE o.says = "error"
  BY <1>1, <1>4, GivesUpForm DEF Continue
<1> QED
  BY <1>1, <1>2, <1>3, <1>4

\* Only the move order of the running call is written, and soundly.
OwnMove ==
  /\ moves' \in [Calls -> MoveRecord]
  /\ \A c \in Calls : c # task.call => moves'[c] = moves[c]
  /\ task.kind = "transfer" => SoundFor(task, moves'[task.call])

StayClosed ==
  /\ services' \in [ServiceOrders -> States]
  /\ \A o \in ServiceOrders : services[o] = "closed" => services'[o] = "closed"

\* What the steps of a method leave alone.
Within ==
  /\ session' \in Sessions /\ SameTask /\ task'.pc \notin {"none", "answer"}
  /\ OwnMove /\ StayClosed
  /\ UNCHANGED <<queue, calls, shown, stopped>>

LEMMA WithinKept ==
  ASSUME IInv, task.pc \notin {"none", "answer"}, Within
  PROVE  Typed' /\ OnePlace' /\ (\A c \in Calls : CallFits(c)') /\ Believed'
<1>1. /\ Typed /\ OnePlace /\ UNCHANGED <<queue, calls, shown, stopped>>
      /\ task'.call = task.call /\ task'.kind = task.kind
      /\ task'.pc \notin {"none", "answer"} /\ session' \in Sessions /\ task' \in TaskRecord
  BY DEF IInv, Within, SameTask
<1>2. Typed'
  BY <1>1 DEF Typed, Within, OwnMove, StayClosed
<1>3. OnePlace'
  BY <1>1 DEF OnePlace, Queued
<1>4. ASSUME NEW c \in Calls PROVE CallFits(c)'
  <2>1. CallFits(c)
    BY DEF IInv
  <2>2. calls[c].is = "none" \/ Queued(c) => c # task.call
    BY <1>1 DEF OnePlace
  <2>3. calls[c].is = "none" \/ Queued(c) => moves'[c] = moves[c]
    BY <2>2 DEF Within, OwnMove
  <2> QED
    BY <1>1, <2>1, <2>3 DEF CallFits, Queued
<1>5. Believed'
  BY <1>1 DEF Believed
<1> QED
  BY <1>2, <1>3, <1>4, <1>5

\* An order stays sound while its task reads nothing from the page.
LEMMA SoundStays ==
  ASSUME NEW t, NEW u, NEW m, SoundFor(t, m), u.again = t.again, u.arg = t.arg, u.misread = t.misread
  PROVE  SoundFor(u, m)
BY DEF SoundFor

LEMMA SoundInIts ==
  ASSUME task'.kind = task.kind, task.kind = "transfer" => SoundFor(task', moves'[task'.call])
  PROVE  OrderSound(task)'
BY DEF OrderSound, SoundFor

LEMMA StepSound ==
  ASSUME OwnMove, SameTask, task'.again = task.again, task'.misread = task.misread
  PROVE  OrderSound(task)'
<1>1. task'.arg = task.arg /\ task'.kind = task.kind /\ task'.call = task.call
  BY DEF SameTask
<1>2. task.kind = "transfer" => SoundFor(task, moves'[task'.call])
  BY <1>1 DEF OwnMove
<1> QED
  BY <1>1, <1>2, SoundStays, SoundInIts

\* Giving up leaves to be proved only that the order is sound.
LEMMA GivingUpFits ==
  ASSUME IInv, GivesUp, OwnMove, StayClosed
  PROVE  TaskFits'
<1>1. task'.pc \in {"ended", "raised"} /\ task'.result.orders = task.result.orders
  BY DEF GivesUp
<1>2. \A o \in task.result.orders : o \in ServiceOrders /\ services[o] = "closed"
  <2>1. task.result \in ResultRecord
    BY TaskFields DEF IInv, Typed
  <2> QED
    BY <2>1 DEF IInv, TaskFits, ResultRecord
<1>3. \A o \in task'.result.orders : services'[o] = "closed"
  BY <1>1, <1>2 DEF StayClosed
<1>4. task'.pc = "ended" => ~task'.ok
  BY DEF GivesUp
<1>5. OrderSound(task)'
  BY StepSound DEF GivesUp
<1>6. TrueReport(task)'
  BY <1>3, <1>4, <1>5 DEF TrueReport
<1> QED
  BY <1>1, <1>3, <1>6 DEF TaskFits

LEMMA GivingUpKept ==
  ASSUME IInv, task.pc \notin {"none", "answer"}, session' \in Sessions, GivesUp, OwnMove, StayClosed,
         UNCHANGED <<queue, calls, shown, stopped>>
  PROVE  IInv'
<1>1. Within
  BY DEF Within, GivesUp
<1> QED
  BY <1>1, WithinKept, GivingUpFits DEF IInv

\* What most steps leave alone.
LEMMA Unmoved ==
  ASSUME IInv
  PROVE  /\ UNCHANGED moves => OwnMove
         /\ UNCHANGED services => StayClosed
         /\ task.pc # "none" => task.call \in Calls /\ Move \in MoveRecord
<1>1. task.kind = "transfer" => SoundFor(task, moves[task.call])
  BY DEF IInv, TaskFits, TrueReport, OrderSound, SoundFor
<1> QED
  BY <1>1 DEF IInv, Typed, OwnMove, StayClosed, OnePlace, Move

LEMMA OrdersClosed ==
  ASSUME IInv, StayClosed, task'.result.orders = task.result.orders
  PROVE  \A o \in task'.result.orders : services'[o] = "closed"
<1>1. task.result \in ResultRecord
  BY TaskFields DEF IInv, Typed
<1>2. \A o \in task.result.orders : o \in ServiceOrders /\ services[o] = "closed"
  BY <1>1 DEF IInv, TaskFits, ResultRecord
<1> QED
  BY <1>2 DEF StayClosed

-----------------------------------------------------------------------------
(* Barcodes.                                                               *)

LEMMA QueryOpenKept == ASSUME IInv, QueryOpen, UNCHANGED <<queue, calls, shown, stopped>> PROVE IInv'
<1>1. task.pc = "query" /\ UNCHANGED <<moves, services>>
  BY DEF QueryOpen
<1>2. session \in Sessions /\ task \in TaskRecord /\ task.kind = "query" /\ task.arg \in Barcodes
  BY <1>1 DEF IInv, Typed, TaskFits
<1>3. PICK o \in OpenReport(session) : Continue(o, "submit")
  BY DEF QueryOpen
<1>4. o \in Outcomes
  BY <1>2, <1>3, OpenReportTyped
<1>5. session' \in Sessions /\ (Step("submit") \/ GivesUp)
  BY <1>2, <1>3, <1>4, ContinueForm DEF Pcs
<1>6. OwnMove /\ StayClosed
  BY <1>1, Unmoved
<1>7. CASE GivesUp
  BY <1>1, <1>5, <1>6, <1>7, GivingUpKept
<1>8. CASE Step("submit")
  <2>1. SameTask /\ task'.pc = "submit" /\ task'.result = task.result
    BY <1>2, <1>8, StepForm DEF Pcs
  <2>2. Within
    BY <1>5, <1>6, <2>1 DEF Within
  <2>3. task'.kind = "query" /\ task'.arg \in Barcodes
    BY <1>2, <2>1 DEF SameTask
  <2>4. TaskFits'
    BY <1>6, <2>1, <2>3, OrdersClosed DEF TaskFits, TrueReport, OrderSound
  <2> QED
    BY <1>1, <2>2, <2>4, WithinKept DEF IInv
<1> QED
  BY <1>5, <1>7, <1>8

LEMMA QuerySubmitKept == ASSUME IInv, QuerySubmit, UNCHANGED <<queue, calls, shown, stopped>> PROVE IInv'
<1>1. task.pc = "submit" /\ UNCHANGED <<moves, services>>
  BY DEF QuerySubmit
<1>2. session \in Sessions /\ task \in TaskRecord /\ task.kind = "query" /\ task.arg \in Barcodes
  BY <1>1 DEF IInv, Typed, TaskFits
<1>3. PICK o \in SubmitBarcode(session, task.arg) : Continue(o, "extract")
  BY DEF QuerySubmit
<1>4. o \in Outcomes /\ (o.says = "yes" => o.to.report = [is |-> "busy", of |-> task.arg])
  BY <1>2, <1>3, SubmitBarcodeTyped
<1>5. /\ session' = o.to /\ session' \in Sessions
      /\ (o.says = "yes" /\ Step("extract")) \/ GivesUp
  BY <1>2, <1>3, <1>4, ContinueForm DEF Pcs
<1>6. OwnMove /\ StayClosed
  BY <1>1, Unmoved
<1>7. CASE GivesUp
  BY <1>1, <1>5, <1>6, <1>7, GivingUpKept
<1>8. CASE o.says = "yes" /\ Step("extract")
  <2>1. SameTask /\ task'.pc = "extract" /\ task'.result = task.result
    BY <1>2, <1>8, StepForm DEF Pcs
  <2>2. Within
    BY <1>5, <1>6, <2>1 DEF Within
  <2>3. task'.kind = "query" /\ task'.arg = task.arg /\ task'.arg \in Barcodes
    BY <1>2, <2>1 DEF SameTask
  <2>4. session'.report.is = "busy" /\ session'.report.of = task'.arg
    BY <1>4, <1>5, <1>8, <2>3
  <2>5. TaskFits'
    BY <1>6, <2>1, <2>3, <2>4, OrdersClosed DEF TaskFits, TrueReport, OrderSound
  <2> QED
    BY <1>1, <2>2, <2>5, WithinKept DEF IInv
<1> QED
  BY <1>5, <1>7, <1>8

LEMMA QueryExtractKept == ASSUME IInv, QueryExtract, UNCHANGED <<queue, calls, shown, stopped>> PROVE IInv'
<1>1. task.pc = "extract" /\ UNCHANGED <<moves, services>>
  BY DEF QueryExtract
<1>2. /\ session \in Sessions /\ task \in TaskRecord /\ task.kind = "query" /\ task.arg \in Barcodes
      /\ session.report.of = task.arg
  BY <1>1 DEF IInv, Typed, TaskFits
<1>3. PICK o \in ExtractReport(session) :
        /\ session' = o.to
        /\ task' = [task EXCEPT !.pc = "ended", !.ok = o.says = "yes",
                                !.result.of = IF o.says = "yes" THEN session.report.of ELSE @]
  BY DEF QueryExtract
<1>4. session' \in Sessions
  BY <1>2, <1>3, ExtractReportTyped, OutcomeFields
<1> DEFINE of == IF o.says = "yes" THEN session.report.of ELSE task.result.of
           r == [task.result EXCEPT !.of = of]
           ok == (o.says = "yes")
<1>5. task.result \in ResultRecord
  BY <1>2, TaskFields
<1>6. of \in Pages
  BY <1>2, <1>5 DEF ResultRecord, Pages
<1>7. task' = [task EXCEPT !.pc = "ended", !.ok = ok, !.result = r]
  BY <1>2, <1>3, <1>5 DEF TaskRecord, ResultRecord
<1>8. r \in ResultRecord /\ r.of = of /\ r.orders = task.result.orders
  BY <1>5, <1>6 DEF ResultRecord
<1>9. ok \in BOOLEAN /\ (ok => of = task.arg)
  BY <1>2
<1> HIDE DEF of, r, ok
<1>10. SameTask /\ task'.pc = "ended" /\ task'.result = r
  BY <1>2, <1>7, <1>8, <1>9 DEF SameTask, TaskRecord, Pcs
<1>11. task'.ok <=> ok
  BY <1>2, <1>7, <1>9 DEF TaskRecord
<1>12. OwnMove /\ StayClosed
  BY <1>1, Unmoved
<1>13. Within
  BY <1>1, <1>4, <1>10, <1>12 DEF Within
<1>14. task'.kind = "query" /\ task'.arg = task.arg /\ task'.result.of = of
  BY <1>2, <1>8, <1>10 DEF SameTask
<1>15. \A x \in task'.result.orders : services'[x] = "closed"
  BY <1>8, <1>10, <1>12, OrdersClosed
<1>16. task'.ok => task'.result.of = task'.arg
  BY <1>9, <1>11, <1>14
<1>17. TaskFits'
  BY <1>10, <1>14, <1>15, <1>16 DEF TaskFits, TrueReport, OrderSound
<1> QED
  BY <1>1, <1>13, <1>17, WithinKept DEF IInv

-----------------------------------------------------------------------------
(* Move orders.                                                            *)

LEMMA FailKept ==
  ASSUME IInv, task.pc \notin {"none", "answer"}, Fail \/ Broken, OwnMove, StayClosed,
         UNCHANGED <<queue, calls, shown, stopped>>
  PROVE  IInv'
<1>1. session \in Sessions /\ task \in TaskRecord
  BY DEF IInv, Typed
<1>2. session' \in Sessions /\ Return(FALSE)
  BY <1>1, ReturnToMoveListTyped, HandledTyped DEF Fail, Broken
<1> QED
  BY <1>1, <1>2, GivesUpForm, GivingUpKept

LEMMA TransferFormKept == ASSUME IInv, TransferForm, UNCHANGED <<queue, calls, shown, stopped>> PROVE IInv'
<1>1. task.pc = "form" /\ UNCHANGED <<moves, services>>
  BY DEF TransferForm
<1>2. /\ session \in Sessions /\ task \in TaskRecord /\ task.kind = "transfer"
      /\ Move = NoMove /\ task.todo = Details /\ ~task.again /\ ~task.result.confirmed
  BY <1>1 DEF IInv, Typed, TaskFits
<1>3. PICK o \in BeginJob(session) :
        IF o.says # "yes" THEN Continue(o, "header")
        ELSE \E back \in ReturnToMoveList(o.to) :
                /\ session' = back
                /\ \/ back.browser = "open" /\ back.page = "inside" /\ Step("header")
                   \/ Return(FALSE)
  BY DEF TransferForm
<1>4. o \in Outcomes /\ o.to \in Sessions
  BY <1>2, <1>3, BeginJobTyped, OutcomeFields
<1>5. OwnMove /\ StayClosed
  BY <1>1, Unmoved
<1>6. session' \in Sessions /\ (GivesUp \/ Step("header"))
  <2>1. CASE o.says # "yes"
    BY <1>2, <1>3, <1>4, <2>1, ContinueForm DEF Pcs
  <2>2. CASE o.says = "yes"
    BY <1>2, <1>3, <1>4, <2>2, ReturnToMoveListTyped, GivesUpForm
  <2> QED
    BY <2>1, <2>2
<1>7. CASE GivesUp
  BY <1>1, <1>5, <1>6, <1>7, GivingUpKept
<1>8. CASE Step("header")
  <2>1. /\ SameTask /\ task'.pc = "header" /\ task'.result = task.result
        /\ task'.todo = task.todo /\ task'.again = task.again /\ task'.misread = task.misread
    BY <1>2, <1>8, StepForm DEF Pcs
  <2>2. Within
    BY <1>5, <1>6, <2>1 DEF Within
  <2>3. task'.kind = "transfer" /\ ~task'.result.confirmed /\ task'.todo = Details /\ ~task'.again
    BY <1>2, <2>1 DEF SameTask
  <2>4. moves'[task'.call] = NoMove
    BY <1>1, <1>2, <2>1 DEF SameTask, Move
  <2>5. OrderSound(task)'
    BY <1>5, <2>1, StepSound
  <2>6. TaskFits'
    BY <1>5, <2>1, <2>3, <2>4, <2>5, OrdersClosed DEF TaskFits, TrueReport, Move
  <2> QED
    BY <1>1, <2>2, <2>6, WithinKept DEF IInv
<1> QED
  BY <1>6, <1>7, <1>8

\* What the CRM takes is written into the running call's move order.
LEMMA MoveWritten ==
  ASSUME IInv, task.pc # "none", NEW m \in MoveRecord, SoundFor(task, m),
         \/ moves' \in Taken([moves EXCEPT ![task.call] = m])
         \/ moves' \in TakenOfSaved([moves EXCEPT ![task.call] = m])
  PROVE  OwnMove /\ (moves'[task.call] = m \/ moves'[task.call] = Move)
<1>1. moves \in [Calls -> MoveRecord] /\ task.call \in Calls
  BY Unmoved DEF IInv, Typed
<1>2. moves' = moves \/ moves' = [moves EXCEPT ![task.call] = m]
  BY DEF Taken, TakenOfSaved
<1>3. moves' = moves => OwnMove
  BY Unmoved
<1> QED
  BY <1>1, <1>2, <1>3 DEF OwnMove, Move

LEMMA SaveHeaderKept == ASSUME IInv, SaveHeader, UNCHANGED <<queue, calls, shown, stopped>> PROVE IInv'
<1> DEFINE m == [Move EXCEPT !.saved = TRUE]
           saved == [moves EXCEPT ![task.call].saved = TRUE]
           r == [task.result EXCEPT !.saved = TRUE]
           wrong == ~moves'[task.call].saved
           w == [task.misread EXCEPT !.header = wrong]
<1>1. task.pc = "header" /\ UNCHANGED services
  BY DEF SaveHeader
<1>2. /\ session \in Sessions /\ task \in TaskRecord /\ task.kind = "transfer"
      /\ Move = NoMove /\ task.todo = Details /\ ~task.again /\ ~task.result.confirmed
  BY <1>1 DEF IInv, Typed, TaskFits
<1>3. Move \in MoveRecord /\ task.call \in Calls
  BY <1>1, Unmoved
<1>4. m \in MoveRecord /\ m.saved /\ m.details = [d \in Details |-> 0] /\ m.confirmed = FALSE
  BY <1>2, <1>3 DEF MoveRecord, NoMove
<1>5. saved = [moves EXCEPT ![task.call] = m]
  BY <1>3 DEF IInv, Typed, Move
<1>6. task.result \in ResultRecord /\ task.misread \in MisreadRecord
  BY <1>2, TaskFields
<1>7. /\ moves' \in Taken(saved)
      /\ \/ /\ UNCHANGED session
            /\ task' = [task EXCEPT !.pc = "details", !.attempt = 1, !.result = r, !.misread = w]
         \/ Fail \/ Broken
  BY <1>2, <1>6 DEF SaveHeader, TaskRecord, ResultRecord, MisreadRecord
<1>8. r \in ResultRecord /\ r.orders = task.result.orders /\ r.confirmed = task.result.confirmed
  BY <1>6 DEF ResultRecord
<1>9. w \in MisreadRecord /\ (w.header <=> ~moves'[task.call].saved)
  BY <1>6 DEF MisreadRecord
<1>10. StayClosed
  BY <1>1, Unmoved
<1> HIDE DEF m, saved, r, w
<1>11. SoundFor(task, m)
  <2>1. \A d \in Details : m.details[d] = 0
    BY <1>4
  <2> QED
    BY <1>4, <2>1, EmptySound
<1>12. OwnMove /\ (moves'[task.call] = m \/ moves'[task.call] = Move)
  BY <1>1, <1>4, <1>5, <1>7, <1>11, MoveWritten
<1>13. CASE Fail \/ Broken
  BY <1>1, <1>10, <1>12, <1>13, FailKept
<1>14. CASE /\ UNCHANGED session
            /\ task' = [task EXCEPT !.pc = "details", !.attempt = 1, !.result = r, !.misread = w]
  <2>1. task' \in TaskRecord
    BY <1>2, <1>8, <1>9, <1>14 DEF TaskRecord, Pcs
  <2>2. /\ task'.call = task.call /\ task'.kind = task.kind /\ task'.arg = task.arg
        /\ task'.crashed = task.crashed /\ task'.pc = "details" /\ task'.result = r
        /\ task'.todo = task.todo /\ task'.again = task.again /\ task'.attempt = 1 /\ task'.misread = w
    BY <1>2, <1>14 DEF TaskRecord
  <2>3. SameTask
    BY <2>1, <2>2 DEF SameTask
  <2>4. Within
    BY <1>2, <1>10, <1>12, <1>14, <2>2, <2>3 DEF Within
  <2>5. task'.kind = "transfer" /\ ~task'.result.confirmed /\ task'.todo = Details /\ ~task'.again
    BY <1>2, <1>8, <2>2
  <2>6. Move' = moves'[task.call] /\ moves'[task'.call] = moves'[task.call]
    BY <2>2 DEF Move
  <2> DEFINE u == task'
             n == moves'[task.call]
  <2>7. u \in TaskRecord /\ u.todo = Details /\ u.attempt = 1 /\ ~u.again
    BY <2>1, <2>2, <2>5
  <2>8. n \in MoveRecord /\ (n.saved \/ u.misread.header) /\ ~n.confirmed
    BY <1>2, <1>3, <1>4, <1>9, <1>12, <2>2 DEF NoMove
  <2>9. \A d \in Details : n.details[d] = 0
    BY <1>2, <1>4, <1>12 DEF NoMove
  <2> HIDE DEF u, n
  <2>10. Entering(u, n)
    BY <2>7, <2>8, <2>9, EmptySound
  <2>11. SoundFor(u, n)
    BY <2>7, <2>8, <2>10, EnteringSound
  <2>12. Entering(task', Move')
    BY <2>6, <2>10 DEF u, n
  <2>13. OrderSound(task)'
    BY <2>2, <2>6, <2>11, SoundInIts DEF u, n
  <2>14. TaskFits'
    BY <1>10, <1>8, <2>2, <2>5, <2>12, <2>13, OrdersClosed DEF TaskFits, TrueReport
  <2> QED
    BY <1>1, <2>4, <2>14, WithinKept DEF IInv
<1> QED
  BY <1>7, <1>13, <1>14

\* One attempt at the next detail, taken by the CRM or not.
Attempted(m, n, d) ==
  /\ n.saved = m.saved /\ n.confirmed = m.confirmed
  /\ \A e \in Details : n.details[e] = m.details[e] \/ (e = d /\ n.details[e] = m.details[e] + 1)

LEMMA AttemptSound ==
  ASSUME NEW t \in TaskRecord, NEW m \in MoveRecord, NEW n \in MoveRecord, t.todo \subseteq Details, t.todo # {},
         Entering(t, m), Attempted(m, n, Chosen(t.todo))
  PROVE  SoundFor(t, n)
<1>1. \A e \in Details : m.details[e] \in Nat /\ n.details[e] \in Nat
  BY DEF MoveRecord, Counts
<1>2. t.attempt \in Nat /\ DetailAttempts \in Nat /\ t.attempt >= 1 /\ t.attempt <= DetailAttempts
      /\ (~t.again => t.attempt = 1)
  <2>1. t.attempt \in 1..DetailAttempts /\ (~t.again => t.attempt = 1)
    BY DEF Entering
  <2> QED
    BY <2>1, AttemptsPositive
<1>3. Chosen(t.todo) \in t.todo
  BY DEF Chosen
<1>4. ~n.confirmed
  BY DEF Entering, Attempted
<1>5. ASSUME NEW e \in Details PROVE n.details[e] <= IF t.again THEN DetailAttempts ELSE 1
  <2>1. CASE e = Chosen(t.todo)
    <3>1. m.details[e] < t.attempt
      BY <1>3, <2>1 DEF Entering
    <3>2. n.details[e] <= m.details[e] + 1
      BY <1>1 DEF Attempted
    <3> QED
      BY <1>1, <1>2, <3>1, <3>2
  <2>2. CASE e # Chosen(t.todo) /\ e \in t.todo
    <3>1. m.details[e] < 1 /\ n.details[e] = m.details[e]
      BY <2>2 DEF Entering, Attempted
    <3> QED
      BY <1>1, <1>2, <3>1
  <2>3. CASE e \notin t.todo
    <3>1. n.details[e] = m.details[e] /\ m.details[e] <= IF t.again THEN DetailAttempts ELSE 1
      BY <1>3, <2>3 DEF Entering, Attempted
    <3> QED
      BY <3>1
  <2> QED
    BY <2>1, <2>2, <2>3
<1> QED
  BY <1>4, <1>5 DEF SoundFor

\* After a yes: the next detail, with the missing one among the misread.
LEMMA NextEntering ==
  ASSUME NEW t \in TaskRecord, NEW u \in TaskRecord, NEW m \in MoveRecord, NEW n \in MoveRecord,
         t.todo \subseteq Details, t.todo # {}, Entering(t, m), Attempted(m, n, Chosen(t.todo)),
         u.todo = t.todo \ {Chosen(t.todo)}, u.attempt = 1, u.again = t.again, u.arg = t.arg,
         u.misread.header = t.misread.header, t.misread.details \subseteq u.misread.details,
         n.details[Chosen(t.todo)] >= 1 \/ Chosen(t.todo) \in u.misread.details
  PROVE  Entering(u, n)
<1>1. \A e \in Details : m.details[e] \in Nat /\ n.details[e] \in Nat
  BY DEF MoveRecord, Counts
<1>2. Chosen(t.todo) \in t.todo
  BY DEF Chosen
<1>3. SoundFor(t, n)
  BY AttemptSound
<1>4. n.saved \/ u.misread.header
  BY DEF Entering, Attempted
<1>5. ASSUME NEW e \in Details \ u.todo
      PROVE  /\ n.details[e] <= IF u.again THEN DetailAttempts ELSE 1
             /\ n.details[e] >= 1 \/ e \in u.misread.details
  <2>1. n.details[e] <= IF u.again THEN DetailAttempts ELSE 1
    BY <1>3 DEF SoundFor
  <2>2. CASE e = Chosen(t.todo)
    BY <2>1, <2>2
  <2>3. CASE e # Chosen(t.todo)
    <3>1. n.details[e] = m.details[e] /\ (m.details[e] >= 1 \/ e \in t.misread.details)
      BY <2>3 DEF Entering, Attempted
    <3> QED
      BY <2>1, <3>1
  <2> QED
    BY <2>2, <2>3
<1>6. ASSUME NEW e \in u.todo PROVE n.details[e] < IF e = Chosen(u.todo) THEN u.attempt ELSE 1
  <2>1. n.details[e] = m.details[e] /\ m.details[e] < 1
    BY DEF Entering, Attempted
  <2> QED
    BY <2>1
<1>7. ~n.confirmed
  BY DEF Entering, Attempted
<1>8. 1 \in 1..DetailAttempts
  OBVIOUS
<1> QED
  BY <1>4, <1>5, <1>6, <1>7, <1>8 DEF Entering

\* After a no: the same detail again, which may be there already.
LEMMA AgainEntering ==
  ASSUME NEW t \in TaskRecord, NEW u \in TaskRecord, NEW m \in MoveRecord, NEW n \in MoveRecord,
         t.todo \subseteq Details, t.todo # {}, Entering(t, m), Attempted(m, n, Chosen(t.todo)),
         t.attempt < DetailAttempts, u.todo = t.todo, u.attempt = t.attempt + 1, u.again = TRUE,
         u.arg = t.arg, u.misread = t.misread
  PROVE  Entering(u, n)
<1>1. \A e \in Details : m.details[e] \in Nat /\ n.details[e] \in Nat
  BY DEF MoveRecord, Counts
<1>2. Chosen(t.todo) \in t.todo
  BY DEF Chosen
<1>3. t.attempt \in Nat /\ DetailAttempts \in Nat /\ t.attempt >= 1
  <2>1. t.attempt \in 1..DetailAttempts
    BY DEF Entering
  <2> QED
    BY <2>1, AttemptsPositive
<1>4. n.saved \/ u.misread.header
  BY DEF Entering, Attempted
<1>5. ASSUME NEW e \in Details \ u.todo
      PROVE  /\ n.details[e] <= IF u.again THEN DetailAttempts ELSE 1
             /\ n.details[e] >= 1 \/ e \in u.misread.details
  <2>1. /\ n.details[e] = m.details[e]
        /\ m.details[e] <= IF t.again THEN DetailAttempts ELSE 1
        /\ m.details[e] >= 1 \/ e \in t.misread.details
    BY <1>2 DEF Entering, Attempted
  <2> QED
    BY <1>1, <1>3, <2>1
<1>6. ASSUME NEW e \in u.todo PROVE n.details[e] < IF e = Chosen(u.todo) THEN u.attempt ELSE 1
  <2>1. CASE e = Chosen(t.todo)
    <3>1. m.details[e] < t.attempt
      BY <1>2, <2>1 DEF Entering
    <3>2. n.details[e] <= m.details[e] + 1
      BY <1>1 DEF Attempted
    <3> QED
      BY <1>1, <1>3, <2>1, <3>1, <3>2
  <2>2. CASE e # Chosen(t.todo)
    <3>1. n.details[e] = m.details[e] /\ m.details[e] < 1
      BY <2>2 DEF Entering, Attempted
    <3> QED
      BY <2>2, <3>1
  <2> QED
    BY <2>1, <2>2
<1>7. ~n.confirmed
  BY DEF Entering, Attempted
<1>8. u.attempt \in 1..DetailAttempts
  BY <1>3
<1> QED
  BY <1>4, <1>5, <1>6, <1>7, <1>8 DEF Entering

\* The details step goes on, with the next detail or with the same again.
LEMMA DetailsGoOn ==
  ASSUME IInv, task.pc = "details", OwnMove, StayClosed, UNCHANGED session,
         UNCHANGED <<queue, calls, shown, stopped>>,
         SameTask, task'.pc = "details", task'.result = task.result, task'.todo \subseteq Details,
         Entering(task', Move')
  PROVE  IInv'
<1>1. session \in Sessions /\ task.kind = "transfer" /\ ~task.result.confirmed /\ task.call \in Calls
  BY Unmoved DEF IInv, Typed, TaskFits
<1>2. Within
  BY <1>1 DEF Within
<1>3. task'.kind = "transfer" /\ ~task'.result.confirmed /\ task' \in TaskRecord /\ Move' \in MoveRecord
  BY <1>1 DEF SameTask, OwnMove, Move
<1>4. SoundFor(task', moves'[task'.call])
  BY <1>3, EnteringSound DEF Move
<1>5. OrderSound(task)'
  BY <1>4, SoundInIts DEF SameTask
<1>6. TaskFits'
  BY <1>3, <1>5, OrdersClosed DEF TaskFits, TrueReport
<1> QED
  BY <1>2, <1>6, WithinKept DEF IInv

LEMMA AddDetailKept == ASSUME IInv, AddDetail, UNCHANGED <<queue, calls, shown, stopped>> PROVE IInv'
<1> DEFINE d == Chosen(task.todo)
           c == [Move.details EXCEPT ![d] = @ + 1]
           m == [Move EXCEPT !.details = c]
           added == [moves EXCEPT ![task.call].details[d] = @ + 1]
           missed == IF moves'[task.call].details[d] = 0 THEN task.misread.details \cup {d}
                     ELSE task.misread.details
           w == [task.misread EXCEPT !.details = missed]
           left == task.todo \ {d}
<1>1. task.pc = "details" /\ task.todo # {} /\ UNCHANGED services
  BY DEF AddDetail
<1>2. session \in Sessions /\ task \in TaskRecord /\ task.todo \subseteq Details /\ Entering(task, Move)
  BY <1>1 DEF IInv, Typed, TaskFits
<1>3. d \in task.todo /\ d \in Details
  BY <1>1, <1>2 DEF Chosen
<1>4. Move \in MoveRecord /\ task.call \in Calls /\ task.misread \in MisreadRecord
  BY <1>1, <1>2, Unmoved, TaskFields
<1>5. Detail = d
  BY DEF Detail, Chosen
<1>6. /\ moves' \in TakenOfSaved(added)
      /\ \/ task' = [task EXCEPT !.todo = left, !.attempt = 1, !.misread = w] /\ UNCHANGED session
         \/ Retry \/ Broken
  BY <1>2, <1>4, <1>5 DEF AddDetail, TaskRecord, MisreadRecord
<1> HIDE DEF d
<1>7. Move.details \in [Details -> Nat]
  BY <1>4 DEF MoveRecord, Counts
<1>8. added = [moves EXCEPT ![task.call] = m]
  BY <1>4, <1>7 DEF IInv, Typed, Move, MoveRecord
<1>9. c \in Counts /\ \A e \in Details : c[e] = IF e = d THEN Move.details[e] + 1 ELSE Move.details[e]
  BY <1>3, <1>7 DEF Counts
<1> HIDE DEF c
<1>10. m \in MoveRecord /\ m.saved = Move.saved /\ m.confirmed = Move.confirmed /\ m.details = c
  BY <1>4, <1>9 DEF MoveRecord
<1> HIDE DEF m, added
<1>11. Attempted(Move, m, d)
  BY <1>9, <1>10 DEF Attempted
<1>12. Attempted(Move, Move, d)
  BY DEF Attempted
<1>13. SoundFor(task, m)
  BY <1>1, <1>2, <1>4, <1>10, <1>11, AttemptSound DEF d
<1>14. OwnMove /\ (moves'[task.call] = m \/ moves'[task.call] = Move)
  BY <1>1, <1>6, <1>8, <1>10, <1>13, MoveWritten
<1>15. moves'[task.call] \in MoveRecord /\ Attempted(Move, moves'[task.call], d)
  BY <1>4, <1>10, <1>11, <1>12, <1>14
<1>16. StayClosed
  BY <1>1, Unmoved
<1>17. /\ missed \subseteq Details /\ task.misread.details \subseteq missed
       /\ moves'[task.call].details[d] >= 1 \/ d \in missed
  <2>1. moves'[task.call].details[d] \in Nat
    BY <1>3, <1>15 DEF MoveRecord, Counts
  <2> QED
    BY <1>3, <1>4, <2>1 DEF MisreadRecord
<1> HIDE DEF missed
<1>18. w \in MisreadRecord /\ w.header = task.misread.header /\ w.details = missed
  BY <1>4, <1>17 DEF MisreadRecord
<1>19. left \subseteq Things /\ left \subseteq Details /\ left = task.todo \ {d}
  BY <1>2 DEF Things
<1> HIDE DEF w, left
<1>20. CASE task' = [task EXCEPT !.todo = left, !.attempt = 1, !.misread = w] /\ UNCHANGED session
  <2>1. task' \in TaskRecord
    BY <1>2, <1>18, <1>19, <1>20 DEF TaskRecord
  <2>2. /\ task'.call = task.call /\ task'.kind = task.kind /\ task'.arg = task.arg
        /\ task'.crashed = task.crashed /\ task'.pc = task.pc /\ task'.result = task.result
        /\ task'.todo = left /\ task'.again = task.again /\ task'.attempt = 1 /\ task'.misread = w
    BY <1>2, <1>20 DEF TaskRecord
  <2>3. Move' = moves'[task.call]
    BY <2>2 DEF Move
  <2> DEFINE u == task'
             n == Move'
  <2>4. /\ u \in TaskRecord /\ n \in MoveRecord /\ Attempted(Move, n, Chosen(task.todo))
        /\ u.todo = task.todo \ {Chosen(task.todo)} /\ u.attempt = 1 /\ u.again = task.again /\ u.arg = task.arg
        /\ u.misread.header = task.misread.header /\ task.misread.details \subseteq u.misread.details
        /\ n.details[Chosen(task.todo)] >= 1 \/ Chosen(task.todo) \in u.misread.details
    BY <1>15, <1>17, <1>18, <1>19, <2>1, <2>2, <2>3 DEF d
  <2> HIDE DEF u, n
  <2>5. Entering(u, n)
    BY <1>1, <1>2, <1>4, <2>4, NextEntering
  <2>6. Entering(task', Move')
    BY <2>5 DEF u, n
  <2>7. SameTask
    BY <2>1, <2>2 DEF SameTask
  <2> QED
    BY <1>1, <1>14, <1>16, <1>19, <1>20, <2>2, <2>6, <2>7, DetailsGoOn
<1>21. CASE Retry
  <2>1. CASE Fail
    BY <1>1, <1>14, <1>16, <2>1, FailKept
  <2>2. CASE task.attempt < DetailAttempts /\ task' = [task EXCEPT !.attempt = @ + 1, !.again = TRUE] /\ UNCHANGED session
    <3> DEFINE k == task.attempt + 1
    <3>1. k \in Nat /\ k = task.attempt + 1 /\ task' = [task EXCEPT !.attempt = k, !.again = TRUE]
      BY <1>2, <2>2, TaskFields
    <3> HIDE DEF k
    <3>2. task' \in TaskRecord
      BY <1>2, <3>1 DEF TaskRecord
    <3>3. /\ task'.call = task.call /\ task'.kind = task.kind /\ task'.arg = task.arg
          /\ task'.crashed = task.crashed /\ task'.pc = task.pc /\ task'.result = task.result
          /\ task'.todo = task.todo /\ task'.again = TRUE /\ task'.attempt = k /\ task'.misread = task.misread
      BY <1>2, <3>1 DEF TaskRecord
    <3>4. Move' = moves'[task.call]
      BY <3>3 DEF Move
    <3> DEFINE u == task'
               n == Move'
    <3>5. /\ u \in TaskRecord /\ n \in MoveRecord /\ Attempted(Move, n, Chosen(task.todo))
          /\ u.todo = task.todo /\ u.attempt = task.attempt + 1 /\ u.again = TRUE /\ u.arg = task.arg
          /\ u.misread = task.misread
      BY <1>15, <3>1, <3>2, <3>3, <3>4 DEF d
    <3> HIDE DEF u, n
    <3>6. Entering(u, n)
      BY <1>1, <1>2, <1>4, <2>2, <3>5, AgainEntering
    <3>7. Entering(task', Move')
      BY <3>6 DEF u, n
    <3>8. SameTask
      BY <3>2, <3>3 DEF SameTask
    <3> QED
      BY <1>1, <1>2, <1>14, <1>16, <2>2, <3>3, <3>7, <3>8, DetailsGoOn
  <2> QED
    BY <1>21, <2>1, <2>2 DEF Retry
<1>22. CASE Broken
  BY <1>1, <1>14, <1>16, <1>22, FailKept
<1> QED
  BY <1>6, <1>20, <1>21, <1>22

LEMMA EndDetailsKept == ASSUME IInv, EndDetails, UNCHANGED <<queue, calls, shown, stopped>> PROVE IInv'
<1>1. task.pc = "details" /\ task.todo = {} /\ UNCHANGED <<moves, services>>
  BY DEF EndDetails
<1>2. /\ session \in Sessions /\ task \in TaskRecord /\ Entering(task, Move)
      /\ task.kind = "transfer" /\ ~task.result.confirmed
  BY <1>1 DEF IInv, Typed, TaskFits
<1>3. OwnMove /\ StayClosed
  BY <1>1, Unmoved
<1>4. \/ session' \in ReturnToMoveList(session) /\ Return(TRUE)
      \/ task.arg # "save only" /\ Step("confirm") /\ UNCHANGED session
  BY DEF EndDetails
<1>5. CASE session' \in ReturnToMoveList(session) /\ Return(TRUE)
  <2>1. /\ SameTask /\ task'.pc = "ended" /\ task'.again = task.again /\ task'.result = task.result
        /\ task'.misread = task.misread
    BY <1>2, <1>5, ReturnForm
  <2>2. session' \in Sessions
    BY <1>2, <1>5, ReturnToMoveListTyped
  <2>3. Within
    BY <1>3, <2>1, <2>2 DEF Within
  <2>4. moves'[task'.call] = Move
    BY <1>1, <2>1 DEF Move, SameTask
  <2>5. task'.kind = "transfer" /\ ~task'.result.confirmed
    BY <1>2, <2>1 DEF SameTask
  <2>6. OrderComplete(task)'
    BY <1>1, <1>2, <2>1, <2>4, <2>5 DEF OrderComplete, Entering
  <2>7. OrderSound(task)'
    BY <1>3, <2>1, StepSound
  <2>8. TrueReport(task)'
    BY <2>5, <2>6, <2>7 DEF TrueReport
  <2>9. TaskFits'
    BY <1>3, <2>1, <2>8, OrdersClosed DEF TaskFits
  <2> QED
    BY <1>1, <2>3, <2>9, WithinKept DEF IInv
<1>6. CASE task.arg # "save only" /\ Step("confirm") /\ UNCHANGED session
  <2>1. /\ SameTask /\ task'.pc = "confirm" /\ task'.todo = task.todo /\ task'.again = task.again
        /\ task'.result = task.result /\ task'.misread = task.misread
    BY <1>2, <1>6, StepForm DEF Pcs
  <2>2. Within
    BY <1>2, <1>3, <1>6, <2>1 DEF Within
  <2>3. task'.kind = "transfer" /\ ~task'.result.confirmed /\ task'.todo = {} /\ task'.arg # "save only"
    BY <1>1, <1>2, <1>6, <2>1 DEF SameTask
  <2>4. Move' = Move
    BY <1>1, <2>1 DEF Move, SameTask
  <2>5. Entering(task', Move')
    BY <1>1, <1>2, <2>1, <2>3, <2>4 DEF Entering
  <2>6. OrderSound(task)'
    BY <1>3, <2>1, StepSound
  <2>7. TaskFits'
    BY <1>3, <2>1, <2>3, <2>5, <2>6, OrdersClosed DEF TaskFits, TrueReport
  <2> QED
    BY <1>1, <2>2, <2>7, WithinKept DEF IInv
<1> QED
  BY <1>4, <1>5, <1>6

LEMMA ConfirmKept == ASSUME IInv, Confirm, UNCHANGED <<queue, calls, shown, stopped>> PROVE IInv'
<1> DEFINE m == [Move EXCEPT !.confirmed = TRUE]
           confirmed == [moves EXCEPT ![task.call].confirmed = TRUE]
           r == [task.result EXCEPT !.confirmed = TRUE]
           wrong == ~moves'[task.call].confirmed
           w == [task.misread EXCEPT !.confirm = wrong]
           done == /\ session' \in ReturnToMoveList(session)
                   /\ task' = [task EXCEPT !.pc = "ended", !.ok = TRUE, !.result = r, !.misread = w]
           again == task' = [task EXCEPT !.attempt = @ + 1] /\ UNCHANGED session
<1>1. task.pc = "confirm" /\ UNCHANGED services
  BY DEF Confirm
<1>2. /\ session \in Sessions /\ task \in TaskRecord /\ task.todo = {} /\ Entering(task, Move)
      /\ task.kind = "transfer" /\ ~task.result.confirmed /\ task.arg # "save only"
  BY <1>1 DEF IInv, Typed, TaskFits
<1>3. task.result \in ResultRecord /\ task.misread \in MisreadRecord
  BY <1>2, TaskFields
<1>4. moves' \in TakenOfSaved(confirmed) /\ (done \/ again \/ Fail \/ Broken)
  BY <1>2, <1>3 DEF Confirm, TaskRecord, ResultRecord, MisreadRecord
<1>5. Move \in MoveRecord /\ task.call \in Calls
  BY <1>1, Unmoved
<1>6. confirmed = [moves EXCEPT ![task.call] = m]
  BY <1>5 DEF IInv, Typed, Move
<1>7. m \in MoveRecord /\ m.saved = Move.saved /\ m.details = Move.details /\ m.confirmed
  BY <1>5 DEF MoveRecord
<1>8. r \in ResultRecord /\ r.orders = task.result.orders
  BY <1>3 DEF ResultRecord
<1>9. w \in MisreadRecord /\ w.header = task.misread.header /\ w.details = task.misread.details
      /\ (w.confirm <=> wrong)
  BY <1>3 DEF MisreadRecord
<1> HIDE DEF m, confirmed, r, w
<1>10. SoundFor(task, m)
  BY <1>2, <1>7 DEF SoundFor, Entering
<1>11. OwnMove /\ (moves'[task.call] = m \/ moves'[task.call] = Move)
  BY <1>1, <1>4, <1>6, <1>7, <1>10, MoveWritten
<1>12. moves'[task.call].saved = Move.saved /\ moves'[task.call].details = Move.details
  BY <1>7, <1>11
<1>13. StayClosed
  BY <1>1, Unmoved
<1>14. CASE done
  <2>1. session' \in Sessions /\ task' = [task EXCEPT !.pc = "ended", !.ok = TRUE, !.result = r, !.misread = w]
    BY <1>2, <1>14, ReturnToMoveListTyped
  <2> HIDE DEF done
  <2>2. task' \in TaskRecord
    BY <1>2, <1>8, <1>9, <2>1 DEF TaskRecord, Pcs
  <2>3. /\ task'.call = task.call /\ task'.kind = task.kind /\ task'.arg = task.arg
        /\ task'.crashed = task.crashed /\ task'.pc = "ended" /\ task'.result = r
        /\ task'.again = task.again /\ task'.misread = w
    BY <1>2, <2>1 DEF TaskRecord
  <2>4. SameTask
    BY <2>2, <2>3 DEF SameTask
  <2>5. Within
    BY <1>11, <1>13, <2>1, <2>3, <2>4, <1>1 DEF Within
  <2>6. task'.kind = "transfer" /\ moves'[task'.call] = moves'[task.call]
    BY <1>2, <2>3
  <2>7. OrderComplete(task)'
    <3>1. moves'[task'.call].saved \/ task'.misread.header
      BY <1>2, <1>9, <1>12, <2>3, <2>6 DEF Entering
    <3>2. \A d \in Details : moves'[task'.call].details[d] >= 1 \/ d \in task'.misread.details
      BY <1>2, <1>9, <1>12, <2>3, <2>6 DEF Entering
    <3>3. moves'[task'.call].confirmed \/ task'.misread.confirm
      BY <1>9, <2>3, <2>6
    <3> QED
      BY <3>1, <3>2, <3>3 DEF OrderComplete
  <2>8. SoundFor(task, moves'[task.call])
    BY <1>2, <1>11 DEF OwnMove
  <2>9. SoundFor(task', moves'[task'.call])
    BY <1>9, <2>3, <2>6, <2>8 DEF SoundFor
  <2>10. TrueReport(task)'
    BY <2>3, <2>6, <2>7, <2>9, SoundInIts DEF TrueReport
  <2>11. TaskFits'
    BY <1>8, <1>13, <2>3, <2>10, OrdersClosed DEF TaskFits
  <2> QED
    BY <1>1, <2>5, <2>11, WithinKept DEF IInv
<1>15. CASE again
  <2> DEFINE n == task.attempt + 1
  <2>1. n \in Nat /\ task' = [task EXCEPT !.attempt = n] /\ UNCHANGED session
    <3>1. task.attempt \in Nat
      BY <1>2, TaskFields
    <3> QED
      BY <1>15, <3>1
  <2> HIDE DEF n, again
  <2>2. task' \in TaskRecord
    BY <1>2, <2>1 DEF TaskRecord
  <2>3. /\ task'.call = task.call /\ task'.kind = task.kind /\ task'.arg = task.arg
        /\ task'.crashed = task.crashed /\ task'.pc = task.pc /\ task'.result = task.result
        /\ task'.todo = task.todo /\ task'.again = task.again /\ task'.misread = task.misread
    BY <1>2, <2>1 DEF TaskRecord
  <2>4. SameTask
    BY <2>2, <2>3 DEF SameTask
  <2>5. Within
    BY <1>1, <1>2, <1>11, <1>13, <2>1, <2>3, <2>4 DEF Within
  <2>6. Move' = moves'[task.call]
    BY <2>3 DEF Move
  <2>7. /\ task'.kind = "transfer" /\ ~task'.result.confirmed /\ task'.pc = "confirm"
        /\ task'.todo = {} /\ task'.arg # "save only"
    BY <1>1, <1>2, <2>3
  <2>8. Entering(task', Move')
    BY <1>2, <1>12, <2>3, <2>6, <2>7 DEF Entering
  <2>9. OrderSound(task)'
    BY <1>11, <2>3, <2>4, StepSound
  <2>10. TaskFits'
    BY <1>13, <2>3, <2>7, <2>8, <2>9, OrdersClosed DEF TaskFits, TrueReport
  <2> QED
    BY <1>1, <2>5, <2>10, WithinKept DEF IInv
<1>16. CASE Fail \/ Broken
  BY <1>1, <1>11, <1>13, <1>16, FailKept
<1> QED
  BY <1>4, <1>14, <1>15, <1>16

-----------------------------------------------------------------------------
(* Service orders.                                                         *)

LEMMA CloseBeginKept == ASSUME IInv, CloseBegin, UNCHANGED <<queue, calls, shown, stopped>> PROVE IInv'
<1> DEFINE listed(x) == Caught(OpenServiceOrderList(x))
<1>1. task.pc = "close" /\ UNCHANGED <<moves, services>>
  BY DEF CloseBegin
<1>2. /\ session \in Sessions /\ task \in TaskRecord /\ task.kind = "close" /\ task.todo \subseteq ServiceOrders
  BY <1>1 DEF IInv, Typed, TaskFits
<1>3. PICK o \in Then(BeginJob(session), listed) : Continue(o, "open")
  BY DEF CloseBegin
<1>4. o \in BeginJob(session) \/ \E p \in BeginJob(session) : o \in listed(p.to)
  BY <1>3 DEF Then, Says
<1>5. \A p \in BeginJob(session) : listed(p.to) \subseteq Outcomes
  BY <1>2, BeginJobTyped, OutcomeFields, OpenServiceOrderListTyped, CaughtTyped
<1> HIDE DEF listed
<1>6. o \in Outcomes
  BY <1>2, <1>4, <1>5, BeginJobTyped
<1>7. session' \in Sessions /\ (Step("open") \/ GivesUp)
  BY <1>2, <1>3, <1>6, ContinueForm DEF Pcs
<1>8. OwnMove /\ StayClosed
  BY <1>1, Unmoved
<1>9. CASE GivesUp
  BY <1>1, <1>7, <1>8, <1>9, GivingUpKept
<1>10. CASE Step("open")
  <2>1. SameTask /\ task'.pc = "open" /\ task'.todo = task.todo /\ task'.result = task.result
    BY <1>2, <1>10, StepForm DEF Pcs
  <2>2. Within
    BY <1>7, <1>8, <2>1 DEF Within
  <2>3. task'.kind = "close" /\ task'.todo \subseteq ServiceOrders
    BY <1>2, <2>1 DEF SameTask
  <2>4. TaskFits'
    BY <1>8, <2>1, <2>3, OrdersClosed DEF TaskFits, TrueReport, OrderSound
  <2> QED
    BY <1>1, <2>2, <2>4, WithinKept DEF IInv
<1> QED
  BY <1>7, <1>9, <1>10

\* An order is reported only when it is closed.
LEMMA NextOrderKept ==
  ASSUME IInv, task.pc \in {"open", "wait"}, task.todo # {}, session' \in Sessions, OwnMove, StayClosed,
         UNCHANGED <<queue, calls, shown, stopped>>,
         NEW reported \in BOOLEAN, NextOrder(reported), reported => services'[Order] = "closed"
  PROVE  IInv'
<1> DEFINE left == task.todo \ {Order}
           orders == IF reported THEN task.result.orders \cup {Order} ELSE task.result.orders
           r == [task.result EXCEPT !.orders = orders]
<1>1. task \in TaskRecord /\ task.kind = "close" /\ task.todo \subseteq ServiceOrders
  BY DEF IInv, Typed, TaskFits
<1>2. task.result \in ResultRecord
  BY <1>1, TaskFields
<1>3. Order \in ServiceOrders
  BY <1>1 DEF Order
<1>4. orders \subseteq ServiceOrders
  BY <1>2, <1>3 DEF ResultRecord
<1>5. task' = [task EXCEPT !.pc = "open", !.attempt = 1, !.todo = left, !.result = r]
  BY <1>1, <1>2 DEF NextOrder, TaskRecord, ResultRecord
<1>6. r \in ResultRecord /\ r.orders = orders
  BY <1>2, <1>4 DEF ResultRecord
<1>7. left \subseteq ServiceOrders
  BY <1>1
<1>8. \A o \in task.result.orders : o \in ServiceOrders /\ services[o] = "closed"
  BY <1>2 DEF IInv, TaskFits, ResultRecord
<1>9. \A o \in orders : services'[o] = "closed"
  BY <1>8 DEF StayClosed
<1> HIDE DEF left, orders, r
<1>10. left \subseteq Things
  BY <1>7 DEF Things
<1>11. task' \in TaskRecord
  BY <1>1, <1>5, <1>6, <1>10 DEF TaskRecord, Pcs
<1>12. /\ task'.call = task.call /\ task'.kind = task.kind /\ task'.arg = task.arg
       /\ task'.crashed = task.crashed /\ task'.pc = "open" /\ task'.result = r /\ task'.todo = left
  BY <1>1, <1>5 DEF TaskRecord
<1>13. Within
  BY <1>11, <1>12 DEF Within, SameTask
<1>14. TaskFits'
  BY <1>1, <1>6, <1>7, <1>9, <1>12 DEF TaskFits, TrueReport, OrderSound
<1> QED
  BY <1>13, <1>14, WithinKept DEF IInv

LEMMA NextAttemptKept ==
  ASSUME IInv, task.pc \in {"open", "wait"}, task.todo # {}, session' \in Sessions, OwnMove, StayClosed,
         UNCHANGED <<queue, calls, shown, stopped>>, NextAttempt
  PROVE  IInv'
<1>1. CASE NextOrder(FALSE)
  BY <1>1, NextOrderKept
<1>2. CASE task' = [task EXCEPT !.pc = "open", !.attempt = @ + 1]
  <2> DEFINE n == task.attempt + 1
  <2>1. task \in TaskRecord /\ task.kind = "close" /\ task.todo \subseteq ServiceOrders
    BY DEF IInv, Typed, TaskFits
  <2>2. n \in Nat /\ task' = [task EXCEPT !.pc = "open", !.attempt = n]
    BY <1>2, <2>1, TaskFields
  <2> HIDE DEF n
  <2>3. task' \in TaskRecord
    BY <2>1, <2>2 DEF TaskRecord, Pcs
  <2>4. /\ task'.call = task.call /\ task'.kind = task.kind /\ task'.arg = task.arg
        /\ task'.crashed = task.crashed /\ task'.pc = "open" /\ task'.result = task.result
        /\ task'.todo = task.todo
    BY <2>1, <2>2 DEF TaskRecord
  <2>5. Within
    BY <2>3, <2>4 DEF Within, SameTask
  <2>6. TaskFits'
    BY <2>1, <2>4, OrdersClosed DEF TaskFits, TrueReport, OrderSound
  <2> QED
    BY <2>5, <2>6, WithinKept DEF IInv
<1> QED
  BY <1>1, <1>2 DEF NextAttempt

LEMMA CloseOpenKept == ASSUME IInv, CloseOpen, UNCHANGED <<queue, calls, shown, stopped>> PROVE IInv'
<1>1. task.pc = "open" /\ task.todo # {} /\ UNCHANGED moves
  BY DEF CloseOpen
<1>2. /\ session \in Sessions /\ task \in TaskRecord /\ task.kind = "close" /\ task.todo \subseteq ServiceOrders
      /\ services \in [ServiceOrders -> States]
  BY <1>1 DEF IInv, Typed, TaskFits
<1>3. PICK o \in OpenServiceOrderList(session) :
        /\ session' = o.to
        /\ \/ (Return(FALSE) \/ NextAttempt) /\ UNCHANGED services
           \/ services[Order] = "closed" /\ NextOrder(TRUE) /\ UNCHANGED services
           \/ /\ services[Order] # "closed"
              /\ services' \in {services, [services EXCEPT ![Order] = "closing"]}
              /\ task' = [task EXCEPT !.pc = "wait"]
  <2>1. PICK o \in OpenServiceOrderList(session) :
          /\ session' = o.to
          /\ CASE o.says = "error" -> Return(FALSE) /\ UNCHANGED services
               [] o.says = "no" -> NextAttempt /\ UNCHANGED services
               [] o.says = "yes" ->
                    \/ services[Order] = "closed" /\ NextOrder(TRUE) /\ UNCHANGED services
                    \/ NextAttempt /\ UNCHANGED services
                    \/ Return(FALSE) /\ UNCHANGED services
                    \/ /\ services[Order] # "closed"
                       /\ services' \in {services, [services EXCEPT ![Order] = "closing"]}
                       /\ task' = [task EXCEPT !.pc = "wait"]
    BY DEF CloseOpen
  <2>2. o.says \in {"yes", "no", "error"}
    BY <1>2, <2>1, OpenServiceOrderListTyped, OutcomeFields DEF Answers
  <2>3. CASE o.says = "error"
    BY <2>1, <2>3
  <2>4. CASE o.says = "no"
    BY <2>1, <2>4
  <2>5. CASE o.says = "yes"
    BY <2>1, <2>5
  <2> QED
    BY <2>2, <2>3, <2>4, <2>5
<1>4. session' \in Sessions
  BY <1>2, <1>3, OpenServiceOrderListTyped, OutcomeFields
<1>5. OwnMove /\ (UNCHANGED services => StayClosed)
  BY <1>1, Unmoved
<1>6. CASE Return(FALSE) /\ UNCHANGED services
  BY <1>1, <1>2, <1>4, <1>5, <1>6, GivesUpForm, GivingUpKept
<1>7. CASE NextAttempt /\ UNCHANGED services
  BY <1>1, <1>4, <1>5, <1>7, NextAttemptKept
<1>8. CASE services[Order] = "closed" /\ NextOrder(TRUE) /\ UNCHANGED services
  BY <1>1, <1>4, <1>5, <1>8, NextOrderKept
<1>9. CASE /\ services[Order] # "closed"
           /\ services' \in {services, [services EXCEPT ![Order] = "closing"]}
           /\ task' = [task EXCEPT !.pc = "wait"]
  <2>1. Order \in ServiceOrders
    BY <1>1, <1>2 DEF Order
  <2>2. StayClosed
    BY <1>2, <1>9, <2>1 DEF StayClosed, States
  <2>3. task' \in TaskRecord
    BY <1>2, <1>9 DEF TaskRecord, Pcs
  <2>4. /\ task'.call = task.call /\ task'.kind = task.kind /\ task'.arg = task.arg
        /\ task'.crashed = task.crashed /\ task'.pc = "wait" /\ task'.result = task.result
        /\ task'.todo = task.todo
    BY <1>2, <1>9 DEF TaskRecord
  <2>5. Within
    BY <1>4, <1>5, <2>2, <2>3, <2>4 DEF Within, SameTask
  <2>6. TaskFits'
    BY <1>1, <1>2, <2>2, <2>4, OrdersClosed DEF TaskFits, TrueReport, OrderSound
  <2> QED
    BY <1>1, <2>5, <2>6, WithinKept DEF IInv
<1> QED
  BY <1>3, <1>6, <1>7, <1>8, <1>9

LEMMA CloseWaitKept == ASSUME IInv, CloseWait, UNCHANGED <<queue, calls, shown, stopped>> PROVE IInv'
<1>1. task.pc = "wait" /\ UNCHANGED <<moves, services>>
  BY DEF CloseWait
<1>2. session \in Sessions /\ task.todo # {}
  BY <1>1 DEF IInv, Typed, TaskFits
<1>3. OwnMove /\ StayClosed
  BY <1>1, Unmoved
<1>4. \/ services[Order] = "closed" /\ NextOrder(TRUE) /\ UNCHANGED session
      \/ NextAttempt /\ UNCHANGED session
      \/ Broken
  BY DEF CloseWait
<1>5. CASE services[Order] = "closed" /\ NextOrder(TRUE) /\ UNCHANGED session
  BY <1>1, <1>2, <1>3, <1>5, NextOrderKept
<1>6. CASE NextAttempt /\ UNCHANGED session
  BY <1>1, <1>2, <1>3, <1>6, NextAttemptKept
<1>7. CASE Broken
  BY <1>1, <1>3, <1>7, FailKept
<1> QED
  BY <1>4, <1>5, <1>6, <1>7

LEMMA CloseEndKept == ASSUME IInv, CloseEnd, UNCHANGED <<queue, calls, shown, stopped>> PROVE IInv'
<1> DEFINE all == (task.result.orders = ServiceOrders)
<1>1. task.pc = "open" /\ UNCHANGED <<session, moves, services>> /\ Return(all) /\ all \in BOOLEAN
  BY DEF CloseEnd
<1>2. session \in Sessions /\ task \in TaskRecord /\ task.kind = "close"
  BY <1>1 DEF IInv, Typed, TaskFits
<1> HIDE DEF all
<1>3. SameTask /\ task'.pc = "ended" /\ task'.result = task.result
  BY <1>1, <1>2, ReturnForm
<1>4. OwnMove /\ StayClosed
  BY <1>1, Unmoved
<1>5. Within
  BY <1>1, <1>2, <1>3, <1>4 DEF Within
<1>6. task'.kind = "close"
  BY <1>2, <1>3 DEF SameTask
<1>7. TaskFits'
  BY <1>3, <1>4, <1>6, OrdersClosed DEF TaskFits, TrueReport, OrderSound
<1> QED
  BY <1>1, <1>5, <1>7, WithinKept DEF IInv

LEMMA OrderStepKept == ASSUME IInv, RunOrders PROVE IInv'
<1>1. OrderStep /\ UNCHANGED <<queue, calls, shown, stopped>>
  BY DEF RunOrders
<1> QED
  BY <1>1, QueryOpenKept, QuerySubmitKept, QueryExtractKept, TransferFormKept, SaveHeaderKept, AddDetailKept,
     EndDetailsKept, ConfirmKept, CloseBeginKept, CloseOpenKept, CloseWaitKept, CloseEndKept DEF OrderStep

-----------------------------------------------------------------------------
(* The worker's own steps.                                                 *)

LEMMA MethodTyped ==
  ASSUME NEW s \in Sessions, NEW kind \in Short
  PROVE  Method(kind, s) \subseteq Outcomes
<1>1. CASE kind = "step1"
  BY <1>1, LoginStep1Typed, CaughtTyped DEF Method
<1>2. CASE kind = "step2"
  BY <1>2, LoginStep2Typed, CaughtTyped DEF Method
<1>3. CASE kind = "login"
  BY <1>3, LoginOnceTyped, CaughtTyped DEF Method
<1>4. CASE kind = "logout"
  BY <1>4, EndingsTyped DEF Method
<1>5. CASE kind = "cancel"
  BY <1>5, EndingsTyped DEF Method
<1>6. CASE kind = "check"
  BY <1>6, CheckLoginStatusTyped DEF Method
<1>7. CASE kind = "idle"
  BY <1>7, CloseIdleTyped DEF Method
<1>8. CASE kind = "shutdown"
  BY <1>8, EndingsTyped DEF Method
<1> QED
  BY <1>1, <1>2, <1>3, <1>4, <1>5, <1>6, <1>7, <1>8 DEF Short

LEMMA RunMethodKept == ASSUME IInv, RunMethod PROVE IInv'
<1>1. task.pc = "login" /\ UNCHANGED <<moves, services, queue, calls, shown, stopped>>
  BY DEF RunMethod
<1>2. session \in Sessions /\ task \in TaskRecord /\ task.kind \in Short
  BY <1>1 DEF IInv, Typed, TaskFits
<1>3. PICK o \in Method(task.kind, session) :
        session' = o.to /\ (Raise \/ Return(o.says = "yes"))
  BY DEF RunMethod
<1>4. session' \in Sessions
  BY <1>2, <1>3, MethodTyped, OutcomeFields
<1>5. OwnMove /\ StayClosed
  BY <1>1, Unmoved
<1>6. CASE Raise
  BY <1>1, <1>2, <1>4, <1>5, <1>6, GivesUpForm, GivingUpKept
<1>7. CASE Return(o.says = "yes")
  <2> DEFINE ok == (o.says = "yes")
  <2>1. ok \in BOOLEAN /\ Return(ok)
    BY <1>7
  <2> HIDE DEF ok
  <2>2. SameTask /\ task'.pc = "ended" /\ task'.result = task.result
    BY <1>2, <2>1, ReturnForm
  <2>3. Within
    BY <1>1, <1>4, <1>5, <2>2 DEF Within
  <2>4. task'.kind \in Short
    BY <1>2, <2>2 DEF SameTask
  <2>5. TaskFits'
    BY <1>5, <2>2, <2>4, OrdersClosed DEF TaskFits, TrueReport, OrderSound, Short
  <2> QED
    BY <1>1, <2>3, <2>5, WithinKept DEF IInv
<1> QED
  BY <1>3, <1>6, <1>7

LEMMA HandleRaisedKept == ASSUME IInv, HandleRaised PROVE IInv'
<1>1. task.pc = "raised" /\ UNCHANGED <<moves, services, queue, calls, shown, stopped>> /\ Broken
  BY DEF HandleRaised, Broken
<1>2. OwnMove /\ StayClosed
  BY <1>1, Unmoved
<1> QED
  BY <1>1, <1>2, FailKept

LEMMA UpdateStateKept == ASSUME IInv, UpdateState PROVE IInv'
<1> DEFINE new == [running |-> Alive(session), loggedIn |-> Alive(session) /\ session.loggedIn,
                   remembered |-> session.loggedIn]
<1>1. /\ task.pc = "ended" /\ shown' = new /\ task' = [task EXCEPT !.pc = "answer"]
      /\ UNCHANGED <<session, moves, services, queue, calls, stopped>>
  BY DEF UpdateState
<1>2. Typed /\ OnePlace /\ session \in Sessions /\ task \in TaskRecord /\ task.result \in ResultRecord
  BY TaskFields DEF IInv, Typed
<1>3. new \in ShownRecord
  BY <1>2, SessionFields DEF ShownRecord, Alive
<1>4. new.loggedIn => new.running /\ Alive(session) /\ session.loggedIn
  OBVIOUS
<1> HIDE DEF new
<1>5. task' \in TaskRecord
  BY <1>1, <1>2 DEF TaskRecord, Pcs
<1>6. task'.call = task.call /\ task'.kind = task.kind /\ task'.pc = "answer" /\ task'.result = task.result
  BY <1>1, <1>2 DEF TaskRecord
<1>7. Typed'
  BY <1>1, <1>2, <1>3, <1>5 DEF Typed
<1>8. OnePlace'
  BY <1>1, <1>2, <1>6 DEF OnePlace, Queued
<1>9. ASSUME NEW c \in Calls PROVE CallFits(c)'
  BY <1>1 DEF IInv, CallFits, Queued
<1>10. \A o \in task'.result.orders : services'[o] = "closed"
  BY <1>1, <1>6 DEF IInv, TaskFits
<1>11. SameTask /\ task'.again = task.again /\ task'.misread = task.misread
  BY <1>1, <1>2, <1>5 DEF SameTask, TaskRecord
<1>12. OrderSound(task)'
  BY <1>1, <1>11, Unmoved, StepSound
<1>13. TaskFits'
  BY <1>6, <1>10, <1>12 DEF TaskFits, TrueReport
<1>14. Believed'
  <2>1. Alive(session)' <=> Alive(session)
    BY <1>1 DEF Alive
  <2> QED
    BY <1>1, <1>4, <2>1 DEF Believed
<1> QED
  BY <1>7, <1>8, <1>9, <1>13, <1>14 DEF IInv

\* What a worker without a task looks like.
LEMMA NoTaskFields ==
  /\ NoTask \in TaskRecord /\ NoTask.call = 0 /\ NoTask.pc = "none" /\ NoTask.result.orders = {}
  /\ NoTask.result.confirmed = FALSE /\ NoTask.again = FALSE /\ NoTask.kind = "none"
<1>1. NoResult \in ResultRecord
  BY DEF NoResult, ResultRecord, Pages
<1>2. NoTask \in TaskRecord
  BY <1>1 DEF NoTask, TaskRecord, CallIds, Args, Pcs, NoneMisread, MisreadRecord
<1> QED
  BY <1>2 DEF NoTask, NoResult

LEMMA AnswerKept == ASSUME IInv, Answer PROVE IInv'
<1> DEFINE is == IF task.kind \in {"logout", "cancel", "shutdown"} THEN "answered" ELSE "returned"
           new == [calls[task.call] EXCEPT !.is = is]
<1>1. /\ task.pc = "answer" /\ calls' = [calls EXCEPT ![task.call].is = is]
      /\ stopped' = (task.kind = "shutdown") /\ task' = NoTask
      /\ UNCHANGED <<session, moves, services, queue, shown>>
  BY DEF Answer
<1>2. /\ Typed /\ OnePlace /\ calls \in [Calls -> CallRecord]
      /\ task.call \in Calls /\ task.kind = calls[task.call].kind /\ calls[task.call].is = "waiting"
  BY <1>1 DEF IInv, Typed, OnePlace
<1>3. calls[task.call] \in CallRecord
  BY <1>2
<1>4. calls' = [calls EXCEPT ![task.call] = new]
  BY <1>1, <1>2
<1>5. /\ new \in CallRecord /\ new.is \in {"answered", "returned"}
      /\ new.kind = task.kind /\ new.arg = calls[task.call].arg
      /\ new.is = "answered" => new.kind \in {"logout", "cancel", "shutdown"}
  BY <1>2, <1>3 DEF CallRecord
<1> HIDE DEF new, is
<1>6. calls' \in [Calls -> CallRecord] /\ calls'[task.call] = new
  BY <1>2, <1>4, <1>5
<1>7. \A c \in Calls : c # task.call => calls'[c] = calls[c]
  BY <1>2, <1>4
<1>8. Typed'
  BY <1>1, <1>2, <1>6, NoTaskFields DEF Typed
<1>9. \A c \in Calls : c # 0
  BY DEF Calls
<1>10. OnePlace'
  BY <1>1, <1>2, <1>7, <1>9, NoTaskFields DEF OnePlace, Queued
<1>11. ASSUME NEW c \in Calls PROVE CallFits(c)'
  <2>1. CallFits(c) /\ (Queued(c)' <=> Queued(c)) /\ moves'[c] = moves[c]
    BY <1>1 DEF IInv, Queued
  <2>2. CASE c = task.call
    <3>1. ~Queued(c) /\ calls'[c] = new /\ calls[c].kind = new.kind /\ calls[c].arg = new.arg /\ calls[c].is = "waiting"
      BY <1>2, <1>5, <1>6, <2>2 DEF OnePlace
    <3> QED
      BY <1>5, <2>1, <3>1 DEF CallFits
  <2>3. CASE c # task.call
    BY <1>7, <2>1, <2>3 DEF CallFits
  <2> QED
    BY <2>2, <2>3
<1>12. task'.pc = "none" /\ task'.kind = "none" /\ task'.result.orders = {}
  BY <1>1, NoTaskFields
<1>13. TaskFits'
  BY <1>12 DEF TaskFits, TrueReport, OrderSound
<1>14. Believed'
  BY <1>1, <1>12 DEF IInv, Believed, Alive
<1> QED
  BY <1>8, <1>10, <1>11, <1>13, <1>14 DEF IInv

LEMMA TakeTaskKept == ASSUME IInv, TakeTask PROVE IInv'
<1> DEFINE c == Head(queue)
           kind == calls[c].kind
           arg == calls[c].arg
           pc == Pc[kind]
           todo == CASE kind = "transfer" -> Details
                     [] kind = "close" -> ServiceOrders
                     [] OTHER -> {}
<1>1. /\ task.pc = "none" /\ queue # <<>> /\ queue' = Tail(queue)
      /\ task' = [NoTask EXCEPT !.call = c, !.kind = kind, !.arg = arg, !.pc = pc, !.todo = todo]
      /\ UNCHANGED <<session, moves, services, calls, shown, stopped>>
  BY DEF TakeTask
<1>2. Typed /\ OnePlace /\ queue \in Seq(Calls) /\ calls \in [Calls -> CallRecord]
  BY DEF IInv, Typed
<1>3. /\ c \in Calls /\ Len(queue) \in Nat /\ Len(queue) >= 1 /\ c = queue[1]
      /\ queue' \in Seq(Calls) /\ Len(queue') = Len(queue) - 1
      /\ \A i \in 1..Len(queue') : queue'[i] = queue[i + 1] /\ i + 1 \in 1..Len(queue)
  BY <1>1, <1>2
<1>4. Queued(c) /\ calls[c].is = "waiting" /\ CallFits(c) /\ calls[c] \in CallRecord
  BY <1>2, <1>3 DEF Queued, OnePlace, IInv
<1>5. /\ kind \in Kinds /\ arg \in Args /\ moves[c] = NoMove
      /\ kind = "query" => arg \in Barcodes
  BY <1>4 DEF CallFits, CallRecord
<1>6. /\ pc \in Pcs /\ pc \in {"login", "query", "form", "close"}
      /\ pc = "login" => kind \in Short
      /\ pc = "query" => kind = "query"
      /\ pc = "form" => kind = "transfer"
      /\ pc = "close" => kind = "close"
  <2>1. CASE kind \in Short
    BY <2>1 DEF Pc, Short, Pcs
  <2>2. CASE kind \in {"query", "transfer", "close"}
    BY <2>2 DEF Pc, Pcs
  <2> QED
    BY <1>5, <2>1, <2>2 DEF Kinds
<1>7. /\ todo \subseteq Things
      /\ kind = "transfer" => todo = Details
      /\ kind = "close" => todo = ServiceOrders
  BY DEF Things
<1> HIDE DEF c, kind, arg, pc, todo
<1>8. task' \in TaskRecord
  BY <1>1, <1>3, <1>5, <1>6, <1>7, NoTaskFields DEF TaskRecord, CallIds
<1>9. /\ task'.call = c /\ task'.kind = kind /\ task'.arg = arg /\ task'.pc = pc /\ task'.todo = todo
      /\ task'.again = NoTask.again /\ task'.result = NoTask.result
  BY <1>1, NoTaskFields DEF TaskRecord
<1>10. Typed'
  BY <1>1, <1>2, <1>3, <1>8 DEF Typed
<1>11. \A i \in 1..Len(queue') : queue'[i] # c
  BY SMTT(30), <1>2, <1>3 DEF OnePlace
<1>12. OnePlace'
  <2>1. \A i, j \in 1..Len(queue') : queue'[i] = queue'[j] => i = j
    BY <1>2, <1>3 DEF OnePlace
  <2>2. ASSUME NEW d \in Calls, Queued(d)' PROVE calls'[d].is = "waiting" /\ d # task'.call
    <3>1. Queued(d) /\ d # c
      BY <1>3, <1>11, <2>2 DEF Queued
    <3> QED
      BY <1>1, <1>2, <1>9, <3>1 DEF OnePlace
  <2>3. /\ task'.call \in Calls /\ calls'[task'.call].is = "waiting" /\ task'.kind = calls'[task'.call].kind
        /\ task'.pc # "none"
    BY <1>1, <1>3, <1>4, <1>6, <1>9 DEF kind
  <2> QED
    BY <2>1, <2>2, <2>3 DEF OnePlace
<1>13. ASSUME NEW d \in Calls PROVE CallFits(d)'
  <2>1. Queued(d)' => Queued(d)
    BY <1>3 DEF Queued
  <2> QED
    BY <1>1, <2>1 DEF CallFits, IInv
<1>14. /\ task'.result.orders = {} /\ ~task'.result.confirmed /\ ~task'.again
  BY <1>9, NoTaskFields
<1>15. Move' = NoMove
  BY <1>1, <1>5, <1>9 DEF Move
<1>16. OrderSound(task)'
  BY <1>15 DEF OrderSound, Move, NoMove
<1>17. TaskFits'
  BY <1>5, <1>6, <1>7, <1>9, <1>14, <1>15, <1>16 DEF TaskFits, TrueReport
<1>18. Believed'
  BY <1>6, <1>9 DEF Believed
<1> QED
  BY <1>10, <1>12, <1>13, <1>17, <1>18 DEF IInv

-----------------------------------------------------------------------------
(* Callers, and what happens outside.                                      *)

\* What the worker and the CRM hold, when only callers have moved.
LEMMA CallersKept ==
  ASSUME IInv, UNCHANGED ordersVars
  PROVE  TaskFits'
<1>1. TaskFits /\ UNCHANGED <<session, moves, services, task>>
  BY DEF IInv, ordersVars
<1> QED
  BY <1>1 DEF TaskFits, TrueReport, OrderSound, OrderComplete, Move, Entering

LEMMA CallKept == ASSUME IInv, NEW c \in Calls, Call(c) PROVE IInv'
<1>1. /\ calls[c].is = "none" /\ queue' = Append(queue, c)
      /\ UNCHANGED ordersVars /\ UNCHANGED <<session, moves, services, task, shown, stopped>>
  BY DEF Call, ordersVars
<1>2. PICK m \in Methods : calls' = [calls EXCEPT ![c] = [kind |-> m.kind, arg |-> m.arg, is |-> "waiting"]]
  BY DEF Call
<1> DEFINE new == [kind |-> m.kind, arg |-> m.arg, is |-> "waiting"]
<1>3. m.kind \in Kinds /\ m.arg \in Args /\ (m.kind = "query" => m.arg \in Barcodes)
  BY DEF Methods, Kinds, Short, Args
<1>4. new \in CallRecord /\ new.is = "waiting" /\ new.kind \in Kinds /\ (new.kind = "query" => new.arg \in Barcodes)
  BY <1>3 DEF CallRecord
<1> HIDE DEF new
<1>5. Typed /\ OnePlace /\ queue \in Seq(Calls) /\ calls \in [Calls -> CallRecord] /\ calls' = [calls EXCEPT ![c] = new]
  BY <1>2 DEF IInv, Typed, new
<1>6. /\ calls' \in [Calls -> CallRecord] /\ calls'[c] = new
      /\ \A d \in Calls : d # c => calls'[d] = calls[d]
  BY <1>4, <1>5
<1>7. /\ Len(queue) \in Nat /\ queue' \in Seq(Calls) /\ Len(queue') = Len(queue) + 1
      /\ queue'[Len(queue')] = c
      /\ \A i \in 1..Len(queue') : i = Len(queue') \/ (i \in 1..Len(queue) /\ queue'[i] = queue[i])
  BY <1>1, <1>5
<1>8. Typed'
  BY <1>1, <1>5, <1>6, <1>7 DEF Typed
<1>9. ~Queued(c) /\ (task.pc # "none" => c # task.call) /\ c # 0
  BY <1>1, <1>5 DEF OnePlace, Calls
<1>10. c # task.call
  BY <1>5, <1>9 DEF OnePlace
<1>11. \A d \in Calls : d # c => (Queued(d)' => Queued(d))
  BY <1>7 DEF Queued
<1>12. OnePlace'
  <2>1. \A i, j \in 1..Len(queue') : queue'[i] = queue'[j] => i = j
    <3>1. \A i \in 1..Len(queue) : queue[i] # c
      BY <1>9 DEF Queued
    <3>2. \A i, j \in 1..Len(queue) : queue[i] = queue[j] => i = j
      BY <1>5 DEF OnePlace
    <3> QED
      BY <1>7, <3>1, <3>2
  <2>2. ASSUME NEW d \in Calls, Queued(d)' PROVE calls'[d].is = "waiting" /\ d # task'.call
    <3>1. CASE d = c
      BY <1>1, <1>4, <1>6, <1>10, <3>1
    <3>2. CASE d # c
      BY <1>1, <1>5, <1>6, <1>11, <2>2, <3>2 DEF OnePlace
    <3> QED
      BY <3>1, <3>2
  <2>3. task'.pc # "none" => /\ task'.call \in Calls /\ calls'[task'.call].is = "waiting"
                             /\ task'.kind = calls'[task'.call].kind
    BY <1>1, <1>5, <1>6, <1>10 DEF OnePlace
  <2>4. task'.pc = "none" => task'.call = 0
    BY <1>1, <1>5 DEF OnePlace
  <2> QED
    BY <2>1, <2>2, <2>3, <2>4 DEF OnePlace
<1>13. ASSUME NEW d \in Calls PROVE CallFits(d)'
  <2>1. CallFits(d) /\ moves'[d] = moves[d]
    BY <1>1 DEF IInv
  <2>2. CASE d = c
    BY <1>1, <1>4, <1>6, <2>1, <2>2 DEF CallFits
  <2>3. CASE d # c
    BY <1>6, <1>11, <2>1, <2>3 DEF CallFits
  <2> QED
    BY <2>2, <2>3
<1>14. Believed'
  BY <1>1 DEF IInv, Believed, Alive
<1> QED
  BY <1>1, <1>8, <1>12, <1>13, <1>14, CallersKept DEF IInv

LEMMA OverwriteKept == ASSUME IInv, NEW c \in Calls, Overwrite(c) PROVE IInv'
<1> DEFINE new == [calls[c] EXCEPT !.is = "returned"]
<1>1. /\ calls[c].is = "answered" /\ calls' = [calls EXCEPT ![c].is = "returned"]
      /\ shown' = Overwritten(calls[c].kind)
      /\ UNCHANGED ordersVars /\ UNCHANGED <<session, moves, services, task, queue, stopped>>
  BY DEF Overwrite, ordersVars
<1>2. Typed /\ OnePlace /\ CallFits(c) /\ calls \in [Calls -> CallRecord] /\ shown \in ShownRecord
  BY DEF IInv, Typed
<1>3. calls[c] \in CallRecord /\ calls' = [calls EXCEPT ![c] = new]
  BY <1>1, <1>2
<1>4. new \in CallRecord /\ new.is = "returned" /\ new.kind = calls[c].kind /\ new.arg = calls[c].arg
  BY <1>3 DEF CallRecord
<1> HIDE DEF new
<1>5. /\ calls' \in [Calls -> CallRecord] /\ calls'[c] = new
      /\ \A d \in Calls : d # c => calls'[d] = calls[d]
  BY <1>2, <1>3, <1>4
<1>6. /\ shown' \in ShownRecord
      /\ shown'.loggedIn => shown.loggedIn
      /\ shown'.loggedIn /\ shown.running => shown'.running
  <2>1. calls[c].kind \in {"logout", "cancel", "shutdown"}
    BY <1>1, <1>2 DEF CallFits
  <2>2. CASE calls[c].kind = "logout"
    <3>1. shown' = NotShown
      BY <1>1, <2>2 DEF Overwritten
    <3> QED
      BY <3>1 DEF NotShown, ShownRecord
  <2>3. CASE calls[c].kind = "cancel"
    <3> DEFINE run == shown.running /\ shown.loggedIn
    <3>1. shown' = [shown EXCEPT !.running = run]
      BY <1>1, <2>3 DEF Overwritten
    <3>2. run \in BOOLEAN /\ (run <=> shown.running /\ shown.loggedIn)
      OBVIOUS
    <3> HIDE DEF run
    <3>3. shown' \in ShownRecord /\ shown'.running = run /\ shown'.loggedIn = shown.loggedIn
      BY <1>2, <3>1, <3>2 DEF ShownRecord
    <3> QED
      BY <3>2, <3>3
  <2>4. CASE calls[c].kind = "shutdown"
    <3>1. shown' = [shown EXCEPT !.running = FALSE, !.loggedIn = FALSE]
      BY <1>1, <2>4 DEF Overwritten
    <3>2. shown' \in ShownRecord /\ shown'.loggedIn = FALSE
      BY <1>2, <3>1 DEF ShownRecord
    <3> QED
      BY <3>2
  <2> QED
    BY <2>1, <2>2, <2>3, <2>4
<1>7. Typed'
  BY <1>1, <1>2, <1>5, <1>6 DEF Typed
<1>8. calls[c].is # "waiting" /\ calls[c].is # "none"
  BY <1>1
<1>9. OnePlace'
  BY <1>1, <1>2, <1>5, <1>8 DEF OnePlace, Queued
<1>10. ASSUME NEW d \in Calls PROVE CallFits(d)'
  <2>1. CallFits(d) /\ moves'[d] = moves[d] /\ (Queued(d)' <=> Queued(d))
    BY <1>1 DEF IInv, Queued
  <2>2. CASE d = c
    BY <1>4, <1>5, <1>8, <2>1, <2>2 DEF CallFits
  <2>3. CASE d # c
    BY <1>5, <2>1, <2>3 DEF CallFits
  <2> QED
    BY <2>2, <2>3
<1>11. Believed'
  BY <1>1, <1>6 DEF IInv, Believed, Alive
<1> QED
  BY <1>1, <1>7, <1>9, <1>10, <1>11, CallersKept DEF IInv

\* A crash, a lost cookie or an answer of the report's page.
LEMMA SessionChangesKept ==
  ASSUME IInv, SessionChanges, UNCHANGED <<queue, calls, shown, stopped>>
  PROVE  IInv'
<1> DEFINE crash == task.crashed \/ session'.browser = "crashed"
<1>1. /\ session' \in Changed(session) /\ task' = [task EXCEPT !.crashed = crash]
      /\ UNCHANGED <<moves, services>>
  BY DEF SessionChanges, IInv, Typed, TaskRecord
<1>2. /\ Typed /\ OnePlace /\ session \in Sessions /\ task \in TaskRecord
      /\ TaskFits /\ Believed
  BY DEF IInv, Typed
<1>3. /\ session' \in Sessions /\ session'.loggedIn = session.loggedIn
      /\ Alive(session) => Alive(session)'
      /\ session.report.is \in {"busy", "data", "error"} =>
           session'.report.is \in {"busy", "data", "error"} /\ session'.report.of = session.report.of
  BY <1>1, <1>2, ChangedTyped DEF Alive
<1>4. crash \in BOOLEAN /\ (task.crashed => crash) /\ (session'.browser = "crashed" => crash)
  BY <1>2 DEF TaskRecord
<1> HIDE DEF crash
<1>5. task' \in TaskRecord
  BY <1>1, <1>2, <1>4 DEF TaskRecord
<1>6. /\ task'.call = task.call /\ task'.kind = task.kind /\ task'.arg = task.arg /\ task'.pc = task.pc
      /\ task'.todo = task.todo /\ task'.again = task.again /\ task'.ok = task.ok /\ task'.result = task.result
      /\ task'.attempt = task.attempt /\ task'.misread = task.misread
  BY <1>1, <1>2 DEF TaskRecord
<1>7. task'.crashed <=> crash
  BY <1>1, <1>2, <1>4 DEF TaskRecord
<1>8. Typed'
  BY <1>1, <1>2, <1>3, <1>5 DEF Typed
<1>9. OnePlace'
  BY <1>1, <1>2, <1>6 DEF OnePlace, Queued
<1>10. ASSUME NEW c \in Calls PROVE CallFits(c)'
  BY <1>1 DEF IInv, CallFits, Queued
<1>11. Move' = Move
  BY <1>1, <1>6 DEF Move
<1>12. Entering(task, Move) => Entering(task', Move')
  BY <1>6, <1>11 DEF Entering
<1>13. OrderSound(task)'
  BY <1>1, <1>2, <1>6 DEF TaskFits, TrueReport, OrderSound
<1>14. TrueReport(task)'
  <2>1. TrueReport(task) /\ moves'[task'.call] = moves[task.call] /\ UNCHANGED services
    BY <1>1, <1>2, <1>6 DEF TaskFits
  <2>2. ~task'.crashed => ~task.crashed
    BY <1>4, <1>7
  <2>3. OrderComplete(task) => OrderComplete(task)'
    BY <1>6, <2>1 DEF OrderComplete
  <2> QED
    BY <1>6, <1>13, <2>1, <2>2, <2>3 DEF TrueReport
<1>15. task.pc = "extract" => session'.report.is \in {"busy", "data", "error"} /\ session'.report.of = task.arg
  BY <1>2, <1>3 DEF TaskFits
<1>16. TaskFits'
  BY <1>1, <1>2, <1>6, <1>11, <1>12, <1>13, <1>14, <1>15 DEF TaskFits
<1>17. Believed'
  BY <1>2, <1>3, <1>6 DEF Believed
<1> QED
  BY <1>8, <1>9, <1>10, <1>16, <1>17 DEF IInv

LEMMA CrmClosesKept ==
  ASSUME IInv, NEW o \in ServiceOrders, CrmCloses(o), UNCHANGED <<queue, calls, shown, stopped>>
  PROVE  IInv'
<1>1. /\ services[o] = "closing" /\ services' = [services EXCEPT ![o] = "closed"]
      /\ UNCHANGED <<session, moves, task, queue, calls, shown, stopped>>
  BY DEF CrmCloses
<1>2. Typed /\ OnePlace /\ TaskFits /\ Believed /\ services \in [ServiceOrders -> States] /\ task.result \in ResultRecord
  BY TaskFields DEF IInv, Typed
<1>3. StayClosed
  BY <1>1, <1>2 DEF StayClosed, States
<1>4. Typed'
  BY <1>1, <1>2, <1>3 DEF Typed, StayClosed
<1>5. OnePlace' /\ Believed'
  BY <1>1, <1>2 DEF OnePlace, Queued, Believed, Alive
<1>6. ASSUME NEW c \in Calls PROVE CallFits(c)'
  BY <1>1 DEF IInv, CallFits, Queued
<1>7. \A x \in task'.result.orders : services'[x] = "closed"
  BY <1>1, <1>3, OrdersClosed
<1>8. TrueReport(task)'
  BY <1>1, <1>2, <1>7 DEF TrueReport, TaskFits, OrderSound, OrderComplete
<1>9. Move' = Move /\ (Entering(task', Move') <=> Entering(task, Move))
  BY <1>1 DEF Move, Entering
<1>10. TaskFits'
  BY <1>1, <1>2, <1>7, <1>8, <1>9 DEF TaskFits
<1> QED
  BY <1>4, <1>5, <1>6, <1>10 DEF IInv

LEMMA StepIInv == IInv /\ [Next]_vars => IInv'
<1> SUFFICES ASSUME IInv, [Next]_vars PROVE IInv'
  OBVIOUS
<1>1. ASSUME NEW c \in Calls, Call(c) \/ Overwrite(c) PROVE IInv'
  BY <1>1, CallKept, OverwriteKept
<1>2. CASE Worker
  BY <1>2, TakeTaskKept, RunMethodKept, OrderStepKept, HandleRaisedKept, UpdateStateKept, AnswerKept DEF Worker
<1>3. CASE Outside
  BY <1>3, SessionChangesKept, CrmClosesKept DEF Outside
<1>4. CASE UNCHANGED vars
  <2>1. UNCHANGED ordersVars /\ UNCHANGED <<session, moves, services, task, queue, calls, shown, stopped>>
    BY <1>4 DEF vars, ordersVars
  <2>2. TaskFits'
    BY <2>1, CallersKept
  <2>3. Typed' /\ OnePlace' /\ Believed'
    BY <2>1 DEF IInv, Typed, OnePlace, Queued, Believed, Alive
  <2>4. ASSUME NEW c \in Calls PROVE CallFits(c)'
    BY <2>1 DEF IInv, CallFits, Queued
  <2> QED
    BY <2>2, <2>3, <2>4 DEF IInv
<1>5. CASE Terminating
  BY <1>4, <1>5 DEF Terminating
<1> QED
  BY <1>1, <1>2, <1>3, <1>4, <1>5 DEF Next

-----------------------------------------------------------------------------
(* What is proved.                                                         *)

\* A call is in one place only, in the queue or as the worker's task, and
\* waits there (CRMWorker._call puts it into the queue once, _run takes it
\* out before it runs it): no method is run twice for one caller.
THEOREM WorkerTyped == Spec => []TypeOK
<1>1. IInv => TypeOK
  <2> SUFFICES ASSUME IInv PROVE TypeOK
    OBVIOUS
  <2>1. Typed /\ OnePlace
    BY DEF IInv
  <2>2. session \in Sessions /\ shown \in [running : BOOLEAN, loggedIn : BOOLEAN, remembered : BOOLEAN]
    BY <2>1 DEF Typed, ShownRecord
  <2>3. ASSUME NEW c \in Calls
        PROVE  LET places == Cardinality({i \in 1..Len(queue) : queue[i] = c})
                             + IF task.call = c THEN 1 ELSE 0 IN
               places \in {0, 1} /\ (places = 1 => calls[c].is = "waiting")
    <3> DEFINE P == {i \in 1..Len(queue) : queue[i] = c}
    <3>1. CASE Queued(c)
      <4>1. PICK i \in 1..Len(queue) : queue[i] = c
        BY <3>1 DEF Queued
      <4>2. P = {i}
        BY <2>1, <4>1 DEF OnePlace
      <4>3. Cardinality(P) = 1
        BY <4>2, FS_Singleton
      <4>4. task.call # c /\ calls[c].is = "waiting"
        BY <2>1, <3>1 DEF OnePlace
      <4> QED
        BY <4>3, <4>4
    <3>2. CASE ~Queued(c)
      <4>1. P = {}
        BY <3>2 DEF Queued
      <4>2. Cardinality(P) = 0
        BY <4>1, FS_EmptySet
      <4>3. c # 0
        BY DEF Calls
      <4>4. task.call = c => calls[c].is = "waiting"
        BY <2>1, <4>3 DEF OnePlace
      <4> QED
        BY <4>2, <4>4
    <3> QED
      BY <3>1, <3>2
  <2> QED
    BY <2>2, <2>3 DEF TypeOK
<1> QED
  BY <1>1, InitIInv, StepIInv, PTL DEF Spec

\* What query_barcode, create_transfer and close_service_orders return is
\* what the CRM holds, for any number of details, orders and attempts: pages
\* and closed orders unless the browser crashed, a transfer's order but for
\* what its methods misread.  What a transfer leaves there, also when it
\* fails, holds no detail more often than it was tried, and is confirmed only
\* when asked for and with a yes for every detail.
THEOREM WorkerReportsCorrect == Spec => []ReportsAreTrue
<1>1. IInv => ReportsAreTrue
  BY DEF IInv, TaskFits, ReportsAreTrue
<1> QED
  BY <1>1, InitIInv, StepIInv, PTL DEF Spec

\* A slot is not shown as logged in (CRMWorker.logged_in) when its idle
\* session does not believe so, however its methods ended and however the
\* two threads' writes of the flags were interleaved.
THEOREM LoginShownCorrect == Spec => []ShownLoginIsBelieved
<1>1. IInv => ShownLoginIsBelieved
  BY DEF IInv, Believed, ShownLoginIsBelieved
<1> QED
  BY <1>1, InitIInv, StepIInv, PTL DEF Spec
=============================================================================
