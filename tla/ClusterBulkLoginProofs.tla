------------------------ MODULE ClusterBulkLoginProofs ------------------------
(***************************************************************************)
(* Proofs about ClusterBulkLogin and the nodes' jobs of BulkLogin, for any *)
(* nodes and slots and any number of logins, captchas and late requests.   *)
(***************************************************************************)
EXTENDS ClusterBulkLogin, FiniteSetTheorems, TLAPS

-----------------------------------------------------------------------------
(* The invariant: one job on one node, with its threads.                   *)

Pcs == {"none", "next", "open", "offer", "opened", "look", "claim", "submit", "forget",
        "finalize", "leave", "last", "over"}
AllSlots == UNION {Slots(n) : n \in Nodes}
Maps == {<<>>} \cup UNION {[Slots(n) -> Statuses] : n \in Nodes}
Words == Captchas \cup {NoCaptcha}

JobRecord == [exists : BOOLEAN, running : BOOLEAN, done : BOOLEAN, success : BOOLEAN, stop : BOOLEAN,
              step1 : BOOLEAN, captcha : Words, status : Maps]
RunRecord == [pc : Pcs, at : Nat, captcha : Words, todo : SUBSET AllSlots, slot : AllSlots \cup {"none"}]

\* A job j on node n, its threads q, the slots that are logged in.
Shaped(n, j, q) ==
  /\ j \in JobRecord /\ q \in [Runners -> RunRecord]
  /\ j.exists => j.status \in [Slots(n) -> Statuses] /\ (j.running <=> ~j.done)
  /\ ~j.exists => ~j.step1 /\ ~j.running /\ ~j.stop /\ j.captcha = NoCaptcha /\ \A r \in Runners : q[r].pc = "none"
  /\ \A r \in Runners : q[r].todo \subseteq Slots(n)

\* The slots the opener has still to come to are as the start left them.
OpenerFits(n, j, q) ==
  /\ q[Opener].pc \in {"next", "open", "offer"} => q[Opener].at >= 1
  /\ q[Opener].pc \in {"open", "offer"} => q[Opener].at <= Len(SlotOrder[n])
  /\ q[Opener].pc = "open" => j.status[SlotOrder[n][q[Opener].at]] = "opening"
  /\ q[Opener].at >= 1 =>
       \A i \in 1..Len(SlotOrder[n]) :
          i > q[Opener].at \/ (i = q[Opener].at /\ q[Opener].pc = "next")
            => j.status[SlotOrder[n][i]] \in {"pending", "not in job"}

\* A slot that is being submitted is in the hands of one thread.
SubmitFits(n, j, q) ==
  /\ \A r \in Runners : q[r].pc = "submit" => q[r].slot \in Slots(n) /\ j.status[q[r].slot] = "submitting"
  /\ \A r, t \in Runners : q[r].pc = "submit" /\ q[t].pc = "submit" /\ q[r].slot = q[t].slot => r = t
  /\ j.exists => \A s \in Slots(n) : j.status[s] = "submitting" =>
                    \E r \in Runners : q[r].pc = "submit" /\ q[r].slot = s

\* A thread that has not looked yet will find the captcha and the slot.
Watched(n, j, q) ==
  j.exists /\ j.captcha # NoCaptcha /\ (\E s \in Slots(n) : j.status[s] = "waiting")
    => \E r \in Runners : q[r].pc \notin {"none", "leave", "last", "over"}

Rest == {"not in job", "logged in", "failed"}
AllRest(n, j) == \A s \in Slots(n) : j.status[s] \in Rest

\* A thread that will finalize: the opener always does, the thread of a
\* captcha once it has found something to submit.
Finishes(r, x) == \/ x.pc \in {"claim", "submit", "forget", "finalize", "leave"}
                  \/ r = Opener /\ x.pc \notin {"none", "over"}

Finishing(n, j, q) ==
  j.exists /\ j.step1 /\ ~j.done /\ AllRest(n, j) => \E r \in Runners : Finishes(r, q[r])

\* Nothing happens to the slots of a job that is done and not cancelled.
DoneFits(n, j, in) ==
  j.exists => /\ \A s \in Slots(n) : j.status[s] \in {"not in job", "logged in"} => s \in in
              /\ j.done /\ ~j.stop => AllRest(n, j)

Local(n, j, q, in) ==
  Shaped(n, j, q) /\ OpenerFits(n, j, q) /\ SubmitFits(n, j, q) /\ Watched(n, j, q)
  /\ Finishing(n, j, q) /\ DoneFits(n, j, in)

-----------------------------------------------------------------------------
(* The invariant: the coordinator's rows.                                  *)

AnswerRecord == [running : BOOLEAN, done : BOOLEAN, waiting : BOOLEAN, failed : BOOLEAN]
EntryRecord == [job : Logins \cup {0}, error : BOOLEAN, errors : 0..3, skipped : BOOLEAN, last : AnswerRecord]
StateRecord == [begun : BOOLEAN, saved : BOOLEAN, cancelled : BOOLEAN, sent : Words, nodes : [Nodes -> EntryRecord]]
Messages == {"start", "captcha", "cancel"} \X Logins \X Nodes \X Words

Typed ==
  /\ job \in [Logins -> [Nodes -> JobRecord]]
  /\ run \in [Logins -> [Nodes -> [Runners -> RunRecord]]]
  /\ session \in [Nodes -> SUBSET AllSlots] /\ \A n \in Nodes : session[n] \subseteq Slots(n)
  /\ state \in [Logins -> StateRecord]
  /\ late \subseteq Messages /\ \A m \in late : m[1] = "captcha" => m[4] \in Captchas

\* What node n, with jobs jb and slots in logged in, has said of a job that is
\* done remains true.
Told(e, n, jb, in) ==
  ~e.error /\ e.last.done /\ ~e.last.failed =>
     /\ e.job \in Logins /\ jb[e.job][n].exists
     /\ jb[e.job][n].stop \/ in = Slots(n)

EntryFits(e, n, jb, in) ==
  /\ e.error <=> e.errors > 0
  /\ e.skipped => e.error
  /\ Told(e, n, jb, in)

RowFits(c) ==
  \A n \in Nodes : /\ EntryFits(Entry(c, n), n, job, session[n])
                   /\ state[c].saved => Entry(c, n).skipped \/ Entry(c, n).job \in Logins

\* A captcha that was sent to a job is under way, at work, or gone: there is
\* a thread to spare for each that may still come.
Busy(q) == {h \in Helpers : q[h].pc \notin {"none", "over"}}
UnderWay(c, n) == {k \in Captchas : <<"captcha", c, n, k>> \in late}
Sent == {p \in Logins \X Captchas : p[2] <= state[p[1]].sent}

Spare(c, n) == Cardinality(Busy(run[c][n])) + Cardinality(UnderWay(c, n)) <= Cardinality(Sent)

IInv ==
  /\ Typed
  /\ \A c \in Logins, n \in Nodes : Local(n, job[c][n], run[c][n], session[n])
  /\ \A c \in Logins : RowFits(c)
  /\ \A c \in Logins, n \in Nodes : Spare(c, n)

LEMMA SlotsFacts ==
  ASSUME NEW n \in Nodes
  PROVE  /\ SlotOrder[n] \in Seq(AllSlots) /\ Len(SlotOrder[n]) \in Nat
         /\ \A i \in 1..Len(SlotOrder[n]) : SlotOrder[n][i] \in Slots(n)
         /\ \A i, k \in 1..Len(SlotOrder[n]) : SlotOrder[n][i] = SlotOrder[n][k] => i = k
         /\ Slots(n) \subseteq AllSlots
         /\ [Slots(n) -> Statuses] \subseteq Maps
<1>1. SlotOrder[n] \in Seq(AllSlots)
  BY BulkLoginAssumption DEF AllSlots, Slots
<1>2. DOMAIN SlotOrder[n] = 1..Len(SlotOrder[n]) /\ Len(SlotOrder[n]) \in Nat
  BY <1>1
<1>3. \A i \in 1..Len(SlotOrder[n]) : SlotOrder[n][i] \in Slots(n)
  BY <1>2 DEF Slots, Range
<1>4. \A i, k \in 1..Len(SlotOrder[n]) : SlotOrder[n][i] = SlotOrder[n][k] => i = k
  BY <1>2, BulkLoginAssumption DEF IsInjective
<1> QED
  BY <1>1, <1>2, <1>3, <1>4 DEF AllSlots, Maps

LEMMA RunnersFacts ==
  /\ MaxLogins * MaxCaptchas \in Nat
  /\ IsFiniteSet(Helpers) /\ Cardinality(Helpers) = MaxLogins * MaxCaptchas
  /\ Opener \in Runners /\ Opener \notin Helpers /\ Helpers \subseteq Runners
<1>1. MaxLogins * MaxCaptchas \in Nat
  BY BulkLoginAssumption
<1>2. IsFiniteSet(Helpers) /\ Cardinality(Helpers) = MaxLogins * MaxCaptchas
  <2> DEFINE k == MaxLogins * MaxCaptchas
  <2>1. k \in Nat
    BY <1>1
  <2>2. Helpers = 1..k
    BY DEF Helpers
  <2> HIDE DEF k
  <2>3. IsFiniteSet(1..k) /\ Cardinality(1..k) = k
    BY <2>1, FS_Interval
  <2> QED
    BY <2>2, <2>3 DEF k
<1>3. Opener \in Runners /\ Opener \notin Helpers /\ Helpers \subseteq Runners
  BY DEF Opener, Runners, Helpers
<1> QED
  BY <1>1, <1>2, <1>3

-----------------------------------------------------------------------------
(* One thread of a job moves, and may mark a slot.                         *)

With(q, r, x) == [q EXCEPT ![r] = x]
Marked(j, s, st) == [j EXCEPT !.status[s] = st]

LEMMA RunFields ==
  ASSUME NEW x \in RunRecord
  PROVE  /\ x.pc \in Pcs /\ x.at \in Nat /\ x.captcha \in Words /\ x.todo \subseteq AllSlots
         /\ x.slot \in AllSlots \cup {"none"}
BY DEF RunRecord

LEMMA WithFields ==
  ASSUME NEW q \in [Runners -> RunRecord], NEW r \in Runners, NEW x \in RunRecord
  PROVE  /\ With(q, r, x) \in [Runners -> RunRecord] /\ With(q, r, x)[r] = x
         /\ \A t \in Runners : t # r => With(q, r, x)[t] = q[t]
BY DEF With

IsMarked(k, n, j, s, st) ==
  /\ k \in JobRecord /\ k.status \in [Slots(n) -> Statuses]
  /\ \A t \in Slots(n) : k.status[t] = IF t = s THEN st ELSE j.status[t]
  /\ k.exists = j.exists /\ k.running = j.running /\ k.done = j.done /\ k.stop = j.stop
  /\ k.step1 = j.step1 /\ k.captcha = j.captcha

LEMMA MarkedFields ==
  ASSUME NEW n \in Nodes, NEW j \in JobRecord, j.status \in [Slots(n) -> Statuses],
         NEW s \in Slots(n), NEW st \in Statuses
  PROVE  IsMarked(Marked(j, s, st), n, j, s, st)
<1> DEFINE m == [j.status EXCEPT ![s] = st]
<1>1. m \in [Slots(n) -> Statuses] /\ \A t \in Slots(n) : m[t] = IF t = s THEN st ELSE j.status[t]
  OBVIOUS
<1>2. m \in Maps
  BY <1>1, SlotsFacts
<1>3. Marked(j, s, st) = [j EXCEPT !.status = m]
  BY DEF Marked, JobRecord
<1> HIDE DEF m
<1> QED
  BY <1>1, <1>2, <1>3 DEF JobRecord, IsMarked

\* A job whose slots stay as they are, and a thread that submits nothing.
Walking(n, j, k, q, in, r, x) ==
  /\ Local(n, j, q, in) /\ j.exists
  /\ k \in JobRecord /\ k.exists /\ k.status = j.status /\ (k.running <=> ~k.done)
  /\ k.done /\ ~k.stop => AllRest(n, j)
  /\ q[r].pc # "submit" /\ x.pc # "submit" /\ x.todo \subseteq Slots(n)

LEMMA Walk ==
  ASSUME NEW n \in Nodes, NEW j, NEW k, NEW q, NEW in, NEW r \in Runners, NEW x \in RunRecord,
         Walking(n, j, k, q, in, r, x)
  PROVE  /\ Shaped(n, k, With(q, r, x)) /\ SubmitFits(n, k, With(q, r, x)) /\ DoneFits(n, k, in)
<1> DEFINE z == With(q, r, x)
<1>1. /\ j \in JobRecord /\ q \in [Runners -> RunRecord]
      /\ Shaped(n, j, q) /\ SubmitFits(n, j, q) /\ DoneFits(n, j, in)
  BY DEF Walking, Local, Shaped
<1>2. z \in [Runners -> RunRecord] /\ z[r] = x /\ \A t \in Runners : t # r => z[t] = q[t]
  BY <1>1, WithFields
<1> HIDE DEF z
<1>3. /\ j.exists /\ k \in JobRecord /\ k.exists /\ k.status = j.status /\ (k.running <=> ~k.done)
      /\ k.done /\ ~k.stop => AllRest(n, j)
      /\ q[r].pc # "submit" /\ x.pc # "submit" /\ x.todo \subseteq Slots(n)
  BY DEF Walking
<1>4. Shaped(n, k, z)
  BY <1>1, <1>2, <1>3 DEF Shaped
<1>5. SubmitFits(n, k, z)
  BY <1>1, <1>2, <1>3 DEF SubmitFits
<1>6. DoneFits(n, k, in)
  BY <1>1, <1>3 DEF DoneFits, AllRest
<1> QED
  BY <1>4, <1>5, <1>6 DEF z

\* The thread takes the slot, gives it back or has nothing to do with it.
Hands(old, new, s, x, y) ==
  \/ x.pc # "submit" /\ old # "submitting" /\ y.pc # "submit" /\ new # "submitting"
  \/ x.pc # "submit" /\ old # "submitting" /\ y.pc = "submit" /\ y.slot = s /\ new = "submitting"
  \/ x.pc = "submit" /\ x.slot = s /\ y.pc # "submit" /\ new # "submitting"

\* A slot whose status is not settled is marked, by a thread that runs.
Marking(n, j, q, in, in2, r, x, s, st) ==
  /\ Local(n, j, q, in) /\ in \subseteq in2
  /\ q[r].pc # "none" /\ x.todo \subseteq Slots(n)
  /\ j.status[s] \notin Rest /\ (st \in {"not in job", "logged in"} => s \in in2)
  /\ Hands(j.status[s], st, s, q[r], x)

LEMMA Mark ==
  ASSUME NEW n \in Nodes, NEW j, NEW q, NEW in, NEW in2, NEW r \in Runners, NEW x \in RunRecord,
         NEW s \in Slots(n), NEW st \in Statuses, Marking(n, j, q, in, in2, r, x, s, st)
  PROVE  /\ j.exists /\ Shaped(n, Marked(j, s, st), With(q, r, x))
         /\ SubmitFits(n, Marked(j, s, st), With(q, r, x)) /\ DoneFits(n, Marked(j, s, st), in2)
<1> DEFINE z == With(q, r, x)
           k == Marked(j, s, st)
<1>1. /\ j \in JobRecord /\ q \in [Runners -> RunRecord]
      /\ Shaped(n, j, q) /\ SubmitFits(n, j, q) /\ DoneFits(n, j, in)
  BY DEF Marking, Local, Shaped
<1>2. z \in [Runners -> RunRecord] /\ z[r] = x /\ \A t \in Runners : t # r => z[t] = q[t]
  BY <1>1, WithFields
<1>3. j.exists /\ j.status \in [Slots(n) -> Statuses]
  BY <1>1 DEF Marking, Shaped
<1>3a. IsMarked(k, n, j, s, st)
  BY <1>1, <1>3, MarkedFields
<1> HIDE DEF z, k
<1>4. /\ k \in JobRecord /\ k.status \in [Slots(n) -> Statuses]
      /\ \A t \in Slots(n) : k.status[t] = IF t = s THEN st ELSE j.status[t]
      /\ k.exists = j.exists /\ k.running = j.running /\ k.done = j.done /\ k.stop = j.stop
      /\ k.step1 = j.step1 /\ k.captcha = j.captcha
  BY <1>3a DEF IsMarked
<1>5. Shaped(n, k, z)
  BY <1>1, <1>2, <1>3, <1>4 DEF Shaped, Marking
<1>6. SubmitFits(n, k, z)
  <2>0. Hands(j.status[s], st, s, q[r], x)
    BY DEF Marking
  <2>1. ASSUME NEW t \in Runners, z[t].pc = "submit"
        PROVE  z[t].slot \in Slots(n) /\ k.status[z[t].slot] = "submitting"
    BY <1>1, <1>2, <1>4, <2>0, <2>1 DEF SubmitFits, Hands
  <2>2. ASSUME NEW t \in Runners, NEW u \in Runners,
               z[t].pc = "submit", z[u].pc = "submit", z[t].slot = z[u].slot
        PROVE  t = u
    BY <1>1, <1>2, <2>0, <2>2 DEF SubmitFits, Hands
  <2>3. ASSUME NEW v \in Slots(n), k.status[v] = "submitting"
        PROVE  \E t \in Runners : z[t].pc = "submit" /\ z[t].slot = v
    BY <1>1, <1>2, <1>3, <1>4, <2>0, <2>3 DEF SubmitFits, Hands
  <2> QED
    BY <2>1, <2>2, <2>3 DEF SubmitFits
<1>7. DoneFits(n, k, in2)
  <2>1. ~(j.done /\ ~j.stop)
    BY <1>1, <1>3 DEF DoneFits, AllRest, Marking
  <2> QED
    BY <1>1, <1>3, <1>4, <2>1 DEF DoneFits, Marking
<1> QED
  BY <1>3, <1>5, <1>6, <1>7 DEF z, k

\* A thread that goes on watches the job and will finalize it.
GoesOn(r, x) == x.pc \notin {"none", "leave", "last", "over"} /\ Finishes(r, x)

LEMMA WalkOn ==
  ASSUME NEW n \in Nodes, NEW j, NEW k, NEW q, NEW in, NEW r \in Runners, NEW x \in RunRecord,
         Walking(n, j, k, q, in, r, x), GoesOn(r, x), OpenerFits(n, k, With(q, r, x))
  PROVE  Local(n, k, With(q, r, x), in)
<1> DEFINE z == With(q, r, x)
<1>1. Shaped(n, k, z) /\ SubmitFits(n, k, z) /\ DoneFits(n, k, in)
  BY Walk
<1>2. q \in [Runners -> RunRecord]
  BY DEF Walking, Local, Shaped
<1>3. z[r] = x
  BY <1>2, WithFields
<1> HIDE DEF z
<1>4. Watched(n, k, z) /\ Finishing(n, k, z)
  BY <1>3 DEF Watched, Finishing, GoesOn
<1> QED
  BY <1>1, <1>4 DEF Local, z

LEMMA MarkOn ==
  ASSUME NEW n \in Nodes, NEW j, NEW q, NEW in, NEW in2, NEW r \in Runners, NEW x \in RunRecord,
         NEW s \in Slots(n), NEW st \in Statuses, Marking(n, j, q, in, in2, r, x, s, st),
         GoesOn(r, x), OpenerFits(n, Marked(j, s, st), With(q, r, x))
  PROVE  Local(n, Marked(j, s, st), With(q, r, x), in2)
<1> DEFINE z == With(q, r, x)
           k == Marked(j, s, st)
<1>1. Shaped(n, k, z) /\ SubmitFits(n, k, z) /\ DoneFits(n, k, in2)
  BY Mark
<1>2. q \in [Runners -> RunRecord]
  BY DEF Marking, Local, Shaped
<1>3. z[r] = x
  BY <1>2, WithFields
<1> HIDE DEF z, k
<1>4. Watched(n, k, z) /\ Finishing(n, k, z)
  BY <1>3 DEF Watched, Finishing, GoesOn
<1> QED
  BY <1>1, <1>4 DEF Local, z, k

\* The opener's slots to come, for a thread that is not about to open one.
Stays(q, r, x) == x.at = q[r].at /\ x.pc \notin {"next", "open", "offer"}

LEMMA OpenerStays ==
  ASSUME NEW n \in Nodes, NEW j, NEW k, NEW q \in [Runners -> RunRecord], NEW r \in Runners,
         NEW x \in RunRecord, OpenerFits(n, j, q), Stays(q, r, x), k.status = j.status
  PROVE  OpenerFits(n, k, With(q, r, x))
<1> DEFINE z == With(q, r, x)
<1>1. z[r] = x /\ \A t \in Runners : t # r => z[t] = q[t]
  BY WithFields
<1>2. Opener \in Runners
  BY RunnersFacts
<1> HIDE DEF z
<1>3. z[Opener].at = q[Opener].at /\ (z[Opener].pc \in {"next", "open", "offer"} => z[Opener] = q[Opener])
  BY <1>1, <1>2 DEF Stays
<1>4. OpenerFits(n, k, z)
  BY <1>3 DEF OpenerFits
<1> QED
  BY <1>4 DEF z

LEMMA OpenerStaysMarked ==
  ASSUME NEW n \in Nodes, NEW j \in JobRecord, NEW q \in [Runners -> RunRecord], NEW r \in Runners,
         NEW x \in RunRecord, OpenerFits(n, j, q), Stays(q, r, x), j.status \in [Slots(n) -> Statuses],
         NEW s \in Slots(n), NEW st \in Statuses, j.status[s] \in {"waiting", "submitting"}
  PROVE  OpenerFits(n, Marked(j, s, st), With(q, r, x))
<1> DEFINE z == With(q, r, x)
           k == Marked(j, s, st)
<1>1. z[r] = x /\ \A t \in Runners : t # r => z[t] = q[t]
  BY WithFields
<1>2. Opener \in Runners
  BY RunnersFacts
<1>3. \A t \in Slots(n) : k.status[t] = IF t = s THEN st ELSE j.status[t]
  BY MarkedFields DEF IsMarked
<1> HIDE DEF z, k
<1>4. z[Opener].at = q[Opener].at /\ (z[Opener].pc \in {"next", "open", "offer"} => z[Opener] = q[Opener])
  BY <1>1, <1>2 DEF Stays
<1>5. /\ Len(SlotOrder[n]) \in Nat /\ q[Opener].at \in Nat
      /\ \A i \in 1..Len(SlotOrder[n]) : SlotOrder[n][i] \in Slots(n)
  BY <1>2, SlotsFacts, RunFields
<1>6. OpenerFits(n, k, z)
  <2>1. z[Opener].pc = "open" => k.status[SlotOrder[n][z[Opener].at]] = "opening"
    <3> SUFFICES ASSUME z[Opener].pc = "open" PROVE k.status[SlotOrder[n][z[Opener].at]] = "opening"
      OBVIOUS
    <3> DEFINE a == q[Opener].at
    <3>1. z[Opener] = q[Opener]
      BY <1>4
    <3>2. a >= 1 /\ a <= Len(SlotOrder[n]) /\ j.status[SlotOrder[n][a]] = "opening"
      BY <3>1 DEF OpenerFits
    <3>3. SlotOrder[n][a] \in Slots(n)
      BY <1>5, <3>2
    <3> QED
      BY <1>3, <3>1, <3>2, <3>3
  <2>2. ASSUME NEW i \in 1..Len(SlotOrder[n]), z[Opener].at >= 1,
               i > z[Opener].at \/ (i = z[Opener].at /\ z[Opener].pc = "next")
        PROVE  k.status[SlotOrder[n][i]] \in {"pending", "not in job"}
    <3>1. j.status[SlotOrder[n][i]] \in {"pending", "not in job"}
      BY <1>4, <2>2 DEF OpenerFits
    <3> QED
      BY <1>3, <1>5, <3>1
  <2> QED
    BY <1>4, <2>1, <2>2 DEF OpenerFits
<1> QED
  BY <1>6 DEF z, k

-----------------------------------------------------------------------------
(* A step of one job on one node leaves the others alone.                  *)

LEMMA TypedFields ==
  ASSUME IInv, NEW c \in Logins, NEW n \in Nodes
  PROVE  /\ job[c][n] \in JobRecord /\ run[c][n] \in [Runners -> RunRecord] /\ session[n] \subseteq Slots(n)
         /\ state[c] \in StateRecord /\ Entry(c, n) \in EntryRecord
         /\ Local(n, job[c][n], run[c][n], session[n])
<1>1. Typed /\ Local(n, job[c][n], run[c][n], session[n])
  BY DEF IInv
<1>2. job[c][n] \in JobRecord /\ run[c][n] \in [Runners -> RunRecord] /\ session[n] \subseteq Slots(n)
  BY <1>1 DEF Typed
<1>3. state[c] \in StateRecord
  BY <1>1 DEF Typed
<1>4. Entry(c, n) \in EntryRecord
  BY <1>3 DEF StateRecord, Entry
<1> QED
  BY <1>1, <1>2, <1>3, <1>4

Moves(c, n, j, q, in) ==
  /\ job' = [job EXCEPT ![c][n] = j] /\ run' = [run EXCEPT ![c][n] = q]
  /\ session' = [session EXCEPT ![n] = in]
  /\ UNCHANGED <<state, late>>

\* Nothing that others rely on is taken back.
Forward(c, n, j, q, in) ==
  /\ session[n] \subseteq in /\ in \subseteq Slots(n)
  /\ j.exists /\ (job[c][n].stop => j.stop)
  /\ Busy(q) \subseteq Busy(run[c][n])

LEMMA BusyFinite == ASSUME NEW q PROVE IsFiniteSet(Busy(q))
<1>1. Busy(q) \subseteq Helpers
  BY DEF Busy
<1> QED
  BY <1>1, RunnersFacts, FS_Subset

LEMMA BoundsFinite == IsFiniteSet(Captchas) /\ IsFiniteSet(Logins)
BY BulkLoginAssumption, FS_Interval DEF Captchas, Logins

LEMMA SpareFinite ==
  ASSUME Typed, NEW c \in Logins, NEW n \in Nodes
  PROVE  /\ IsFiniteSet(UnderWay(c, n)) /\ Cardinality(UnderWay(c, n)) \in Nat
         /\ IsFiniteSet(Sent) /\ Cardinality(Sent) \in Nat
<1>1. IsFiniteSet(Captchas) /\ IsFiniteSet(Logins)
  BY BulkLoginAssumption, FS_Interval DEF Captchas, Logins
<1>2. IsFiniteSet(UnderWay(c, n))
  <2>1. UnderWay(c, n) \subseteq Captchas
    BY DEF UnderWay
  <2> QED
    BY <1>1, <2>1, FS_Subset
<1>3. IsFiniteSet(Sent)
  <2>1. Sent \subseteq Logins \X Captchas
    BY DEF Sent
  <2>2. IsFiniteSet(Logins \X Captchas)
    BY <1>1, FS_Product
  <2> QED
    BY <2>1, <2>2, FS_Subset
<1> QED
  BY <1>2, <1>3, FS_CardinalityType

LEMMA LocalGrows ==
  ASSUME NEW n \in Nodes, NEW j, NEW q, NEW in, NEW in2, Local(n, j, q, in), in \subseteq in2
  PROVE  Local(n, j, q, in2)
BY DEF Local, DoneFits

LEMMA EntryKept ==
  ASSUME NEW e, NEW n \in Nodes, NEW jb, NEW jb2, NEW in, NEW in2, EntryFits(e, n, jb, in),
         \A d \in Logins, m \in Nodes : /\ jb[d][m].exists => jb2[d][m].exists
                                        /\ jb[d][m].stop => jb2[d][m].stop,
         in \subseteq in2, in2 \subseteq Slots(n)
  PROVE  EntryFits(e, n, jb2, in2)
BY DEF EntryFits, Told

LEMMA NodeKept ==
  ASSUME IInv, NEW c \in Logins, NEW n \in Nodes, NEW j, NEW q, NEW in,
         Moves(c, n, j, q, in), Forward(c, n, j, q, in), Local(n, j, q, in)
  PROVE  IInv'
<1>1. Typed /\ j \in JobRecord /\ q \in [Runners -> RunRecord] /\ in \subseteq Slots(n) /\ in \subseteq AllSlots
  BY SlotsFacts DEF IInv, Local, Shaped, Forward
<1>2. /\ job' \in [Logins -> [Nodes -> JobRecord]]
      /\ job'[c][n] = j
      /\ \A d \in Logins, m \in Nodes : d # c \/ m # n => job'[d][m] = job[d][m]
  BY <1>1 DEF Moves, Typed
<1>3. /\ run' \in [Logins -> [Nodes -> [Runners -> RunRecord]]]
      /\ run'[c][n] = q
      /\ \A d \in Logins, m \in Nodes : d # c \/ m # n => run'[d][m] = run[d][m]
  BY <1>1 DEF Moves, Typed
<1>4. /\ session' \in [Nodes -> SUBSET AllSlots] /\ session'[n] = in
      /\ \A m \in Nodes : m # n => session'[m] = session[m]
  BY <1>1 DEF Moves, Typed
<1>5. UNCHANGED <<state, late>>
  BY DEF Moves
<1>6. \A m \in Nodes : session[m] \subseteq session'[m] /\ session'[m] \subseteq Slots(m)
  BY <1>1, <1>4 DEF Typed, Forward
<1>7. Typed'
  BY <1>1, <1>2, <1>3, <1>4, <1>5, <1>6 DEF Typed
<1>8. ASSUME NEW d \in Logins, NEW m \in Nodes PROVE Local(m, job'[d][m], run'[d][m], session'[m])
  <2>1. CASE d = c /\ m = n
    BY <1>2, <1>3, <1>4, <2>1
  <2>2. CASE d # c \/ m # n
    <3>1. Local(m, job[d][m], run[d][m], session[m])
      BY DEF IInv
    <3>2. Local(m, job[d][m], run[d][m], session'[m])
      BY <1>6, <3>1, LocalGrows
    <3> QED
      BY <1>2, <1>3, <2>2, <3>2
  <2> QED
    BY <2>1, <2>2
<1>8a. \A d \in Logins, m \in Nodes : /\ job[d][m].exists => job'[d][m].exists
                                      /\ job[d][m].stop => job'[d][m].stop
  BY <1>2 DEF Forward
<1>9. ASSUME NEW d \in Logins PROVE RowFits(d)'
  <2> SUFFICES ASSUME NEW m \in Nodes
               PROVE  /\ EntryFits(Entry(d, m), m, job', session'[m])
                      /\ state[d].saved => Entry(d, m).skipped \/ Entry(d, m).job \in Logins
    BY <1>5 DEF RowFits, Entry
  <2>1. /\ EntryFits(Entry(d, m), m, job, session[m])
        /\ state[d].saved => Entry(d, m).skipped \/ Entry(d, m).job \in Logins
    BY DEF IInv, RowFits
  <2>2. session[m] \subseteq session'[m] /\ session'[m] \subseteq Slots(m)
    BY <1>6
  <2> QED
    BY <1>8a, <2>1, <2>2, EntryKept
<1>10. ASSUME NEW d \in Logins, NEW m \in Nodes PROVE Spare(d, m)'
  <2>1. Spare(d, m) /\ UnderWay(d, m)' = UnderWay(d, m) /\ Sent' = Sent
    BY <1>5 DEF IInv, UnderWay, Sent
  <2>2. Busy(run'[d][m]) \subseteq Busy(run[d][m])
    <3>1. CASE d = c /\ m = n
      BY <1>3, <3>1 DEF Forward
    <3>2. CASE d # c \/ m # n
      BY <1>3, <3>2
    <3> QED
      BY <3>1, <3>2
  <2>3. Cardinality(Busy(run'[d][m])) <= Cardinality(Busy(run[d][m]))
    BY <2>2, BusyFinite, FS_Subset
  <2>4. Cardinality(Busy(run'[d][m])) \in Nat /\ Cardinality(Busy(run[d][m])) \in Nat
    BY BusyFinite, FS_CardinalityType
  <2>5. Cardinality(UnderWay(d, m)) \in Nat /\ Cardinality(Sent) \in Nat
    BY <1>1, SpareFinite
  <2>6. Spare(d, m)' <=> Cardinality(Busy(run'[d][m])) + Cardinality(UnderWay(d, m)) <= Cardinality(Sent)
    BY <2>1 DEF Spare
  <2>7. Cardinality(Busy(run[d][m])) + Cardinality(UnderWay(d, m)) <= Cardinality(Sent)
    BY <2>1 DEF Spare
  <2>8. Cardinality(Busy(run'[d][m])) + Cardinality(UnderWay(d, m)) <= Cardinality(Sent)
    BY <2>3, <2>4, <2>5, <2>7
  <2> QED
    BY <2>6, <2>8
<1> QED
  BY <1>7, <1>8, <1>9, <1>10 DEF IInv

LEMMA ThreadKept ==
  ASSUME IInv, NEW c \in Logins, NEW n \in Nodes, NEW j, NEW r \in Runners, NEW x \in RunRecord, NEW in,
         Moves(c, n, j, With(run[c][n], r, x), in), run[c][n][r].pc \notin {"none", "over"},
         session[n] \subseteq in, in \subseteq Slots(n), j.exists, job[c][n].stop => j.stop,
         Local(n, j, With(run[c][n], r, x), in)
  PROVE  IInv'
<1> DEFINE q == run[c][n]
<1>1. q \in [Runners -> RunRecord]
  BY TypedFields
<1> HIDE DEF q
<1>2. With(q, r, x)[r] = x /\ \A t \in Runners : t # r => With(q, r, x)[t] = q[t]
  BY <1>1, WithFields
<1>3. Busy(With(q, r, x)) \subseteq Busy(q)
  BY <1>2, RunnersFacts DEF Busy, q
<1>4. Forward(c, n, j, With(q, r, x), in)
  BY <1>3 DEF Forward, q
<1> QED
  BY <1>4, NodeKept DEF q

\* A thread that runs belongs to a job.
LEMMA ThreadFacts ==
  ASSUME IInv, NEW c \in Logins, NEW n \in Nodes, NEW r \in Runners
  PROVE  /\ job[c][n] \in JobRecord /\ run[c][n] \in [Runners -> RunRecord] /\ session[n] \subseteq Slots(n)
         /\ run[c][n][r] \in RunRecord
         /\ run[c][n][r].todo \subseteq Slots(n)
         /\ Local(n, job[c][n], run[c][n], session[n])
         /\ OpenerFits(n, job[c][n], run[c][n]) /\ SubmitFits(n, job[c][n], run[c][n])
         /\ Watched(n, job[c][n], run[c][n]) /\ Finishing(n, job[c][n], run[c][n])
         /\ DoneFits(n, job[c][n], session[n])
         /\ run[c][n][r].pc # "none" => /\ job[c][n].exists /\ job[c][n].status \in [Slots(n) -> Statuses]
                                        /\ (job[c][n].running <=> ~job[c][n].done)
<1>1. /\ job[c][n] \in JobRecord /\ run[c][n] \in [Runners -> RunRecord] /\ session[n] \subseteq Slots(n)
      /\ Local(n, job[c][n], run[c][n], session[n])
  BY TypedFields
<1> QED
  BY <1>1 DEF Local, Shaped

LEMMA Unmoved ==
  ASSUME Typed, NEW c \in Logins, NEW n \in Nodes
  PROVE  [job EXCEPT ![c][n] = job[c][n]] = job /\ [session EXCEPT ![n] = session[n]] = session
BY DEF Typed

\* How an assignment to fields of one thread is a step of that thread.
Places(c, n, r, pc, a) == run' = [run EXCEPT ![c][n][r].pc = pc, ![c][n][r].at = a]
Takes(c, n, r, pc, w, todo) ==
  run' = [run EXCEPT ![c][n][r].pc = pc, ![c][n][r].captcha = w, ![c][n][r].todo = todo]
Becomes(c, n, r, x) == run' = [run EXCEPT ![c][n] = With(run[c][n], r, x)]

LEMMA RunGoes ==
  ASSUME Typed, NEW c \in Logins, NEW n \in Nodes, NEW r \in Runners, NEW pc \in Pcs,
         Goto(c, n, r, pc)
  PROVE  \E x \in RunRecord : Becomes(c, n, r, x)
                              /\ x.pc = pc /\ x.at = run[c][n][r].at /\ x.todo = run[c][n][r].todo
                              /\ x.slot = run[c][n][r].slot
<1> DEFINE x == [run[c][n][r] EXCEPT !.pc = pc]
<1>1. run[c][n] \in [Runners -> RunRecord] /\ run[c][n][r] \in RunRecord
  BY DEF Typed
<1>2. Becomes(c, n, r, x)
  BY <1>1 DEF With, Becomes, Goto
<1>3. x \in RunRecord /\ x.pc = pc /\ x.at = run[c][n][r].at /\ x.todo = run[c][n][r].todo
      /\ x.slot = run[c][n][r].slot
  BY <1>1 DEF RunRecord
<1> QED
  BY <1>2, <1>3

LEMMA RunMoves ==
  ASSUME Typed, NEW c \in Logins, NEW n \in Nodes, NEW r \in Runners, NEW pc \in Pcs, NEW a \in Nat,
         Places(c, n, r, pc, a)
  PROVE  \E x \in RunRecord : Becomes(c, n, r, x)
                              /\ x.pc = pc /\ x.at = a /\ x.todo = run[c][n][r].todo
<1> DEFINE x == [run[c][n][r] EXCEPT !.pc = pc, !.at = a]
<1>1. run \in [Logins -> [Nodes -> [Runners -> RunRecord]]]
  BY DEF Typed
<1>2. run[c][n] \in [Runners -> RunRecord] /\ run[c][n][r] \in RunRecord
  BY <1>1
<1>3. Becomes(c, n, r, x)
  BY <1>1, <1>2 DEF With, Becomes, Places, RunRecord
<1>4. x \in RunRecord /\ x.pc = pc /\ x.at = a /\ x.todo = run[c][n][r].todo
  BY <1>2 DEF RunRecord
<1> QED
  BY <1>3, <1>4

Put(f, c, n, r, y) == [f EXCEPT ![c][n] = With(f[c][n], r, y)]
SetCaptcha(y, v) == [y EXCEPT !.captcha = v]
SetTodo(y, v) == [y EXCEPT !.todo = v]
PutCaptcha(f, c, n, r, v) == [f EXCEPT ![c][n][r].captcha = v]
PutTodo(f, c, n, r, v) == [f EXCEPT ![c][n][r].todo = v]

LEMMA FieldAfter ==
  ASSUME NEW f \in [Logins -> [Nodes -> [Runners -> RunRecord]]], NEW c \in Logins, NEW n \in Nodes,
         NEW r \in Runners, NEW y \in RunRecord, NEW v
  PROVE  /\ PutCaptcha(Put(f, c, n, r, y), c, n, r, v) = Put(f, c, n, r, SetCaptcha(y, v))
         /\ PutTodo(Put(f, c, n, r, y), c, n, r, v) = Put(f, c, n, r, SetTodo(y, v))
<1> DEFINE g == Put(f, c, n, r, y)
<1>1. /\ g = [f EXCEPT ![c] = [f[c] EXCEPT ![n] = [f[c][n] EXCEPT ![r] = y]]]
      /\ g \in [Logins -> [Nodes -> [Runners -> RunRecord]]]
      /\ g[c] = [f[c] EXCEPT ![n] = [f[c][n] EXCEPT ![r] = y]]
      /\ g[c][n] = [f[c][n] EXCEPT ![r] = y] /\ g[c][n][r] = y
  BY DEF Put, With
<1>2. /\ PutCaptcha(g, c, n, r, v) = [g EXCEPT ![c] = [g[c] EXCEPT ![n] = [g[c][n] EXCEPT ![r] = SetCaptcha(y, v)]]]
      /\ PutTodo(g, c, n, r, v) = [g EXCEPT ![c] = [g[c] EXCEPT ![n] = [g[c][n] EXCEPT ![r] = SetTodo(y, v)]]]
  BY <1>1 DEF PutCaptcha, PutTodo, SetCaptcha, SetTodo
<1> HIDE DEF g
<1>3. ASSUME NEW z
      PROVE  [g EXCEPT ![c] = [g[c] EXCEPT ![n] = [g[c][n] EXCEPT ![r] = z]]] = Put(f, c, n, r, z)
  <2>1. [g[c][n] EXCEPT ![r] = z] = [f[c][n] EXCEPT ![r] = z]
    BY <1>1
  <2> DEFINE q == [f[c][n] EXCEPT ![r] = z]
  <2> HIDE DEF q
  <2>2. [g[c] EXCEPT ![n] = q] = [f[c] EXCEPT ![n] = q]
    BY <1>1
  <2> DEFINE h == [f[c] EXCEPT ![n] = q]
  <2> HIDE DEF h
  <2>3. [g EXCEPT ![c] = h] = [f EXCEPT ![c] = h]
    BY <1>1
  <2>4. [f EXCEPT ![c] = h] = Put(f, c, n, r, z)
    BY DEF Put, With, h, q
  <2> QED
    BY <2>1, <2>2, <2>3, <2>4 DEF h, q
<1> QED
  BY <1>2, <1>3 DEF g

LEMMA RunTakes ==
  ASSUME Typed, NEW c \in Logins, NEW n \in Nodes, NEW r \in Runners, NEW pc \in Pcs, NEW w \in Words,
         NEW todo \in SUBSET AllSlots,
         Takes(c, n, r, pc, w, todo)
  PROVE  \E x \in RunRecord : Becomes(c, n, r, x)
                              /\ x.pc = pc /\ x.at = run[c][n][r].at /\ x.todo = todo
<1> DEFINE x == [run[c][n][r] EXCEPT !.pc = pc, !.captcha = w, !.todo = todo]
<1>1. run \in [Logins -> [Nodes -> [Runners -> RunRecord]]]
  BY DEF Typed
<1>2. run[c][n] \in [Runners -> RunRecord] /\ run[c][n][r] \in RunRecord
  BY <1>1
<1>3. Becomes(c, n, r, x)
  <2> DEFINE y == [run[c][n][r] EXCEPT !.pc = pc]
             v == [y EXCEPT !.captcha = w]
  <2>1. run' = PutTodo(PutCaptcha([run EXCEPT ![c][n][r].pc = pc], c, n, r, w), c, n, r, todo)
    BY DEF Takes, PutTodo, PutCaptcha
  <2>2. y \in RunRecord /\ v \in RunRecord
    BY <1>2 DEF RunRecord
  <2>3. [run EXCEPT ![c][n][r].pc = pc] = Put(run, c, n, r, y)
    BY DEF With, Put
  <2>4. x = SetTodo(v, todo) /\ v = SetCaptcha(y, w)
    BY DEF SetTodo, SetCaptcha
  <2> HIDE DEF x, y, v
  <2>5. PutCaptcha(Put(run, c, n, r, y), c, n, r, w) = Put(run, c, n, r, v)
    BY <1>1, <2>2, <2>4, FieldAfter
  <2>6. PutTodo(Put(run, c, n, r, v), c, n, r, todo) = Put(run, c, n, r, x)
    BY <1>1, <2>2, <2>4, FieldAfter
  <2>7. run' = Put(run, c, n, r, x)
    BY <2>1, <2>3, <2>5, <2>6
  <2> QED
    BY <2>7 DEF Becomes, Put, x
<1>4. x \in RunRecord /\ x.pc = pc /\ x.at = run[c][n][r].at /\ x.todo = todo
  BY <1>2 DEF RunRecord
<1> QED
  BY <1>3, <1>4

LEMMA WalkOff ==
  ASSUME NEW n \in Nodes, NEW j, NEW k, NEW q, NEW in, NEW r \in Runners, NEW x \in RunRecord,
         Walking(n, j, k, q, in, r, x), OpenerFits(n, k, With(q, r, x)),
         Watched(n, k, With(q, r, x)), Finishing(n, k, With(q, r, x))
  PROVE  Local(n, k, With(q, r, x), in)
<1>1. Shaped(n, k, With(q, r, x)) /\ SubmitFits(n, k, With(q, r, x)) /\ DoneFits(n, k, in)
  BY Walk
<1> QED
  BY <1>1 DEF Local

\* What is left to finalize is left to the same threads.
LEMMA OthersFinish ==
  ASSUME NEW n \in Nodes, NEW j, NEW q \in [Runners -> RunRecord], NEW r \in Runners, NEW x \in RunRecord,
         Finishing(n, j, q), Finishes(r, q[r]) => Finishes(r, x)
  PROVE  Finishing(n, j, With(q, r, x))
<1>1. With(q, r, x)[r] = x /\ \A t \in Runners : t # r => With(q, r, x)[t] = q[t]
  BY WithFields
<1> QED
  BY <1>1 DEF Finishing

LEMMA StepKept ==
  ASSUME IInv, NEW c \in Logins, NEW n \in Nodes, NEW r \in Runners, NEW k, NEW in, NEW x \in RunRecord,
         job' = [job EXCEPT ![c][n] = k], session' = [session EXCEPT ![n] = in], Becomes(c, n, r, x),
         UNCHANGED <<state, late>>, run[c][n][r].pc \notin {"none", "over"},
         session[n] \subseteq in, in \subseteq Slots(n), k.exists, job[c][n].stop => k.stop,
         Local(n, k, With(run[c][n], r, x), in)
  PROVE  IInv'
<1>1. Moves(c, n, k, With(run[c][n], r, x), in)
  BY DEF Moves, Becomes
<1> QED
  BY <1>1, ThreadKept

LEMMA LookKept ==
  ASSUME IInv, NEW c \in Logins, NEW n \in Nodes, NEW r \in Runners, Look(c, n, r), UNCHANGED <<state, late>>
  PROVE  IInv'
<1> DEFINE q == run[c][n]
           j == job[c][n]
           in == session[n]
<1>1. At(c, n, r, "look") /\ UNCHANGED <<job, session>>
  BY DEF Look
<1>2. q[r].pc = "look"
  BY <1>1 DEF At
<1>3. Typed
  BY DEF IInv
<1>4. /\ j \in JobRecord /\ q \in [Runners -> RunRecord] /\ in \subseteq Slots(n)
      /\ q[r] \in RunRecord /\ q[r].todo \subseteq Slots(n) /\ Local(n, j, q, in)
      /\ OpenerFits(n, j, q) /\ Finishing(n, j, q) /\ DoneFits(n, j, in)
      /\ j.exists /\ j.status \in [Slots(n) -> Statuses] /\ (j.running <=> ~j.done)
  BY <1>2, ThreadFacts
<1>5. job' = [job EXCEPT ![c][n] = j] /\ session' = [session EXCEPT ![n] = in]
  BY <1>1, <1>3, Unmoved
<1>6. ASSUME NEW x \in RunRecord, Becomes(c, n, r, x),
             Local(n, j, With(q, r, x), in)
      PROVE  IInv'
  BY <1>2, <1>4, <1>5, <1>6, StepKept
<1>7. CASE j.captcha = NoCaptcha
  <2> DEFINE pc == IF r = Opener THEN "last" ELSE "over"
  <2>1. Goto(c, n, r, pc)
    BY <1>7 DEF Look
  <2>2. pc \in Pcs
    BY DEF Pcs
  <2>3. PICK x \in RunRecord : Becomes(c, n, r, x) /\ x.pc = pc /\ x.at = q[r].at /\ x.todo = q[r].todo
    BY <1>3, <2>1, <2>2, RunGoes
  <2>5. Walking(n, j, j, q, in, r, x)
    BY <1>2, <1>4, <2>3 DEF Walking, DoneFits
  <2>6. OpenerFits(n, j, With(q, r, x))
    BY <1>4, <2>3, OpenerStays DEF Stays
  <2>7. Watched(n, j, With(q, r, x))
    BY <1>7 DEF Watched
  <2>8. Finishing(n, j, With(q, r, x))
    BY <1>2, <1>4, <2>3, OthersFinish DEF Finishes
  <2> QED
    BY <1>6, <2>3, <2>5, <2>6, <2>7, <2>8, WalkOff
<1>8. CASE j.captcha # NoCaptcha /\ WithStatus(c, n, "waiting") = {}
  <2>1. Goto(c, n, r, "leave")
    BY <1>8 DEF Look
  <2>2. "leave" \in Pcs
    BY DEF Pcs
  <2>3. PICK x \in RunRecord : Becomes(c, n, r, x) /\ x.pc = "leave" /\ x.at = q[r].at /\ x.todo = q[r].todo
    BY <1>3, <2>1, <2>2, RunGoes
  <2>5. Walking(n, j, j, q, in, r, x)
    BY <1>2, <1>4, <2>3 DEF Walking, DoneFits
  <2>6. OpenerFits(n, j, With(q, r, x))
    BY <1>4, <2>3, OpenerStays DEF Stays
  <2>7. Watched(n, j, With(q, r, x))
    BY <1>8 DEF Watched, WithStatus
  <2>8. Finishing(n, j, With(q, r, x))
    BY <1>2, <1>4, <2>3, OthersFinish DEF Finishes
  <2> QED
    BY <1>6, <2>3, <2>5, <2>6, <2>7, <2>8, WalkOff
<1>9. CASE j.captcha # NoCaptcha /\ WithStatus(c, n, "waiting") # {}
  <2> DEFINE w == WithStatus(c, n, "waiting")
  <2>1. Takes(c, n, r, "claim", j.captcha, w)
    BY <1>9 DEF Look, Takes
  <2>2. "claim" \in Pcs /\ j.captcha \in Words /\ w \subseteq Slots(n) /\ w \in SUBSET AllSlots
    BY <1>4, SlotsFacts DEF Pcs, JobRecord, WithStatus
  <2> HIDE DEF w
  <2>3. PICK x \in RunRecord : Becomes(c, n, r, x) /\ x.pc = "claim" /\ x.at = q[r].at /\ x.todo = w
    BY <1>3, <2>1, <2>2, RunTakes
  <2>5. Walking(n, j, j, q, in, r, x)
    BY <1>2, <1>4, <2>2, <2>3 DEF Walking, DoneFits
  <2>6. OpenerFits(n, j, With(q, r, x))
    BY <1>4, <2>3, OpenerStays DEF Stays
  <2>7. GoesOn(r, x)
    BY <2>3 DEF GoesOn, Finishes
  <2> QED
    BY <1>6, <2>3, <2>5, <2>6, <2>7, WalkOn
<1> QED
  BY <1>7, <1>8, <1>9

LEMMA ForgetKept ==
  ASSUME IInv, NEW c \in Logins, NEW n \in Nodes, NEW r \in Runners, Forget(c, n, r), UNCHANGED <<state, late>>
  PROVE  IInv'
<1> DEFINE q == run[c][n]
           j == job[c][n]
           in == session[n]
           k == [j EXCEPT !.captcha = NoCaptcha]
<1>1. q[r].pc = "forget" /\ Goto(c, n, r, "claim") /\ UNCHANGED session
  BY DEF Forget, At
<1>2. job' = [job EXCEPT ![c][n] = k]
  BY DEF Forget
<1>3. Typed
  BY DEF IInv
<1>4. /\ j \in JobRecord /\ q \in [Runners -> RunRecord] /\ in \subseteq Slots(n)
      /\ q[r] \in RunRecord /\ q[r].todo \subseteq Slots(n) /\ Local(n, j, q, in)
      /\ OpenerFits(n, j, q) /\ DoneFits(n, j, in)
      /\ j.exists /\ j.status \in [Slots(n) -> Statuses] /\ (j.running <=> ~j.done)
  BY <1>1, ThreadFacts
<1>5. session' = [session EXCEPT ![n] = in]
  BY <1>1, <1>3, Unmoved
<1>6. "claim" \in Pcs
  BY DEF Pcs
<1>7. PICK x \in RunRecord : Becomes(c, n, r, x) /\ x.pc = "claim" /\ x.at = q[r].at /\ x.todo = q[r].todo
  BY <1>1, <1>3, <1>6, RunGoes
<1>8. /\ k \in JobRecord /\ k.exists /\ k.status = j.status /\ k.running = j.running /\ k.done = j.done
      /\ k.stop = j.stop
  BY <1>4 DEF JobRecord, Words
<1> HIDE DEF k
<1>9. Walking(n, j, k, q, in, r, x)
  BY <1>1, <1>4, <1>7, <1>8 DEF Walking, DoneFits
<1>10. OpenerFits(n, k, With(q, r, x))
  BY <1>4, <1>7, <1>8, OpenerStays DEF Stays
<1>11. GoesOn(r, x)
  BY <1>7 DEF GoesOn, Finishes
<1>12. Local(n, k, With(q, r, x), in)
  BY <1>9, <1>10, <1>11, WalkOn
<1> QED
  BY <1>1, <1>2, <1>4, <1>5, <1>7, <1>8, <1>12, StepKept

LEMMA FinalizeKept ==
  ASSUME IInv, NEW c \in Logins, NEW n \in Nodes, NEW r \in Runners, Finalize(c, n, r), UNCHANGED <<state, late>>
  PROVE  IInv'
<1> DEFINE q == run[c][n]
           j == job[c][n]
           in == session[n]
           ready == ~j.done /\ j.step1 /\ WithStatus(c, n, "waiting") = {} /\ ~HasActive(c, n)
           k == IF ready THEN [j EXCEPT !.running = FALSE, !.done = TRUE, !.success = WithStatus(c, n, "failed") = {}]
                ELSE j
           pc == IF At(c, n, r, "finalize") THEN "look"
                 ELSE IF r = Opener /\ At(c, n, r, "leave") THEN "last" ELSE "over"
<1>1. q[r].pc \in {"finalize", "leave", "last"} /\ Goto(c, n, r, pc) /\ UNCHANGED session
  BY DEF Finalize
<1>2. Typed
  BY DEF IInv
<1>3. /\ j \in JobRecord /\ q \in [Runners -> RunRecord] /\ in \subseteq Slots(n)
      /\ q[r] \in RunRecord /\ q[r].todo \subseteq Slots(n) /\ Local(n, j, q, in)
      /\ OpenerFits(n, j, q) /\ DoneFits(n, j, in) /\ Watched(n, j, q)
      /\ j.exists /\ j.status \in [Slots(n) -> Statuses] /\ (j.running <=> ~j.done)
  BY <1>1, ThreadFacts
<1>4. job' = [job EXCEPT ![c][n] = k]
  <2>1. CASE ready
    <3>1. job' = [job EXCEPT ![c][n].running = FALSE, ![c][n].done = TRUE,
                     ![c][n].success = WithStatus(c, n, "failed") = {}]
      BY <2>1 DEF Finalize, Finalized
    <3>2. job \in [Logins -> [Nodes -> JobRecord]]
      BY <1>2 DEF Typed
    <3> QED
      BY <2>1, <3>1, <3>2
  <2>2. CASE ~ready
    <3>1. job' = job
      BY <2>2 DEF Finalize, Finalized
    <3> QED
      BY <1>2, <2>2, <3>1, Unmoved
  <2> QED
    BY <2>1, <2>2
<1>5. session' = [session EXCEPT ![n] = in]
  BY <1>1, <1>2, Unmoved
<1>6. pc \in Pcs
  BY DEF Pcs
<1>7. PICK x \in RunRecord : Becomes(c, n, r, x) /\ x.pc = pc /\ x.at = q[r].at /\ x.todo = q[r].todo
  BY <1>1, <1>2, <1>6, RunGoes
<1>8. /\ k \in JobRecord /\ k.exists /\ k.status = j.status /\ (k.running <=> ~k.done) /\ k.step1 = j.step1
      /\ k.captcha = j.captcha /\ k.stop = j.stop /\ (~k.done => ~j.done /\ ~ready)
      /\ (k.done => j.done \/ ready)
  BY <1>3 DEF JobRecord
<1> HIDE DEF k
<1>9. ready => AllRest(n, j)
  BY <1>3 DEF AllRest, WithStatus, HasActive, Rest, Active, Statuses
<1>10. AllRest(n, j) => WithStatus(c, n, "waiting") = {} /\ ~HasActive(c, n)
  BY <1>3 DEF AllRest, WithStatus, HasActive, Rest, Active
<1>11. Walking(n, j, k, q, in, r, x)
  BY <1>1, <1>3, <1>7, <1>8, <1>9 DEF Walking, DoneFits
<1>12. OpenerFits(n, k, With(q, r, x))
  BY <1>3, <1>7, <1>8, OpenerStays DEF Stays
<1>13. With(q, r, x)[r] = x /\ \A t \in Runners : t # r => With(q, r, x)[t] = q[t]
  BY ZenonT(40), <1>3, WithFields
<1>14. Watched(n, k, With(q, r, x))
  BY <1>1, <1>3, <1>7, <1>8, <1>13 DEF Watched, At
<1>15. Finishing(n, k, With(q, r, x))
  BY <1>8, <1>10 DEF Finishing, AllRest
<1>16. Local(n, k, With(q, r, x), in)
  BY <1>11, <1>12, <1>14, <1>15, WalkOff
<1> QED
  BY <1>1, <1>3, <1>4, <1>5, <1>7, <1>8, <1>16, StepKept

SetSlot(y, v) == [y EXCEPT !.slot = v]
PutSlot(f, c, n, r, v) == [f EXCEPT ![c][n][r].slot = v]

LEMMA SlotAfter ==
  ASSUME NEW f \in [Logins -> [Nodes -> [Runners -> RunRecord]]], NEW c \in Logins, NEW n \in Nodes,
         NEW r \in Runners, NEW y \in RunRecord, NEW v
  PROVE  /\ PutSlot(Put(f, c, n, r, y), c, n, r, v) = Put(f, c, n, r, SetSlot(y, v))
         /\ Put(f, c, n, r, y)[c][n][r] = y
BY DEF With, Put, PutSlot, SetSlot

\* A thread takes slot s from its list, to submit it or to pass it by.
Picks(c, n, r, s) ==
  run' = [run EXCEPT ![c][n][r].pc = "submit", ![c][n][r].slot = s, ![c][n][r].todo = @ \ {s}]

LEMMA RunHands ==
  ASSUME Typed, NEW c \in Logins, NEW n \in Nodes, NEW r \in Runners, NEW s \in AllSlots,
         Picks(c, n, r, s)
  PROVE  \E x \in RunRecord : Becomes(c, n, r, x) /\ x.pc = "submit" /\ x.at = run[c][n][r].at
                              /\ x.slot = s /\ x.todo = run[c][n][r].todo \ {s}
<1> DEFINE u == run[c][n][r]
           y == [u EXCEPT !.pc = "submit"]
           v == SetSlot(y, s)
           f == PutSlot([run EXCEPT ![c][n][r].pc = "submit"], c, n, r, s)
           todo == u.todo \ {s}
           x == SetTodo(v, todo)
<1>1. run \in [Logins -> [Nodes -> [Runners -> RunRecord]]] /\ u \in RunRecord
  BY DEF Typed
<1>2. y \in RunRecord /\ y.pc = "submit" /\ y.at = u.at /\ y.todo = u.todo
  BY <1>1 DEF RunRecord, Pcs
<1>3. [run EXCEPT ![c][n][r].pc = "submit"] = Put(run, c, n, r, y)
  BY DEF With, Put
<1>4. run' = PutTodo(f, c, n, r, todo)
  BY DEF Picks, PutTodo, PutSlot
<1> HIDE DEF y, todo
<1>5. v \in RunRecord /\ v.pc = "submit" /\ v.at = u.at /\ v.todo = u.todo /\ v.slot = s
  BY <1>2 DEF RunRecord, SetSlot
<1>5a. todo \subseteq AllSlots
  BY <1>1 DEF RunRecord, todo
<1> HIDE DEF x
<1>5b. /\ run \in [Logins -> [Nodes -> [Runners -> RunRecord]]]
       /\ y \in RunRecord /\ v \in RunRecord /\ v = SetSlot(y, s)
  BY <1>1, <1>2, <1>5
<1>6a. f = PutSlot(Put(run, c, n, r, y), c, n, r, s)
  BY <1>3
<1> HIDE DEF v, f
<1>6. f = Put(run, c, n, r, v)
  BY <1>5b, <1>6a, SlotAfter
<1>7. x = SetTodo(v, todo)
  BY DEF x
<1>8. run' = Put(run, c, n, r, x)
  BY <1>4, <1>5b, <1>6, <1>7, FieldAfter
<1>9. /\ x \in RunRecord /\ x.pc = "submit" /\ x.at = u.at /\ x.slot = s /\ x.todo = todo
  BY <1>5, <1>5a, <1>7 DEF RunRecord, SetTodo
<1> QED
  BY <1>8, <1>9 DEF Becomes, Put, todo

Passes(c, n, r, s) == run' = [run EXCEPT ![c][n][r].todo = @ \ {s}]

LEMMA RunPasses ==
  ASSUME Typed, NEW c \in Logins, NEW n \in Nodes, NEW r \in Runners, NEW s,
         Passes(c, n, r, s)
  PROVE  \E x \in RunRecord : Becomes(c, n, r, x) /\ x.pc = run[c][n][r].pc /\ x.at = run[c][n][r].at
                              /\ x.todo = run[c][n][r].todo \ {s}
<1> DEFINE x == [run[c][n][r] EXCEPT !.todo = @ \ {s}]
<1>1. run[c][n] \in [Runners -> RunRecord] /\ run[c][n][r] \in RunRecord
  BY DEF Typed
<1>2. Becomes(c, n, r, x)
  BY <1>1 DEF With, Becomes, Passes
<1>3. x \in RunRecord /\ x.pc = run[c][n][r].pc /\ x.at = run[c][n][r].at /\ x.todo = run[c][n][r].todo \ {s}
  BY <1>1 DEF RunRecord
<1> QED
  BY <1>2, <1>3

\* A thread without slots to submit.
LEMMA RunEmptied ==
  ASSUME Typed, NEW c \in Logins, NEW n \in Nodes, NEW r \in Runners, run[c][n][r].todo = {},
         run' = [run EXCEPT ![c][n][r] = Emptied(c, n, r)]
  PROVE  \E x \in RunRecord :
            /\ Becomes(c, n, r, x) /\ x.todo = {}
            /\ \/ r = Opener /\ run[c][n][r].at > 0 /\ x.pc = "next" /\ x.at = run[c][n][r].at + 1
               \/ ~(r = Opener /\ run[c][n][r].at > 0) /\ x.pc = "finalize" /\ x.at = run[c][n][r].at
<1> DEFINE u == run[c][n][r]
           m == u.at + 1
<1>1. run[c][n] \in [Runners -> RunRecord] /\ u \in RunRecord /\ u.at \in Nat
  BY RunFields DEF Typed
<1>2. \A y : run' = [run EXCEPT ![c][n][r] = y] => Becomes(c, n, r, y)
  BY DEF With, Becomes
<1>3. m \in Nat
  BY <1>1
<1> HIDE DEF m
<1>4. CASE r = Opener /\ u.at > 0
  <2> DEFINE x == [u EXCEPT !.pc = "next", !.at = m, !.captcha = NoCaptcha, !.slot = "none"]
  <2>1. x \in RunRecord /\ x.todo = {} /\ x.pc = "next" /\ x.at = m
    BY <1>1, <1>3 DEF RunRecord, Words, Pcs
  <2>2. Emptied(c, n, r) = x
    BY <1>4 DEF Emptied, m
  <2>3. Becomes(c, n, r, x)
    BY <1>2, <2>2
  <2> QED
    BY <1>4, <2>1, <2>3 DEF m
<1>5. CASE ~(r = Opener /\ u.at > 0)
  <2> DEFINE x == [u EXCEPT !.pc = "finalize", !.captcha = NoCaptcha, !.slot = "none"]
  <2>1. x \in RunRecord /\ x.todo = {} /\ x.pc = "finalize" /\ x.at = u.at
    BY <1>1 DEF RunRecord, Words, Pcs
  <2>2. Emptied(c, n, r) = x
    BY <1>5 DEF Emptied
  <2>3. Becomes(c, n, r, x)
    BY <1>2, <2>2
  <2> QED
    BY <1>5, <2>1, <2>3
<1> QED
  BY <1>4, <1>5

\* The opener goes on to the next slot; what is still to come was not touched.
LEMMA OpenerAdvances ==
  ASSUME NEW n \in Nodes, NEW j, NEW k, NEW q \in [Runners -> RunRecord], NEW x \in RunRecord,
         OpenerFits(n, j, q), x.pc = "next", x.at = q[Opener].at + 1, q[Opener].at >= 1,
         \A i \in 1..Len(SlotOrder[n]) : i > q[Opener].at => k.status[SlotOrder[n][i]] = j.status[SlotOrder[n][i]]
  PROVE  OpenerFits(n, k, With(q, Opener, x))
<1> DEFINE z == With(q, Opener, x)
           a == q[Opener].at
<1>1. Opener \in Runners /\ a \in Nat /\ Len(SlotOrder[n]) \in Nat
  BY RunnersFacts, RunFields, SlotsFacts
<1>2. z[Opener] = x
  BY <1>1, WithFields
<1> HIDE DEF z
<1>3. ASSUME NEW i \in 1..Len(SlotOrder[n]), i > a
      PROVE  k.status[SlotOrder[n][i]] \in {"pending", "not in job"}
  BY <1>3 DEF OpenerFits
<1>4. ASSUME NEW i \in 1..Len(SlotOrder[n]), i > a + 1 \/ i = a + 1 PROVE i > a
  BY <1>1, <1>4
<1>5. ASSUME NEW i \in 1..Len(SlotOrder[n]), i > x.at \/ (i = x.at /\ x.pc = "next")
      PROVE  k.status[SlotOrder[n][i]] \in {"pending", "not in job"}
  BY <1>3, <1>4, <1>5
<1>6. x.at >= 1
  BY <1>1
<1>7. OpenerFits(n, k, z)
  BY <1>2, <1>5, <1>6 DEF OpenerFits
<1> QED
  BY <1>7 DEF z

LEMMA ClaimKept ==
  ASSUME IInv, NEW c \in Logins, NEW n \in Nodes, NEW r \in Runners, Claim(c, n, r), UNCHANGED <<state, late>>
  PROVE  IInv'
<1> DEFINE q == run[c][n]
           j == job[c][n]
           in == session[n]
<1>1. q[r].pc = "claim" /\ UNCHANGED session
  BY DEF Claim, At
<1>2. Typed
  BY DEF IInv
<1>3. /\ j \in JobRecord /\ q \in [Runners -> RunRecord] /\ in \subseteq Slots(n)
      /\ q[r] \in RunRecord /\ q[r].todo \subseteq Slots(n) /\ Local(n, j, q, in)
      /\ OpenerFits(n, j, q) /\ DoneFits(n, j, in)
      /\ j.exists /\ j.status \in [Slots(n) -> Statuses] /\ (j.running <=> ~j.done)
  BY <1>1, ThreadFacts
<1>4. [job EXCEPT ![c][n] = j] = job /\ session' = [session EXCEPT ![n] = in]
  BY <1>1, <1>2, Unmoved
<1>5. ASSUME NEW x \in RunRecord, Becomes(c, n, r, x), UNCHANGED job, Local(n, j, With(q, r, x), in)
      PROVE  IInv'
  BY <1>1, <1>3, <1>4, <1>5, StepKept
<1>6. CASE q[r].todo = {}
  <2>1. UNCHANGED job /\ run' = [run EXCEPT ![c][n][r] = Emptied(c, n, r)]
    BY <1>6 DEF Claim
  <2>2. PICK x \in RunRecord :
            /\ Becomes(c, n, r, x) /\ x.todo = {}
            /\ \/ r = Opener /\ q[r].at > 0 /\ x.pc = "next" /\ x.at = q[r].at + 1
               \/ ~(r = Opener /\ q[r].at > 0) /\ x.pc = "finalize" /\ x.at = q[r].at
    BY <1>2, <1>6, <2>1, RunEmptied
  <2>3. Walking(n, j, j, q, in, r, x)
    BY <1>1, <1>3, <2>2 DEF Walking, DoneFits
  <2>4. GoesOn(r, x)
    BY <2>2 DEF GoesOn, Finishes
  <2>5. OpenerFits(n, j, With(q, r, x))
    <3>1. CASE r = Opener /\ q[r].at > 0 /\ x.pc = "next" /\ x.at = q[r].at + 1
      <4>1. q[Opener].at >= 1
        BY <1>3, <3>1, RunFields
      <4> QED
        BY <1>3, <3>1, <4>1, OpenerAdvances
    <3>2. CASE x.pc = "finalize" /\ x.at = q[r].at
      BY <1>3, <3>2, OpenerStays DEF Stays
    <3> QED
      BY <2>2, <3>1, <3>2
  <2> QED
    BY <1>5, <2>1, <2>2, <2>3, <2>4, <2>5, WalkOn
<1>7. CASE q[r].todo # {}
  <2>1. PICK s \in q[r].todo :
               IF j.status[s] = "waiting"
               THEN SetStatus(c, n, s, "submitting") /\ Picks(c, n, r, s)
               ELSE Passes(c, n, r, s) /\ UNCHANGED job
    BY ZenonT(40), <1>7 DEF Claim, Picks, Passes
  <2>2. s \in Slots(n) /\ s \in AllSlots
    BY <1>3, SlotsFacts
  <2>3. CASE j.status[s] = "waiting"
    <3>1. job' = [job EXCEPT ![c][n] = Marked(j, s, "submitting")]
      BY <2>1, <2>3 DEF SetStatus, Marked
    <3>2. PICK x \in RunRecord : Becomes(c, n, r, x) /\ x.pc = "submit" /\ x.at = q[r].at
                                 /\ x.slot = s /\ x.todo = q[r].todo \ {s}
      BY <1>2, <2>1, <2>2, <2>3, RunHands
    <3>3. "submitting" \in Statuses
      BY DEF Statuses, Active
    <3>4. Marking(n, j, q, in, in, r, x, s, "submitting")
      BY <1>1, <1>3, <2>3, <3>2 DEF Marking, Hands, Rest
    <3>5. OpenerFits(n, Marked(j, s, "submitting"), With(q, r, x))
      BY <1>3, <2>2, <2>3, <3>2, <3>3, OpenerStaysMarked DEF Stays
    <3>6. GoesOn(r, x)
      BY <3>2 DEF GoesOn, Finishes
    <3>7. Local(n, Marked(j, s, "submitting"), With(q, r, x), in)
      BY <2>2, <3>3, <3>4, <3>5, <3>6, MarkOn
    <3>8. Marked(j, s, "submitting").exists /\ Marked(j, s, "submitting").stop = j.stop
      BY <1>3, <2>2, <3>3, MarkedFields DEF IsMarked
    <3> QED
      BY <1>1, <1>3, <1>4, <3>1, <3>2, <3>7, <3>8, StepKept
  <2>4. CASE j.status[s] # "waiting"
    <3>1. UNCHANGED job /\ Passes(c, n, r, s)
      BY <2>1, <2>4
    <3>2. PICK x \in RunRecord : Becomes(c, n, r, x) /\ x.pc = q[r].pc /\ x.at = q[r].at
                                 /\ x.todo = q[r].todo \ {s}
      BY <1>2, <3>1, RunPasses
    <3>3. Walking(n, j, j, q, in, r, x)
      BY <1>1, <1>3, <3>2 DEF Walking, DoneFits
    <3>4. GoesOn(r, x)
      BY <1>1, <3>2 DEF GoesOn, Finishes
    <3>5. OpenerFits(n, j, With(q, r, x))
      BY <1>1, <1>3, <3>2, OpenerStays DEF Stays
    <3> QED
      BY <1>5, <3>1, <3>2, <3>3, <3>4, <3>5, WalkOn
  <2> QED
    BY ZenonT(40), <2>3, <2>4
<1> QED
  BY ZenonT(40), <1>6, <1>7

LEMMA SubmitKept ==
  ASSUME IInv, NEW c \in Logins, NEW n \in Nodes, NEW r \in Runners, Submit(c, n, r), UNCHANGED <<state, late>>
  PROVE  IInv'
<1> DEFINE q == run[c][n]
           j == job[c][n]
           in == session[n]
           s == q[r].slot
<1>1. q[r].pc = "submit"
  BY DEF Submit, At
<1>2. Typed
  BY DEF IInv
<1>3. /\ j \in JobRecord /\ q \in [Runners -> RunRecord] /\ in \subseteq Slots(n)
      /\ q[r] \in RunRecord /\ q[r].todo \subseteq Slots(n) /\ Local(n, j, q, in)
      /\ OpenerFits(n, j, q) /\ SubmitFits(n, j, q)
      /\ j.exists /\ j.status \in [Slots(n) -> Statuses]
  BY <1>1, ThreadFacts
<1>4. s \in Slots(n) /\ j.status[s] = "submitting"
  BY <1>1, <1>3 DEF SubmitFits
<1>5. PICK st \in Statuses, pc \in Pcs, in2 \in SUBSET Slots(n) :
         /\ SetStatus(c, n, s, st) /\ Goto(c, n, r, pc) /\ session' = [session EXCEPT ![n] = in2]
         /\ in \subseteq in2 /\ pc \in {"claim", "forget"} /\ st # "submitting" /\ st # "not in job"
         /\ st = "logged in" => s \in in2
  <2>1. CASE /\ SetStatus(c, n, s, "logged in") /\ Goto(c, n, r, "claim")
             /\ session' = [session EXCEPT ![n] = @ \cup {s}]
    <3>1. in \cup {s} \in SUBSET Slots(n) /\ "logged in" \in Statuses /\ "claim" \in Pcs
      BY <1>3, <1>4 DEF Statuses, Pcs
    <3> QED
      BY <2>1, <3>1
  <2>2. ASSUME NEW st \in {"failed", "waiting"}, SetStatus(c, n, s, st), Goto(c, n, r, "forget"), UNCHANGED session
        PROVE  \E st0 \in Statuses, pc \in Pcs, in2 \in SUBSET Slots(n) :
                  /\ SetStatus(c, n, s, st0) /\ Goto(c, n, r, pc) /\ session' = [session EXCEPT ![n] = in2]
                  /\ in \subseteq in2 /\ pc \in {"claim", "forget"} /\ st0 # "submitting" /\ st0 # "not in job"
                  /\ st0 = "logged in" => s \in in2
    <3>1. st \in Statuses /\ "forget" \in Pcs /\ in \in SUBSET Slots(n) /\ st # "logged in"
      BY <1>3 DEF Statuses, Pcs
    <3>2. session' = [session EXCEPT ![n] = in]
      BY <1>2, <2>2, Unmoved
    <3> QED
      BY <2>2, <3>1, <3>2
  <2> QED
    BY <2>1, <2>2 DEF Submit
<1>6. job' = [job EXCEPT ![c][n] = Marked(j, s, st)]
  BY <1>5 DEF SetStatus, Marked
<1>6a. Goto(c, n, r, pc)
  BY <1>5
<1>7. PICK x \in RunRecord : Becomes(c, n, r, x) /\ x.pc = pc /\ x.at = q[r].at /\ x.todo = q[r].todo
  BY <1>2, <1>6a, RunGoes
<1>8. Marking(n, j, q, in, in2, r, x, s, st)
  BY <1>1, <1>3, <1>4, <1>5, <1>7 DEF Marking, Hands, Rest
<1>9. OpenerFits(n, Marked(j, s, st), With(q, r, x))
  BY <1>3, <1>4, <1>5, <1>7, OpenerStaysMarked DEF Stays
<1>10. GoesOn(r, x)
  BY <1>5, <1>7 DEF GoesOn, Finishes
<1>11. Local(n, Marked(j, s, st), With(q, r, x), in2)
  BY <1>4, <1>8, <1>9, <1>10, MarkOn
<1>12. Marked(j, s, st).exists /\ Marked(j, s, st).stop = j.stop
  BY <1>3, <1>4, MarkedFields DEF IsMarked
<1> QED
  BY <1>1, <1>3, <1>5, <1>6, <1>7, <1>11, <1>12, StepKept

LEMMA AdvanceRuns ==
  ASSUME Typed, NEW c \in Logins, NEW n \in Nodes, Advance(c, n)
  PROVE  \E x \in RunRecord : /\ Becomes(c, n, Opener, x) /\ x.pc = "next"
                              /\ x.at = run[c][n][Opener].at + 1 /\ x.todo = run[c][n][Opener].todo
<1> DEFINE a == run[c][n][Opener].at + 1
<1>1. Places(c, n, Opener, "next", a)
  BY DEF Advance, Places
<1>2. Opener \in Runners
  BY RunnersFacts
<1>3. run[c][n] \in [Runners -> RunRecord]
  BY DEF Typed
<1>4. run[c][n][Opener].at \in Nat
  BY <1>2, <1>3, RunFields
<1>5. a \in Nat /\ "next" \in Pcs
  BY <1>4 DEF Pcs
<1> HIDE DEF a
<1>6. \E x \in RunRecord : Becomes(c, n, Opener, x) /\ x.pc = "next" /\ x.at = a /\ x.todo = run[c][n][Opener].todo
  BY <1>1, <1>2, <1>5, RunMoves
<1> QED
  BY <1>6 DEF a

\* The opener marks the slot it is at and stays there or goes on.
LEMMA OpenerMarks ==
  ASSUME NEW n \in Nodes, NEW j \in JobRecord, NEW q \in [Runners -> RunRecord], NEW x \in RunRecord,
         OpenerFits(n, j, q), j.status \in [Slots(n) -> Statuses], q[Opener].pc \in {"next", "open"},
         q[Opener].at <= Len(SlotOrder[n]), NEW st \in Statuses,
         \/ x.pc = "next" /\ x.at = q[Opener].at + 1
         \/ x.pc = "open" /\ x.at = q[Opener].at /\ st = "opening"
         \/ x.pc = "offer" /\ x.at = q[Opener].at
  PROVE  OpenerFits(n, Marked(j, SlotOrder[n][q[Opener].at], st), With(q, Opener, x))
<1> DEFINE z == With(q, Opener, x)
           a == q[Opener].at
           s == SlotOrder[n][a]
           k == Marked(j, s, st)
<1>1. Opener \in Runners /\ a \in Nat /\ Len(SlotOrder[n]) \in Nat
  BY RunnersFacts, RunFields, SlotsFacts
<1>2. z[Opener] = x
  BY <1>1, WithFields
<1>3. a >= 1 /\ a <= Len(SlotOrder[n])
  BY DEF OpenerFits
<1>4. a \in 1..Len(SlotOrder[n])
  BY <1>1, <1>3
<1>5. s \in Slots(n) /\ \A i \in 1..Len(SlotOrder[n]) : SlotOrder[n][i] \in Slots(n) /\ (SlotOrder[n][i] = s => i = a)
  BY <1>4, SlotsFacts
<1> HIDE DEF s
<1>6. \A t \in Slots(n) : k.status[t] = IF t = s THEN st ELSE j.status[t]
  BY <1>5, MarkedFields DEF IsMarked
<1> HIDE DEF z, k
<1>7. ASSUME NEW i \in 1..Len(SlotOrder[n]), i > x.at \/ (i = x.at /\ x.pc = "next")
      PROVE  k.status[SlotOrder[n][i]] \in {"pending", "not in job"}
  <2>1. i > a
    BY <1>1, <1>7
  <2>2. j.status[SlotOrder[n][i]] \in {"pending", "not in job"}
    BY <1>3, <2>1 DEF OpenerFits
  <2>3. i # a
    BY <1>1, <2>1
  <2> QED
    BY <1>5, <1>6, <2>2, <2>3
<1>8. x.at >= 1 /\ (x.pc # "next" => x.at = a)
  BY <1>1, <1>3
<1>9. x.pc = "open" => k.status[SlotOrder[n][x.at]] = "opening"
  BY <1>5, <1>6, <1>8 DEF s
<1>10. OpenerFits(n, k, z)
  BY <1>2, <1>3, <1>7, <1>8, <1>9 DEF OpenerFits
<1> QED
  BY <1>10 DEF z, k, s

LEMMA OpenNextKept ==
  ASSUME IInv, NEW c \in Logins, NEW n \in Nodes, OpenNext(c, n), UNCHANGED <<state, late>>
  PROVE  IInv'
<1> DEFINE q == run[c][n]
           j == job[c][n]
           in == session[n]
           a == q[Opener].at
           s == SlotAt(c, n)
<1>1. q[Opener].pc = "next" /\ UNCHANGED session
  BY DEF OpenNext, At
<1>2. Typed /\ Opener \in Runners
  BY RunnersFacts DEF IInv
<1>3. /\ j \in JobRecord /\ q \in [Runners -> RunRecord] /\ in \subseteq Slots(n)
      /\ q[Opener] \in RunRecord /\ q[Opener].todo \subseteq Slots(n) /\ Local(n, j, q, in)
      /\ OpenerFits(n, j, q) /\ DoneFits(n, j, in)
      /\ j.exists /\ j.status \in [Slots(n) -> Statuses] /\ (j.running <=> ~j.done)
  BY <1>1, <1>2, ThreadFacts
<1>4. [job EXCEPT ![c][n] = j] = job /\ session' = [session EXCEPT ![n] = in]
  BY <1>1, <1>2, Unmoved
<1>5. a \in Nat /\ a >= 1
  BY <1>1, <1>3, RunFields DEF OpenerFits
<1>6. ASSUME NEW x \in RunRecord, Becomes(c, n, Opener, x), UNCHANGED job, x.todo = q[Opener].todo,
             x.pc \in {"next", "opened"}, OpenerFits(n, j, With(q, Opener, x))
      PROVE  IInv'
  <2>1. Walking(n, j, j, q, in, Opener, x)
    BY <1>1, <1>3, <1>6 DEF Walking, DoneFits
  <2>2. GoesOn(Opener, x)
    BY <1>6 DEF GoesOn, Finishes
  <2>3. Local(n, j, With(q, Opener, x), in)
    BY <1>2, <1>6, <2>1, <2>2, WalkOn
  <2> QED
    BY <1>1, <1>2, <1>3, <1>4, <1>6, <2>3, StepKept
<1>7. \/ Leave(c, n) /\ UNCHANGED job
      \/ Advance(c, n) /\ UNCHANGED job
      \/ /\ a <= Len(SlotOrder[n]) /\ j.status[s] # "not in job"
         /\ SetStatus(c, n, s, "opening") /\ Goto(c, n, Opener, "open")
  BY DEF OpenNext
<1>8. CASE Leave(c, n) /\ UNCHANGED job
  <2>1. Places(c, n, Opener, "opened", 0)
    BY <1>8 DEF Leave, Places
  <2>2. "opened" \in Pcs /\ 0 \in Nat
    BY DEF Pcs
  <2>3. PICK x \in RunRecord : Becomes(c, n, Opener, x) /\ x.pc = "opened" /\ x.at = 0 /\ x.todo = q[Opener].todo
    BY <1>2, <2>1, <2>2, RunMoves
  <2>4. With(q, Opener, x)[Opener] = x
    BY <1>2, <1>3, WithFields
  <2> DEFINE z == With(q, Opener, x)
  <2>4a. z[Opener].pc = "opened" /\ z[Opener].at = 0
    BY <2>3, <2>4
  <2> HIDE DEF z
  <2>4b. OpenerFits(n, j, z)
    BY <2>4a DEF OpenerFits
  <2>5. OpenerFits(n, j, With(q, Opener, x))
    BY <2>4b DEF z
  <2> QED
    BY <1>6, <1>8, <2>3, <2>5
<1>9. CASE Advance(c, n) /\ UNCHANGED job
  <2>1. PICK x \in RunRecord : Becomes(c, n, Opener, x) /\ x.pc = "next" /\ x.at = a + 1 /\ x.todo = q[Opener].todo
    BY <1>2, <1>9, AdvanceRuns
  <2>2. OpenerFits(n, j, With(q, Opener, x))
    BY <1>3, <1>5, <2>1, OpenerAdvances
  <2> QED
    BY <1>6, <1>9, <2>1, <2>2
<1>10. CASE /\ a <= Len(SlotOrder[n]) /\ j.status[s] # "not in job"
            /\ SetStatus(c, n, s, "opening") /\ Goto(c, n, Opener, "open")
  <2>1. "open" \in Pcs /\ "opening" \in Statuses
    BY DEF Pcs, Statuses, Active
  <2>1a. Goto(c, n, Opener, "open") /\ a <= Len(SlotOrder[n])
    BY <1>10
  <2>2. PICK x \in RunRecord : Becomes(c, n, Opener, x) /\ x.pc = "open" /\ x.at = a /\ x.todo = q[Opener].todo
    BY <1>2, <2>1, <2>1a, RunGoes
  <2>2a. s = SlotOrder[n][a] /\ Len(SlotOrder[n]) \in Nat
    BY SlotsFacts DEF SlotAt
  <2>3. a \in 1..Len(SlotOrder[n]) /\ s = SlotOrder[n][a]
    BY SMTT(30), <1>5, <2>1a, <2>2a
  <2>4. s \in Slots(n) /\ j.status[s] = "pending"
    BY ZenonT(40), <1>1, <1>3, <1>5, <1>10, <2>3, SlotsFacts DEF OpenerFits
  <2>5. job' = [job EXCEPT ![c][n] = Marked(j, s, "opening")]
    BY <1>10 DEF SetStatus, Marked
  <2>6. Marking(n, j, q, in, in, Opener, x, s, "opening")
    BY <1>1, <1>3, <2>2, <2>4 DEF Marking, Hands, Rest
  <2>7. OpenerFits(n, Marked(j, s, "opening"), With(q, Opener, x))
    BY ZenonT(40), <1>1, <1>3, <1>10, <2>1, <2>2, <2>3, OpenerMarks
  <2>8. GoesOn(Opener, x)
    BY <2>2 DEF GoesOn, Finishes
  <2> HIDE DEF s
  <2>9. Local(n, Marked(j, s, "opening"), With(q, Opener, x), in)
    BY <1>2, <2>1, <2>4, <2>6, <2>7, <2>8, MarkOn
  <2>10. Marked(j, s, "opening").exists /\ Marked(j, s, "opening").stop = j.stop
    BY <1>3, <2>1, <2>4, MarkedFields DEF IsMarked
  <2> QED
    BY <1>1, <1>2, <1>3, <1>4, <2>2, <2>5, <2>9, <2>10, StepKept
<1> QED
  BY <1>7, <1>8, <1>9, <1>10

LEMMA OpenKept ==
  ASSUME IInv, NEW c \in Logins, NEW n \in Nodes, Open(c, n), UNCHANGED <<state, late>>
  PROVE  IInv'
<1> DEFINE q == run[c][n]
           j == job[c][n]
           in == session[n]
           a == q[Opener].at
           s == SlotAt(c, n)
<1>1. q[Opener].pc = "open"
  BY DEF Open, At
<1>2. Typed /\ Opener \in Runners
  BY RunnersFacts DEF IInv
<1>3. /\ j \in JobRecord /\ q \in [Runners -> RunRecord] /\ in \subseteq Slots(n)
      /\ q[Opener] \in RunRecord /\ q[Opener].todo \subseteq Slots(n) /\ Local(n, j, q, in)
      /\ OpenerFits(n, j, q)
      /\ j.exists /\ j.status \in [Slots(n) -> Statuses]
  BY ZenonT(40), <1>1, <1>2, ThreadFacts
<1>4. a \in Nat /\ a >= 1 /\ a <= Len(SlotOrder[n]) /\ j.status[SlotOrder[n][a]] = "opening"
  BY ZenonT(40), <1>1, <1>3, RunFields DEF OpenerFits
<1>5. s = SlotOrder[n][a] /\ Len(SlotOrder[n]) \in Nat
  BY SMTT(30), SlotsFacts DEF SlotAt
<1>6. a \in 1..Len(SlotOrder[n])
  BY <1>4, <1>5
<1>6a. SlotOrder[n][a] \in Slots(n)
  BY SMTT(30), <1>6, SlotsFacts
<1>7. s \in Slots(n) /\ j.status[s] = "opening"
  BY ZenonT(40), <1>4, <1>5, <1>6a
<1>8. /\ "failed" \in Statuses /\ "logged in" \in Statuses /\ "waiting" \in Statuses /\ "offer" \in Pcs
      /\ in \cup {s} \in SUBSET Slots(n) /\ in \in SUBSET Slots(n)
  BY <1>3, <1>7 DEF Statuses, Pcs
<1>9. PICK st \in {"failed", "logged in", "waiting"}, in2 \in SUBSET Slots(n) :
         /\ SetStatus(c, n, s, st) /\ session' = [session EXCEPT ![n] = in2] /\ in \subseteq in2
         /\ st = "logged in" => s \in in2
         /\ Advance(c, n) \/ Goto(c, n, Opener, "offer")
  <2>1. CASE SetStatus(c, n, s, "failed") /\ Advance(c, n) /\ UNCHANGED session
    <3>1. session' = [session EXCEPT ![n] = in]
      BY <1>2, <2>1, Unmoved
    <3> QED
      BY <1>8, <2>1, <3>1
  <2>2. CASE /\ SetStatus(c, n, s, "logged in") /\ Advance(c, n)
             /\ session' = [session EXCEPT ![n] = @ \cup {s}]
    BY <1>8, <2>2
  <2>3. CASE SetStatus(c, n, s, "waiting") /\ Goto(c, n, Opener, "offer") /\ UNCHANGED session
    <3>1. session' = [session EXCEPT ![n] = in]
      BY <1>2, <2>3, Unmoved
    <3> QED
      BY <1>8, <2>3, <3>1
  <2> QED
    BY <2>1, <2>2, <2>3 DEF Open
<1>10. job' = [job EXCEPT ![c][n] = Marked(j, s, st)] /\ st \in Statuses
  BY <1>8, <1>9 DEF SetStatus, Marked
<1>11. PICK x \in RunRecord : /\ Becomes(c, n, Opener, x) /\ x.todo = q[Opener].todo
                              /\ (x.pc = "next" /\ x.at = a + 1) \/ (x.pc = "offer" /\ x.at = a)
  <2>1. CASE Advance(c, n)
    BY <1>2, <2>1, AdvanceRuns
  <2>2. CASE Goto(c, n, Opener, "offer")
    BY ZenonT(40), <1>2, <1>8, <2>2, RunGoes
  <2> QED
    BY <1>9, <2>1, <2>2
<1>12. Marking(n, j, q, in, in2, Opener, x, s, st)
  BY <1>1, <1>3, <1>7, <1>9, <1>11 DEF Marking, Hands, Rest
<1>13. OpenerFits(n, Marked(j, s, st), With(q, Opener, x))
  BY ZenonT(40), <1>1, <1>3, <1>4, <1>5, <1>10, <1>11, OpenerMarks
<1>14. GoesOn(Opener, x)
  BY <1>11 DEF GoesOn, Finishes
<1> HIDE DEF s
<1>15. Local(n, Marked(j, s, st), With(q, Opener, x), in2)
  BY <1>2, <1>7, <1>10, <1>12, <1>13, <1>14, MarkOn
<1>15a. IsMarked(Marked(j, s, st), n, j, s, st)
  BY <1>3, <1>7, <1>10, MarkedFields
<1>16. Marked(j, s, st).exists /\ Marked(j, s, st).stop = j.stop
  BY <1>3, <1>15a DEF IsMarked
<1> QED
  BY <1>1, <1>2, <1>3, <1>9, <1>10, <1>11, <1>15, <1>16, StepKept

LEMMA OfferKept ==
  ASSUME IInv, NEW c \in Logins, NEW n \in Nodes, Offer(c, n), UNCHANGED <<state, late>>
  PROVE  IInv'
<1> DEFINE q == run[c][n]
           j == job[c][n]
           in == session[n]
           a == q[Opener].at
           todo == {SlotAt(c, n)}
<1>1. q[Opener].pc = "offer" /\ UNCHANGED <<job, session>>
  BY DEF Offer, At
<1>2. Typed /\ Opener \in Runners
  BY RunnersFacts DEF IInv
<1>3. /\ j \in JobRecord /\ q \in [Runners -> RunRecord] /\ in \subseteq Slots(n)
      /\ q[Opener] \in RunRecord /\ q[Opener].todo \subseteq Slots(n) /\ Local(n, j, q, in)
      /\ OpenerFits(n, j, q) /\ DoneFits(n, j, in)
      /\ j.exists /\ (j.running <=> ~j.done)
  BY <1>1, <1>2, ThreadFacts
<1>4. job' = [job EXCEPT ![c][n] = j] /\ session' = [session EXCEPT ![n] = in]
  BY <1>1, <1>2, Unmoved
<1>5. a \in Nat /\ a >= 1 /\ a <= Len(SlotOrder[n])
  BY <1>1, <1>3, RunFields DEF OpenerFits
<1>6. todo \subseteq Slots(n) /\ todo \in SUBSET AllSlots
  <2>1. Len(SlotOrder[n]) \in Nat
    BY SlotsFacts
  <2>2. a \in 1..Len(SlotOrder[n])
    BY <1>5, <2>1
  <2> QED
    BY <2>2, SlotsFacts DEF SlotAt
<1>7. ASSUME NEW x \in RunRecord, Becomes(c, n, Opener, x), x.todo \subseteq Slots(n),
             x.pc \in {"next", "claim"}, OpenerFits(n, j, With(q, Opener, x))
      PROVE  IInv'
  <2>1. Walking(n, j, j, q, in, Opener, x)
    BY <1>1, <1>3, <1>7 DEF Walking, DoneFits
  <2>2. GoesOn(Opener, x)
    BY <1>7 DEF GoesOn, Finishes
  <2>3. Local(n, j, With(q, Opener, x), in)
    BY <1>2, <1>7, <2>1, <2>2, WalkOn
  <2> QED
    BY <1>1, <1>2, <1>3, <1>4, <1>7, <2>3, StepKept
<1>8. CASE j.captcha = NoCaptcha
  <2>1. Advance(c, n)
    BY <1>8 DEF Offer
  <2>2. PICK x \in RunRecord : Becomes(c, n, Opener, x) /\ x.pc = "next" /\ x.at = a + 1 /\ x.todo = q[Opener].todo
    BY <1>2, <2>1, AdvanceRuns
  <2>3. OpenerFits(n, j, With(q, Opener, x))
    BY <1>3, <1>5, <2>2, OpenerAdvances
  <2> QED
    BY <1>3, <1>7, <2>2, <2>3
<1>9. CASE j.captcha # NoCaptcha
  <2>1. Takes(c, n, Opener, "claim", j.captcha, todo)
    BY <1>9 DEF Offer, Takes
  <2>2. "claim" \in Pcs /\ j.captcha \in Words
    BY <1>3 DEF Pcs, JobRecord
  <2> HIDE DEF todo
  <2>3. PICK x \in RunRecord : Becomes(c, n, Opener, x) /\ x.pc = "claim" /\ x.at = a /\ x.todo = todo
    BY <1>2, <1>6, <2>1, <2>2, RunTakes
  <2>4. OpenerFits(n, j, With(q, Opener, x))
    BY <1>2, <1>3, <2>3, OpenerStays DEF Stays
  <2> QED
    BY <1>6, <1>7, <2>3, <2>4
<1> QED
  BY <1>8, <1>9

LEMMA OpenedKept ==
  ASSUME IInv, NEW c \in Logins, NEW n \in Nodes, Opened(c, n), UNCHANGED <<state, late>>
  PROVE  IInv'
<1> DEFINE q == run[c][n]
           j == job[c][n]
           in == session[n]
           on == j.running /\ ~j.stop
           end == j.done \/ j.stop
           k == [j EXCEPT !.step1 = TRUE, !.running = on, !.done = end]
<1>1. q[Opener].pc = "opened" /\ Goto(c, n, Opener, "look") /\ UNCHANGED session
  BY DEF Opened, At
<1>2. Typed /\ Opener \in Runners
  BY RunnersFacts DEF IInv
<1>3. /\ j \in JobRecord /\ q \in [Runners -> RunRecord] /\ in \subseteq Slots(n)
      /\ q[Opener] \in RunRecord /\ q[Opener].todo \subseteq Slots(n) /\ Local(n, j, q, in)
      /\ OpenerFits(n, j, q) /\ DoneFits(n, j, in)
      /\ j.exists /\ (j.running <=> ~j.done)
  BY <1>1, <1>2, ThreadFacts
<1>4. job' = [job EXCEPT ![c][n].step1 = TRUE, ![c][n].running = on, ![c][n].done = end]
  BY DEF Opened
<1>5. job \in [Logins -> [Nodes -> JobRecord]]
  BY <1>2 DEF Typed
<1>6. on \in BOOLEAN /\ end \in BOOLEAN /\ (on <=> ~end) /\ (end /\ ~j.stop => j.done)
  BY <1>3 DEF JobRecord
<1> HIDE DEF on, end
<1>7. job' = [job EXCEPT ![c][n] = k]
  BY <1>4, <1>5
<1>8. session' = [session EXCEPT ![n] = in]
  BY <1>1, <1>2, Unmoved
<1>9. "look" \in Pcs
  BY DEF Pcs
<1>10. PICK x \in RunRecord : /\ Becomes(c, n, Opener, x) /\ x.pc = "look" /\ x.at = q[Opener].at
                              /\ x.todo = q[Opener].todo
  BY <1>1, <1>2, <1>9, RunGoes
<1>11. k \in JobRecord /\ k.exists /\ k.status = j.status /\ k.running = on /\ k.done = end /\ k.stop = j.stop
  BY <1>3, <1>6 DEF JobRecord
<1> HIDE DEF k
<1>12. Walking(n, j, k, q, in, Opener, x)
  BY <1>1, <1>3, <1>6, <1>10, <1>11 DEF Walking, DoneFits
<1>13. OpenerFits(n, k, With(q, Opener, x))
  BY <1>2, <1>3, <1>10, <1>11, OpenerStays DEF Stays
<1>14. GoesOn(Opener, x)
  BY <1>10 DEF GoesOn, Finishes
<1>15. Local(n, k, With(q, Opener, x), in)
  BY <1>2, <1>12, <1>13, <1>14, WalkOn
<1> QED
  BY <1>1, <1>2, <1>3, <1>7, <1>8, <1>10, <1>11, <1>15, StepKept

LEMMA NodeStepKept ==
  ASSUME IInv, NEW c \in Logins, NEW n \in Nodes, Node(c, n)
  PROVE  IInv'
<1>1. NodeStep(c, n) /\ UNCHANGED <<state, late>>
  BY DEF Node
<1>2. CASE OpenNext(c, n) \/ Open(c, n) \/ Offer(c, n) \/ Opened(c, n)
  BY <1>1, <1>2, OpenNextKept, OpenKept, OfferKept, OpenedKept
<1>3. ASSUME NEW r \in Runners, Look(c, n, r) \/ Claim(c, n, r) \/ Submit(c, n, r) \/ Forget(c, n, r) \/ Finalize(c, n, r)
      PROVE  IInv'
  BY <1>1, <1>3, LookKept, ClaimKept, SubmitKept, ForgetKept, FinalizeKept
<1> QED
  BY <1>1, <1>2, <1>3 DEF NodeStep

-----------------------------------------------------------------------------
(* Requests.                                                               *)

\* What a request may do to a job j with threads q: nothing is taken back, and
\* a captcha's request starts one more thread.
Served(kind, n, j, q, h, in) ==
  /\ Local(n, h.job, h.run, in)
  /\ (j.exists => h.job.exists) /\ (j.stop => h.job.stop)
  /\ \/ Busy(h.run) = Busy(q)
     \/ kind = "captcha" /\ \E r \in Helpers : Busy(h.run) \subseteq Busy(q) \cup {r}

LEMMA NowServed ==
  ASSUME IInv, NEW c \in Logins, NEW n \in Nodes, NEW kind
  PROVE  Served(kind, n, job[c][n], run[c][n], Now(c, n), session[n])
<1>1. Local(n, job[c][n], run[c][n], session[n])
  BY TypedFields
<1> QED
  BY <1>1 DEF Served, Now

LEMMA NewJobFields ==
  ASSUME NEW n \in Nodes
  PROVE  /\ NewJob(n) \in JobRecord /\ NewJob(n).exists /\ (NewJob(n).running <=> ~NewJob(n).done)
         /\ ~NewJob(n).step1 /\ NewJob(n).captcha = NoCaptcha /\ ~NewJob(n).stop
         /\ NewJob(n).status \in [Slots(n) -> Statuses]
         /\ \A s \in Slots(n) : NewJob(n).status[s] = IF s \in session[n] THEN "not in job" ELSE "pending"
         /\ NewJob(n).done => Slots(n) \subseteq session[n]
<1> DEFINE todo == Slots(n) \ session[n]
           st == [s \in Slots(n) |-> IF s \in todo THEN "pending" ELSE "not in job"]
<1>1. st \in [Slots(n) -> Statuses]
  BY DEF Statuses, Active
<1>2. st \in Maps
  BY <1>1, SlotsFacts
<1>3. \A s \in Slots(n) : st[s] = IF s \in session[n] THEN "not in job" ELSE "pending"
  OBVIOUS
<1>4. NewJob(n) = [NoJob EXCEPT !.exists = TRUE, !.running = todo # {}, !.done = todo = {}, !.success = todo = {}, !.status = st]
  BY DEF NewJob
<1>5. todo = {} => Slots(n) \subseteq session[n]
  OBVIOUS
<1> DEFINE e == todo = {}
<1>6. e \in BOOLEAN /\ (todo # {} <=> ~e) /\ (e => Slots(n) \subseteq session[n])
  BY <1>5
<1>7. NewJob(n) = [exists |-> TRUE, running |-> ~e, done |-> e, success |-> e, stop |-> FALSE,
                   step1 |-> FALSE, captcha |-> NoCaptcha, status |-> st]
  BY <1>4 DEF NoJob
<1> HIDE DEF st, e
<1>8. NewJob(n) \in JobRecord
  BY <1>2, <1>6, <1>7 DEF JobRecord, Words
<1>9. /\ NewJob(n).exists = TRUE /\ NewJob(n).running = ~e /\ NewJob(n).done = e /\ NewJob(n).stop = FALSE
      /\ NewJob(n).step1 = FALSE /\ NewJob(n).captcha = NoCaptcha /\ NewJob(n).status = st
  BY <1>7
<1> QED
  BY <1>1, <1>3, <1>6, <1>8, <1>9

LEMMA StartServed ==
  ASSUME IInv, NEW c \in Logins, NEW n \in Nodes
  PROVE  Served("start", n, job[c][n], run[c][n], StartLocal(c, n), session[n])
<1> DEFINE j == job[c][n]
           q == run[c][n]
           in == session[n]
           k == NewJob(n)
           x == [NoRun EXCEPT !.pc = "next", !.at = 1]
<1>1. CASE Started(c, n) # c \/ j.exists
  BY <1>1, NowServed DEF StartLocal
<1>2. CASE ~(Started(c, n) # c \/ j.exists)
  <2>1. /\ q \in [Runners -> RunRecord] /\ Local(n, j, q, in) /\ in \subseteq Slots(n)
    BY TypedFields
  <2>2. (\A r \in Runners : q[r].pc = "none" /\ q[r].todo \subseteq Slots(n)) /\ j \in JobRecord
    BY <1>2, <2>1 DEF Local, Shaped
  <2>2a. ~j.stop
    BY <1>2, <2>1 DEF Local, Shaped
  <2>3. /\ k \in JobRecord /\ k.exists /\ (k.running <=> ~k.done)
        /\ ~k.step1 /\ k.captcha = NoCaptcha /\ ~k.stop
        /\ k.status \in [Slots(n) -> Statuses]
        /\ \A s \in Slots(n) : k.status[s] = IF s \in in THEN "not in job" ELSE "pending"
        /\ k.done => Slots(n) \subseteq in
    BY NewJobFields
  <2> HIDE DEF k
  <2>4. Watched(n, k, q) /\ Finishing(n, k, q) /\ \A z : Watched(n, k, z) /\ Finishing(n, k, z)
    BY <2>3 DEF Watched, Finishing
  <2>5. DoneFits(n, k, in)
    BY <2>3 DEF DoneFits, AllRest, Rest
  <2>6. \A s \in Slots(n) : k.status[s] # "submitting" /\ k.status[s] \in {"pending", "not in job"}
    BY <2>3
  <2>7. \A i \in 1..Len(SlotOrder[n]) : k.status[SlotOrder[n][i]] \in {"pending", "not in job"}
    BY <2>6, SlotsFacts
  <2>8. Opener \in Runners
    BY RunnersFacts
  <2>9. ASSUME NEW z \in [Runners -> RunRecord],
               \A r \in Runners : z[r].pc \in {"none", "next"} /\ z[r].todo \subseteq Slots(n),
               z[Opener].pc = "next" => z[Opener].at = 1
        PROVE  Local(n, k, z, in)
    <3>1. Shaped(n, k, z)
      BY <2>3, <2>9 DEF Shaped
    <3>2. OpenerFits(n, k, z)
      <4>1. z[Opener].pc \in {"none", "next"} /\ (z[Opener].pc = "next" => z[Opener].at >= 1)
        BY <2>8, <2>9
      <4> QED
        BY <2>7, <4>1 DEF OpenerFits
    <3>3. SubmitFits(n, k, z)
      BY <2>6, <2>9 DEF SubmitFits
    <3> QED
      BY <2>4, <2>5, <3>1, <3>2, <3>3 DEF Local
  <2>10. x \in RunRecord /\ x.pc = "next" /\ x.at = 1 /\ x.todo = {}
    BY DEF RunRecord, NoRun, Pcs, Words
  <2>11. StartLocal(c, n).job = k /\ StartLocal(c, n).run = IF k.running THEN With(q, Opener, x) ELSE q
    BY <1>2 DEF StartLocal, With, k
  <2> HIDE DEF x
  <2>12. CASE k.running
    <3> DEFINE z == With(q, Opener, x)
    <3> HIDE DEF q
    <3>1. z \in [Runners -> RunRecord] /\ z[Opener] = x /\ \A t \in Runners : t # Opener => z[t] = q[t]
      BY <2>1, <2>8, <2>10, WithFields
    <3> HIDE DEF z
    <3>2. Local(n, k, z, in)
      BY <2>2, <2>8, <2>9, <2>10, <3>1
    <3>3. Busy(z) = Busy(q)
      BY <3>1, RunnersFacts DEF Busy
    <3>4. StartLocal(c, n).run = z
      BY <2>11, <2>12 DEF z
    <3>5. Served("start", n, j, q, StartLocal(c, n), in)
      BY <2>2a, <2>3, <2>11, <3>2, <3>3, <3>4 DEF Served
    <3> QED
      BY <3>5 DEF q
  <2>13. CASE ~k.running
    <3>1. Local(n, k, q, in)
      BY <2>1, <2>2, <2>8, <2>9
    <3>2. StartLocal(c, n).run = q
      BY <2>11, <2>13
    <3> QED
      BY <2>2a, <2>3, <2>11, <3>1, <3>2 DEF Served
  <2> QED
    BY <2>12, <2>13
<1> QED
  BY <1>1, <1>2

LEMMA CancelServed ==
  ASSUME IInv, NEW c \in Logins, NEW n \in Nodes
  PROVE  Served("cancel", n, job[c][n], run[c][n], CancelLocal(c, n), session[n])
<1> DEFINE j == job[c][n]
           q == run[c][n]
           in == session[n]
           k == [j EXCEPT !.stop = TRUE, !.running = FALSE, !.done = TRUE]
<1>1. CASE ~j.exists
  BY <1>1, NowServed DEF CancelLocal, Served
<1>2. CASE j.exists
  <2>1. /\ j \in JobRecord /\ Shaped(n, j, q) /\ OpenerFits(n, j, q) /\ SubmitFits(n, j, q)
        /\ Watched(n, j, q) /\ DoneFits(n, j, in)
    BY TypedFields DEF Local
  <2>2. /\ k \in JobRecord /\ k.exists = j.exists /\ k.status = j.status /\ k.step1 = j.step1
        /\ k.captcha = j.captcha /\ k.stop = TRUE /\ k.running = FALSE /\ k.done = TRUE
    BY <2>1 DEF JobRecord
  <2> HIDE DEF k
  <2>3. Shaped(n, k, q)
    BY <1>2, <2>1, <2>2 DEF Shaped
  <2>4. OpenerFits(n, k, q)
    BY ZenonT(40), <2>1, <2>2 DEF OpenerFits
  <2>5. SubmitFits(n, k, q)
    BY <2>1, <2>2 DEF SubmitFits
  <2>6. Watched(n, k, q) /\ Finishing(n, k, q)
    BY <2>1, <2>2 DEF Watched, Finishing
  <2>7. DoneFits(n, k, in)
    BY <2>1, <2>2 DEF DoneFits
  <2>8. CancelLocal(c, n).job = k /\ CancelLocal(c, n).run = q
    BY <1>2 DEF CancelLocal, k
  <2> QED
    BY <1>2, <2>2, <2>3, <2>4, <2>5, <2>6, <2>7, <2>8 DEF Served, Local
<1> QED
  BY <1>1, <1>2

LEMMA CaptchaServed ==
  ASSUME IInv, NEW c \in Logins, NEW n \in Nodes, NEW k \in Captchas,
         Cardinality(Busy(run[c][n])) < Cardinality(Helpers)
  PROVE  Served("captcha", n, job[c][n], run[c][n], CaptchaLocal(c, n, k), session[n])
<1> DEFINE j == job[c][n]
           q == run[c][n]
           in == session[n]
           kept == [j EXCEPT !.captcha = k]
           x == [NoRun EXCEPT !.pc = "look"]
           r == FreeHelper(c, n)
<1>1. CASE ~j.exists
  BY <1>1, NowServed DEF CaptchaLocal, Served
<1>2. CASE j.exists
  <2>1. /\ j \in JobRecord /\ q \in [Runners -> RunRecord] /\ Local(n, j, q, in)
        /\ OpenerFits(n, j, q) /\ Finishing(n, j, q) /\ DoneFits(n, j, in)
        /\ (j.running <=> ~j.done)
    BY <1>2, TypedFields DEF Local, Shaped
  <2>2. Helpers # Busy(q)
    <3>1. Cardinality(Busy(q)) \in Nat /\ Cardinality(Helpers) \in Nat
      BY BusyFinite, RunnersFacts, FS_CardinalityType
    <3> DEFINE one == Cardinality(Busy(q))
               two == Cardinality(Helpers)
    <3>2. one < two /\ one \in Nat /\ two \in Nat
      BY <3>1
    <3> HIDE DEF one, two
    <3>3. one # two
      BY <3>2
    <3> QED
      BY <3>3 DEF one, two
  <2>3. \E h \in Helpers : q[h].pc \in {"none", "over"}
    BY <2>2 DEF Busy
  <2>4. r \in Helpers /\ q[r].pc \in {"none", "over"}
    BY <2>3 DEF FreeHelper
  <2>5. r \in Runners /\ r # Opener /\ Opener \in Runners
    BY <2>4, RunnersFacts
  <2>6. x \in RunRecord /\ x.pc = "look" /\ x.todo = {}
    BY DEF RunRecord, NoRun, Pcs, Words
  <2>7. CaptchaLocal(c, n, k).job = kept /\ CaptchaLocal(c, n, k).run = With(q, r, x)
    BY <1>2 DEF CaptchaLocal, With
  <2>8. /\ kept \in JobRecord /\ kept.exists = j.exists /\ kept.status = j.status /\ kept.step1 = j.step1
        /\ kept.stop = j.stop /\ kept.running = j.running /\ kept.done = j.done
    BY <2>1 DEF JobRecord, Words
  <2> HIDE DEF x, r, kept, q
  <2> DEFINE z == With(q, r, x)
  <2>9. z \in [Runners -> RunRecord] /\ z[r] = x /\ \A t \in Runners : t # r => z[t] = q[t]
    BY <2>1, <2>5, <2>6, WithFields
  <2>10. Walking(n, j, kept, q, in, r, x)
    BY <1>2, <2>1, <2>4, <2>6, <2>8 DEF Walking, DoneFits
  <2>11. OpenerFits(n, kept, z)
    <3>1. z[Opener] = q[Opener]
      BY <2>5, <2>9
    <3> HIDE DEF z
    <3> QED
      BY <2>1, <2>8, <3>1 DEF OpenerFits
  <2>12. Watched(n, kept, z)
    BY <2>5, <2>6, <2>9 DEF Watched
  <2>13. Finishing(n, kept, z)
    <3>1. ~Finishes(r, q[r])
      BY <2>4, <2>5 DEF Finishes
    <3>2. Finishing(n, j, z)
      BY <2>1, <2>5, <2>6, <3>1, OthersFinish
    <3> HIDE DEF z
    <3> QED
      BY <2>8, <3>2 DEF Finishing, AllRest
  <2>14. Local(n, kept, z, in)
    BY <2>5, <2>6, <2>10, <2>11, <2>12, <2>13, WalkOff
  <2>15. Busy(z) \subseteq Busy(q) \cup {r}
    BY <2>9, RunnersFacts DEF Busy
  <2> HIDE DEF z
  <2>16. Served("captcha", n, j, q, CaptchaLocal(c, n, k), in)
    BY <1>2, <2>4, <2>7, <2>8, <2>14, <2>15 DEF Served, z
  <2> QED
    BY <2>16 DEF q
<1> QED
  BY <1>1, <1>2

Kinds == {"start", "captcha", "cancel", "status"}

\* There is a thread to spare for a captcha that a node is asked to submit.
MayServe(kind, c, n, k) ==
  kind = "captcha" => k \in Captchas /\ Cardinality(Busy(run[c][n])) < Cardinality(Helpers)

LEMMA HandleServed ==
  ASSUME IInv, NEW c \in Logins, NEW n \in Nodes, NEW kind \in Kinds, NEW k, MayServe(kind, c, n, k)
  PROVE  Served(kind, n, job[c][n], run[c][n], Handle(kind, c, n, k), session[n])
<1>1. CASE kind = "start"
  <2>1. Handle(kind, c, n, k) = StartLocal(c, n)
    BY <1>1 DEF Handle
  <2> QED
    BY <1>1, <2>1, StartServed
<1>2. CASE kind = "captcha"
  <2>1. Handle(kind, c, n, k) = CaptchaLocal(c, n, k)
    BY <1>2 DEF Handle
  <2>2. k \in Captchas /\ Cardinality(Busy(run[c][n])) < Cardinality(Helpers)
    BY <1>2 DEF MayServe
  <2> QED
    BY <1>2, <2>1, <2>2, CaptchaServed
<1>3. CASE kind = "cancel"
  <2>1. Handle(kind, c, n, k) = CancelLocal(c, n)
    BY <1>3 DEF Handle
  <2> QED
    BY <1>3, <2>1, CancelServed
<1>4. CASE kind = "status"
  <2>1. Handle(kind, c, n, k) = Now(c, n)
    BY <1>4 DEF Handle
  <2> QED
    BY <2>1, NowServed
<1> QED
  BY <1>1, <1>2, <1>3, <1>4 DEF Kinds

LEMMA SpareLeft ==
  ASSUME IInv, NEW c \in Logins, state[c].sent + 1 \in Captchas
  PROVE  /\ Sent \subseteq Logins \X Captchas /\ <<c, state[c].sent + 1>> \in (Logins \X Captchas) \ Sent
         /\ IsFiniteSet(Logins \X Captchas) /\ Cardinality(Logins \X Captchas) = Cardinality(Helpers)
         /\ Cardinality(Sent) < Cardinality(Helpers)
<1> DEFINE all == Logins \X Captchas
           k == state[c].sent + 1
<1>1. IsFiniteSet(Logins) /\ Cardinality(Logins) = MaxLogins
  BY BulkLoginAssumption, FS_Interval DEF Logins
<1>2. IsFiniteSet(Captchas) /\ Cardinality(Captchas) = MaxCaptchas
  BY BulkLoginAssumption, FS_Interval DEF Captchas
<1>3. IsFiniteSet(all) /\ Cardinality(all) = MaxLogins * MaxCaptchas
  BY <1>1, <1>2, FS_Product
<1>4. Sent \subseteq all
  BY DEF Sent
<1>5. state[c].sent \in Nat
  BY DEF IInv, Typed, StateRecord, Words, Captchas, NoCaptcha
<1>6. <<c, k>> \in all \ Sent
  <2>1. ~(k <= state[c].sent)
    BY <1>5
  <2>2. <<c, k>> \notin Sent
    BY <2>1 DEF Sent
  <2>3. <<c, k>> \in all
    OBVIOUS
  <2> QED
    BY <2>2, <2>3
<1> HIDE DEF all, k
<1>7. Cardinality(Sent) < Cardinality(all)
  <2>1. Sent # all
    BY <1>6
  <2>2. Cardinality(Sent) <= Cardinality(all) /\ (Cardinality(Sent) = Cardinality(all) => Sent = all)
    BY <1>3, <1>4, FS_Subset
  <2>3. Typed
    BY DEF IInv
  <2>4. Cardinality(Sent) \in Nat /\ Cardinality(all) \in Nat
    BY <1>3, <1>4, FS_Subset, FS_CardinalityType
  <2> QED
    BY <2>1, <2>2, <2>4
<1>8. Cardinality(all) = Cardinality(Helpers)
  BY <1>3, RunnersFacts
<1> QED
  BY <1>3, <1>4, <1>6, <1>7, <1>8 DEF all, k

LEMMA MayServeNew ==
  ASSUME IInv, NEW c \in Logins, state[c].sent + 1 \in Captchas, NEW d \in Logins, NEW n \in Nodes
  PROVE  Cardinality(Busy(run[d][n])) < Cardinality(Helpers)
<1> DEFINE b == Cardinality(Busy(run[d][n]))
           u == Cardinality(UnderWay(d, n))
           t == Cardinality(Sent)
           h == Cardinality(Helpers)
<1>1. b + u <= t
  BY DEF IInv, Spare
<1>2. u \in Nat /\ t \in Nat
  BY SpareFinite DEF IInv
<1>3. b \in Nat
  BY BusyFinite, FS_CardinalityType
<1>4. h \in Nat /\ t < h
  BY SpareLeft, RunnersFacts, FS_CardinalityType
<1> HIDE DEF b, u, t, h
<1>5. b < h
  BY <1>1, <1>2, <1>3, <1>4
<1> QED
  BY <1>5 DEF b, h

LEMMA MayServeLate ==
  ASSUME IInv, NEW d \in Logins, NEW n \in Nodes, NEW k \in UnderWay(d, n)
  PROVE  Cardinality(Busy(run[d][n])) < Cardinality(Helpers)
<1> DEFINE b == Cardinality(Busy(run[d][n]))
           u == Cardinality(UnderWay(d, n))
           t == Cardinality(Sent)
           h == Cardinality(Helpers)
<1>1. b + u <= t
  BY DEF IInv, Spare
<1>2. u \in Nat /\ t \in Nat /\ IsFiniteSet(UnderWay(d, n))
  BY SpareFinite DEF IInv
<1>3. b \in Nat
  BY BusyFinite, FS_CardinalityType
<1>4. u # 0
  BY <1>2, FS_EmptySet
<1>5. h \in Nat /\ t <= h
  <2>1. IsFiniteSet(Logins) /\ Cardinality(Logins) = MaxLogins
    BY BulkLoginAssumption, FS_Interval DEF Logins
  <2>2. IsFiniteSet(Captchas) /\ Cardinality(Captchas) = MaxCaptchas
    BY BulkLoginAssumption, FS_Interval DEF Captchas
  <2>3. IsFiniteSet(Logins \X Captchas) /\ Cardinality(Logins \X Captchas) = MaxLogins * MaxCaptchas
    BY <2>1, <2>2, FS_Product
  <2>4. Sent \subseteq Logins \X Captchas
    BY DEF Sent
  <2>5. t <= Cardinality(Logins \X Captchas)
    BY <2>3, <2>4, FS_Subset
  <2> QED
    BY <2>3, <2>5, RunnersFacts
<1> HIDE DEF b, u, t, h
<1>6. b < h
  BY <1>1, <1>2, <1>3, <1>4, <1>5
<1> QED
  BY <1>6 DEF b, h

\* A captcha more is on its way to a job, arrives, or becomes a thread.
LEMMA SpareStep ==
  ASSUME IInv, Typed', NEW d \in Logins, NEW m \in Nodes,
         NEW more \in {0, 1}, NEW start \in {0, 1}, NEW send \in {0, 1},
         Cardinality(Busy(run'[d][m])) <= Cardinality(Busy(run[d][m])) + more,
         Cardinality(UnderWay(d, m)') <= Cardinality(UnderWay(d, m)) + start,
         Cardinality(Sent') >= Cardinality(Sent) + send,
         more + start <= send
  PROVE  Spare(d, m)'
<1> DEFINE b == Cardinality(Busy(run[d][m]))
           u == Cardinality(UnderWay(d, m))
           t == Cardinality(Sent)
           b2 == Cardinality(Busy(run'[d][m]))
           u2 == Cardinality(UnderWay(d, m)')
           t2 == Cardinality(Sent')
<1>1. b + u <= t
  BY DEF IInv, Spare
<1>2. b \in Nat /\ u \in Nat /\ t \in Nat
  BY SpareFinite, BusyFinite, FS_CardinalityType DEF IInv
<1>3. b2 \in Nat
  BY BusyFinite, FS_CardinalityType
<1>4. u2 \in Nat /\ t2 \in Nat
  <2>1. IsFiniteSet(Captchas) /\ IsFiniteSet(Logins)
    BY BoundsFinite
  <2>2. UnderWay(d, m)' \subseteq Captchas /\ Sent' \subseteq Logins \X Captchas
    BY DEF UnderWay, Sent
  <2>3. IsFiniteSet(Logins \X Captchas)
    BY <2>1, FS_Product
  <2> QED
    BY <2>1, <2>2, <2>3, FS_Subset, FS_CardinalityType
<1>5. b2 <= b + more /\ u2 <= u + start /\ t2 >= t + send /\ more \in Nat /\ start \in Nat /\ send \in Nat
  OBVIOUS
<1>6. Spare(d, m)' <=> b2 + u2 <= t2
  BY DEF Spare
<1> HIDE DEF b, u, t, b2, u2, t2
<1>7. b2 + u2 <= t2
  BY <1>1, <1>2, <1>3, <1>4, <1>5
<1> QED
  BY <1>6, <1>7

\* The parts of CallNodes.
Called(nodes) == {n \in Nodes : ~nodes[n].skipped}
Carried(nodes, fate) == {n \in Called(nodes) : fate[n] \in {"answered", "unanswered"}}
After(kind, nodes, fate, k, d, n) ==
  IF n \in Carried(nodes, fate) /\ d = nodes[n].job THEN Handle(kind, d, n, k) ELSE Now(d, n)
About(kind, nodes, n) == IF kind = "start" THEN Started(nodes[n].job, n) ELSE nodes[n].job
NewEntry(kind, nodes, fate, k, n) ==
  IF n \notin Called(nodes) THEN nodes[n]
  ELSE LET j == After(kind, nodes, fate, k, About(kind, nodes, n), n).job IN
       IF fate[n] = "answered" /\ j.exists
       THEN Answered(nodes[n], About(kind, nodes, n), Summary(j, n))
       ELSE IF fate[n] = "answered" /\ kind = "cancel"
       THEN Answered(nodes[n], nodes[n].job, NoAnswer)
       ELSE Failed(nodes[n])

Calling(c, kind, nodes, k, fate, saved) ==
  /\ \A n \in Called(nodes) : fate[n] \in Fates(n, kind)
  /\ job' = [d \in Logins |-> [n \in Nodes |-> After(kind, nodes, fate, k, d, n).job]]
  /\ run' = [d \in Logins |-> [n \in Nodes |-> After(kind, nodes, fate, k, d, n).run]]
  /\ late' = late \cup {<<kind, nodes[n].job, n, k>> : n \in {m \in Called(nodes) : fate[m] = "late"}}
  /\ state' = [state EXCEPT
        ![c].begun = TRUE,
        ![c].saved = @ \/ saved,
        ![c].nodes = IF saved THEN [n \in Nodes |-> NewEntry(kind, nodes, fate, k, n)] ELSE @,
        ![c].cancelled = @ \/ kind = "cancel",
        ![c].sent = IF kind = "captcha" THEN k ELSE @]
  /\ UNCHANGED session

LEMMA CallParts ==
  ASSUME NEW c, NEW kind, NEW nodes, NEW k, CallNodes(c, kind, nodes, k)
  PROVE  \E fate \in [Called(nodes) -> {"answered", "unanswered", "lost", "late"}], saved \in BOOLEAN :
            Calling(c, kind, nodes, k, fate, saved)
BY ZenonT(60) DEF CallNodes, Calling, Called, Carried, After, About, NewEntry

\* What requests of one kind do to all jobs.
AllServed(kind) ==
  \A d \in Logins, m \in Nodes :
     Served(kind, m, job[d][m], run[d][m], [job |-> job'[d][m], run |-> run'[d][m]], session[m])

LEMMA JobsServed ==
  ASSUME IInv, NEW kind, AllServed(kind),
         NEW f, NEW g, job' = [d \in Logins |-> [n \in Nodes |-> f[d][n]]],
         run' = [d \in Logins |-> [n \in Nodes |-> g[d][n]]]
  PROVE  /\ job' \in [Logins -> [Nodes -> JobRecord]]
         /\ run' \in [Logins -> [Nodes -> [Runners -> RunRecord]]]
         /\ \A d \in Logins, m \in Nodes : Local(m, job'[d][m], run'[d][m], session[m])
         /\ \A d \in Logins, m \in Nodes : /\ job[d][m].exists => job'[d][m].exists
                                           /\ job[d][m].stop => job'[d][m].stop
<1>1. \A d \in Logins, m \in Nodes : /\ Local(m, job'[d][m], run'[d][m], session[m])
                                     /\ job[d][m].exists => job'[d][m].exists
                                     /\ job[d][m].stop => job'[d][m].stop
  BY DEF AllServed, Served
<1>2. \A d \in Logins, m \in Nodes : job'[d][m] \in JobRecord /\ run'[d][m] \in [Runners -> RunRecord]
  BY <1>1 DEF Local, Shaped
<1>3. job' \in [Logins -> [Nodes -> JobRecord]]
  BY <1>2
<1>4. run' \in [Logins -> [Nodes -> [Runners -> RunRecord]]]
  BY <1>2
<1> QED
  BY <1>1, <1>3, <1>4

LEMMA BusyServed ==
  ASSUME IInv, NEW kind, AllServed(kind), NEW d \in Logins, NEW m \in Nodes
  PROVE  \/ Cardinality(Busy(run'[d][m])) = Cardinality(Busy(run[d][m]))
         \/ kind = "captcha" /\ Cardinality(Busy(run'[d][m])) <= Cardinality(Busy(run[d][m])) + 1
<1>1. CASE Busy(run'[d][m]) = Busy(run[d][m])
  BY <1>1
<1>2. ASSUME kind = "captcha", NEW r \in Helpers, Busy(run'[d][m]) \subseteq Busy(run[d][m]) \cup {r}
      PROVE  Cardinality(Busy(run'[d][m])) <= Cardinality(Busy(run[d][m])) + 1
  <2> DEFINE old == Busy(run[d][m])
             new == Busy(run'[d][m])
  <2>1. IsFiniteSet(old) /\ IsFiniteSet(new)
    BY BusyFinite
  <2>2. new \subseteq old \cup {r}
    BY <1>2
  <2> HIDE DEF old, new
  <2>3. /\ IsFiniteSet(old \cup {r})
        /\ Cardinality(old \cup {r}) = IF r \in old THEN Cardinality(old) ELSE Cardinality(old) + 1
    BY <2>1, FS_AddElement
  <2>4. Cardinality(new) <= Cardinality(old \cup {r})
    BY <2>2, <2>3, FS_Subset
  <2>5. Cardinality(old) \in Nat /\ Cardinality(new) \in Nat
    BY <2>1, FS_CardinalityType
  <2>6. Cardinality(new) <= Cardinality(old) + 1
    BY <2>3, <2>4, <2>5
  <2> QED
    BY <2>6 DEF old, new
<1>3. \/ Busy(run'[d][m]) = Busy(run[d][m])
      \/ kind = "captcha" /\ \E r \in Helpers : Busy(run'[d][m]) \subseteq Busy(run[d][m]) \cup {r}
  BY DEF AllServed, Served
<1> QED
  BY <1>1, <1>2, <1>3

GoodRow(nodes) ==
  /\ nodes \in [Nodes -> EntryRecord]
  /\ \A n \in Nodes : /\ EntryFits(nodes[n], n, job, session[n])
                      /\ nodes[n].skipped \/ nodes[n].job \in Logins

GoodCall(c, kind, k) ==
  /\ kind \in Kinds /\ k \in Words
  /\ kind = "captcha" => k = state[c].sent + 1 /\ k \in Captchas

LEMMA AfterServed ==
  ASSUME IInv, NEW c \in Logins, NEW kind, NEW nodes, NEW k, GoodCall(c, kind, k), NEW fate,
         NEW d \in Logins, NEW n \in Nodes
  PROVE  Served(kind, n, job[d][n], run[d][n], After(kind, nodes, fate, k, d, n), session[n])
<1>1. MayServe(kind, d, n, k)
  BY MayServeNew DEF GoodCall, MayServe
<1>2. kind \in Kinds
  BY DEF GoodCall
<1>3. Served(kind, n, job[d][n], run[d][n], Handle(kind, d, n, k), session[n])
  BY <1>1, <1>2, HandleServed
<1>4. Served(kind, n, job[d][n], run[d][n], Now(d, n), session[n])
  BY NowServed
<1> QED
  BY <1>3, <1>4 DEF After

IsAnswer(x, e, j, told) ==
  /\ x \in EntryRecord
  /\ x.job = j /\ x.error = FALSE /\ x.errors = 0 /\ x.skipped = e.skipped /\ x.last = told

LEMMA AnsweredFields ==
  ASSUME NEW e \in EntryRecord, NEW j \in Logins, NEW told \in AnswerRecord, NEW x, x = Answered(e, j, told)
  PROVE  IsAnswer(x, e, j, told)
<1>1. 0 \in 0..3 /\ j \in Logins \cup {0}
  OBVIOUS
<1>2. x.job = j /\ x.error = FALSE /\ x.errors = 0 /\ x.skipped = e.skipped /\ x.last = told
  BY DEF Answered, EntryRecord
<1>3. x \in EntryRecord
  BY <1>1 DEF Answered, EntryRecord
<1> QED
  BY <1>2, <1>3 DEF IsAnswer

LEMMA FailedFields ==
  ASSUME NEW e \in EntryRecord
  PROVE  /\ Failed(e) \in EntryRecord
         /\ Failed(e).job = e.job /\ Failed(e).error = TRUE /\ Failed(e).errors > 0
         /\ Failed(e).skipped = e.skipped
<1> DEFINE m == IF e.errors < 3 THEN e.errors + 1 ELSE 3
           x == [e EXCEPT !.error = TRUE, !.errors = m]
<1>1. e.errors \in 0..3
  BY DEF EntryRecord
<1>2. m \in 0..3 /\ m > 0
  BY <1>1
<1>3. Failed(e) = x
  BY DEF Failed, EntryRecord
<1> HIDE DEF m
<1>4. x \in EntryRecord /\ x.job = e.job /\ x.error = TRUE /\ x.errors = m /\ x.skipped = e.skipped
  BY <1>2 DEF EntryRecord
<1> QED
  BY <1>2, <1>3, <1>4

\* A node that is done without failure has all its slots logged in.
LEMMA DoneTells ==
  ASSUME NEW n \in Nodes, NEW j, NEW q, NEW in, Local(n, j, q, in), in \subseteq Slots(n), j.exists
  PROVE  /\ Summary(j, n) \in AnswerRecord
         /\ Summary(j, n).done /\ ~Summary(j, n).failed => j.stop \/ in = Slots(n)
<1>1. j \in JobRecord /\ j.status \in [Slots(n) -> Statuses] /\ DoneFits(n, j, in)
  BY DEF Local, Shaped
<1>2. /\ Summary(j, n).running = j.running /\ Summary(j, n).done = j.done
      /\ Summary(j, n).failed <=> \E s \in Slots(n) : j.status[s] = "failed"
  BY DEF Summary
<1>3. Summary(j, n) \in AnswerRecord
  <2> DEFINE w == \E s \in Slots(n) : j.status[s] = "waiting"
             f == \E s \in Slots(n) : j.status[s] = "failed"
  <2>1. w \in BOOLEAN /\ f \in BOOLEAN /\ j.running \in BOOLEAN /\ j.done \in BOOLEAN
    BY <1>1 DEF JobRecord
  <2>2. Summary(j, n) = [running |-> j.running, done |-> j.done, waiting |-> w, failed |-> f]
    BY DEF Summary
  <2> HIDE DEF w, f
  <2> QED
    BY <2>1, <2>2 DEF AnswerRecord
<1>4. ASSUME Summary(j, n).done, ~Summary(j, n).failed, ~j.stop PROVE in = Slots(n)
  <2>1. AllRest(n, j)
    BY <1>1, <1>2, <1>4 DEF DoneFits
  <2>2. \A s \in Slots(n) : j.status[s] \in {"not in job", "logged in"}
    BY <1>2, <1>4, <2>1 DEF AllRest, Rest
  <2> QED
    BY <1>1, <2>2 DEF DoneFits
<1> QED
  BY <1>3, <1>4

LEMMA AboutLogin ==
  ASSUME NEW kind, NEW nodes, NEW n \in Nodes, nodes[n].job \in Logins
  PROVE  About(kind, nodes, n) \in Logins
<1>1. ASSUME NEW c \in Logins PROVE Started(c, n) \in Logins
  <2>1. Running(n) # {} => (CHOOSE d \in Running(n) : TRUE) \in Running(n)
    OBVIOUS
  <2>2. Running(n) \subseteq Logins
    BY DEF Running
  <2> QED
    BY <2>1, <2>2 DEF Started
<1> QED
  BY <1>1 DEF About

Follows(jb, kind, nodes, fate, k) ==
  \A d \in Logins, m \in Nodes : /\ jb[d][m] = After(kind, nodes, fate, k, d, m).job
                                 /\ job[d][m].exists => jb[d][m].exists
                                 /\ job[d][m].stop => jb[d][m].stop

LEMMA NewEntryFits ==
  ASSUME IInv, NEW c \in Logins, NEW kind, NEW nodes, NEW k, GoodRow(nodes), GoodCall(c, kind, k),
         NEW fate, NEW n \in Nodes, NEW jb,
         Follows(jb, kind, nodes, fate, k)
  PROVE  /\ NewEntry(kind, nodes, fate, k, n) \in EntryRecord
         /\ EntryFits(NewEntry(kind, nodes, fate, k, n), n, jb, session[n])
         /\ NewEntry(kind, nodes, fate, k, n).skipped \/ NewEntry(kind, nodes, fate, k, n).job \in Logins
<1> DEFINE e == nodes[n]
           x == NewEntry(kind, nodes, fate, k, n)
           a == About(kind, nodes, n)
           h == After(kind, nodes, fate, k, a, n)
           j == h.job
<1>1. /\ e \in EntryRecord /\ EntryFits(e, n, job, session[n]) /\ (e.skipped \/ e.job \in Logins)
      /\ e.skipped \in BOOLEAN
  BY DEF GoodRow, EntryRecord
<1>2. session[n] \subseteq Slots(n)
  BY DEF IInv, Typed
<1>3. CASE n \notin Called(nodes)
  <2>1. x = e
    BY <1>3 DEF NewEntry
  <2>2. EntryFits(e, n, jb, session[n])
    BY <1>1, <1>2, EntryKept DEF Follows
  <2> HIDE DEF x, e
  <2>3. x \in EntryRecord /\ EntryFits(x, n, jb, session[n]) /\ (x.skipped \/ x.job \in Logins)
    BY <1>1, <2>1, <2>2
  <2> QED
    BY <2>3 DEF x
<1>4. CASE n \in Called(nodes)
  <2>1. ~e.skipped /\ e.job \in Logins
    BY <1>1, <1>4 DEF Called
  <2>2. a \in Logins
    BY <2>1, AboutLogin
  <2>3. Served(kind, n, job[a][n], run[a][n], h, session[n])
    BY <2>2, AfterServed
  <2>4. Local(n, j, h.run, session[n]) /\ jb[a][n] = j
    BY <2>2, <2>3 DEF Served, Follows
  <2>5. \/ fate[n] = "answered" /\ j.exists /\ x = Answered(e, a, Summary(j, n))
        \/ x = Answered(e, e.job, NoAnswer)
        \/ x = Failed(e)
    BY <1>4 DEF NewEntry
  <2> HIDE DEF x, e, a, h
  <2>6. CASE j.exists /\ x = Answered(e, a, Summary(j, n))
    <3>1. /\ Summary(j, n) \in AnswerRecord
          /\ Summary(j, n).done /\ ~Summary(j, n).failed => j.stop \/ session[n] = Slots(n)
      BY <1>2, <2>4, <2>6, DoneTells
    <3> DEFINE told == Summary(j, n)
    <3> HIDE DEF j, told
    <3>1a. told \in AnswerRecord /\ x = Answered(e, a, told)
      BY <2>6, <3>1 DEF told
    <3>2. IsAnswer(x, e, a, told)
      BY <1>1, <2>2, <3>1a, AnsweredFields
    <3>3. EntryFits(x, n, jb, session[n])
      BY <2>1, <2>2, <2>4, <2>6, <3>1, <3>2 DEF EntryFits, Told, told, IsAnswer
    <3> QED
      BY <2>2, <3>2, <3>3 DEF x, IsAnswer
  <2>7. CASE x = Answered(e, e.job, NoAnswer)
    <3>1. NoAnswer \in AnswerRecord /\ NoAnswer.done = FALSE
      BY DEF NoAnswer, AnswerRecord
    <3>2. IsAnswer(x, e, e.job, NoAnswer)
      BY <1>1, <2>1, <2>7, <3>1, AnsweredFields
    <3>3. EntryFits(x, n, jb, session[n])
      BY <2>1, <3>1, <3>2 DEF EntryFits, Told, IsAnswer
    <3> QED
      BY <2>1, <3>2, <3>3 DEF x, IsAnswer
  <2>8. CASE x = Failed(e)
    <3>1. x \in EntryRecord /\ x.job = e.job /\ x.error = TRUE /\ x.errors > 0 /\ x.skipped = e.skipped
      BY <1>1, <2>8, FailedFields
    <3>2. EntryFits(x, n, jb, session[n])
      BY <3>1 DEF EntryFits, Told
    <3> QED
      BY <2>1, <3>1, <3>2 DEF x
  <2> QED
    BY <2>5, <2>6, <2>7, <2>8
<1> QED
  BY <1>3, <1>4

LEMMA CallingServes ==
  ASSUME IInv, NEW c \in Logins, NEW kind, NEW nodes, NEW k, GoodCall(c, kind, k), NEW fate, NEW saved,
         Calling(c, kind, nodes, k, fate, saved)
  PROVE  /\ AllServed(kind) /\ Follows(job', kind, nodes, fate, k)
         /\ job' \in [Logins -> [Nodes -> JobRecord]]
         /\ run' \in [Logins -> [Nodes -> [Runners -> RunRecord]]]
         /\ \A d \in Logins, m \in Nodes : Local(m, job'[d][m], run'[d][m], session[m])
         /\ \A d \in Logins, m \in Nodes : /\ job[d][m].exists => job'[d][m].exists
                                           /\ job[d][m].stop => job'[d][m].stop
<1> DEFINE f == [d \in Logins |-> [n \in Nodes |-> After(kind, nodes, fate, k, d, n).job]]
           g == [d \in Logins |-> [n \in Nodes |-> After(kind, nodes, fate, k, d, n).run]]
<1>1. job' = f /\ run' = g
  BY DEF Calling
<1>2. \A d \in Logins, m \in Nodes : /\ job'[d][m] = After(kind, nodes, fate, k, d, m).job
                                     /\ run'[d][m] = After(kind, nodes, fate, k, d, m).run
  BY <1>1
<1>3. AllServed(kind)
  <2> SUFFICES ASSUME NEW d \in Logins, NEW m \in Nodes
               PROVE  Served(kind, m, job[d][m], run[d][m], [job |-> job'[d][m], run |-> run'[d][m]], session[m])
    BY DEF AllServed
  <2>1. Served(kind, m, job[d][m], run[d][m], After(kind, nodes, fate, k, d, m), session[m])
    BY AfterServed
  <2> QED
    BY <1>2, <2>1 DEF Served
<1>4. /\ job' = [d \in Logins |-> [n \in Nodes |-> f[d][n]]]
      /\ run' = [d \in Logins |-> [n \in Nodes |-> g[d][n]]]
  BY <1>1
<1> HIDE DEF f, g
<1>5. /\ job' \in [Logins -> [Nodes -> JobRecord]]
      /\ run' \in [Logins -> [Nodes -> [Runners -> RunRecord]]]
      /\ \A d \in Logins, m \in Nodes : Local(m, job'[d][m], run'[d][m], session[m])
      /\ \A d \in Logins, m \in Nodes : /\ job[d][m].exists => job'[d][m].exists
                                        /\ job[d][m].stop => job'[d][m].stop
  BY <1>3, <1>4, JobsServed
<1>6. Follows(job', kind, nodes, fate, k)
  BY <1>2, <1>5 DEF Follows
<1> QED
  BY <1>3, <1>5, <1>6

\* A coordinator's row after a call.
LEMMA CallingRow ==
  ASSUME IInv, NEW c \in Logins, NEW kind, NEW nodes, NEW k, GoodRow(nodes), GoodCall(c, kind, k),
         NEW fate, NEW saved \in BOOLEAN, Calling(c, kind, nodes, k, fate, saved)
  PROVE  /\ state' \in [Logins -> StateRecord]
         /\ \A d \in Logins : d # c => state'[d] = state[d]
         /\ state'[c].sent = IF kind = "captcha" THEN k ELSE state[c].sent
         /\ \A d \in Logins : RowFits(d)'
<1> DEFINE row == [n \in Nodes |-> NewEntry(kind, nodes, fate, k, n)]
           z == state[c]
           new == IF saved THEN row ELSE z.nodes
           sv == z.saved \/ saved
           cn == z.cancelled \/ kind = "cancel"
           sn == IF kind = "captcha" THEN k ELSE z.sent
           y == [z EXCEPT !.begun = TRUE, !.saved = sv, !.nodes = new, !.cancelled = cn, !.sent = sn]
<1>1. state \in [Logins -> StateRecord] /\ z \in StateRecord
  BY DEF IInv, Typed
<1>2. z.nodes \in [Nodes -> EntryRecord] /\ z.saved \in BOOLEAN /\ z.cancelled \in BOOLEAN /\ z.sent \in Words
  BY <1>1 DEF StateRecord
<1>3. Follows(job', kind, nodes, fate, k) /\ UNCHANGED session
  BY CallingServes DEF Calling
<1>4. \A n \in Nodes : /\ row[n] \in EntryRecord /\ EntryFits(row[n], n, job', session[n])
                       /\ row[n].skipped \/ row[n].job \in Logins
  BY <1>3, NewEntryFits
<1>5. row \in [Nodes -> EntryRecord]
  BY <1>4
<1>6. new \in [Nodes -> EntryRecord] /\ sv \in BOOLEAN /\ cn \in BOOLEAN /\ sn \in Words
  BY <1>2, <1>5 DEF GoodCall
<1>7. \A n \in Nodes : EntryFits(z.nodes[n], n, job, session[n]) /\ (z.saved => z.nodes[n].skipped \/ z.nodes[n].job \in Logins)
  BY DEF IInv, RowFits, Entry
<1>8. \A n \in Nodes : EntryFits(new[n], n, job', session[n]) /\ (sv => new[n].skipped \/ new[n].job \in Logins)
  <2> SUFFICES ASSUME NEW n \in Nodes
               PROVE  EntryFits(new[n], n, job', session[n]) /\ (sv => new[n].skipped \/ new[n].job \in Logins)
    OBVIOUS
  <2>1. CASE saved
    <3>1. new = row
      BY <2>1
    <3> HIDE DEF row, new
    <3> QED
      BY <1>4, <3>1
  <2>2. CASE ~saved
    <3>1. EntryFits(z.nodes[n], n, job', session[n])
      <4>1. EntryFits(z.nodes[n], n, job, session[n]) /\ session[n] \subseteq Slots(n)
        BY <1>7 DEF IInv, Typed
      <4> QED
        BY <1>3, <4>1, EntryKept DEF Follows
    <3>2. new = z.nodes /\ sv = z.saved
      BY <1>2, <2>2
    <3> HIDE DEF new, sv
    <3> QED
      BY <1>7, <3>1, <3>2
  <2> QED
    BY <2>1, <2>2
<1>9. state' = [state EXCEPT ![c] = y]
  <2>1. state' = [state EXCEPT
        ![c].begun = TRUE,
        ![c].saved = z.saved \/ saved,
        ![c].nodes = IF saved THEN row ELSE z.nodes,
        ![c].cancelled = z.cancelled \/ kind = "cancel",
        ![c].sent = IF kind = "captcha" THEN k ELSE z.sent]
    BY DEF Calling
  <2>2. state' = [state EXCEPT ![c].begun = TRUE, ![c].saved = sv, ![c].nodes = new, ![c].cancelled = cn, ![c].sent = sn]
    BY <2>1
  <2> HIDE DEF new, sv, cn, sn, row
  <2> QED
    BY <1>1, <2>2
<1> HIDE DEF new, sv, cn, sn, row
<1>10. y \in StateRecord /\ y.nodes = new /\ y.saved = sv /\ y.sent = sn
  BY <1>1, <1>6 DEF StateRecord
<1> HIDE DEF y
<1>11. state' \in [Logins -> StateRecord] /\ state'[c] = y /\ \A d \in Logins : d # c => state'[d] = state[d]
  BY <1>1, <1>9, <1>10
<1>12. ASSUME NEW d \in Logins PROVE RowFits(d)'
  <2> SUFFICES ASSUME NEW n \in Nodes
               PROVE  /\ EntryFits(state'[d].nodes[n], n, job', session'[n])
                      /\ state'[d].saved => state'[d].nodes[n].skipped \/ state'[d].nodes[n].job \in Logins
    BY DEF RowFits, Entry
  <2>1. CASE d = c
    BY <1>3, <1>8, <1>10, <1>11, <2>1
  <2>2. CASE d # c
    <3>1. /\ EntryFits(state[d].nodes[n], n, job, session[n]) /\ session[n] \subseteq Slots(n)
          /\ state[d].saved => state[d].nodes[n].skipped \/ state[d].nodes[n].job \in Logins
      BY DEF IInv, Typed, RowFits, Entry
    <3>2. EntryFits(state[d].nodes[n], n, job', session[n])
      BY <1>3, <3>1, EntryKept DEF Follows
    <3> QED
      BY <1>3, <1>11, <2>2, <3>1, <3>2
  <2> QED
    BY <2>1, <2>2
<1> QED
  BY <1>10, <1>11, <1>12 DEF sn

LEMMA CallingLate ==
  ASSUME IInv, NEW c \in Logins, NEW kind, NEW nodes, NEW k, GoodRow(nodes), GoodCall(c, kind, k),
         NEW fate, NEW saved, Calling(c, kind, nodes, k, fate, saved)
  PROVE  late' \subseteq Messages /\ \A m \in late' : m[1] = "captcha" => m[4] \in Captchas
<1>1. late \subseteq Messages /\ \A m \in late : m[1] = "captcha" => m[4] \in Captchas
  BY DEF IInv, Typed
<1>2. ASSUME NEW n \in Called(nodes), fate[n] = "late"
      PROVE  /\ <<kind, nodes[n].job, n, k>> \in Messages
             /\ kind = "captcha" => k \in Captchas
  <2>1. n \in Nodes /\ nodes[n].job \in Logins
    BY DEF Called, GoodRow
  <2>2. "late" \in Fates(n, kind)
    BY <1>2 DEF Calling
  <2>3. kind # "status"
    BY <2>2 DEF Fates
  <2>4. kind \in {"start", "captcha", "cancel"} /\ k \in Words /\ (kind = "captcha" => k \in Captchas)
    BY <2>3 DEF GoodCall, Kinds
  <2> QED
    BY <2>1, <2>4 DEF Messages
<1>3. ASSUME NEW m \in late' PROVE m \in Messages /\ (m[1] = "captcha" => m[4] \in Captchas)
  <2>1. CASE m \in late
    BY <1>1, <2>1
  <2>2. ASSUME NEW n \in Called(nodes), fate[n] = "late", m = <<kind, nodes[n].job, n, k>>
        PROVE  m \in Messages /\ (m[1] = "captcha" => m[4] \in Captchas)
    BY <1>2, <2>2
  <2>3. m \in late \/ \E n \in Called(nodes) : fate[n] = "late" /\ m = <<kind, nodes[n].job, n, k>>
    BY <1>3 DEF Calling
  <2> QED
    BY <2>1, <2>2, <2>3
<1> QED
  BY <1>3

LEMMA CallingSent ==
  ASSUME IInv, NEW c \in Logins, NEW kind, NEW nodes, NEW k, GoodRow(nodes), GoodCall(c, kind, k),
         NEW fate, NEW saved \in BOOLEAN, Calling(c, kind, nodes, k, fate, saved)
  PROVE  IF kind = "captcha" THEN Cardinality(Sent') >= Cardinality(Sent) + 1 ELSE Sent' = Sent
<1>1. /\ \A d \in Logins : d # c => state'[d] = state[d]
      /\ state'[c].sent = IF kind = "captcha" THEN k ELSE state[c].sent
  BY CallingRow
<1>2. CASE kind # "captcha"
  <2>1. \A d \in Logins : state'[d].sent = state[d].sent
    BY <1>1, <1>2
  <2> QED
    BY <1>2, <2>1 DEF Sent
<1>3. CASE kind = "captcha"
  <2>1. k = state[c].sent + 1 /\ k \in Captchas /\ state'[c].sent = k
    BY <1>1, <1>3 DEF GoodCall
  <2>2. <<c, k>> \in (Logins \X Captchas) \ Sent
    BY <2>1, SpareLeft
  <2>3. state[c].sent \in Nat
    BY DEF IInv, Typed, StateRecord, Words, Captchas, NoCaptcha
  <2>4. Sent \cup {<<c, k>>} \subseteq Sent'
    <3>1. ASSUME NEW p \in Sent PROVE p \in Sent'
      <4>1. p \in Logins \X Captchas /\ p[2] <= state[p[1]].sent
        BY <3>1 DEF Sent
      <4>2. p[1] \in Logins /\ p[2] \in Nat
        BY <4>1 DEF Captchas
      <4>3. CASE p[1] = c
        BY <2>1, <2>3, <4>1, <4>2, <4>3 DEF Sent
      <4>4. CASE p[1] # c
        BY <1>1, <4>1, <4>2, <4>4 DEF Sent
      <4> QED
        BY <4>3, <4>4
    <3>2. <<c, k>> \in Sent'
      <4>1. k <= k
        BY <2>1 DEF Captchas
      <4> QED
        BY <2>1, <4>1 DEF Sent
    <3> QED
      BY <3>1, <3>2
  <2>5. IsFiniteSet(Sent) /\ IsFiniteSet(Sent')
    <3>1. IsFiniteSet(Logins \X Captchas)
      BY BoundsFinite, FS_Product
    <3>2. Sent \subseteq Logins \X Captchas /\ Sent' \subseteq Logins \X Captchas
      BY DEF Sent
    <3> QED
      BY <3>1, <3>2, FS_Subset
  <2> DEFINE old == Sent
             new == Sent'
             w == <<c, k>>
  <2>6. old \cup {w} \subseteq new /\ IsFiniteSet(old) /\ IsFiniteSet(new) /\ w \notin old
    BY <2>2, <2>4, <2>5
  <2> HIDE DEF old, new, w
  <2>7. IsFiniteSet(old \cup {w}) /\ Cardinality(old \cup {w}) = Cardinality(old) + 1
    BY <2>6, FS_AddElement
  <2>8. Cardinality(old \cup {w}) <= Cardinality(new)
    BY <2>6, FS_Subset
  <2>9. Cardinality(old) \in Nat /\ Cardinality(new) \in Nat
    BY <2>6, FS_CardinalityType
  <2>10. Cardinality(new) >= Cardinality(old) + 1
    BY <2>7, <2>8, <2>9
  <2> QED
    BY <1>3, <2>10 DEF old, new
<1> QED
  BY <1>2, <1>3

LEMMA CallingSpare ==
  ASSUME IInv, Typed', NEW c \in Logins, NEW kind, NEW nodes, NEW k, GoodRow(nodes), GoodCall(c, kind, k),
         NEW fate, NEW saved \in BOOLEAN, Calling(c, kind, nodes, k, fate, saved),
         NEW d \in Logins, NEW m \in Nodes
  PROVE  Spare(d, m)'
<1>1. AllServed(kind)
  BY CallingServes
<1>2. late' = late \cup {<<kind, nodes[n].job, n, k>> : n \in {x \in Called(nodes) : fate[x] = "late"}}
  BY DEF Calling
<1>3. /\ Cardinality(Busy(run[d][m])) \in Nat /\ Cardinality(Busy(run'[d][m])) \in Nat
      /\ Cardinality(UnderWay(d, m)) \in Nat /\ IsFiniteSet(UnderWay(d, m)) /\ Cardinality(Sent) \in Nat
  BY BusyFinite, FS_CardinalityType, SpareFinite DEF IInv
<1>4. CASE kind # "captcha"
  <2>1. Cardinality(Busy(run'[d][m])) = Cardinality(Busy(run[d][m]))
    BY <1>1, <1>4, BusyServed
  <2>2. UnderWay(d, m)' = UnderWay(d, m)
    BY <1>2, <1>4 DEF UnderWay
  <2>3. Sent' = Sent
    BY <1>4, CallingSent
  <2>4. /\ Cardinality(Busy(run'[d][m])) <= Cardinality(Busy(run[d][m])) + 0
        /\ Cardinality(UnderWay(d, m)') <= Cardinality(UnderWay(d, m)) + 0
        /\ Cardinality(Sent') >= Cardinality(Sent) + 0 /\ 0 + 0 <= 0 /\ 0 \in {0, 1}
    BY <1>3, <2>1, <2>2, <2>3
  <2> QED
    BY <2>4, SpareStep
<1>5. CASE kind = "captcha"
  <2>1. Cardinality(Sent') >= Cardinality(Sent) + 1
    BY <1>5, CallingSent
  <2>2. CASE m \in Carried(nodes, fate) /\ d = nodes[m].job
    <3>1. Cardinality(Busy(run'[d][m])) <= Cardinality(Busy(run[d][m])) + 1
      BY <1>1, <1>3, BusyServed
    <3>2. fate[m] # "late"
      BY <2>2 DEF Carried
    <3>3. UnderWay(d, m)' = UnderWay(d, m)
      BY <1>2, <3>2 DEF UnderWay
    <3>4. /\ Cardinality(UnderWay(d, m)') <= Cardinality(UnderWay(d, m)) + 0
          /\ 1 + 0 <= 1 /\ 0 \in {0, 1} /\ 1 \in {0, 1}
      BY <1>3, <3>3
    <3> QED
      BY <2>1, <3>1, <3>4, SpareStep
  <2>3. CASE ~(m \in Carried(nodes, fate) /\ d = nodes[m].job)
    <3>1. After(kind, nodes, fate, k, d, m) = Now(d, m)
      BY <2>3 DEF After
    <3>1a. run' = [x \in Logins |-> [n \in Nodes |-> After(kind, nodes, fate, k, x, n).run]]
      BY DEF Calling
    <3>1b. run'[d][m] = After(kind, nodes, fate, k, d, m).run
      BY <3>1a
    <3>2. run'[d][m] = run[d][m]
      BY <3>1, <3>1b DEF Now
    <3>3. UnderWay(d, m)' \subseteq UnderWay(d, m) \cup {k}
      BY <1>2 DEF UnderWay
    <3> DEFINE old == UnderWay(d, m)
               new == UnderWay(d, m)'
    <3>4. IsFiniteSet(old) /\ new \subseteq old \cup {k}
      BY <1>3, <3>3
    <3> HIDE DEF old, new
    <3>5. /\ IsFiniteSet(old \cup {k})
          /\ Cardinality(old \cup {k}) = IF k \in old THEN Cardinality(old) ELSE Cardinality(old) + 1
      BY <3>4, FS_AddElement
    <3>6. Cardinality(new) <= Cardinality(old \cup {k}) /\ IsFiniteSet(new)
      BY <3>4, <3>5, FS_Subset
    <3>7. Cardinality(old) \in Nat /\ Cardinality(new) \in Nat
      BY <3>4, <3>6, FS_CardinalityType
    <3>8. Cardinality(new) <= Cardinality(old) + 1
      BY <3>5, <3>6, <3>7
    <3>9. /\ Cardinality(Busy(run'[d][m])) <= Cardinality(Busy(run[d][m])) + 0
          /\ 0 + 1 <= 1 /\ 0 \in {0, 1} /\ 1 \in {0, 1}
      BY <1>3, <3>2
    <3> QED
      BY <2>1, <3>8, <3>9, SpareStep DEF old, new
  <2> QED
    BY <2>2, <2>3
<1> QED
  BY <1>4, <1>5

LEMMA CallNodesKept ==
  ASSUME IInv, NEW c \in Logins, NEW kind, NEW nodes, NEW k, GoodRow(nodes), GoodCall(c, kind, k),
         CallNodes(c, kind, nodes, k)
  PROVE  IInv'
<1>1. PICK fate \in [Called(nodes) -> {"answered", "unanswered", "lost", "late"}], saved \in BOOLEAN :
            Calling(c, kind, nodes, k, fate, saved)
  BY CallParts
<1>2. /\ job' \in [Logins -> [Nodes -> JobRecord]]
      /\ run' \in [Logins -> [Nodes -> [Runners -> RunRecord]]]
      /\ \A d \in Logins, m \in Nodes : Local(m, job'[d][m], run'[d][m], session[m])
  BY <1>1, CallingServes
<1>3. session' = session
  BY <1>1 DEF Calling
<1>4. state' \in [Logins -> StateRecord] /\ \A d \in Logins : RowFits(d)'
  BY <1>1, CallingRow
<1>5. late' \subseteq Messages /\ \A m \in late' : m[1] = "captcha" => m[4] \in Captchas
  BY <1>1, CallingLate
<1>6. Typed'
  BY <1>2, <1>3, <1>4, <1>5 DEF IInv, Typed
<1>7. ASSUME NEW d \in Logins, NEW m \in Nodes PROVE Spare(d, m)'
  BY <1>1, <1>6, CallingSpare
<1> QED
  BY <1>2, <1>3, <1>4, <1>6, <1>7 DEF IInv

\* The row of a login that was written can be called.
LEMMA SavedRow ==
  ASSUME IInv, NEW c \in Logins, state[c].saved
  PROVE  GoodRow(state[c].nodes)
<1>1. state[c] \in StateRecord
  BY DEF IInv, Typed
<1>2. state[c].nodes \in [Nodes -> EntryRecord]
  BY <1>1 DEF StateRecord
<1> QED
  BY <1>2 DEF IInv, RowFits, Entry, GoodRow

LEMMA StartLoginKept == ASSUME IInv, NEW c \in Logins, StartLogin(c) PROVE IInv'
<1>1. PICK online \in SUBSET Nodes \ {{}} :
          CallNodes(c, "start",
                    [n \in Nodes |-> IF n \in online THEN [NoEntry EXCEPT !.job = c] ELSE Skipped], NoCaptcha)
  BY DEF StartLogin
<1> DEFINE nodes == [n \in Nodes |-> IF n \in online THEN [NoEntry EXCEPT !.job = c] ELSE Skipped]
<1>2. ASSUME NEW x, x = [NoEntry EXCEPT !.job = c] \/ x = Skipped
      PROVE  /\ x \in EntryRecord /\ (x.error <=> x.errors > 0) /\ (x.skipped => x.error) /\ x.last.done = FALSE
             /\ x.skipped \/ x.job \in Logins
  <2>1. NoAnswer \in AnswerRecord /\ NoAnswer.done = FALSE
    BY DEF NoAnswer, AnswerRecord
  <2>2. CASE x = [NoEntry EXCEPT !.job = c]
    <3>1. x = [job |-> c, error |-> FALSE, errors |-> 0, skipped |-> FALSE, last |-> NoAnswer]
      BY <2>2 DEF NoEntry
    <3> QED
      BY <2>1, <3>1 DEF EntryRecord
  <2>3. CASE x = Skipped
    <3>1. x = [job |-> 0, error |-> TRUE, errors |-> 3, skipped |-> TRUE, last |-> NoAnswer]
      BY <2>3 DEF NoEntry, Skipped
    <3> QED
      BY <2>1, <3>1 DEF EntryRecord
  <2> QED
    BY <1>2, <2>2, <2>3
<1>3. GoodRow(nodes)
  <2>1. \A n \in Nodes : nodes[n] = [NoEntry EXCEPT !.job = c] \/ nodes[n] = Skipped
    OBVIOUS
  <2>2. nodes = [n \in Nodes |-> nodes[n]]
    OBVIOUS
  <2> HIDE DEF nodes
  <2>3. \A n \in Nodes : /\ nodes[n] \in EntryRecord /\ (nodes[n].error <=> nodes[n].errors > 0)
                         /\ (nodes[n].skipped => nodes[n].error) /\ nodes[n].last.done = FALSE
                         /\ nodes[n].skipped \/ nodes[n].job \in Logins
    BY <1>2, <2>1
  <2>4. nodes \in [Nodes -> EntryRecord]
    BY <2>2, <2>3
  <2> QED
    BY <2>3, <2>4 DEF GoodRow, EntryFits, Told
<1>4. GoodCall(c, "start", NoCaptcha)
  BY DEF GoodCall, Kinds, Words
<1>5. CallNodes(c, "start", nodes, NoCaptcha)
  BY <1>1
<1> HIDE DEF nodes
<1> QED
  BY <1>3, <1>4, <1>5, CallNodesKept

LEMMA ActionsKept ==
  ASSUME IInv, NEW c \in Logins, Poll(c) \/ SendCaptcha(c) \/ Cancel(c)
  PROVE  IInv'
<1>1. state[c].saved
  BY DEF Poll, SendCaptcha, Cancel
<1>2. GoodRow(state[c].nodes)
  BY <1>1, SavedRow
<1> DEFINE nodes == state[c].nodes
<1>3. PICK kind, k : GoodCall(c, kind, k) /\ CallNodes(c, kind, nodes, k)
  <2>1. CASE Poll(c)
    <3>1. GoodCall(c, "status", NoCaptcha)
      BY DEF GoodCall, Kinds, Words
    <3> QED
      BY <2>1, <3>1 DEF Poll
  <2>2. CASE SendCaptcha(c)
    <3>1. state[c].sent \in Nat
      BY DEF IInv, Typed, StateRecord, Words, Captchas, NoCaptcha
    <3>2. state[c].sent + 1 \in Captchas
      BY <2>2, <3>1, BulkLoginAssumption DEF SendCaptcha, Captchas
    <3>3. GoodCall(c, "captcha", state[c].sent + 1)
      BY <3>2 DEF GoodCall, Kinds, Words
    <3> QED
      BY <2>2, <3>3 DEF SendCaptcha
  <2>3. CASE Cancel(c)
    <3>1. GoodCall(c, "cancel", NoCaptcha)
      BY DEF GoodCall, Kinds, Words
    <3> QED
      BY <2>3, <3>1 DEF Cancel
  <2> QED
    BY <2>1, <2>2, <2>3
<1> HIDE DEF nodes
<1> QED
  BY <1>2, <1>3, CallNodesKept DEF nodes

LEMMA ArriveLateKept == ASSUME IInv, NEW w \in late, ArriveLate(w) PROVE IInv'
<1> DEFINE kind == w[1]
           c == w[2]
           n == w[3]
           k == w[4]
           h == Handle(kind, c, n, k)
<1>1. /\ w \in Messages /\ (kind = "captcha" => k \in Captchas)
      /\ late \subseteq Messages /\ \A m \in late : m[1] = "captcha" => m[4] \in Captchas
  BY DEF IInv, Typed
<1>2. /\ kind \in {"start", "captcha", "cancel"} /\ c \in Logins /\ n \in Nodes /\ k \in Words
      /\ w = <<kind, c, n, k>>
  BY <1>1 DEF Messages
<1>3. /\ job' = [job EXCEPT ![c][n] = h.job] /\ run' = [run EXCEPT ![c][n] = h.run]
      /\ late' = late \ {w} /\ UNCHANGED <<session, state>>
  BY DEF ArriveLate
<1>4. kind \in Kinds
  BY <1>2 DEF Kinds
<1>5. kind = "captcha" => k \in UnderWay(c, n)
  BY <1>1, <1>2 DEF UnderWay
<1> HIDE DEF kind, c, n, k, h
<1>6. MayServe(kind, c, n, k)
  BY <1>1, <1>2, <1>5, MayServeLate DEF MayServe, kind, k
<1>7. Served(kind, n, job[c][n], run[c][n], h, session[n])
  BY <1>2, <1>4, <1>6, HandleServed DEF h
<1>8. Typed
  BY DEF IInv
<1>9. \A d \in Logins, m \in Nodes : /\ job'[d][m] = IF d = c /\ m = n THEN h.job ELSE job[d][m]
                                     /\ run'[d][m] = IF d = c /\ m = n THEN h.run ELSE run[d][m]
  BY <1>2, <1>3, <1>8 DEF Typed
<1>10. /\ job' = [d \in Logins |-> [m \in Nodes |-> job'[d][m]]]
       /\ run' = [d \in Logins |-> [m \in Nodes |-> run'[d][m]]]
  BY <1>2, <1>3, <1>8 DEF Typed
<1>11. AllServed(kind)
  <2> SUFFICES ASSUME NEW d \in Logins, NEW m \in Nodes
               PROVE  Served(kind, m, job[d][m], run[d][m], [job |-> job'[d][m], run |-> run'[d][m]], session[m])
    BY DEF AllServed
  <2>1. CASE d = c /\ m = n
    BY <1>7, <1>9, <2>1 DEF Served
  <2>2. CASE ~(d = c /\ m = n)
    <3>1. Served(kind, m, job[d][m], run[d][m], Now(d, m), session[m])
      BY NowServed
    <3> QED
      BY <1>9, <2>2, <3>1 DEF Served, Now
  <2> QED
    BY <2>1, <2>2
<1>12. /\ job' \in [Logins -> [Nodes -> JobRecord]]
       /\ run' \in [Logins -> [Nodes -> [Runners -> RunRecord]]]
       /\ \A d \in Logins, m \in Nodes : Local(m, job'[d][m], run'[d][m], session[m])
       /\ \A d \in Logins, m \in Nodes : /\ job[d][m].exists => job'[d][m].exists
                                         /\ job[d][m].stop => job'[d][m].stop
  BY <1>10, <1>11, JobsServed
<1>13. Typed'
  BY <1>1, <1>3, <1>8, <1>12 DEF Typed
<1>14. ASSUME NEW d \in Logins PROVE RowFits(d)'
  <2> SUFFICES ASSUME NEW m \in Nodes
               PROVE  /\ EntryFits(Entry(d, m), m, job', session'[m])
                      /\ state[d].saved => Entry(d, m).skipped \/ Entry(d, m).job \in Logins
    BY <1>3 DEF RowFits, Entry
  <2>1. /\ EntryFits(Entry(d, m), m, job, session[m]) /\ session[m] \subseteq Slots(m)
        /\ state[d].saved => Entry(d, m).skipped \/ Entry(d, m).job \in Logins
    BY DEF IInv, RowFits, Typed
  <2>2. EntryFits(Entry(d, m), m, job', session[m])
    BY <1>12, <2>1, EntryKept
  <2> QED
    BY <1>3, <2>1, <2>2
<1>15. ASSUME NEW d \in Logins, NEW m \in Nodes PROVE Spare(d, m)'
  <2>1. Sent' = Sent
    BY <1>3 DEF Sent
  <2>2. /\ Cardinality(Busy(run[d][m])) \in Nat /\ Cardinality(Busy(run'[d][m])) \in Nat
        /\ Cardinality(UnderWay(d, m)) \in Nat /\ IsFiniteSet(UnderWay(d, m)) /\ Cardinality(Sent) \in Nat
    BY <1>8, BusyFinite, FS_CardinalityType, SpareFinite
  <2>3. UnderWay(d, m)' \subseteq UnderWay(d, m)
    BY <1>3 DEF UnderWay
  <2>4. Cardinality(UnderWay(d, m)') <= Cardinality(UnderWay(d, m)) /\ Cardinality(UnderWay(d, m)') \in Nat
    BY <2>2, <2>3, FS_Subset, FS_CardinalityType
  <2>5. CASE kind = "captcha" /\ d = c /\ m = n
    <3> DEFINE b == Cardinality(Busy(run[d][m]))
               b2 == Cardinality(Busy(run'[d][m]))
               old == UnderWay(d, m)
               new == UnderWay(d, m)'
               t == Cardinality(Sent)
    <3>1. b2 <= b + 1
      BY <1>11, <2>2, BusyServed
    <3>2. k \in old /\ new \subseteq old \ {k}
      BY <1>2, <1>3, <1>5, <2>5 DEF UnderWay
    <3>3. b + Cardinality(old) <= t
      BY DEF IInv, Spare
    <3>4. IsFiniteSet(old) /\ b \in Nat /\ b2 \in Nat /\ t \in Nat /\ Cardinality(old) \in Nat
          /\ Cardinality(new) \in Nat
      BY <2>2, <2>4
    <3>5. Spare(d, m)' <=> b2 + Cardinality(new) <= t
      BY <2>1 DEF Spare
    <3> HIDE DEF b, b2, old, new, t
    <3>6. IsFiniteSet(old \ {k}) /\ Cardinality(old \ {k}) = Cardinality(old) - 1
      BY <3>2, <3>4, FS_RemoveElement
    <3>7. Cardinality(new) <= Cardinality(old \ {k})
      BY <3>2, <3>6, FS_Subset
    <3>8. b2 + Cardinality(new) <= t
      BY <3>1, <3>3, <3>4, <3>6, <3>7
    <3> QED
      BY <3>5, <3>8
  <2>6. CASE ~(kind = "captcha" /\ d = c /\ m = n)
    <3>1. Cardinality(Busy(run'[d][m])) <= Cardinality(Busy(run[d][m])) + 0
      <4>1. CASE kind # "captcha"
        BY <1>11, <2>2, <4>1, BusyServed
      <4>2. CASE ~(d = c /\ m = n)
        BY <1>9, <2>2, <4>2
      <4> QED
        BY <2>6, <4>1, <4>2
    <3>2. /\ Cardinality(UnderWay(d, m)') <= Cardinality(UnderWay(d, m)) + 0
          /\ Cardinality(Sent') >= Cardinality(Sent) + 0 /\ 0 + 0 <= 0 /\ 0 \in {0, 1}
      BY <2>1, <2>2, <2>4
    <3> QED
      BY <1>13, <3>1, <3>2, SpareStep
  <2> QED
    BY <2>5, <2>6
<1> QED
  BY <1>3, <1>12, <1>13, <1>14, <1>15 DEF IInv

LEMMA StutterKept == IInv /\ UNCHANGED vars => IInv'
BY DEF IInv, Typed, vars, Local, RowFits, Entry, Spare, UnderWay, Sent

LEMMA NextKept == IInv /\ [Next]_vars => IInv'
<1> SUFFICES ASSUME IInv, [Next]_vars PROVE IInv'
  OBVIOUS
<1>1. ASSUME NEW c \in Logins, StartLogin(c) PROVE IInv'
  BY <1>1, StartLoginKept
<1>2. ASSUME NEW c \in Logins, Poll(c) \/ SendCaptcha(c) \/ Cancel(c) PROVE IInv'
  BY <1>2, ActionsKept
<1>3. ASSUME NEW c \in Logins, NEW n \in Nodes, Node(c, n) PROVE IInv'
  BY <1>3, NodeStepKept
<1>4. ASSUME NEW m \in late, ArriveLate(m) PROVE IInv'
  BY <1>4, ArriveLateKept
<1>5. CASE UNCHANGED vars
  BY <1>5, StutterKept
<1>6. CASE Terminating
  BY <1>5, <1>6 DEF Terminating
<1> QED
  BY <1>1, <1>2, <1>3, <1>4, <1>5, <1>6 DEF Next

LEMMA InitIInv == Init => IInv
<1> SUFFICES ASSUME Init PROVE IInv
  OBVIOUS
<1>1. PICK in \in SUBSET UNION {Slots(n) : n \in Nodes} : session = [n \in Nodes |-> in \cap Slots(n)]
  BY DEF Init, NodeInit
<1>2. /\ job = [c \in Logins |-> [n \in Nodes |-> NoJob]]
      /\ run = [c \in Logins |-> [n \in Nodes |-> [r \in Runners |-> NoRun]]]
      /\ state = [c \in Logins |-> NoState] /\ late = {}
  BY DEF Init, NodeInit
<1>3. /\ NoJob \in JobRecord /\ ~NoJob.exists /\ ~NoJob.step1 /\ ~NoJob.running /\ ~NoJob.stop
      /\ NoJob.captcha = NoCaptcha
  BY DEF NoJob, JobRecord, Maps, Words
<1>4. NoRun \in RunRecord /\ NoRun.pc = "none" /\ NoRun.at = 0 /\ NoRun.todo = {}
  BY DEF NoRun, RunRecord, Pcs, Words
<1>5. NoEntry \in EntryRecord /\ ~NoEntry.error /\ NoEntry.errors = 0 /\ ~NoEntry.skipped /\ ~NoEntry.last.done
  BY DEF NoEntry, EntryRecord, NoAnswer, AnswerRecord
<1>6. NoState \in StateRecord /\ ~NoState.saved /\ NoState.nodes = [n \in Nodes |-> NoEntry]
  <2> DEFINE nodes == [n \in Nodes |-> NoEntry]
  <2>1. nodes \in [Nodes -> EntryRecord]
    BY <1>5
  <2>2. NoState = [begun |-> FALSE, saved |-> FALSE, cancelled |-> FALSE, sent |-> 0, nodes |-> nodes]
    BY DEF NoState
  <2> HIDE DEF nodes
  <2>3. 0 \in Words
    BY DEF Words, NoCaptcha
  <2>4. NoState \in StateRecord /\ ~NoState.saved /\ NoState.nodes = nodes
    BY <2>1, <2>2, <2>3 DEF StateRecord
  <2> QED
    BY <2>4 DEF nodes
<1>7. \A n \in Nodes : session[n] \subseteq Slots(n) /\ session[n] \in SUBSET AllSlots
  BY <1>1 DEF AllSlots
<1>8. Typed
  <2>1. session \in [Nodes -> SUBSET AllSlots]
    BY <1>1, <1>7
  <2>2. run \in [Logins -> [Nodes -> [Runners -> RunRecord]]]
    BY <1>2, <1>4
  <2>3. job \in [Logins -> [Nodes -> JobRecord]] /\ state \in [Logins -> StateRecord]
    BY <1>2, <1>3, <1>6
  <2> QED
    BY <1>2, <1>7, <2>1, <2>2, <2>3 DEF Typed
<1>9. ASSUME NEW c \in Logins, NEW n \in Nodes PROVE Local(n, job[c][n], run[c][n], session[n])
  <2> DEFINE q == run[c][n]
  <2>1. job[c][n] = NoJob
    BY <1>2
  <2>2. q \in [Runners -> RunRecord] /\ \A r \in Runners : q[r].pc = "none" /\ q[r].at = 0 /\ q[r].todo = {}
    BY <1>2, <1>4
  <2>3. Opener \in Runners
    BY RunnersFacts
  <2> HIDE DEF q
  <2>4. Shaped(n, NoJob, q)
    BY <1>3, <2>2 DEF Shaped
  <2>5. OpenerFits(n, NoJob, q)
    <3>1. q[Opener].pc = "none" /\ q[Opener].at = 0 /\ ~(0 >= 1)
      BY <2>2, <2>3
    <3> QED
      BY <3>1 DEF OpenerFits
  <2>6. SubmitFits(n, NoJob, q) /\ Watched(n, NoJob, q) /\ Finishing(n, NoJob, q) /\ DoneFits(n, NoJob, session[n])
    BY <1>3, <2>2 DEF SubmitFits, Watched, Finishing, DoneFits
  <2> QED
    BY <2>1, <2>4, <2>5, <2>6 DEF Local, q
<1>10. ASSUME NEW c \in Logins PROVE RowFits(c)
  BY <1>2, <1>5, <1>6 DEF RowFits, Entry, EntryFits, Told
<1>11. ASSUME NEW c \in Logins, NEW n \in Nodes PROVE Spare(c, n)
  <2>1. Busy(run[c][n]) = {} /\ UnderWay(c, n) = {}
    BY <1>2, <1>4, RunnersFacts DEF Busy, UnderWay
  <2>2. Cardinality({}) = 0
    BY FS_EmptySet
  <2>3. Cardinality(Sent) \in Nat
    BY <1>8, SpareFinite
  <2>4. Spare(c, n) <=> Cardinality({}) + Cardinality({}) <= Cardinality(Sent)
    BY <2>1 DEF Spare
  <2> QED
    BY <2>2, <2>3, <2>4
<1> QED
  BY <1>8, <1>9, <1>10, <1>11 DEF IInv

LEMMA Invariant == Spec => []IInv
<1> QED
  BY InitIInv, NextKept, PTL DEF Spec

-----------------------------------------------------------------------------
(* What the invariant says of the properties. *)

\* The shapes of the rows, the nodes' jobs and their threads stay as the code
\* writes them (_start_local_bulk_login, _cluster_bulk_login_merge_results).
THEOREM TypeCorrect == Spec => []TypeOK
<1>1. ASSUME IInv PROVE TypeOK
  <2>1. Typed
    BY <1>1 DEF IInv
  <2>2. ASSUME NEW c \in Logins, NEW n \in Nodes
        PROVE  /\ job[c][n].exists => /\ job[c][n].status \in [Slots(n) -> Statuses]
                                      /\ job[c][n].running = ~job[c][n].done
               /\ job[c][n].captcha \in Captchas \cup {NoCaptcha}
               /\ \A r \in Runners : run[c][n][r].todo \subseteq Slots(n)
    <3> DEFINE j == job[c][n]
               q == run[c][n]
    <3>1. Shaped(n, j, q)
      BY <1>1 DEF IInv, Local
    <3> HIDE DEF j, q
    <3>2. j \in JobRecord
      BY <3>1 DEF Shaped
    <3>3. j.captcha \in Captchas \cup {NoCaptcha} /\ j.running \in BOOLEAN /\ j.done \in BOOLEAN
      BY <3>2 DEF JobRecord, Words
    <3>4. /\ j.exists => j.status \in [Slots(n) -> Statuses] /\ (j.running <=> ~j.done)
          /\ \A r \in Runners : q[r].todo \subseteq Slots(n)
      BY <3>1 DEF Shaped
    <3> QED
      BY <3>3, <3>4 DEF j, q
  <2>3. NodeTypeOK
    BY <2>1, <2>2 DEF NodeTypeOK, Typed
  <2>4. ASSUME NEW c \in Logins, NEW n \in Nodes
        PROVE  /\ Entry(c, n).job \in Logins \cup {0} /\ Entry(c, n).errors \in 0..3
               /\ Entry(c, n).error = (Entry(c, n).errors > 0)
    <3> DEFINE e == Entry(c, n)
    <3>1. e \in EntryRecord
      BY <2>1 DEF Typed, StateRecord, Entry
    <3>2. e.error <=> e.errors > 0
      BY <1>1 DEF IInv, RowFits, EntryFits
    <3> HIDE DEF e
    <3>3. e.job \in Logins \cup {0} /\ e.error \in BOOLEAN /\ e.errors \in 0..3
      BY <3>1 DEF EntryRecord
    <3> QED
      BY <3>2, <3>3 DEF e
  <2> QED
    BY <2>1, <2>3, <2>4 DEF TypeOK, Typed, Messages, Words
<1> QED
  BY <1>1, Invariant, PTL

LEMMA SubmittersApart ==
  ASSUME IInv, NEW c \in Logins, NEW n \in Nodes
  PROVE  OneSubmitter(c, n)
<1> DEFINE j == job[c][n]
           q == run[c][n]
           of(s) == {r \in Runners : q[r].pc = "submit" /\ q[r].slot = s}
<1>1. Shaped(n, j, q) /\ SubmitFits(n, j, q)
  BY DEF IInv, Local
<1> SUFFICES ASSUME NEW s \in Slots(n)
             PROVE  Cardinality(of(s)) = IF s \in WithStatus(c, n, "submitting") THEN 1 ELSE 0
  BY DEF OneSubmitter, At
<1>2. s \in WithStatus(c, n, "submitting") <=> j.exists /\ j.status[s] = "submitting"
  BY DEF WithStatus
<1> HIDE DEF j, q
<1>3. CASE j.exists /\ j.status[s] = "submitting"
  <2>1. PICK r \in Runners : q[r].pc = "submit" /\ q[r].slot = s
    BY <1>1, <1>3 DEF SubmitFits
  <2>2. of(s) = {r}
    BY <1>1, <2>1 DEF SubmitFits
  <2>3. Cardinality({r}) = 1
    BY FS_Singleton
  <2> QED
    BY <1>2, <1>3, <2>2, <2>3
<1>4. CASE ~(j.exists /\ j.status[s] = "submitting")
  <2>1. of(s) = {}
    BY <1>1, <1>4 DEF SubmitFits, Shaped
  <2>2. Cardinality({}) = 0
    BY FS_EmptySet
  <2> QED
    BY <1>2, <1>4, <2>1, <2>2
<1> QED
  BY <1>3, <1>4

LEMMA SettledIsDone ==
  ASSUME IInv, NEW c \in Logins, NEW n \in Nodes
  PROVE  SettledMeansDone(c, n)
<1> DEFINE j == job[c][n]
           q == run[c][n]
<1>1. Shaped(n, j, q) /\ Finishing(n, j, q)
  BY DEF IInv, Local
<1> SUFFICES ASSUME j.step1, WithStatus(c, n, "waiting") = {}, ~HasActive(c, n),
                    \A r \in Runners : q[r].pc \in {"none", "over"}, ~j.done
             PROVE  FALSE
  BY DEF SettledMeansDone
<1>2. j.exists /\ j.status \in [Slots(n) -> Statuses]
  BY <1>1 DEF Shaped
<1>3. \A s \in Slots(n) : j.status[s] \notin Active \cup {"waiting"}
  BY <1>2 DEF WithStatus, HasActive
<1> HIDE DEF j, q
<1>4. AllRest(n, j)
  BY <1>2, <1>3 DEF AllRest, Rest, Statuses
<1> QED
  BY <1>1, <1>2, <1>4 DEF Finishing, Finishes

\* The threads of a bulk login divide its work without gap or overlap, whatever
\* happens between the locks in which each sees job and slots
\* (_submit_bulk_login_slot, _finalize_bulk_login_job_if_ready).
THEOREM CaptchasHandled == Spec => []CaptchaHandling
<1>1. ASSUME IInv, NEW c \in Logins, NEW n \in Nodes PROVE CaptchaWatched(c, n)
  <2> DEFINE j == job[c][n]
             q == run[c][n]
  <2>1. Shaped(n, j, q) /\ Watched(n, j, q)
    BY <1>1 DEF IInv, Local
  <2> SUFFICES ASSUME j.captcha # NoCaptcha, WithStatus(c, n, "waiting") # {}
               PROVE  \E r \in Runners : q[r].pc \notin {"none", "last", "over"}
    BY DEF CaptchaWatched
  <2>2. j.exists /\ \E s \in Slots(n) : j.status[s] = "waiting"
    BY DEF WithStatus
  <2> HIDE DEF j, q
  <2> QED
    BY <2>1, <2>2 DEF Watched
<1>2. IInv => CaptchaHandling
  BY <1>1, SubmittersApart, SettledIsDone DEF CaptchaHandling
<1> QED
  BY <1>2, Invariant, PTL

\* A success shown for the whole cluster is one, although the answers are old
\* and some were lost (_cluster_bulk_login_payload).
THEOREM SuccessIsTrue == Spec => []ClusterSuccessIsTrue
<1>1. ASSUME IInv, NEW c \in Logins, state[c].saved, ShownSuccess(c), NEW n \in Nodes
      PROVE  session[n] = Slots(n) \/ job[Entry(c, n).job][n].stop
  <2>1. EntryFits(Entry(c, n), n, job, session[n])
    BY <1>1 DEF IInv, RowFits
  <2>2. ~Entry(c, n).error /\ ~Entry(c, n).last.failed /\ Entry(c, n).last.done
    BY <1>1 DEF ShownSuccess, ShownDone
  <2> QED
    BY <2>1, <2>2 DEF EntryFits, Told
<1>2. IInv => ClusterSuccessIsTrue
  BY <1>1 DEF ClusterSuccessIsTrue
<1> QED
  BY <1>2, Invariant, PTL

=============================================================================
