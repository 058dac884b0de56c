--------------------------- MODULE LocalJobsProofs ---------------------------
(***************************************************************************)
(* Proofs about LocalJobs.  Nearly everything is local to one start: its   *)
(* thread, its job, its rows and its helpers fit together (Fits), and no   *)
(* other start touches them.  Two facts relate several starts: whoever     *)
(* holds the dictionary of the lookups (OneLookup) and which job the slots *)
(* are entered under (SlotsKnown).                                         *)
(***************************************************************************)
EXTENDS LocalJobs, FiniteSetTheorems, WellFoundedInduction, TLAPS

USE LocalJobsAssumption

-----------------------------------------------------------------------------
(* Shapes.                                                                 *)

AllSlots == QuerySlots \cup {TransferSlot}
Kinds == Direct \cup {"close"}
JobKinds == {"none"} \cup Kinds
ThreadKinds == JobKinds \cup {"library"}
Pcs == {"idle", "scan", "begin", "item", "attempt", "query", "record", "died",
        "apply", "clean", "lose", "over"}
Ats == 0..Len(SlotOrder)
Places == {Out, Waiting} \cup Numbers
Values == {"none", "ok", "failed"}
Counts == 0..Items

JobRecord == [kind : JobKinds, running : BOOLEAN, success : BOOLEAN,
              stop : BOOLEAN, error : BOOLEAN, current : Counts]
ThreadRecord == [kind : ThreadKinds, pc : Pcs, slots : SUBSET AllSlots, at : Ats,
                 tried : SUBSET AllSlots, item : Nat, attempt : Nat, ok : BOOLEAN, late : Nat]
LibraryRecord == [running : BOOLEAN, success : BOOLEAN, shows : 0..Starts]
RowsOfJob == [Numbers -> Values]
PlacesOfJob == [QuerySlots -> Places]
EntriesOfKind == [AllSlots -> 0..Starts]

Typed ==
  /\ jobs \in [Threads -> JobRecord]
  /\ rows \in [Threads -> RowsOfJob]
  /\ library \in LibraryRecord
  /\ latest \in [Kinds -> EntriesOfKind]
  /\ cooling \in SUBSET QuerySlots
  /\ thread \in [Threads -> ThreadRecord]
  /\ helper \in [Threads -> PlacesOfJob]
  /\ closed \in SUBSET Numbers
  /\ overlapped \in SUBSET Threads

-----------------------------------------------------------------------------
(* One start by itself.                                                    *)

Settled(t) == {i \in Numbers : rows[t][i] # "none"}
InHand(t, i) == \E s \in QuerySlots : helper[t][s] = i

\* No job yet: nothing of it is written.
Blank(t) == /\ jobs[t] = NoJob
            /\ rows[t] = [i \in Numbers |-> "none"]
            /\ helper[t] = [s \in QuerySlots |-> Out]

\* A batch settles its barcodes in their order, and once a query has come
\* back after a stop the next check ends it.
BatchFits(t) ==
  /\ jobs[t].kind = "batch"
  /\ thread[t].pc \in {"begin", "item", "attempt", "query", "record", "died", "over"}
  /\ ~jobs[t].success
  /\ jobs[t].running <=> thread[t].pc # "over"
  /\ jobs[t].stop => jobs[t].running
  /\ thread[t].pc = "begin" => \A i \in Numbers : rows[t][i] = "none"
  /\ thread[t].pc \in {"item", "attempt", "query", "record"} =>
       /\ thread[t].item \in 1..(Items + 1)
       /\ \A i \in Numbers : rows[t][i] # "none" <=> i < thread[t].item
  /\ thread[t].pc \in {"attempt", "query", "record"} => thread[t].item <= Items
  /\ thread[t].attempt <= Retries + 1
  /\ thread[t].item <= Items + 1
  /\ thread[t].late <= 1
  /\ thread[t].late = 1 => /\ jobs[t].stop
                           /\ thread[t].pc \in {"attempt", "record", "item", "died"}

\* The helpers of a closing share its orders: the first thread[t].item have
\* left the queue, and each of them has a row or is in the hands of one.
QueueFits(t) ==
  /\ thread[t].item <= Items
  /\ \A s \in QuerySlots : helper[t][s] <= thread[t].item
  /\ \A r, s \in QuerySlots : r # s /\ helper[t][r] \in Numbers => helper[t][r] # helper[t][s]
  /\ \A i \in Numbers : rows[t][i] = "none" <=> i > thread[t].item \/ InHand(t, i)
  /\ thread[t].item = Items \/ \E s \in QuerySlots : helper[t][s] # Out
  /\ jobs[t].current = Cardinality(Settled(t))

CloseFits(t) ==
  /\ thread[t].pc \in {"scan", "begin", "over"}
  /\ thread[t].slots \subseteq QuerySlots
  /\ thread[t].attempt = 0
  /\ thread[t].pc # "begin" => thread[t].item = 0
  /\ thread[t].pc = "begin" => /\ jobs[t].kind = "close" /\ jobs[t].running /\ ~jobs[t].success
                               /\ QueueFits(t)
  /\ thread[t].pc = "over" => Blank(t) \/ (jobs[t].kind = "close" /\ ~jobs[t].running)
  /\ ~jobs[t].stop
  /\ jobs[t].success => \A i \in Numbers : rows[t][i] = "ok"
  /\ thread[t].pc = "over" /\ jobs[t].kind = "close" /\ ~jobs[t].error =>
       \A i \in Numbers : rows[t][i] # "none"
  /\ \A i \in Numbers : rows[t][i] = "ok" => i \in closed

TransferFits(t) ==
  /\ thread[t].pc \in {"begin", "apply", "over"}
  /\ jobs[t].kind = "transfer" /\ jobs[t].current = 0 /\ ~jobs[t].stop
  /\ jobs[t].running <=> thread[t].pc = "begin"
  /\ thread[t].pc = "begin" => ~jobs[t].success
  /\ thread[t].pc = "apply" => jobs[t].success
  /\ thread[t].item = 0 /\ thread[t].attempt = 0

SummaryFits(t) ==
  /\ thread[t].pc \in {"begin", "over"}
  /\ jobs[t].kind = "summary" /\ jobs[t].current = 0 /\ ~jobs[t].stop
  /\ jobs[t].running <=> thread[t].pc = "begin"
  /\ thread[t].pc = "begin" => ~jobs[t].success
  /\ thread[t].item = 0 /\ thread[t].attempt = 0

LibraryFits(t) ==
  /\ thread[t].pc \in {"scan", "begin", "clean", "lose", "over"}
  /\ thread[t].slots \subseteq QuerySlots
  /\ thread[t].item = 0
  /\ thread[t].attempt <= MaxAttempts
  /\ thread[t].pc \in {"begin", "clean", "lose"} => thread[t].attempt > 0

Fits(t) ==
  /\ thread[t].kind = "none" => thread[t] = Idle
  /\ thread[t].kind \in {"none", "library"} \/ thread[t].pc = "scan" => Blank(t)
  /\ thread[t].kind = "batch" => BatchFits(t)
  /\ thread[t].kind = "close" => CloseFits(t)
  /\ thread[t].kind = "transfer" => TransferFits(t)
  /\ thread[t].kind = "summary" => SummaryFits(t)
  /\ thread[t].kind = "library" => LibraryFits(t)
  /\ thread[t].kind # "close" => helper[t] = [s \in QuerySlots |-> Out]
  /\ thread[t].kind # "batch" => thread[t].late = 0

-----------------------------------------------------------------------------
(* The starts together.                                                    *)

Relapsed == \E v \in Threads : thread[v].kind = "library" /\ thread[v].ok

\* Until a lookup goes on after its success, the flag of the one dictionary
\* and whom it shows say which lookup works.
OneLookup ==
  ~Relapsed => \A t \in Threads : LookingUp(t) => library.running /\ library.shows = t

\* A batch or a closing that runs and uses slot s.
Uses(t, s) == jobs[t].running /\ jobs[t].kind \in {"batch", "close"} /\ s \in thread[t].slots

\* Until another start came across the selection of a closing, a slot is
\* entered under the job that uses it, and what a closing has selected is free.
SlotsKnown ==
  overlapped = {} =>
    \A u \in Threads, s \in AllSlots : Uses(u, s) =>
        /\ latest[jobs[u].kind][s] = u
        /\ \A t \in Threads : At(t, "close", "scan") => s \notin thread[t].slots

IInv ==
  /\ Typed
  /\ \A t \in Threads : Fits(t)
  /\ OneLookup
  /\ SlotsKnown

-----------------------------------------------------------------------------
(* Basic facts.                                                            *)

\* Among the slots a selection picked there is one it met first.
LEMMA FirstPicked ==
  ASSUME NEW slots \in SUBSET QuerySlots, slots # {}
  PROVE  First(slots) \in slots
<1> DEFINE n == Len(SlotOrder)
           Back == {k \in Nat : k < n /\ SlotOrder[n - k] \in slots}
<1>1. SlotOrder \in Seq(QuerySlots) /\ n \in Nat /\ DOMAIN SlotOrder = 1..n
  BY DEF QuerySlots
<1>2. PICK i \in 1..n : SlotOrder[i] \in slots
  BY <1>1 DEF QuerySlots, Range
<1>3. n - i \in Back
  <2>1. n - i \in Nat /\ n - i < n /\ n - (n - i) = i
    BY <1>1
  <2> QED
    BY <1>2, <2>1
<1>4. Back \subseteq Nat /\ Back # {}
  BY <1>3
<1>5. PICK k \in Back : \A m \in Back : <<m, k>> \notin OpToRel(<, Nat)
  BY <1>4, NatLessThanWellFounded, WFMin
<1>6. \A m \in Back : k <= m
  <2>1. \A m \in Back : ~(m < k)
    BY <1>4, <1>5 DEF OpToRel
  <2> QED
    BY <1>4, <2>1
<1>7. n - k \in 1..n /\ SlotOrder[n - k] \in slots
  BY <1>1
<1>8. ASSUME NEW j \in 1..n, SlotOrder[j] \in slots PROVE j <= n - k
  <2>1. n - j \in Nat /\ n - j < n /\ n - (n - j) = j
    BY <1>1
  <2>2. n - j \in Back
    BY <1>8, <2>1
  <2> QED
    BY <1>1, <1>4, <1>6, <2>2
<1> QED
  BY <1>1, <1>7, <1>8 DEF First

\* The sets the records range over hold what the actions write.
LEMMA Words ==
  /\ Pcs = {"idle", "scan", "begin", "item", "attempt", "query", "record", "died",
            "apply", "clean", "lose", "over"}
  /\ "none" \in ThreadKinds /\ "library" \in ThreadKinds
  /\ \A k \in Kinds : k \in ThreadKinds /\ k \in JobKinds
  /\ Kinds = {"batch", "summary", "transfer", "close"}
  /\ "none" \in JobKinds
  /\ 0 \in Ats /\ Len(SlotOrder) \in Ats /\ Ats \subseteq Nat
  /\ Counts = 0..Items /\ 0 \in Counts
  /\ QuerySlots \subseteq AllSlots /\ TransferSlot \in AllSlots /\ {} \subseteq AllSlots
BY DEF Pcs, ThreadKinds, JobKinds, Kinds, Direct, Ats, Counts, AllSlots, QuerySlots

LEMMA NothingTyped ==
  /\ NoJob \in JobRecord
  /\ Idle \in ThreadRecord
  /\ [i \in Numbers |-> "none"] \in RowsOfJob
  /\ [s \in QuerySlots |-> Out] \in PlacesOfJob
<1>1. NoJob \in JobRecord
  BY Words DEF NoJob, JobRecord
<1>2. Idle \in ThreadRecord
  BY Words DEF Idle, ThreadRecord
<1>3. [i \in Numbers |-> "none"] \in RowsOfJob
  BY DEF RowsOfJob, Values
<1>4. [s \in QuerySlots |-> Out] \in PlacesOfJob
  BY DEF PlacesOfJob, Places
<1> QED
  BY <1>1, <1>2, <1>3, <1>4

LEMMA InitIInv == Init => IInv
<1> SUFFICES ASSUME Init PROVE IInv
  OBVIOUS
<1>1. Typed
  <2>1. latest \in [Kinds -> EntriesOfKind]
    BY DEF Init, Kinds, EntriesOfKind, AllSlots, NoThread
  <2>2. library \in LibraryRecord
    BY DEF Init, LibraryRecord, NoThread
  <2> QED
    BY <2>1, <2>2, NothingTyped DEF Init, Typed
<1>2. ASSUME NEW t \in Threads PROVE Fits(t)
  <2>1. thread[t] = Idle /\ thread[t].kind = "none" /\ thread[t].late = 0 /\ Blank(t)
    BY DEF Init, Idle, Blank
  <2> QED
    BY <2>1 DEF Fits, Blank
<1>3. OneLookup
  BY DEF Init, OneLookup, LookingUp, Idle
<1>4. SlotsKnown
  BY DEF Init, SlotsKnown, Uses, NoJob
<1> QED
  BY <1>1, <1>2, <1>3, <1>4 DEF IInv

-----------------------------------------------------------------------------
(* Steps of one start.                                                     *)

\* Only t's own entries change, and the CRM forgets nothing.
Alone(t) ==
  /\ \A u \in Threads \ {t} : /\ thread'[u] = thread[u] /\ jobs'[u] = jobs[u]
                              /\ rows'[u] = rows[u] /\ helper'[u] = helper[u]
  /\ closed \subseteq closed'

LEMMA OthersFit ==
  ASSUME NEW t \in Threads, Alone(t), NEW u \in Threads, u # t, Fits(u)
  PROVE  Fits(u)'
<1> USE DEF Fits
<1>1. /\ thread'[u] = thread[u] /\ jobs'[u] = jobs[u] /\ rows'[u] = rows[u] /\ helper'[u] = helper[u]
      /\ closed \subseteq closed'
  BY DEF Alone
<1>2. Blank(u) <=> Blank(u)'
  BY <1>1 DEF Blank
<1>3. BatchFits(u) => BatchFits(u)'
  BY <1>1 DEF BatchFits
<1>4. QueueFits(u) => QueueFits(u)'
  BY <1>1 DEF QueueFits, InHand, Settled
<1>5. CloseFits(u) => CloseFits(u)'
  BY <1>1, <1>2, <1>4 DEF CloseFits
<1>6. TransferFits(u) => TransferFits(u)'
  BY <1>1 DEF TransferFits
<1>7. SummaryFits(u) => SummaryFits(u)'
  BY <1>1 DEF SummaryFits
<1>8. LibraryFits(u) => LibraryFits(u)'
  BY <1>1 DEF LibraryFits
<1> QED
  BY <1>1, <1>2, <1>3, <1>5, <1>6, <1>7, <1>8

\* What the writes of one record leave.
OthersKept(f, g, t) == \A u \in Threads \ {t} : g[u] = f[u]

LEMMA ThreadWritten ==
  ASSUME Typed, NEW t \in Threads, NEW r \in ThreadRecord, thread' = [thread EXCEPT ![t] = r]
  PROVE  /\ thread' \in [Threads -> ThreadRecord] /\ thread'[t] = r
         /\ OthersKept(thread, thread', t)
BY DEF Typed, OthersKept

LEMMA JobWritten ==
  ASSUME Typed, NEW t \in Threads, NEW r \in JobRecord, jobs' = [jobs EXCEPT ![t] = r]
  PROVE  jobs' \in [Threads -> JobRecord] /\ jobs'[t] = r /\ OthersKept(jobs, jobs', t)
BY DEF Typed, OthersKept

LEMMA Went ==
  ASSUME Typed, NEW t \in Threads, NEW pc \in Pcs, Goto(t, pc)
  PROVE  /\ thread' \in [Threads -> ThreadRecord]
         /\ OthersKept(thread, thread', t)
         /\ thread'[t].pc = pc
         /\ thread'[t].kind = thread[t].kind /\ thread'[t].slots = thread[t].slots
         /\ thread'[t].at = thread[t].at /\ thread'[t].item = thread[t].item
         /\ thread'[t].attempt = thread[t].attempt /\ thread'[t].ok = thread[t].ok
         /\ thread'[t].late = thread[t].late
<1> DEFINE r == [thread[t] EXCEPT !.pc = pc]
<1>1. thread[t] \in ThreadRecord /\ thread \in [Threads -> ThreadRecord]
  BY DEF Typed
<1>2. thread' = [thread EXCEPT ![t] = r]
  BY <1>1 DEF Goto
<1>3. /\ r \in ThreadRecord
      /\ r.pc = pc /\ r.kind = thread[t].kind /\ r.slots = thread[t].slots
      /\ r.at = thread[t].at /\ r.item = thread[t].item
      /\ r.attempt = thread[t].attempt /\ r.ok = thread[t].ok /\ r.late = thread[t].late
  BY <1>1 DEF ThreadRecord
<1> HIDE DEF r
<1> QED
  BY <1>2, <1>3, ThreadWritten

LEMMA Returned ==
  ASSUME Typed, NEW t \in Threads, Return(t)
  PROVE  /\ thread' \in [Threads -> ThreadRecord]
         /\ OthersKept(thread, thread', t)
         /\ thread'[t].pc = "over" /\ thread'[t].kind = thread[t].kind
         /\ thread'[t].slots = {} /\ thread'[t].at = 0 /\ thread'[t].item = 0
         /\ thread'[t].attempt = 0 /\ thread'[t].ok = thread[t].ok /\ thread'[t].late = 0
<1> DEFINE r == [Idle EXCEPT !.kind = thread[t].kind, !.pc = "over", !.ok = thread[t].ok]
<1>1. thread[t] \in ThreadRecord /\ thread \in [Threads -> ThreadRecord]
  BY DEF Typed
<1>2. thread' = [thread EXCEPT ![t] = r]
  BY <1>1 DEF Return
<1>3. thread[t].kind \in ThreadKinds /\ thread[t].ok \in BOOLEAN
  BY <1>1 DEF ThreadRecord
<1>4. /\ r \in ThreadRecord
      /\ r.pc = "over" /\ r.kind = thread[t].kind /\ r.slots = {} /\ r.at = 0 /\ r.item = 0
      /\ r.attempt = 0 /\ r.ok = thread[t].ok /\ r.late = 0
  BY <1>3, Words DEF ThreadRecord, Idle
<1> HIDE DEF r
<1> QED
  BY <1>2, <1>4, ThreadWritten

LEMMA Ended ==
  ASSUME Typed, NEW t \in Threads, NEW ok \in BOOLEAN, NEW err \in BOOLEAN, EndJob(t, ok, err)
  PROVE  /\ jobs' \in [Threads -> JobRecord]
         /\ OthersKept(jobs, jobs', t)
         /\ jobs'[t].kind = jobs[t].kind /\ jobs'[t].current = jobs[t].current
         /\ jobs'[t].running = FALSE /\ jobs'[t].stop = FALSE
         /\ jobs'[t].success = ok /\ jobs'[t].error = err
<1> DEFINE r == [jobs[t] EXCEPT !.running = FALSE, !.stop = FALSE, !.success = ok, !.error = err]
<1>1. jobs[t] \in JobRecord /\ jobs \in [Threads -> JobRecord]
  BY DEF Typed
<1>2. jobs' = [jobs EXCEPT ![t] = r]
  BY <1>1 DEF EndJob
<1>3. /\ r \in JobRecord
      /\ r.kind = jobs[t].kind /\ r.current = jobs[t].current
      /\ r.running = FALSE /\ r.stop = FALSE /\ r.success = ok /\ r.error = err
  BY <1>1 DEF JobRecord
<1> HIDE DEF r
<1> QED
  BY <1>2, <1>3, JobWritten

LEMMA Counting ==
  /\ Cardinality(Numbers) = Items
  /\ \A S \in SUBSET Numbers : IsFiniteSet(S) /\ Cardinality(S) \in 0..Items
  /\ \A S \in SUBSET Numbers, i \in Numbers :
        i \notin S => /\ Cardinality(S) < Items
                      /\ Cardinality(S \cup {i}) = Cardinality(S) + 1
<1>1. IsFiniteSet(Numbers) /\ Cardinality(Numbers) = Items
  BY FS_Interval DEF Numbers
<1>2. ASSUME NEW S \in SUBSET Numbers PROVE IsFiniteSet(S) /\ Cardinality(S) \in 0..Items
  BY <1>1, FS_Subset, FS_CardinalityType
<1>3. ASSUME NEW S \in SUBSET Numbers, NEW i \in Numbers, i \notin S
      PROVE  /\ Cardinality(S) < Items
             /\ Cardinality(S \cup {i}) = Cardinality(S) + 1
  <2>1. Cardinality(S \cup {i}) = Cardinality(S) + 1
    BY <1>2, <1>3, FS_AddElement
  <2>2. S \cup {i} \in SUBSET Numbers
    OBVIOUS
  <2> QED
    BY <1>2, <2>1, <2>2
<1> QED
  BY <1>1, <1>2, <1>3

\* What a page sees of a job, and how a step may change it: see JobLife.
Phase(t) == IF jobs[t].kind = "none" THEN "absent" ELSE IF jobs[t].running THEN "running" ELSE "ended"
Count(t) == IF jobs[t].kind = "batch" THEN Cardinality(Settled(t)) ELSE jobs[t].current

Lives(t) ==
  \/ Phase(t)' = Phase(t) /\ Count(t)' = Count(t) /\ jobs'[t].success = jobs[t].success
  \/ /\ Phase(t) = "absent" /\ Phase(t)' = "running"
     /\ Count(t)' = Count(t) /\ jobs'[t].success = jobs[t].success
  \/ /\ Phase(t) = "running" /\ Phase(t)' = "running"
     /\ Count(t) < Items /\ Count(t)' = Count(t) + 1 /\ jobs'[t].success = jobs[t].success
  \/ /\ Phase(t) = "running" /\ Phase(t)' = "ended"
     /\ Count(t)' \in {Count(t), Items} /\ jobs'[t].success \in BOOLEAN
  \/ /\ Phase(t) = "ended" /\ Phase(t)' = "ended" /\ Count(t)' = Count(t)
     /\ jobs[t].success = TRUE /\ jobs'[t].success = FALSE

\* Neither the entries of the slots nor who selects or uses them changes,
\* but that a job may end.
SlotsQuiet(t) ==
  /\ UNCHANGED <<latest, overlapped>>
  /\ jobs'[t].kind = jobs[t].kind
  /\ jobs'[t].running => jobs[t].running /\ thread'[t].slots = thread[t].slots
  /\ ~At(t, "close", "scan")'

\* Nobody begins to look anything up, and who has relapsed still has.
LookupsQuiet(t) ==
  /\ library' = library
  /\ LookingUp(t)' => LookingUp(t)
  /\ thread[t].kind = "library" /\ thread[t].ok => thread'[t].kind = "library" /\ thread'[t].ok

Proper(t) == Typed' /\ Alone(t) /\ Fits(t)'
Quiet(t) == SlotsQuiet(t) /\ LookupsQuiet(t)

-----------------------------------------------------------------------------
(* A batch.                                                                *)

\* What every step of a batch has in common.
LEMMA BatchProper ==
  ASSUME Typed, NEW t \in Threads, Fits(t), thread[t].kind = "batch",
         thread' \in [Threads -> ThreadRecord], OthersKept(thread, thread', t), thread'[t].kind = "batch",
         jobs' \in [Threads -> JobRecord], OthersKept(jobs, jobs', t), jobs'[t].kind = jobs[t].kind,
         rows' \in [Threads -> RowsOfJob], OthersKept(rows, rows', t),
         jobs'[t].running => jobs[t].running /\ thread'[t].slots = thread[t].slots,
         UNCHANGED <<library, latest, cooling, helper, closed, overlapped>>,
         BatchFits(t)'
  PROVE  Proper(t) /\ Quiet(t)
<1>1. Typed'
  BY DEF Typed
<1>2. Alone(t)
  BY DEF Alone, OthersKept
<1>3. thread'[t].pc # "scan"
  BY DEF BatchFits
<1>4. Fits(t)'
  BY <1>3 DEF Fits
<1>5. Quiet(t)
  BY DEF Quiet, SlotsQuiet, LookupsQuiet, LookingUp, At
<1> QED
  BY <1>1, <1>2, <1>4, <1>5 DEF Proper

\* A batch that goes on, its rows and whether it runs unchanged.
LEMMA BatchLives ==
  ASSUME NEW t \in Threads, rows'[t] = rows[t], jobs'[t].kind = "batch", jobs[t].kind = "batch",
         jobs'[t].running = jobs[t].running, jobs'[t].success = jobs[t].success
  PROVE  Lives(t)
BY DEF Lives, Phase, Count, Settled

LEMMA BatchEnds ==
  ASSUME Typed, NEW t \in Threads, Fits(t), thread[t].kind = "batch", thread[t].pc # "over",
         EndBatch(t), UNCHANGED <<library, latest, cooling, helper, closed, overlapped>>
  PROVE  Proper(t) /\ Quiet(t) /\ Lives(t)
<1>1. BatchFits(t) /\ jobs[t].kind = "batch" /\ jobs[t].running
  BY DEF Fits, BatchFits
<1>2. /\ EndJob(t, FALSE, FALSE) /\ Return(t)
      /\ rows' = rows /\ rows' \in [Threads -> RowsOfJob] /\ OthersKept(rows, rows', t)
  BY DEF EndBatch, Typed, OthersKept
<1>3. /\ thread' \in [Threads -> ThreadRecord] /\ OthersKept(thread, thread', t)
      /\ thread'[t].pc = "over" /\ thread'[t].kind = "batch"
      /\ thread'[t].item = 0 /\ thread'[t].attempt = 0 /\ thread'[t].late = 0
  BY <1>2, Returned
<1>4. /\ jobs' \in [Threads -> JobRecord] /\ OthersKept(jobs, jobs', t)
      /\ jobs'[t].kind = "batch" /\ jobs'[t].running = FALSE /\ ~jobs'[t].stop /\ jobs'[t].success = FALSE
  BY <1>1, <1>2, Ended
<1>5. BatchFits(t)'
  BY <1>3, <1>4 DEF BatchFits
<1>6. Phase(t) = "running" /\ Phase(t)' = "ended" /\ Count(t)' = Count(t)
  BY <1>1, <1>2, <1>4 DEF Phase, Count, Settled
<1> QED
  BY <1>1, <1>2, <1>3, <1>4, <1>5, <1>6, BatchProper DEF Lives

\* A step of a batch that leaves its job and its rows alone.
LEMMA BatchGoesOn ==
  ASSUME Typed, NEW t \in Threads, Fits(t), thread[t].kind = "batch",
         thread' \in [Threads -> ThreadRecord], OthersKept(thread, thread', t),
         thread'[t].kind = "batch", thread'[t].slots = thread[t].slots,
         UNCHANGED <<jobs, rows, library, latest, cooling, helper, closed, overlapped>>,
         BatchFits(t)'
  PROVE  Proper(t) /\ Quiet(t) /\ Lives(t)
<1>1. /\ jobs' \in [Threads -> JobRecord] /\ OthersKept(jobs, jobs', t)
      /\ rows' \in [Threads -> RowsOfJob] /\ OthersKept(rows, rows', t)
      /\ jobs'[t] = jobs[t] /\ rows'[t] = rows[t]
  BY DEF Typed, OthersKept
<1>2. jobs[t].kind = "batch"
  BY DEF Fits, BatchFits
<1> QED
  BY <1>1, <1>2, BatchProper, BatchLives

LEMMA BatchDies ==
  ASSUME Typed, NEW t \in Threads, Fits(t), thread[t].kind = "batch",
         thread[t].pc \in {"begin", "query", "record"}, Die(t),
         UNCHANGED <<library, latest, cooling, helper, closed, overlapped>>
  PROVE  Proper(t) /\ Quiet(t) /\ Lives(t)
<1>1. BatchFits(t) /\ Goto(t, "died") /\ UNCHANGED <<jobs, rows>> /\ "died" \in Pcs
  BY Words DEF Fits, Die
<1>2. /\ thread' \in [Threads -> ThreadRecord] /\ OthersKept(thread, thread', t)
      /\ thread'[t].kind = "batch" /\ thread'[t].slots = thread[t].slots
      /\ thread'[t].pc = "died" /\ thread'[t].item = thread[t].item
      /\ thread'[t].attempt = thread[t].attempt /\ thread'[t].late = thread[t].late
  BY <1>1, Went
<1>3. BatchFits(t)'
  BY <1>1, <1>2 DEF BatchFits
<1> QED
  BY <1>1, <1>2, <1>3, BatchGoesOn

LEMMA CheckLoginProper ==
  ASSUME Typed, NEW t \in Threads, Fits(t), CheckLogin(t)
  PROVE  Proper(t) /\ Quiet(t) /\ Lives(t)
<1>1. /\ thread[t] \in ThreadRecord /\ jobs[t] \in JobRecord
      /\ thread \in [Threads -> ThreadRecord] /\ jobs \in [Threads -> JobRecord]
  BY DEF Typed
<1>2. /\ thread[t].kind = "batch" /\ thread[t].pc = "begin" /\ BatchFits(t)
      /\ UNCHANGED <<library, latest, cooling, helper, closed, overlapped>>
  BY DEF CheckLogin, At, Fits
<1>3. jobs[t].kind = "batch" /\ jobs[t].running /\ \A i \in Numbers : rows[t][i] = "none"
  BY <1>2 DEF BatchFits
<1>4. thread[t].late = 0
  BY <1>1, <1>2 DEF BatchFits, ThreadRecord
<1> DEFINE Goal == Proper(t) /\ Quiet(t) /\ Lives(t)
<1>5. ASSUME thread' = [thread EXCEPT ![t].pc = "item", ![t].item = 1], UNCHANGED <<jobs, rows>>
      PROVE  Goal
  <2> DEFINE r == [thread[t] EXCEPT !.pc = "item", !.item = 1]
  <2>1. thread' = [thread EXCEPT ![t] = r]
    BY <1>1, <1>5
  <2>2. /\ r \in ThreadRecord /\ r.pc = "item" /\ r.item = 1 /\ r.kind = "batch"
        /\ r.attempt = thread[t].attempt /\ r.late = thread[t].late /\ r.slots = thread[t].slots
    BY <1>1, <1>2, Words DEF ThreadRecord
  <2> HIDE DEF r
  <2>3. thread' \in [Threads -> ThreadRecord] /\ thread'[t] = r /\ OthersKept(thread, thread', t)
    BY <2>1, <2>2, ThreadWritten
  <2>4. BatchFits(t)'
    BY <1>2, <1>3, <1>4, <1>5, <2>2, <2>3 DEF BatchFits, Numbers
  <2> QED
    BY <1>2, <1>5, <2>2, <2>3, <2>4, BatchGoesOn
<1>6. ASSUME EndJob(t, FALSE, TRUE), rows' = [rows EXCEPT ![t] = [i \in Numbers |-> "failed"]], Return(t)
      PROVE  Goal
  <2>1. /\ rows' \in [Threads -> RowsOfJob] /\ OthersKept(rows, rows', t)
        /\ \A i \in Numbers : rows'[t][i] = "failed"
    BY <1>6 DEF Typed, RowsOfJob, Values, OthersKept
  <2>2. /\ thread' \in [Threads -> ThreadRecord] /\ OthersKept(thread, thread', t)
        /\ thread'[t].pc = "over" /\ thread'[t].kind = "batch"
        /\ thread'[t].item = 0 /\ thread'[t].attempt = 0 /\ thread'[t].late = 0
    BY <1>2, <1>6, Returned
  <2>3. /\ jobs' \in [Threads -> JobRecord] /\ OthersKept(jobs, jobs', t)
        /\ jobs'[t].kind = "batch" /\ jobs'[t].running = FALSE /\ ~jobs'[t].stop /\ jobs'[t].success = FALSE
    BY <1>3, <1>6, Ended
  <2>4. BatchFits(t)'
    BY <2>2, <2>3 DEF BatchFits
  <2>5. Settled(t)' = Numbers
    BY <2>1 DEF Settled
  <2>6. Phase(t) = "running" /\ Phase(t)' = "ended" /\ Count(t)' = Items
    BY <1>3, <2>3, <2>5, Counting DEF Phase, Count
  <2> QED
    BY <1>2, <1>3, <2>1, <2>2, <2>3, <2>4, <2>6, BatchProper DEF Lives
<1>7. ASSUME Die(t) PROVE Goal
  BY <1>2, <1>7, BatchDies
<1> QED
  BY <1>5, <1>6, <1>7 DEF CheckLogin

LEMMA TakeItemProper ==
  ASSUME Typed, NEW t \in Threads, Fits(t), TakeItem(t)
  PROVE  Proper(t) /\ Quiet(t) /\ Lives(t)
<1>1. /\ thread[t] \in ThreadRecord /\ jobs[t] \in JobRecord
      /\ thread \in [Threads -> ThreadRecord] /\ jobs \in [Threads -> JobRecord]
  BY DEF Typed
<1>2. /\ thread[t].kind = "batch" /\ thread[t].pc = "item" /\ BatchFits(t) /\ thread[t].item <= Items
      /\ UNCHANGED <<library, latest, cooling, helper, closed, overlapped>>
  BY DEF TakeItem, At, Fits
<1>3. CASE jobs[t].stop
  BY <1>2, <1>3, BatchEnds DEF TakeItem
<1>4. CASE ~jobs[t].stop
  <2> DEFINE r == [thread[t] EXCEPT !.pc = "attempt", !.attempt = 1]
             j == [jobs[t] EXCEPT !.current = thread[t].item]
  <2>1. thread' = [thread EXCEPT ![t] = r] /\ jobs' = [jobs EXCEPT ![t] = j] /\ UNCHANGED rows
    BY <1>1, <1>4 DEF TakeItem
  <2>2. /\ r \in ThreadRecord /\ r.pc = "attempt" /\ r.item = thread[t].item /\ r.kind = "batch"
        /\ r.attempt = 1 /\ r.late = thread[t].late /\ r.slots = thread[t].slots
    BY <1>1, <1>2, Words DEF ThreadRecord
  <2>3. thread[t].item \in Counts
    BY <1>1, <1>2, Words DEF ThreadRecord
  <2>4. /\ j \in JobRecord /\ j.kind = jobs[t].kind /\ j.running = jobs[t].running
        /\ j.stop = jobs[t].stop /\ j.success = jobs[t].success
    BY <1>1, <2>3 DEF JobRecord
  <2> HIDE DEF r, j
  <2>5. thread' \in [Threads -> ThreadRecord] /\ thread'[t] = r /\ OthersKept(thread, thread', t)
    BY <2>1, <2>2, ThreadWritten
  <2>6. jobs' \in [Threads -> JobRecord] /\ jobs'[t] = j /\ OthersKept(jobs, jobs', t)
    BY <2>1, <2>4, JobWritten
  <2>7. rows' \in [Threads -> RowsOfJob] /\ rows'[t] = rows[t] /\ OthersKept(rows, rows', t)
    BY <2>1 DEF Typed, OthersKept
  <2>8. jobs[t].kind = "batch"
    BY <1>2 DEF BatchFits
  <2>9. BatchFits(t)'
    BY <1>2, <1>4, <2>2, <2>4, <2>5, <2>6, <2>7 DEF BatchFits
  <2> QED
    BY <1>2, <2>2, <2>4, <2>5, <2>6, <2>7, <2>8, <2>9, BatchProper, BatchLives
<1> QED
  BY <1>3, <1>4

LEMMA BeforeAttemptProper ==
  ASSUME Typed, NEW t \in Threads, Fits(t), BeforeAttempt(t)
  PROVE  Proper(t) /\ Quiet(t) /\ Lives(t)
<1>1. /\ thread[t].kind = "batch" /\ thread[t].pc = "attempt" /\ BatchFits(t) /\ thread[t] \in ThreadRecord
      /\ UNCHANGED <<library, latest, cooling, helper, closed, overlapped>>
  BY DEF BeforeAttempt, At, Fits, Typed
<1>2. CASE jobs[t].stop
  BY <1>1, <1>2, BatchEnds DEF BeforeAttempt
<1>3. CASE ~jobs[t].stop
  <2>1. Goto(t, "query") /\ UNCHANGED <<jobs, rows>> /\ "query" \in Pcs
    BY <1>3, Words DEF BeforeAttempt
  <2>2. /\ thread' \in [Threads -> ThreadRecord] /\ OthersKept(thread, thread', t)
        /\ thread'[t].kind = "batch" /\ thread'[t].slots = thread[t].slots
        /\ thread'[t].pc = "query" /\ thread'[t].item = thread[t].item
        /\ thread'[t].attempt = thread[t].attempt /\ thread'[t].late = thread[t].late
    BY <1>1, <2>1, Went
  <2>3. thread[t].late = 0
    BY SMTT(30), <1>1, <1>3 DEF BatchFits, ThreadRecord
  <2>4. BatchFits(t)'
    BY <1>1, <2>1, <2>2, <2>3 DEF BatchFits
  <2> QED
    BY <1>1, <2>1, <2>2, <2>4, BatchGoesOn
<1> QED
  BY <1>2, <1>3

LEMMA QueryProper ==
  ASSUME Typed, NEW t \in Threads, Fits(t), Query(t)
  PROVE  Proper(t) /\ Quiet(t) /\ Lives(t)
<1>1. /\ thread[t].kind = "batch" /\ thread[t].pc = "query" /\ BatchFits(t) /\ thread[t] \in ThreadRecord
      /\ UNCHANGED <<jobs, rows, library, latest, cooling, helper, closed, overlapped>>
      /\ thread \in [Threads -> ThreadRecord]
  BY DEF Query, At, Fits, Typed
<1>2. CASE Goto(t, "died")
  BY <1>1, <1>2, BatchDies DEF Die
<1>3. ASSUME NEW ok \in BOOLEAN,
             LET again == ~ok /\ thread[t].attempt <= Retries IN
             thread' = [thread EXCEPT ![t].ok = ok,
                                      ![t].pc = IF again THEN "attempt" ELSE "record",
                                      ![t].attempt = IF again THEN @ + 1 ELSE @,
                                      ![t].late = IF jobs[t].stop THEN @ + 1 ELSE @]
      PROVE  Proper(t) /\ Quiet(t) /\ Lives(t)
  <2> DEFINE again == ~ok /\ thread[t].attempt <= Retries
             pc == IF again THEN "attempt" ELSE "record"
             attempt == IF again THEN thread[t].attempt + 1 ELSE thread[t].attempt
             late == IF jobs[t].stop THEN thread[t].late + 1 ELSE thread[t].late
             r == [thread[t] EXCEPT !.ok = ok, !.pc = pc, !.attempt = attempt, !.late = late]
  <2>1. thread' = [thread EXCEPT ![t] = r]
    BY <1>1, <1>3
  <2>2. thread[t].attempt \in Nat /\ thread[t].late = 0
    BY <1>1 DEF ThreadRecord, BatchFits
  <2>3. pc \in {"attempt", "record"} /\ pc \in Pcs
    BY Words
  <2>4. attempt \in Nat /\ attempt <= Retries + 1
    BY <1>1, <2>2 DEF BatchFits
  <2>5. late \in Nat /\ late <= 1 /\ (late = 1 => jobs[t].stop)
    BY <2>2
  <2> HIDE DEF pc, attempt, late
  <2>6. /\ r \in ThreadRecord /\ r.pc = pc /\ r.item = thread[t].item /\ r.kind = "batch"
        /\ r.attempt = attempt /\ r.late = late /\ r.slots = thread[t].slots
    BY <1>1, <2>3, <2>4, <2>5 DEF ThreadRecord
  <2> HIDE DEF r
  <2>7. thread' \in [Threads -> ThreadRecord] /\ thread'[t] = r /\ OthersKept(thread, thread', t)
    BY <2>1, <2>6, ThreadWritten
  <2>8. BatchFits(t)'
    BY <1>1, <2>3, <2>4, <2>5, <2>6, <2>7 DEF BatchFits
  <2> QED
    BY <1>1, <2>6, <2>7, <2>8, BatchGoesOn
<1> QED
  BY ZenonT(40), <1>2, <1>3 DEF Query

LEMMA RecordProper ==
  ASSUME Typed, NEW t \in Threads, Fits(t), Record(t)
  PROVE  Proper(t) /\ Quiet(t) /\ Lives(t)
<1> DEFINE i == thread[t].item
           v == IF thread[t].ok THEN "ok" ELSE "failed"
<1>1. /\ thread[t].kind = "batch" /\ thread[t].pc = "record" /\ BatchFits(t) /\ thread[t] \in ThreadRecord
      /\ UNCHANGED <<library, latest, cooling, helper, closed, overlapped>>
      /\ thread \in [Threads -> ThreadRecord]
  BY DEF Record, At, Fits, Typed
<1>2. CASE Die(t)
  BY <1>1, <1>2, BatchDies
<1>3. ASSUME rows' = [rows EXCEPT ![t][i] = v],
             thread' = [thread EXCEPT ![t].pc = "item", ![t].item = @ + 1,
                                      ![t].attempt = 0, ![t].ok = FALSE],
             UNCHANGED jobs
      PROVE  Proper(t) /\ Quiet(t) /\ Lives(t)
  <2> DEFINE r == [thread[t] EXCEPT !.pc = "item", !.item = i + 1, !.attempt = 0, !.ok = FALSE]
  <2>1. thread' = [thread EXCEPT ![t] = r]
    BY <1>1, <1>3
  <2>2. i \in Numbers /\ i \in Nat /\ i + 1 \in Nat
    BY <1>1 DEF BatchFits, ThreadRecord, Numbers
  <2>3. /\ r \in ThreadRecord /\ r.pc = "item" /\ r.item = i + 1 /\ r.kind = "batch"
        /\ r.attempt = 0 /\ r.late = thread[t].late /\ r.slots = thread[t].slots
    BY <1>1, <2>2, Words DEF ThreadRecord
  <2> HIDE DEF r
  <2>4. thread' \in [Threads -> ThreadRecord] /\ thread'[t] = r /\ OthersKept(thread, thread', t)
    BY <2>1, <2>3, ThreadWritten
  <2>5. v \in Values /\ v # "none"
    BY DEF Values
  <2> HIDE DEF v
  <2>6. /\ rows' \in [Threads -> RowsOfJob] /\ OthersKept(rows, rows', t)
        /\ rows'[t] = [rows[t] EXCEPT ![i] = v] /\ rows[t] \in RowsOfJob
    BY <1>3, <2>2, <2>5 DEF Typed, RowsOfJob, OthersKept
  <2>7. /\ jobs' \in [Threads -> JobRecord] /\ jobs'[t] = jobs[t] /\ OthersKept(jobs, jobs', t)
        /\ jobs[t].kind = "batch" /\ jobs[t].running
    BY <1>1, <1>3 DEF Typed, OthersKept, BatchFits
  <2>8. \A k \in Numbers : rows'[t][k] # "none" <=> k < i + 1
    <3>1. \A k \in Numbers : rows[t][k] # "none" <=> k < i
      BY <1>1 DEF BatchFits
    <3>2. \A k \in Numbers : rows'[t][k] = IF k = i THEN v ELSE rows[t][k]
      BY <2>2, <2>6 DEF RowsOfJob
    <3>3. \A k \in Numbers : k < i + 1 <=> k < i \/ k = i
      BY <2>2 DEF Numbers
    <3> QED
      BY <2>5, <3>1, <3>2, <3>3
  <2>9. BatchFits(t)'
    BY <1>1, <2>2, <2>3, <2>4, <2>7, <2>8 DEF BatchFits, Numbers
  <2>10. Settled(t)' = Settled(t) \cup {i} /\ i \notin Settled(t) /\ Settled(t) \in SUBSET Numbers
    <3>1. \A k \in Numbers : rows[t][k] # "none" <=> k < i
      BY <1>1 DEF BatchFits
    <3>2. \A k \in Numbers : k < i + 1 <=> k < i \/ k = i
      BY <2>2 DEF Numbers
    <3>3. ~(i < i)
      BY <2>2
    <3> QED
      BY <2>2, <2>8, <3>1, <3>2, <3>3 DEF Settled
  <2>11. /\ Phase(t) = "running" /\ Phase(t)' = "running" /\ Count(t) < Items
         /\ Count(t)' = Count(t) + 1
    BY <2>2, <2>7, <2>10, Counting DEF Phase, Count
  <2> QED
    BY <1>1, <2>3, <2>4, <2>6, <2>7, <2>9, <2>11, BatchProper DEF Lives
<1> QED
  BY <1>2, <1>3 DEF Record

LEMMA FinishBatchProper ==
  ASSUME Typed, NEW t \in Threads, Fits(t), FinishBatch(t)
  PROVE  Proper(t) /\ Quiet(t) /\ Lives(t)
BY BatchEnds DEF FinishBatch, At

LEMMA RequestStopProper ==
  ASSUME Typed, NEW t \in Threads, Fits(t), RequestStop(t)
  PROVE  Proper(t) /\ Quiet(t) /\ Lives(t)
<1> DEFINE j == [jobs[t] EXCEPT !.stop = TRUE]
<1>1. /\ thread[t] \in ThreadRecord /\ jobs[t] \in JobRecord
      /\ jobs \in [Threads -> JobRecord] /\ jobs[t].kind = "batch" /\ jobs[t].running
      /\ UNCHANGED <<rows, library, latest, cooling, thread, helper, closed, overlapped>>
  BY DEF RequestStop, Typed
<1>2. thread[t].kind \in ThreadKinds
  BY <1>1 DEF ThreadRecord
<1>3. thread[t].kind = "batch"
  BY <1>1, <1>2 DEF ThreadKinds, JobKinds, Kinds, Direct, Fits, Blank, NoJob, CloseFits, TransferFits,
                    SummaryFits
<1>4. BatchFits(t)
  BY <1>3 DEF Fits
<1>5. jobs' = [jobs EXCEPT ![t] = j]
  BY <1>1 DEF RequestStop
<1>6. /\ j \in JobRecord /\ j.kind = jobs[t].kind /\ j.running = jobs[t].running /\ j.stop = TRUE
      /\ j.success = jobs[t].success
  BY <1>1 DEF JobRecord
<1> HIDE DEF j
<1>7. jobs' \in [Threads -> JobRecord] /\ jobs'[t] = j /\ OthersKept(jobs, jobs', t)
  BY <1>5, <1>6, JobWritten
<1>8. /\ thread' \in [Threads -> ThreadRecord] /\ OthersKept(thread, thread', t)
      /\ rows' \in [Threads -> RowsOfJob] /\ OthersKept(rows, rows', t)
      /\ thread'[t] = thread[t] /\ rows'[t] = rows[t]
  BY <1>1 DEF Typed, OthersKept
<1>9. BatchFits(t)'
  BY <1>1, <1>4, <1>6, <1>7, <1>8 DEF BatchFits
<1> QED
  BY <1>1, <1>3, <1>6, <1>7, <1>8, <1>9, BatchProper, BatchLives

-----------------------------------------------------------------------------
(* Beginning.                                                              *)

LEMMA JobCreated ==
  ASSUME Typed, NEW t \in Threads, NEW k \in Kinds, NEW slots \in SUBSET AllSlots,
         CreateJob(t, k, slots)
  PROVE  /\ jobs' \in [Threads -> JobRecord] /\ OthersKept(jobs, jobs', t)
         /\ jobs'[t].kind = k /\ jobs'[t].running = TRUE /\ jobs'[t].success = FALSE
         /\ jobs'[t].stop = FALSE /\ jobs'[t].error = FALSE /\ jobs'[t].current = 0
         /\ latest' \in [Kinds -> EntriesOfKind]
         /\ \A m \in Kinds, s \in AllSlots :
              latest'[m][s] = IF m = k /\ s \in slots THEN t ELSE latest[m][s]
         /\ overlapped' \in SUBSET Threads /\ overlapped \subseteq overlapped'
         /\ k \in {"batch", "close"} =>
              \A u \in Threads \ {t} : At(u, "close", "scan") => u \in overlapped'
<1> DEFINE j == [NoJob EXCEPT !.kind = k, !.running = TRUE]
           new == [s \in DOMAIN latest[k] |-> IF s \in slots THEN t ELSE latest[k][s]]
<1>1. jobs' = [jobs EXCEPT ![t] = j] /\ latest' = [latest EXCEPT ![k] = new]
  BY DEF CreateJob
<1>2. /\ j \in JobRecord
      /\ j.kind = k /\ j.running = TRUE /\ j.success = FALSE /\ j.stop = FALSE
      /\ j.error = FALSE /\ j.current = 0
  BY Words DEF JobRecord, NoJob
<1> HIDE DEF j
<1>3. jobs' \in [Threads -> JobRecord] /\ jobs'[t] = j /\ OthersKept(jobs, jobs', t)
  BY <1>1, <1>2, JobWritten
<1>4. /\ latest[k] \in EntriesOfKind /\ DOMAIN latest[k] = AllSlots
      /\ \A m \in Kinds : latest[m] \in EntriesOfKind
  BY DEF Typed, EntriesOfKind
<1>5. t \in 0..Starts
  BY DEF Threads
<1>6. new \in EntriesOfKind /\ \A s \in AllSlots : new[s] = IF s \in slots THEN t ELSE latest[k][s]
  BY <1>4, <1>5 DEF EntriesOfKind
<1> HIDE DEF new
<1>7. /\ latest' \in [Kinds -> EntriesOfKind]
      /\ \A m \in Kinds : latest'[m] = IF m = k THEN new ELSE latest[m]
  BY <1>1, <1>6 DEF Typed
<1>8. /\ overlapped' \in SUBSET Threads /\ overlapped \subseteq overlapped'
      /\ k \in {"batch", "close"} =>
           \A u \in Threads \ {t} : At(u, "close", "scan") => u \in overlapped'
  BY DEF CreateJob, Typed
<1> QED
  BY <1>2, <1>3, <1>6, <1>7, <1>8

LEMMA DirectKinds ==
  ASSUME NEW k \in Direct, NEW s \in SlotsOf(k)
  PROVE  k \in Kinds /\ s \in AllSlots /\ {s} \in SUBSET AllSlots /\ k # "close" /\ k # "library"
BY DEF Direct, Kinds, SlotsOf, AllSlots

LEMMA StartDirectProper ==
  ASSUME Typed, NEW t \in Threads, Fits(t), NEW k \in Direct, NEW s \in SlotsOf(k), StartDirect(t, k, s)
  PROVE  /\ Proper(t) /\ LookupsQuiet(t) /\ Lives(t)
         /\ thread[t] = Idle /\ jobs[t] = NoJob
         /\ CreateJob(t, k, {s}) /\ thread'[t].kind = k /\ thread'[t].pc = "begin" /\ thread'[t].slots = {s}
<1>1. /\ thread[t] = Idle /\ CreateJob(t, k, {s})
      /\ thread' = [thread EXCEPT ![t] = [Idle EXCEPT !.kind = k, !.pc = "begin", !.slots = {s}]]
      /\ UNCHANGED <<rows, library, cooling, helper, closed>>
  BY DEF StartDirect, IsNext
<1>2. thread[t].kind = "none"
  BY <1>1 DEF Idle
<1>3. Blank(t)
  BY <1>2 DEF Fits
<1>4. k \in Kinds /\ s \in AllSlots /\ {s} \in SUBSET AllSlots /\ k # "close" /\ k # "library"
  BY DirectKinds
<1> DEFINE r == [Idle EXCEPT !.kind = k, !.pc = "begin", !.slots = {s}]
<1>5. /\ r \in ThreadRecord /\ r.kind = k /\ r.pc = "begin" /\ r.slots = {s} /\ r.item = 0
      /\ r.attempt = 0 /\ r.ok = FALSE /\ r.late = 0
  BY <1>4, Words DEF ThreadRecord, Idle
<1> HIDE DEF r
<1>6. thread' \in [Threads -> ThreadRecord] /\ thread'[t] = r /\ OthersKept(thread, thread', t)
  BY <1>1, <1>5, ThreadWritten DEF r
<1>7. /\ jobs' \in [Threads -> JobRecord] /\ OthersKept(jobs, jobs', t)
      /\ jobs'[t].kind = k /\ jobs'[t].running = TRUE /\ jobs'[t].success = FALSE
      /\ jobs'[t].stop = FALSE /\ jobs'[t].current = 0
      /\ latest' \in [Kinds -> EntriesOfKind]
      /\ overlapped' \in SUBSET Threads
  BY <1>1, <1>4, JobCreated
<1>8. Typed'
  BY <1>1, <1>6, <1>7 DEF Typed
<1>9. Alone(t)
  BY <1>1, <1>6, <1>7 DEF Alone, OthersKept
<1>10. rows'[t] = [i \in Numbers |-> "none"] /\ helper'[t] = [q \in QuerySlots |-> Out]
  BY <1>1, <1>3 DEF Blank
<1>11. Fits(t)'
  <2>1. k = "batch" => BatchFits(t)'
    BY <1>5, <1>6, <1>7, <1>10 DEF BatchFits
  <2>2. k = "transfer" => TransferFits(t)'
    BY <1>5, <1>6, <1>7 DEF TransferFits
  <2>3. k = "summary" => SummaryFits(t)'
    BY <1>5, <1>6, <1>7 DEF SummaryFits
  <2>4. k # "none"
    BY DEF Direct
  <2> QED
    BY <1>4, <1>5, <1>6, <1>10, <2>1, <2>2, <2>3, <2>4 DEF Fits
<1>12. LookupsQuiet(t)
  BY <1>1, <1>2, <1>4, <1>5, <1>6 DEF LookupsQuiet, LookingUp
<1>13. Lives(t)
  <2>1. /\ jobs[t].kind = "none" /\ jobs[t].current = 0 /\ jobs[t].success = FALSE
        /\ jobs[t] = NoJob
    BY <1>3 DEF Blank, NoJob
  <2>2. Settled(t)' = {}
    BY <1>10 DEF Settled
  <2>3. Count(t)' = 0 /\ Count(t) = 0
    BY <1>7, <2>1, <2>2, FS_EmptySet DEF Count
  <2>4. Phase(t) = "absent" /\ Phase(t)' = "running"
    BY <1>7, <2>1, <1>4, Words DEF Phase, Kinds, Direct
  <2> QED
    BY <1>7, <2>1, <2>3, <2>4 DEF Lives
<1> QED
  BY <1>1, <1>3, <1>5, <1>6, <1>8, <1>9, <1>11, <1>12, <1>13 DEF Proper, Blank

\* A step of a thread that has no job and does not get one.
LEMMA NoJobProper ==
  ASSUME Typed, NEW t \in Threads, Fits(t), Blank(t),
         thread' \in [Threads -> ThreadRecord], OthersKept(thread, thread', t),
         thread'[t].kind \in {"close", "library"}, thread'[t].late = 0, cooling' \in SUBSET QuerySlots,
         UNCHANGED <<jobs, rows, latest, helper, closed, overlapped>>, library' \in LibraryRecord,
         thread'[t].kind = "close" => thread'[t].pc \in {"scan", "over"} /\ thread'[t].slots \subseteq QuerySlots
                                      /\ thread'[t].attempt = 0 /\ thread'[t].item = 0,
         thread'[t].kind = "library" => LibraryFits(t)'
  PROVE  Proper(t) /\ Lives(t)
<1>1. Typed'
  BY DEF Typed
<1>2. Alone(t)
  BY DEF Alone, OthersKept
<1>3. Blank(t)'
  BY DEF Blank
<1>4. thread'[t].kind = "close" => CloseFits(t)'
  <2>1. jobs'[t] = NoJob /\ \A i \in Numbers : rows'[t][i] = "none"
    BY <1>3 DEF Blank
  <2>2. jobs'[t].kind = "none" /\ jobs'[t].stop = FALSE /\ jobs'[t].success = FALSE
    BY <2>1 DEF NoJob
  <2> QED
    BY <1>3, <2>1, <2>2 DEF CloseFits
<1>5. Fits(t)'
  BY <1>3, <1>4 DEF Fits, Blank
<1>6. Lives(t)
  BY DEF Lives, Phase, Count, Settled
<1> QED
  BY <1>1, <1>2, <1>5, <1>6 DEF Proper

LEMMA AttemptsNat == MaxAttempts \in Nat
BY DEF MaxAttempts

LEMMA StartSelectionProper ==
  ASSUME Typed, NEW t \in Threads, Fits(t), NEW k \in {"close", "library"}, StartSelection(t, k)
  PROVE  /\ Proper(t) /\ LookupsQuiet(t) /\ Lives(t)
         /\ jobs' = jobs /\ latest' = latest /\ overlapped' = overlapped
         /\ thread'[t].slots = {} /\ jobs[t] = NoJob
<1> DEFINE r == [Idle EXCEPT !.kind = k, !.pc = "scan", !.at = Len(SlotOrder)]
<1>1. /\ thread[t] = Idle /\ thread' = [thread EXCEPT ![t] = r]
      /\ UNCHANGED <<jobs, rows, library, latest, cooling, helper, closed, overlapped>>
  BY DEF StartSelection, IsNext
<1>2. thread[t].kind = "none"
  BY <1>1 DEF Idle
<1>3. Blank(t)
  BY <1>2 DEF Fits
<1>4. /\ r \in ThreadRecord /\ r.kind = k /\ r.pc = "scan" /\ r.slots = {} /\ r.item = 0
      /\ r.attempt = 0 /\ r.ok = FALSE /\ r.late = 0
  BY Words DEF ThreadRecord, Idle
<1> HIDE DEF r
<1>5. thread' \in [Threads -> ThreadRecord] /\ thread'[t] = r /\ OthersKept(thread, thread', t)
  BY <1>1, <1>4, ThreadWritten
<1>6. k = "library" => LibraryFits(t)'
  BY <1>4, <1>5, AttemptsNat DEF LibraryFits
<1>7. cooling' \in SUBSET QuerySlots /\ library' \in LibraryRecord
  BY <1>1 DEF Typed
<1>8. Proper(t) /\ Lives(t)
  BY <1>1, <1>3, <1>4, <1>5, <1>6, <1>7, NoJobProper
<1>9. LookupsQuiet(t)
  BY <1>1, <1>2, <1>4, <1>5 DEF LookupsQuiet, LookingUp
<1> QED
  BY <1>1, <1>3, <1>4, <1>5, <1>8, <1>9 DEF Blank

LEMMA Selecting ==
  ASSUME Typed, NEW t \in Threads, Fits(t), thread[t].pc = "scan"
  PROVE  /\ thread[t].kind \in {"close", "library"} /\ Blank(t) /\ jobs[t] = NoJob
         /\ thread[t].slots \subseteq QuerySlots /\ thread[t].item = 0 /\ thread[t].late = 0
         /\ thread[t].kind = "close" => thread[t].attempt = 0
         /\ thread[t].kind = "library" => LibraryFits(t)
<1>1. thread[t].kind \in ThreadKinds
  BY DEF Typed, ThreadRecord
<1>2. thread[t].kind \in {"close", "library"}
  BY <1>1 DEF ThreadKinds, JobKinds, Kinds, Direct, Fits, Idle, BatchFits, TransferFits, SummaryFits
<1> QED
  BY <1>2 DEF Fits, CloseFits, LibraryFits, Blank

LEMMA ScanProper ==
  ASSUME Typed, NEW t \in Threads, Fits(t), Scan(t)
  PROVE  /\ Proper(t) /\ LookupsQuiet(t) /\ Lives(t)
         /\ jobs' = jobs /\ latest' = latest /\ overlapped' = overlapped /\ jobs[t] = NoJob
         /\ thread[t].pc = "scan" /\ thread'[t].kind = thread[t].kind
         /\ \A s \in thread'[t].slots \ thread[t].slots : s \in QuerySlots /\ Free(s)
<1> DEFINE s == SlotOrder[thread[t].at]
<1>1. PICK pick \in BOOLEAN :
        /\ pick => Free(s) /\ s \notin thread[t].tried
        /\ thread' = [thread EXCEPT ![t].at = @ - 1,
                                    ![t].slots = IF pick THEN @ \cup {s} ELSE @]
  BY DEF Scan
<1>2. /\ thread[t].pc = "scan" /\ thread[t].at > 0 /\ thread[t] \in ThreadRecord
      /\ thread \in [Threads -> ThreadRecord]
      /\ UNCHANGED <<jobs, rows, library, latest, cooling, helper, closed, overlapped>>
  BY DEF Scan, Typed
<1>3. /\ thread[t].kind \in {"close", "library"} /\ Blank(t) /\ jobs[t] = NoJob
      /\ thread[t].slots \subseteq QuerySlots /\ thread[t].item = 0 /\ thread[t].late = 0
      /\ thread[t].kind = "close" => thread[t].attempt = 0
      /\ thread[t].kind = "library" => LibraryFits(t)
  BY <1>2, Selecting
<1> DEFINE at == thread[t].at - 1
           slots == IF pick THEN thread[t].slots \cup {s} ELSE thread[t].slots
           r == [thread[t] EXCEPT !.at = at, !.slots = slots]
<1>4. thread' = [thread EXCEPT ![t] = r]
  BY <1>1, <1>2
<1>5. thread[t].at \in 1..Len(SlotOrder) /\ at \in Ats
  BY <1>2 DEF ThreadRecord, Ats
<1>6. s \in QuerySlots
  BY <1>5 DEF QuerySlots, Range
<1>7. slots \subseteq QuerySlots /\ slots \in SUBSET AllSlots
  BY <1>3, <1>6, Words
<1>8. \A q \in slots \ thread[t].slots : q \in QuerySlots /\ Free(q)
  BY <1>1, <1>6
<1> HIDE DEF at, slots
<1>9. /\ r \in ThreadRecord /\ r.kind = thread[t].kind /\ r.pc = "scan" /\ r.slots = slots
      /\ r.item = 0 /\ r.attempt = thread[t].attempt /\ r.ok = thread[t].ok /\ r.late = 0
  BY <1>2, <1>3, <1>5, <1>7 DEF ThreadRecord
<1> HIDE DEF r
<1>10. thread' \in [Threads -> ThreadRecord] /\ thread'[t] = r /\ OthersKept(thread, thread', t)
  BY <1>4, <1>9, ThreadWritten
<1>11. thread[t].kind = "library" => LibraryFits(t)'
  BY <1>3, <1>7, <1>9, <1>10 DEF LibraryFits
<1>12. cooling' \in SUBSET QuerySlots /\ library' \in LibraryRecord
  BY <1>2 DEF Typed
<1>13. Proper(t) /\ Lives(t)
  BY <1>2, <1>3, <1>7, <1>9, <1>10, <1>11, <1>12, NoJobProper
<1>14. LookupsQuiet(t)
  BY <1>2, <1>9, <1>10 DEF LookupsQuiet, LookingUp
<1> QED
  BY <1>2, <1>3, <1>8, <1>9, <1>10, <1>13, <1>14

LEMMA RefuseStartProper ==
  ASSUME Typed, NEW t \in Threads, Fits(t), RefuseStart(t)
  PROVE  Proper(t) /\ Quiet(t) /\ Lives(t)
<1>1. /\ thread[t].pc = "scan" /\ Return(t)
      /\ UNCHANGED <<jobs, rows, library, latest, cooling, helper, closed, overlapped>>
  BY DEF RefuseStart, Selected
<1>2. thread[t].kind \in {"close", "library"} /\ Blank(t) /\ jobs[t] = NoJob
  BY <1>1, Selecting
<1>3. /\ thread' \in [Threads -> ThreadRecord] /\ OthersKept(thread, thread', t)
      /\ thread'[t].pc = "over" /\ thread'[t].kind = thread[t].kind
      /\ thread'[t].slots = {} /\ thread'[t].item = 0
      /\ thread'[t].attempt = 0 /\ thread'[t].ok = thread[t].ok /\ thread'[t].late = 0
  BY <1>1, Returned
<1>4. LibraryFits(t)'
  BY <1>3, AttemptsNat DEF LibraryFits
<1>5. cooling' \in SUBSET QuerySlots /\ library' \in LibraryRecord
  BY <1>1 DEF Typed
<1>6. Proper(t) /\ Lives(t)
  BY <1>1, <1>2, <1>3, <1>4, <1>5, NoJobProper
<1>7. jobs'[t].running = FALSE
  BY <1>1, <1>2 DEF NoJob
<1>8. Quiet(t)
  BY <1>1, <1>3, <1>7 DEF Quiet, SlotsQuiet, LookupsQuiet, LookingUp, At
<1> QED
  BY <1>6, <1>8

-----------------------------------------------------------------------------
(* A closing.                                                              *)

LEMMA CreateCloseProper ==
  ASSUME Typed, NEW t \in Threads, Fits(t), CreateClose(t)
  PROVE  /\ Proper(t) /\ LookupsQuiet(t) /\ Lives(t)
         /\ At(t, "close", "scan") /\ jobs[t] = NoJob
         /\ CreateJob(t, "close", thread[t].slots)
         /\ thread'[t].kind = "close" /\ thread'[t].pc = "begin" /\ thread'[t].slots = thread[t].slots
<1>1. /\ thread[t].pc = "scan" /\ thread[t].kind = "close" /\ thread[t].slots # {}
      /\ CreateJob(t, "close", thread[t].slots) /\ Goto(t, "begin") /\ "begin" \in Pcs
      /\ helper' = [helper EXCEPT ![t] = [s \in QuerySlots |->
                       IF s \in thread[t].slots THEN Waiting ELSE Out]]
      /\ UNCHANGED <<rows, library, cooling, closed>>
  BY Words DEF CreateClose, Selected
<1>2. /\ Blank(t) /\ jobs[t] = NoJob /\ thread[t].slots \subseteq QuerySlots /\ thread[t].item = 0
      /\ thread[t].late = 0 /\ thread[t].attempt = 0
  BY <1>1, Selecting
<1>3. /\ thread' \in [Threads -> ThreadRecord] /\ OthersKept(thread, thread', t)
      /\ thread'[t].kind = "close" /\ thread'[t].pc = "begin" /\ thread'[t].slots = thread[t].slots
      /\ thread'[t].item = 0 /\ thread'[t].attempt = 0 /\ thread'[t].late = 0
  BY <1>1, <1>2, Went
<1>4. "close" \in Kinds /\ thread[t].slots \in SUBSET AllSlots
  BY <1>2, Words
<1>5. /\ jobs' \in [Threads -> JobRecord] /\ OthersKept(jobs, jobs', t)
      /\ jobs'[t].kind = "close" /\ jobs'[t].running = TRUE /\ jobs'[t].success = FALSE
      /\ jobs'[t].stop = FALSE /\ jobs'[t].current = 0
      /\ latest' \in [Kinds -> EntriesOfKind]
      /\ overlapped' \in SUBSET Threads
  <2> DEFINE slots == thread[t].slots
  <2>1. slots \in SUBSET AllSlots /\ CreateJob(t, "close", slots)
    BY <1>1, <1>4
  <2> HIDE DEF slots
  <2> QED
    BY <1>4, <2>1, JobCreated
<1> DEFINE h == [s \in QuerySlots |-> IF s \in thread[t].slots THEN Waiting ELSE Out]
<1>6. h \in PlacesOfJob /\ (\A s \in QuerySlots : h[s] \in {0, -1}) /\ \E s \in QuerySlots : h[s] # Out
  BY <1>1, <1>2 DEF PlacesOfJob, Places, Waiting, Out
<1> HIDE DEF h
<1>7. helper' \in [Threads -> PlacesOfJob] /\ helper'[t] = h /\ OthersKept(helper, helper', t)
  BY <1>1, <1>6 DEF Typed, OthersKept, h
<1>8. Typed'
  BY <1>1, <1>3, <1>5, <1>7 DEF Typed
<1>9. Alone(t)
  BY <1>1, <1>3, <1>5, <1>7 DEF Alone, OthersKept
<1>10. \A i \in Numbers : rows'[t][i] = "none"
  BY <1>1, <1>2 DEF Blank
<1>11. Settled(t)' = {}
  BY <1>10 DEF Settled
<1>12. QueueFits(t)'
  <2>1. \A i \in Numbers : i > 0 /\ i \notin {0, -1}
    BY DEF Numbers
  <2>2. \A s \in QuerySlots : h[s] <= 0
    BY <1>6
  <2> QED
    BY <1>3, <1>5, <1>6, <1>7, <1>10, <1>11, <2>1, <2>2, FS_EmptySet DEF QueueFits
<1>13. CloseFits(t)'
  BY <1>2, <1>3, <1>5, <1>10, <1>12 DEF CloseFits
<1>14. Fits(t)'
  BY <1>3, <1>13 DEF Fits
<1>15. LookupsQuiet(t)
  BY <1>1, <1>3 DEF LookupsQuiet, LookingUp
<1>16. Lives(t)
  <2>1. /\ jobs[t].kind = "none" /\ jobs[t].current = 0 /\ jobs[t].success = FALSE
    BY <1>2 DEF NoJob
  <2> QED
    BY <1>5, <2>1 DEF Lives, Phase, Count
<1> QED
  BY <1>1, <1>2, <1>3, <1>8, <1>9, <1>14, <1>15, <1>16 DEF Proper, At

\* What every step of a closing that runs has in common.
LEMMA CloseProper ==
  ASSUME Typed, NEW t \in Threads, Fits(t), thread[t].kind = "close", thread[t].pc = "begin",
         thread' \in [Threads -> ThreadRecord], OthersKept(thread, thread', t),
         thread'[t].kind = "close", thread'[t].pc \in {"begin", "over"}, thread'[t].late = 0,
         jobs' \in [Threads -> JobRecord], OthersKept(jobs, jobs', t), jobs'[t].kind = "close",
         rows' \in [Threads -> RowsOfJob], OthersKept(rows, rows', t),
         helper' \in [Threads -> PlacesOfJob], OthersKept(helper, helper', t),
         jobs'[t].running => jobs[t].running /\ thread'[t].slots = thread[t].slots,
         closed' \in SUBSET Numbers, closed \subseteq closed',
         UNCHANGED <<library, latest, cooling, overlapped>>,
         CloseFits(t)'
  PROVE  Proper(t) /\ Quiet(t)
<1>1. Typed'
  BY DEF Typed
<1>2. Alone(t)
  BY DEF Alone, OthersKept
<1>3. Fits(t)'
  BY DEF Fits
<1>4. jobs[t].kind = "close"
  BY DEF Fits, CloseFits
<1>5. Quiet(t)
  BY <1>4 DEF Quiet, SlotsQuiet, LookupsQuiet, LookingUp, At
<1> QED
  BY <1>1, <1>2, <1>3, <1>5 DEF Proper

LEMMA Closing ==
  ASSUME Typed, NEW t \in Threads, Fits(t), At(t, "close", "begin")
  PROVE  /\ thread[t].kind = "close" /\ thread[t].pc = "begin" /\ CloseFits(t) /\ QueueFits(t)
         /\ jobs[t].kind = "close" /\ jobs[t].running /\ ~jobs[t].success /\ ~jobs[t].stop
         /\ thread[t] \in ThreadRecord /\ thread[t].late = 0 /\ thread[t].item \in Nat
         /\ rows[t] \in RowsOfJob /\ helper[t] \in PlacesOfJob /\ jobs[t] \in JobRecord
<1>1. /\ thread[t].kind = "close" /\ thread[t].pc = "begin" /\ CloseFits(t) /\ thread[t].late = 0
  BY DEF At, Fits
<1>2. /\ QueueFits(t) /\ jobs[t].kind = "close" /\ jobs[t].running /\ ~jobs[t].success /\ ~jobs[t].stop
  BY <1>1 DEF CloseFits
<1>3. /\ thread[t] \in ThreadRecord /\ rows[t] \in RowsOfJob /\ helper[t] \in PlacesOfJob
      /\ jobs[t] \in JobRecord
  BY DEF Typed
<1> QED
  BY <1>1, <1>2, <1>3 DEF ThreadRecord

LEMMA PlacesInt == Places \subseteq Int /\ Numbers \subseteq Nat
                   /\ Out \notin Numbers /\ Waiting \notin Numbers /\ Out # Waiting
BY DEF Places, Numbers, Out, Waiting

LEMMA TakeOrderProper ==
  ASSUME Typed, NEW t \in Threads, Fits(t), NEW s \in QuerySlots, TakeOrder(t, s)
  PROVE  Proper(t) /\ Quiet(t) /\ Lives(t)
<1> DEFINE n == thread[t].item
<1>1. /\ At(t, "close", "begin") /\ helper[t][s] = Waiting
      /\ UNCHANGED <<jobs, rows, library, latest, cooling, closed, overlapped>>
  BY DEF TakeOrder
<1>2. /\ thread[t].kind = "close" /\ thread[t].pc = "begin" /\ CloseFits(t) /\ QueueFits(t)
      /\ jobs[t].kind = "close" /\ jobs[t].running /\ ~jobs[t].success /\ ~jobs[t].stop
      /\ thread[t] \in ThreadRecord /\ thread[t].late = 0 /\ n \in Nat
      /\ rows[t] \in RowsOfJob /\ helper[t] \in PlacesOfJob
  BY <1>1, Closing
<1>3. /\ jobs' \in [Threads -> JobRecord] /\ OthersKept(jobs, jobs', t) /\ jobs'[t] = jobs[t]
      /\ rows' \in [Threads -> RowsOfJob] /\ OthersKept(rows, rows', t) /\ rows'[t] = rows[t]
      /\ closed' \in SUBSET Numbers /\ closed \subseteq closed'
  BY <1>1 DEF Typed, OthersKept
<1>4. Lives(t)
  BY <1>3 DEF Lives, Phase, Count, Settled
<1>5. \A v \in Places : helper' = [helper EXCEPT ![t][s] = v] =>
         /\ helper' \in [Threads -> PlacesOfJob] /\ OthersKept(helper, helper', t)
         /\ \A r \in QuerySlots : helper'[t][r] = IF r = s THEN v ELSE helper[t][r]
  BY <1>2 DEF Typed, PlacesOfJob, OthersKept
<1>6. /\ n <= Items /\ (\A r \in QuerySlots : helper[t][r] <= n /\ helper[t][r] \in Int)
      /\ \A r, q \in QuerySlots : r # q /\ helper[t][r] \in Numbers => helper[t][r] # helper[t][q]
      /\ \A i \in Numbers : rows[t][i] = "none" <=> i > n \/ InHand(t, i)
      /\ n = Items \/ \E r \in QuerySlots : helper[t][r] # Out
      /\ jobs[t].current = Cardinality(Settled(t))
  BY <1>2, PlacesInt DEF QueueFits, PlacesOfJob
<1>7. CASE n < Items
  <2>1. /\ thread' = [thread EXCEPT ![t].item = @ + 1]
        /\ helper' = [helper EXCEPT ![t][s] = n + 1]
    BY <1>7 DEF TakeOrder
  <2> DEFINE r == [thread[t] EXCEPT !.item = n + 1]
  <2>2. thread' = [thread EXCEPT ![t] = r]
    BY <2>1 DEF Typed
  <2>3. n + 1 \in Nat /\ n + 1 \in Numbers /\ n + 1 \in Places
    BY <1>2, <1>7 DEF Numbers, Places
  <2>4. /\ r \in ThreadRecord /\ r.kind = "close" /\ r.pc = "begin" /\ r.item = n + 1 /\ r.late = 0
        /\ r.slots = thread[t].slots /\ r.attempt = thread[t].attempt
    BY <1>2, <2>3 DEF ThreadRecord
  <2> HIDE DEF r
  <2>5. thread' \in [Threads -> ThreadRecord] /\ thread'[t] = r /\ OthersKept(thread, thread', t)
    BY <2>2, <2>4, ThreadWritten
  <2>6. /\ helper' \in [Threads -> PlacesOfJob] /\ OthersKept(helper, helper', t)
        /\ \A q \in QuerySlots : helper'[t][q] = IF q = s THEN n + 1 ELSE helper[t][q]
    BY <1>5, <2>1, <2>3
  <2>7. \A q \in QuerySlots : helper'[t][q] <= n + 1
    BY <1>2, <1>6, <2>6
  <2>8. \A p, q \in QuerySlots : p # q /\ helper'[t][p] \in Numbers => helper'[t][p] # helper'[t][q]
    <3>1. \A q \in QuerySlots : helper[t][q] # n + 1
      BY <1>2, <1>6
    <3> QED
      BY <1>6, <2>6, <3>1
  <2>9. \A i \in Numbers : InHand(t, i)' <=> InHand(t, i) \/ i = n + 1
    BY <1>1, <2>6, PlacesInt DEF InHand
  <2>10. \A i \in Numbers : rows'[t][i] = "none" <=> i > n + 1 \/ InHand(t, i)'
    <3>1. \A i \in Numbers : i > n <=> i > n + 1 \/ i = n + 1
      BY <1>2 DEF Numbers
    <3> QED
      BY <1>3, <1>6, <2>9, <3>1
  <2>11. n + 1 <= Items
    BY <1>2, <1>7
  <2>12. helper'[t][s] # Out
    BY <2>3, <2>6, PlacesInt
  <2>13. jobs'[t].current = Cardinality(Settled(t)')
    BY <1>3, <1>6 DEF Settled
  <2>14. QueueFits(t)'
    BY <2>4, <2>5, <2>7, <2>8, <2>10, <2>11, <2>12, <2>13 DEF QueueFits
  <2>15. CloseFits(t)'
    BY <1>1, <1>2, <1>3, <2>4, <2>5, <2>14 DEF CloseFits
  <2> QED
    BY <1>1, <1>2, <1>3, <1>4, <2>4, <2>5, <2>6, <2>15, CloseProper
<1>8. CASE ~(n < Items)
  <2>1. helper' = [helper EXCEPT ![t][s] = Out] /\ UNCHANGED thread
    BY <1>8 DEF TakeOrder
  <2>2. /\ helper' \in [Threads -> PlacesOfJob] /\ OthersKept(helper, helper', t)
        /\ \A q \in QuerySlots : helper'[t][q] = IF q = s THEN Out ELSE helper[t][q]
    BY <1>5, <2>1 DEF Places
  <2>3. thread' \in [Threads -> ThreadRecord] /\ thread'[t] = thread[t] /\ OthersKept(thread, thread', t)
    BY <2>1 DEF Typed, OthersKept
  <2>4. n = Items
    BY <1>2, <1>6, <1>8
  <2>5. Out <= n
    BY <1>2 DEF Out
  <2>6. \A i \in Numbers : InHand(t, i)' <=> InHand(t, i)
    BY <1>1, <2>2, PlacesInt DEF InHand
  <2>7. QueueFits(t)'
    BY <1>3, <1>6, <2>2, <2>3, <2>4, <2>5, <2>6, PlacesInt DEF QueueFits, Settled
  <2>8. CloseFits(t)'
    BY <1>1, <1>2, <1>3, <2>3, <2>7 DEF CloseFits
  <2> QED
    BY <1>1, <1>2, <1>3, <1>4, <2>2, <2>3, <2>8, CloseProper
<1> QED
  BY <1>7, <1>8

LEMMA CloseOrderProper ==
  ASSUME Typed, NEW t \in Threads, Fits(t), NEW s \in QuerySlots, CloseOrder(t, s)
  PROVE  Proper(t) /\ Quiet(t) /\ Lives(t)
<1> DEFINE n == thread[t].item
           i == helper[t][s]
<1>1. /\ At(t, "close", "begin") /\ i \in Numbers
      /\ helper' = [helper EXCEPT ![t][s] = Waiting]
      /\ UNCHANGED <<library, latest, cooling, thread, overlapped>>
  BY DEF CloseOrder
<1>2. /\ thread[t].kind = "close" /\ thread[t].pc = "begin" /\ CloseFits(t) /\ QueueFits(t)
      /\ jobs[t].kind = "close" /\ jobs[t].running /\ ~jobs[t].success /\ ~jobs[t].stop
      /\ thread[t] \in ThreadRecord /\ thread[t].late = 0 /\ n \in Nat
      /\ rows[t] \in RowsOfJob /\ helper[t] \in PlacesOfJob /\ jobs[t] \in JobRecord
  BY <1>1, Closing
<1>3. PICK now \in {closed, closed \cup {i}}, outcome \in {"ok", "failed", "raised"} :
          /\ outcome = "ok" => i \in now
          /\ closed' = now
          /\ rows' = [rows EXCEPT ![t][i] = IF outcome = "ok" THEN "ok" ELSE "failed"]
          /\ jobs' = [jobs EXCEPT ![t].current = @ + 1, ![t].error = @ \/ outcome = "raised"]
  BY DEF CloseOrder
<1> DEFINE v == IF outcome = "ok" THEN "ok" ELSE "failed"
           current == jobs[t].current + 1
           error == jobs[t].error \/ outcome = "raised"
           j == [jobs[t] EXCEPT !.current = current, !.error = error]
<1>4. v \in Values /\ v # "none" /\ (v = "ok" => i \in closed') /\ closed \subseteq closed'
      /\ closed' \in SUBSET Numbers
  BY <1>1, <1>3 DEF Values, Typed
<1> HIDE DEF v
<1>5. /\ n <= Items /\ (\A r \in QuerySlots : helper[t][r] <= n /\ helper[t][r] \in Int)
      /\ \A r, q \in QuerySlots : r # q /\ helper[t][r] \in Numbers => helper[t][r] # helper[t][q]
      /\ \A k \in Numbers : rows[t][k] = "none" <=> k > n \/ InHand(t, k)
      /\ n = Items \/ \E r \in QuerySlots : helper[t][r] # Out
      /\ jobs[t].current = Cardinality(Settled(t))
  BY <1>2, PlacesInt DEF QueueFits, PlacesOfJob
<1>6. /\ rows' \in [Threads -> RowsOfJob] /\ OthersKept(rows, rows', t)
      /\ \A k \in Numbers : rows'[t][k] = IF k = i THEN v ELSE rows[t][k]
  BY <1>1, <1>2, <1>3, <1>4 DEF Typed, RowsOfJob, OthersKept, v
<1>7. /\ helper' \in [Threads -> PlacesOfJob] /\ OthersKept(helper, helper', t)
      /\ \A r \in QuerySlots : helper'[t][r] = IF r = s THEN Waiting ELSE helper[t][r]
  BY <1>1, <1>2 DEF Typed, PlacesOfJob, OthersKept, Places
<1>8. rows[t][i] = "none" /\ i \notin Settled(t)
  BY <1>1, <1>5 DEF InHand, Settled
<1>9. Settled(t)' = Settled(t) \cup {i} /\ Settled(t) \in SUBSET Numbers
  BY <1>1, <1>4, <1>6 DEF Settled
<1>10. /\ Cardinality(Settled(t)') = jobs[t].current + 1 /\ jobs[t].current < Items
       /\ jobs[t].current \in 0..Items
  BY <1>1, <1>5, <1>8, <1>9, Counting
<1>11. current \in Counts /\ error \in BOOLEAN
  BY <1>10 DEF Counts
<1>12. jobs' = [jobs EXCEPT ![t] = j]
  BY <1>3 DEF Typed
<1> HIDE DEF current, error
<1>13. /\ j \in JobRecord /\ j.kind = "close" /\ j.running = jobs[t].running /\ j.success = jobs[t].success
       /\ j.stop = jobs[t].stop /\ j.current = current
  BY <1>2, <1>11 DEF JobRecord
<1> HIDE DEF j
<1>14. jobs' \in [Threads -> JobRecord] /\ jobs'[t] = j /\ OthersKept(jobs, jobs', t)
  BY <1>12, <1>13, JobWritten
<1>15. thread' \in [Threads -> ThreadRecord] /\ thread'[t] = thread[t] /\ OthersKept(thread, thread', t)
  BY <1>1 DEF Typed, OthersKept
<1>16. current = Cardinality(Settled(t)')
  BY <1>10 DEF current
<1>17. \A k \in Numbers : InHand(t, k)' <=> InHand(t, k) /\ k # i
  BY <1>1, <1>5, <1>7, PlacesInt DEF InHand
<1>18. \A k \in Numbers : rows'[t][k] = "none" <=> k > n \/ InHand(t, k)'
  <2>1. ~(i > n)
    BY <1>1, <1>2, <1>5
  <2> QED
    BY <1>4, <1>5, <1>6, <1>17, <2>1
<1>19. \A r \in QuerySlots : helper'[t][r] <= n
  BY <1>2, <1>5, <1>7 DEF Waiting
<1>20. \A r, q \in QuerySlots : r # q /\ helper'[t][r] \in Numbers => helper'[t][r] # helper'[t][q]
  BY <1>5, <1>7, PlacesInt
<1>21. helper'[t][s] # Out
  BY <1>7, PlacesInt
<1>22. QueueFits(t)'
  BY <1>5, <1>13, <1>14, <1>15, <1>16, <1>18, <1>19, <1>20, <1>21 DEF QueueFits
<1>23. \A k \in Numbers : rows'[t][k] = "ok" => k \in closed'
  BY <1>2, <1>4, <1>6 DEF CloseFits
<1>24. CloseFits(t)'
  BY <1>2, <1>13, <1>14, <1>15, <1>22, <1>23 DEF CloseFits
<1>25. Phase(t) = "running" /\ Phase(t)' = "running"
  BY <1>2, <1>13, <1>14 DEF Phase
<1>26. Count(t) < Items /\ Count(t)' = Count(t) + 1
  BY <1>2, <1>10, <1>13, <1>14 DEF Count, current
<1>27. Lives(t)
  BY <1>13, <1>14, <1>25, <1>26 DEF Lives
<1> QED
  BY <1>1, <1>2, <1>4, <1>6, <1>7, <1>13, <1>14, <1>15, <1>24, <1>27, CloseProper

LEMMA TallyProper ==
  ASSUME Typed, NEW t \in Threads, Fits(t), Tally(t)
  PROVE  Proper(t) /\ Quiet(t) /\ Lives(t)
<1>1. /\ At(t, "close", "begin") /\ (\A s \in QuerySlots : helper[t][s] = Out) /\ Return(t)
      /\ UNCHANGED <<library, latest, cooling, helper, closed, overlapped>>
  BY DEF Tally
<1>2. /\ thread[t].kind = "close" /\ thread[t].pc = "begin" /\ CloseFits(t) /\ QueueFits(t)
      /\ jobs[t].kind = "close" /\ jobs[t].running /\ thread[t].item \in Nat
      /\ rows[t] \in RowsOfJob /\ jobs[t] \in JobRecord
  BY <1>1, Closing
<1>3. \A i \in Numbers : rows[t][i] \in {"ok", "failed"}
  <2>1. thread[t].item = Items
    BY <1>1, <1>2 DEF QueueFits
  <2>2. \A i \in Numbers : ~InHand(t, i)
    BY <1>1, PlacesInt DEF InHand
  <2>3. \A i \in Numbers : ~(i > Items)
    BY DEF Numbers
  <2>4. \A i \in Numbers : rows[t][i] # "none"
    BY <1>2, <2>1, <2>2, <2>3 DEF QueueFits
  <2> QED
    BY <1>2, <2>4 DEF RowsOfJob, Values
<1>4. /\ thread' \in [Threads -> ThreadRecord] /\ OthersKept(thread, thread', t)
      /\ thread'[t].pc = "over" /\ thread'[t].kind = "close" /\ thread'[t].slots = {}
      /\ thread'[t].item = 0 /\ thread'[t].attempt = 0 /\ thread'[t].late = 0
  BY <1>1, <1>2, Returned
<1>5. /\ helper' \in [Threads -> PlacesOfJob] /\ OthersKept(helper, helper', t)
      /\ closed' \in SUBSET Numbers /\ closed \subseteq closed' /\ closed' = closed
  BY <1>1 DEF Typed, OthersKept
<1> DEFINE failed == \E i \in Numbers : rows[t][i] = "failed"
           ok == ~failed /\ ~jobs[t].error
<1>6. CASE EndJob(t, ok, jobs[t].error) /\ UNCHANGED rows
  <2>1. ok \in BOOLEAN /\ jobs[t].error \in BOOLEAN
    BY <1>2 DEF JobRecord
  <2>2. ok => \A i \in Numbers : rows[t][i] = "ok"
    BY <1>3
  <2> HIDE DEF ok
  <2>3. /\ jobs' \in [Threads -> JobRecord] /\ OthersKept(jobs, jobs', t)
        /\ jobs'[t].kind = "close" /\ jobs'[t].current = jobs[t].current
        /\ jobs'[t].running = FALSE /\ jobs'[t].stop = FALSE /\ jobs'[t].success = ok
    BY <1>2, <1>6, <2>1, Ended
  <2>4. rows' \in [Threads -> RowsOfJob] /\ OthersKept(rows, rows', t) /\ rows'[t] = rows[t]
    BY <1>6 DEF Typed, OthersKept
  <2>5. \A i \in Numbers : rows'[t][i] # "none" /\ (rows'[t][i] = "ok" => i \in closed')
    BY <1>2, <1>3, <1>5, <2>4 DEF CloseFits
  <2>6. CloseFits(t)'
    BY <1>4, <2>2, <2>3, <2>4, <2>5 DEF CloseFits
  <2>7. Lives(t)
    BY <1>2, <2>1, <2>3 DEF Lives, Phase, Count
  <2> QED
    BY <1>1, <1>2, <1>4, <1>5, <2>3, <2>4, <2>6, <2>7, CloseProper
<1>7. CASE EndJob(t, FALSE, TRUE) /\ rows' = [rows EXCEPT ![t] = [i \in Numbers |-> "none"]]
  <2>1. /\ jobs' \in [Threads -> JobRecord] /\ OthersKept(jobs, jobs', t)
        /\ jobs'[t].kind = "close" /\ jobs'[t].current = jobs[t].current
        /\ jobs'[t].running = FALSE /\ jobs'[t].stop = FALSE /\ jobs'[t].success = FALSE
        /\ jobs'[t].error = TRUE
    BY <1>2, <1>7, Ended
  <2>2. /\ rows' \in [Threads -> RowsOfJob] /\ OthersKept(rows, rows', t)
        /\ \A i \in Numbers : rows'[t][i] = "none"
    BY <1>7, NothingTyped DEF Typed, OthersKept
  <2>3. CloseFits(t)'
    BY <1>4, <2>1, <2>2 DEF CloseFits
  <2>4. Lives(t)
    BY <1>2, <2>1 DEF Lives, Phase, Count
  <2> QED
    BY <1>1, <1>2, <1>4, <1>5, <2>1, <2>2, <2>3, <2>4, CloseProper
<1> QED
  BY <1>6, <1>7 DEF Tally

-----------------------------------------------------------------------------
(* Transfers and summaries.                                                *)

\* What their steps have in common.
LEMMA SingleProper ==
  ASSUME Typed, NEW t \in Threads, Fits(t), thread[t].kind \in {"transfer", "summary"},
         thread' \in [Threads -> ThreadRecord], OthersKept(thread, thread', t),
         thread'[t].kind = thread[t].kind, thread'[t].late = 0, thread'[t].pc # "scan",
         jobs' \in [Threads -> JobRecord], OthersKept(jobs, jobs', t), jobs'[t].kind = jobs[t].kind,
         jobs'[t].running => jobs[t].running /\ thread'[t].slots = thread[t].slots,
         UNCHANGED <<rows, helper, closed, library, latest, cooling, overlapped>>,
         thread[t].kind = "transfer" => TransferFits(t)',
         thread[t].kind = "summary" => SummaryFits(t)'
  PROVE  Proper(t) /\ Quiet(t)
<1>1. Typed'
  BY DEF Typed
<1>2. Alone(t)
  BY DEF Alone, OthersKept
<1>3. Fits(t)'
  BY DEF Fits
<1>4. Quiet(t)
  BY DEF Quiet, SlotsQuiet, LookupsQuiet, LookingUp, At
<1> QED
  BY <1>1, <1>2, <1>3, <1>4 DEF Proper

LEMMA SubmitTransferProper ==
  ASSUME Typed, NEW t \in Threads, Fits(t), SubmitTransfer(t)
  PROVE  Proper(t) /\ Quiet(t) /\ Lives(t)
<1>1. PICK ok \in BOOLEAN :
          /\ EndJob(t, ok, ~ok)
          /\ IF ok THEN Goto(t, "apply") ELSE Return(t)
  BY DEF SubmitTransfer
<1>2. /\ thread[t].kind = "transfer" /\ thread[t].pc = "begin" /\ TransferFits(t) /\ thread[t].late = 0
      /\ UNCHANGED <<rows, library, latest, cooling, helper, closed, overlapped>>
      /\ (~ok) \in BOOLEAN /\ "apply" \in Pcs
  BY Words DEF SubmitTransfer, At, Fits
<1>3. /\ jobs[t].kind = "transfer" /\ jobs[t].running /\ jobs[t].current = 0
      /\ thread[t].item = 0 /\ thread[t].attempt = 0
  BY <1>2 DEF TransferFits
<1>4. /\ jobs' \in [Threads -> JobRecord] /\ OthersKept(jobs, jobs', t)
      /\ jobs'[t].kind = "transfer" /\ jobs'[t].current = 0 /\ jobs'[t].running = FALSE
      /\ jobs'[t].stop = FALSE /\ jobs'[t].success = ok
  BY <1>1, <1>2, <1>3, Ended
<1>5. /\ thread' \in [Threads -> ThreadRecord] /\ OthersKept(thread, thread', t)
      /\ thread'[t].kind = "transfer" /\ thread'[t].item = 0 /\ thread'[t].attempt = 0
      /\ thread'[t].late = 0 /\ thread'[t].pc = IF ok THEN "apply" ELSE "over"
  <2>1. CASE ok
    BY <1>1, <1>2, <1>3, <2>1, Went
  <2>2. CASE ~ok
    BY <1>1, <1>2, <1>3, <2>2, Returned
  <2> QED
    BY <2>1, <2>2
<1>6. TransferFits(t)'
  <2>1. CASE ok
    BY <1>4, <1>5, <2>1 DEF TransferFits
  <2>2. CASE ~ok
    BY <1>4, <1>5, <2>2 DEF TransferFits
  <2> QED
    BY <2>1, <2>2
<1>7. Lives(t)
  BY <1>3, <1>4 DEF Lives, Phase, Count
<1>8. thread'[t].pc # "scan"
  BY <1>5
<1> QED
  BY <1>2, <1>3, <1>4, <1>5, <1>6, <1>7, <1>8, SingleProper

LEMMA ApplyTransferProper ==
  ASSUME Typed, NEW t \in Threads, Fits(t), ApplyTransfer(t)
  PROVE  Proper(t) /\ Quiet(t) /\ Lives(t)
<1>1. /\ thread[t].kind = "transfer" /\ thread[t].pc = "apply" /\ TransferFits(t) /\ Return(t)
      /\ UNCHANGED <<rows, library, latest, cooling, helper, closed, overlapped>>
  BY DEF ApplyTransfer, At, Fits
<1>2. /\ jobs[t].kind = "transfer" /\ ~jobs[t].running /\ jobs[t].current = 0 /\ jobs[t].success
      /\ jobs[t] \in JobRecord
  BY <1>1 DEF TransferFits, Typed
<1>3. /\ thread' \in [Threads -> ThreadRecord] /\ OthersKept(thread, thread', t)
      /\ thread'[t].kind = "transfer" /\ thread'[t].item = 0 /\ thread'[t].attempt = 0
      /\ thread'[t].late = 0 /\ thread'[t].pc = "over"
  BY <1>1, Returned
<1>4. CASE UNCHANGED jobs
  <2>1. jobs' \in [Threads -> JobRecord] /\ OthersKept(jobs, jobs', t) /\ jobs'[t] = jobs[t]
    BY <1>4 DEF Typed, OthersKept
  <2>2. TransferFits(t)'
    BY <1>1, <1>3, <2>1 DEF TransferFits
  <2>3. Lives(t)
    BY <1>2, <2>1 DEF Lives, Phase, Count
  <2> QED
    BY <1>1, <1>2, <1>3, <2>1, <2>2, <2>3, SingleProper
<1>5. CASE EndJob(t, FALSE, TRUE)
  <2>1. /\ jobs' \in [Threads -> JobRecord] /\ OthersKept(jobs, jobs', t)
        /\ jobs'[t].kind = "transfer" /\ jobs'[t].current = 0 /\ jobs'[t].running = FALSE
        /\ jobs'[t].stop = FALSE /\ jobs'[t].success = FALSE
    BY <1>2, <1>5, Ended
  <2>2. TransferFits(t)'
    BY <1>3, <2>1 DEF TransferFits
  <2>3. jobs[t].success = TRUE
    BY <1>2 DEF JobRecord
  <2>4. Lives(t)
    BY <1>2, <2>1, <2>3 DEF Lives, Phase, Count
  <2> QED
    BY <1>1, <1>2, <1>3, <2>1, <2>2, <2>4, SingleProper
<1> QED
  BY <1>4, <1>5 DEF ApplyTransfer

LEMMA BuildSummaryProper ==
  ASSUME Typed, NEW t \in Threads, Fits(t), BuildSummary(t)
  PROVE  Proper(t) /\ Quiet(t) /\ Lives(t)
<1>1. PICK ok \in BOOLEAN : EndJob(t, ok, ~ok)
  BY DEF BuildSummary
<1>2. /\ thread[t].kind = "summary" /\ thread[t].pc = "begin" /\ SummaryFits(t) /\ Return(t)
      /\ UNCHANGED <<rows, library, latest, cooling, helper, closed, overlapped>>
      /\ (~ok) \in BOOLEAN
  BY DEF BuildSummary, At, Fits
<1>3. jobs[t].kind = "summary" /\ jobs[t].running /\ jobs[t].current = 0
  BY <1>2 DEF SummaryFits
<1>4. /\ jobs' \in [Threads -> JobRecord] /\ OthersKept(jobs, jobs', t)
      /\ jobs'[t].kind = "summary" /\ jobs'[t].current = 0 /\ jobs'[t].running = FALSE
      /\ jobs'[t].stop = FALSE /\ jobs'[t].success = ok
  BY <1>1, <1>2, <1>3, Ended
<1>5. /\ thread' \in [Threads -> ThreadRecord] /\ OthersKept(thread, thread', t)
      /\ thread'[t].kind = "summary" /\ thread'[t].item = 0 /\ thread'[t].attempt = 0
      /\ thread'[t].late = 0 /\ thread'[t].pc = "over"
  BY <1>2, Returned
<1>6. SummaryFits(t)'
  BY <1>4, <1>5 DEF SummaryFits
<1>7. Lives(t)
  BY <1>3, <1>4 DEF Lives, Phase, Count
<1> QED
  BY <1>2, <1>3, <1>4, <1>5, <1>6, <1>7, SingleProper

-----------------------------------------------------------------------------
(* Lookups.                                                                *)

LEMMA LookUpState ==
  ASSUME Typed, NEW t \in Threads, Fits(t), thread[t].kind = "library"
  PROVE  /\ LibraryFits(t) /\ Blank(t) /\ jobs[t] = NoJob /\ thread[t].late = 0
         /\ jobs[t].running = FALSE /\ thread[t] \in ThreadRecord /\ library \in LibraryRecord
         /\ thread \in [Threads -> ThreadRecord]
BY DEF Fits, Blank, NoJob, Typed

\* A step of a lookup changes its thread, the dictionary and who cools down.
LEMMA LookUpProper ==
  ASSUME Typed, NEW t \in Threads, Fits(t), thread[t].kind = "library",
         thread' \in [Threads -> ThreadRecord], OthersKept(thread, thread', t),
         thread'[t].kind = "library", thread'[t].late = 0, cooling' \in SUBSET QuerySlots,
         UNCHANGED <<jobs, rows, latest, helper, closed, overlapped>>,
         library' \in LibraryRecord, LibraryFits(t)'
  PROVE  Proper(t) /\ SlotsQuiet(t) /\ Lives(t)
<1>1. Blank(t) /\ jobs'[t] = jobs[t] /\ jobs[t].running = FALSE
  BY LookUpState
<1>2. Proper(t) /\ Lives(t)
  BY <1>1, NoJobProper
<1>3. SlotsQuiet(t)
  BY <1>1 DEF SlotsQuiet, At
<1> QED
  BY <1>2, <1>3

LEMMA SlotTried ==
  ASSUME Typed, NEW t \in Threads, Fits(t), thread[t].kind = "library", LookingUp(t) \/ thread[t].pc = "clean",
         NEW ok \in BOOLEAN, thread[t].ok => ok, AnotherSlot(t, ok),
         UNCHANGED <<jobs, rows, latest, helper, closed, overlapped>>, library' = library
  PROVE  /\ Proper(t) /\ SlotsQuiet(t) /\ Lives(t)
         /\ thread'[t].kind = "library" /\ thread'[t].ok = ok
<1>1. /\ LibraryFits(t) /\ Blank(t) /\ thread[t].late = 0 /\ thread[t] \in ThreadRecord
      /\ thread \in [Threads -> ThreadRecord] /\ library' \in LibraryRecord
  BY LookUpState
<1>2. thread[t].slots \in SUBSET QuerySlots /\ thread[t].item = 0 /\ thread[t].attempt <= MaxAttempts
      /\ thread[t].attempt \in Nat /\ MaxAttempts \in Nat /\ thread[t].slots \in SUBSET AllSlots
  BY <1>1, AttemptsNat DEF LibraryFits, ThreadRecord
<1>3. cooling' \in SUBSET QuerySlots
  BY <1>2 DEF AnotherSlot, Typed
<1>4. thread[t].attempt > 0
  BY <1>1 DEF LookingUp, LibraryFits
<1>5. CASE thread[t].attempt < MaxAttempts
  <2> DEFINE attempt == thread[t].attempt + 1
             tried == thread[t].tried \cup thread[t].slots
             r == [thread[t] EXCEPT !.pc = "scan", !.at = Len(SlotOrder), !.slots = {},
                                    !.attempt = attempt, !.tried = tried, !.ok = ok]
  <2>1. thread' = [thread EXCEPT ![t] = r]
    BY ZenonT(40), <1>1, <1>5 DEF AnotherSlot
  <2>2. attempt \in Nat /\ attempt <= MaxAttempts
    BY <1>2, <1>5
  <2>3. tried \in SUBSET AllSlots
    BY <1>1, <1>2 DEF ThreadRecord
  <2> HIDE DEF attempt, tried
  <2>4. /\ r \in ThreadRecord /\ r.kind = "library" /\ r.pc = "scan" /\ r.slots = {} /\ r.item = 0
        /\ r.attempt = attempt /\ r.ok = ok /\ r.late = 0
    BY <1>1, <1>2, <2>2, <2>3, Words DEF ThreadRecord
  <2> HIDE DEF r
  <2>5. thread' \in [Threads -> ThreadRecord] /\ thread'[t] = r /\ OthersKept(thread, thread', t)
    BY <2>1, <2>4, ThreadWritten
  <2>6. LibraryFits(t)'
    BY <2>2, <2>4, <2>5 DEF LibraryFits
  <2> QED
    BY <1>1, <1>3, <2>4, <2>5, <2>6, LookUpProper
<1>6. CASE ~(thread[t].attempt < MaxAttempts)
  <2> DEFINE r == [thread[t] EXCEPT !.pc = "lose", !.ok = ok]
  <2>1. thread' = [thread EXCEPT ![t] = r]
    BY <1>1, <1>6 DEF AnotherSlot
  <2>2. /\ r \in ThreadRecord /\ r.kind = "library" /\ r.pc = "lose" /\ r.slots = thread[t].slots
        /\ r.item = 0 /\ r.attempt = thread[t].attempt /\ r.ok = ok /\ r.late = 0
    BY <1>1, <1>2, Words DEF ThreadRecord
  <2> HIDE DEF r
  <2>3. thread' \in [Threads -> ThreadRecord] /\ thread'[t] = r /\ OthersKept(thread, thread', t)
    BY <2>1, <2>2, ThreadWritten
  <2>4. LibraryFits(t)'
    BY <1>2, <1>4, <2>2, <2>3 DEF LibraryFits
  <2> QED
    BY <1>1, <1>3, <2>2, <2>3, <2>4, LookUpProper
<1> QED
  BY <1>5, <1>6

\* The route creates a lookup, or sees that another one came first.
LEMMA CreateLibraryProper ==
  ASSUME Typed, NEW t \in Threads, Fits(t), CreateLibrary(t)
  PROVE  /\ Proper(t) /\ SlotsQuiet(t) /\ Lives(t)
         /\ thread[t].kind = "library" /\ thread'[t].kind = "library" /\ thread'[t].ok = thread[t].ok
         /\ \/ LookupsQuiet(t)
            \/ library.running = FALSE /\ library'.running = TRUE /\ library'.shows = t
<1>1. /\ thread[t].pc = "scan" /\ thread[t].kind = "library" /\ thread[t].slots # {} /\ thread[t].attempt = 0
      /\ UNCHANGED <<jobs, rows, latest, cooling, helper, closed, overlapped>>
  BY DEF CreateLibrary, Selected
<1>2. /\ LibraryFits(t) /\ Blank(t) /\ thread[t].late = 0 /\ thread[t] \in ThreadRecord
      /\ thread \in [Threads -> ThreadRecord] /\ library \in LibraryRecord
  BY <1>1, LookUpState
<1>3. cooling' \in SUBSET QuerySlots
  BY <1>1 DEF Typed
<1>4. CASE library.running
  <2>1. Return(t) /\ library' = library /\ library' \in LibraryRecord
    BY <1>2, <1>4 DEF CreateLibrary
  <2>2. /\ thread' \in [Threads -> ThreadRecord] /\ OthersKept(thread, thread', t)
        /\ thread'[t].pc = "over" /\ thread'[t].kind = "library" /\ thread'[t].slots = {}
        /\ thread'[t].item = 0 /\ thread'[t].attempt = 0 /\ thread'[t].late = 0
        /\ thread'[t].ok = thread[t].ok
    BY <1>1, <2>1, Returned
  <2>3. LibraryFits(t)'
    BY <2>2, AttemptsNat DEF LibraryFits
  <2>4. Proper(t) /\ SlotsQuiet(t) /\ Lives(t)
    BY <1>1, <1>3, <2>1, <2>2, <2>3, LookUpProper
  <2>5. LookupsQuiet(t)
    BY <2>1, <2>2 DEF LookupsQuiet, LookingUp
  <2> QED
    BY <1>1, <2>2, <2>4, <2>5
<1>5. CASE ~library.running
  <2> DEFINE slots == {First(thread[t].slots)}
             r == [thread[t] EXCEPT !.pc = "begin", !.attempt = 1, !.slots = slots]
  <2>1. /\ library' = [running |-> TRUE, success |-> FALSE, shows |-> t]
        /\ thread' = [thread EXCEPT ![t] = r]
    BY <1>2, <1>5 DEF CreateLibrary
  <2>2. thread[t].slots \in SUBSET QuerySlots
    BY <1>2 DEF LibraryFits
  <2>3. slots \subseteq QuerySlots /\ slots \in SUBSET AllSlots
    BY <1>1, <2>2, FirstPicked, Words
  <2> HIDE DEF slots
  <2>4. /\ r \in ThreadRecord /\ r.kind = "library" /\ r.pc = "begin" /\ r.slots = slots
        /\ r.item = thread[t].item /\ r.attempt = 1 /\ r.ok = thread[t].ok /\ r.late = 0
    BY <1>1, <1>2, <2>3, Words DEF ThreadRecord
  <2> HIDE DEF r
  <2>5. thread' \in [Threads -> ThreadRecord] /\ thread'[t] = r /\ OthersKept(thread, thread', t)
    BY <2>1, <2>4, ThreadWritten
  <2>6. MaxAttempts >= 1
    <3>1. Len(SlotOrder) >= 1
      <4>1. PICK s \in QuerySlots : TRUE
        BY <1>1, <2>2
      <4> QED
        BY <4>1 DEF QuerySlots, Range
    <3> QED
      BY <3>1 DEF MaxAttempts
  <2>7. LibraryFits(t)'
    BY <1>2, <2>3, <2>4, <2>5, <2>6, AttemptsNat DEF LibraryFits
  <2>8. library' \in LibraryRecord /\ library'.running = TRUE /\ library'.shows = t
    BY <2>1 DEF LibraryRecord, Threads
  <2>9. Proper(t) /\ SlotsQuiet(t) /\ Lives(t)
    BY <1>1, <1>3, <2>4, <2>5, <2>7, <2>8, LookUpProper
  <2>10. library.running = FALSE
    BY <1>2, <1>5 DEF LibraryRecord
  <2> QED
    BY <1>1, <2>4, <2>5, <2>8, <2>9, <2>10
<1> QED
  BY <1>4, <1>5

\* A query for the lookup: a success is shown at once, a failure changes the slot.
LEMMA LookUpStepProper ==
  ASSUME Typed, NEW t \in Threads, Fits(t), LookUp(t)
  PROVE  /\ Proper(t) /\ SlotsQuiet(t) /\ Lives(t) /\ LookingUp(t)
         /\ thread[t].kind = "library" /\ thread'[t].kind = "library" /\ thread'[t].ok = thread[t].ok
         /\ \/ LookupsQuiet(t)
            \/ ~LookingUp(t)'
<1>1. /\ thread[t].pc = "begin" /\ thread[t].kind = "library"
      /\ UNCHANGED <<jobs, rows, latest, helper, closed, overlapped>>
  BY DEF LookUp, At
<1>2. /\ LibraryFits(t) /\ Blank(t) /\ thread[t].late = 0 /\ thread[t] \in ThreadRecord
      /\ thread \in [Threads -> ThreadRecord] /\ library \in LibraryRecord
  BY <1>1, LookUpState
<1>3. LookingUp(t) /\ thread[t].ok \in BOOLEAN
  BY <1>1, <1>2 DEF LookingUp, LibraryFits, ThreadRecord
<1>4. CASE /\ library' = [library EXCEPT !.running = FALSE, !.success = TRUE]
           /\ cooling' = cooling \ thread[t].slots
           /\ Goto(t, "clean")
  <2>1. /\ thread' \in [Threads -> ThreadRecord] /\ OthersKept(thread, thread', t)
        /\ thread'[t].pc = "clean" /\ thread'[t].kind = "library" /\ thread'[t].slots = thread[t].slots
        /\ thread'[t].item = thread[t].item /\ thread'[t].attempt = thread[t].attempt
        /\ thread'[t].late = 0 /\ thread'[t].ok = thread[t].ok
    BY <1>1, <1>2, <1>4, Went, Words
  <2>2. LibraryFits(t)'
    BY <1>1, <1>2, <2>1 DEF LibraryFits
  <2>3. library' \in LibraryRecord /\ cooling' \in SUBSET QuerySlots
    BY <1>2, <1>4 DEF LibraryRecord, Typed
  <2>4. Proper(t) /\ SlotsQuiet(t) /\ Lives(t)
    BY <1>1, <1>2, <2>1, <2>2, <2>3, LookUpProper
  <2>5. ~LookingUp(t)'
    BY <2>1 DEF LookingUp
  <2> QED
    BY <1>1, <1>3, <2>1, <2>4, <2>5
<1>5. CASE AnotherSlot(t, thread[t].ok) /\ UNCHANGED library
  <2> DEFINE ok == thread[t].ok
  <2>1. ok \in BOOLEAN /\ (thread[t].ok => ok) /\ AnotherSlot(t, ok) /\ ok = thread[t].ok
    BY <1>3, <1>5
  <2> HIDE DEF ok
  <2>2. /\ Proper(t) /\ SlotsQuiet(t) /\ Lives(t)
        /\ thread'[t].kind = "library" /\ thread'[t].ok = ok
    BY <1>1, <1>3, <1>5, <2>1, SlotTried
  <2>3. LookupsQuiet(t)
    BY <1>3, <1>5, <2>1, <2>2 DEF LookupsQuiet
  <2> QED
    BY <1>1, <1>3, <2>1, <2>2, <2>3
<1> QED
  BY <1>4, <1>5 DEF LookUp

\* The temporary result goes, or the lookup relapses.
LEMMA CleanUpProper ==
  ASSUME Typed, NEW t \in Threads, Fits(t), CleanUp(t)
  PROVE  /\ Proper(t) /\ SlotsQuiet(t) /\ Lives(t) /\ library' = library
         /\ thread[t].kind = "library" /\ thread'[t].kind = "library"
         /\ thread[t].ok => thread'[t].ok
         /\ LookupsQuiet(t) \/ thread'[t].ok
<1>1. /\ thread[t].pc = "clean" /\ thread[t].kind = "library" /\ library' = library
      /\ UNCHANGED <<jobs, rows, library, latest, helper, closed, overlapped>>
  BY DEF CleanUp, At
<1>2. library' \in LibraryRecord /\ thread[t].late = 0
  BY <1>1, LookUpState
<1>3. CASE Return(t) /\ UNCHANGED cooling
  <2>1. /\ thread' \in [Threads -> ThreadRecord] /\ OthersKept(thread, thread', t)
        /\ thread'[t].pc = "over" /\ thread'[t].kind = "library" /\ thread'[t].slots = {}
        /\ thread'[t].item = 0 /\ thread'[t].attempt = 0 /\ thread'[t].late = 0
        /\ thread'[t].ok = thread[t].ok
    BY <1>1, <1>3, Returned
  <2>2. LibraryFits(t)'
    BY <2>1, AttemptsNat DEF LibraryFits
  <2>3. cooling' \in SUBSET QuerySlots
    BY <1>3 DEF Typed
  <2>4. Proper(t) /\ SlotsQuiet(t) /\ Lives(t)
    BY <1>1, <1>2, <2>1, <2>2, <2>3, LookUpProper
  <2>5. LookupsQuiet(t)
    BY <1>1, <2>1 DEF LookupsQuiet, LookingUp
  <2> QED
    BY <1>1, <2>1, <2>4, <2>5
<1>4. CASE AnotherSlot(t, TRUE)
  BY <1>1, <1>4, SlotTried
<1> QED
  BY <1>3, <1>4 DEF CleanUp

LEMMA SwitchSlotProper ==
  ASSUME Typed, NEW t \in Threads, Fits(t), SwitchSlot(t)
  PROVE  Proper(t) /\ Quiet(t) /\ Lives(t)
<1>1. /\ thread[t].pc = "scan" /\ thread[t].kind = "library" /\ thread[t].attempt > 0
      /\ UNCHANGED <<jobs, rows, library, latest, cooling, helper, closed, overlapped>>
  BY DEF SwitchSlot, Selected
<1>2. /\ LibraryFits(t) /\ Blank(t) /\ thread[t].late = 0 /\ thread[t] \in ThreadRecord
      /\ thread \in [Threads -> ThreadRecord] /\ library' \in LibraryRecord
  BY <1>1, LookUpState
<1>3. cooling' \in SUBSET QuerySlots
  BY <1>1 DEF Typed
<1>4. LookingUp(t)
  BY <1>1 DEF LookingUp
<1>5. CASE thread[t].slots = {}
  <2>1. Goto(t, "lose") /\ "lose" \in Pcs
    BY <1>5, Words DEF SwitchSlot
  <2>2. /\ thread' \in [Threads -> ThreadRecord] /\ OthersKept(thread, thread', t)
        /\ thread'[t].pc = "lose" /\ thread'[t].kind = "library" /\ thread'[t].slots = thread[t].slots
        /\ thread'[t].item = thread[t].item /\ thread'[t].attempt = thread[t].attempt
        /\ thread'[t].late = 0 /\ thread'[t].ok = thread[t].ok
    BY <1>1, <1>2, <2>1, Went
  <2>3. LibraryFits(t)'
    BY <1>1, <1>2, <2>2 DEF LibraryFits
  <2>4. Proper(t) /\ SlotsQuiet(t) /\ Lives(t)
    BY <1>1, <1>2, <1>3, <2>2, <2>3, LookUpProper
  <2> QED
    BY <1>1, <1>4, <2>2, <2>4 DEF Quiet, LookupsQuiet
<1>6. CASE thread[t].slots # {}
  <2> DEFINE slots == {First(thread[t].slots)}
             r == [thread[t] EXCEPT !.pc = "begin", !.slots = slots]
  <2>1. thread' = [thread EXCEPT ![t] = r]
    BY <1>2, <1>6 DEF SwitchSlot
  <2>2. thread[t].slots \in SUBSET QuerySlots
    BY <1>2 DEF LibraryFits
  <2>3. slots \subseteq QuerySlots /\ slots \in SUBSET AllSlots
    BY <1>6, <2>2, FirstPicked, Words
  <2> HIDE DEF slots
  <2>4. /\ r \in ThreadRecord /\ r.kind = "library" /\ r.pc = "begin" /\ r.slots = slots
        /\ r.item = thread[t].item /\ r.attempt = thread[t].attempt /\ r.ok = thread[t].ok /\ r.late = 0
    BY <1>1, <1>2, <2>3, Words DEF ThreadRecord
  <2> HIDE DEF r
  <2>5. thread' \in [Threads -> ThreadRecord] /\ thread'[t] = r /\ OthersKept(thread, thread', t)
    BY <2>1, <2>4, ThreadWritten
  <2>6. LibraryFits(t)'
    BY <1>1, <1>2, <2>3, <2>4, <2>5 DEF LibraryFits
  <2>7. Proper(t) /\ SlotsQuiet(t) /\ Lives(t)
    BY <1>1, <1>2, <1>3, <2>4, <2>5, <2>6, LookUpProper
  <2> QED
    BY <1>1, <1>4, <2>4, <2>5, <2>7 DEF Quiet, LookupsQuiet
<1> QED
  BY <1>5, <1>6

LEMMA LoseLookUpProper ==
  ASSUME Typed, NEW t \in Threads, Fits(t), LoseLookUp(t)
  PROVE  /\ Proper(t) /\ SlotsQuiet(t) /\ Lives(t)
         /\ thread[t].kind = "library" /\ thread'[t].kind = "library" /\ thread'[t].ok = thread[t].ok
         /\ LookingUp(t) /\ ~LookingUp(t)'
<1>1. /\ thread[t].pc = "lose" /\ thread[t].kind = "library" /\ Return(t)
      /\ library' = [library EXCEPT !.running = FALSE, !.success = FALSE]
      /\ UNCHANGED <<jobs, rows, latest, cooling, helper, closed, overlapped>>
  BY DEF LoseLookUp, At
<1>2. LibraryFits(t) /\ library \in LibraryRecord
  BY <1>1, LookUpState
<1>3. /\ thread' \in [Threads -> ThreadRecord] /\ OthersKept(thread, thread', t)
      /\ thread'[t].pc = "over" /\ thread'[t].kind = "library" /\ thread'[t].slots = {}
      /\ thread'[t].item = 0 /\ thread'[t].attempt = 0 /\ thread'[t].late = 0
      /\ thread'[t].ok = thread[t].ok
  BY <1>1, Returned
<1>4. LibraryFits(t)'
  BY <1>3, AttemptsNat DEF LibraryFits
<1>5. library' \in LibraryRecord /\ cooling' \in SUBSET QuerySlots
  BY <1>1, <1>2 DEF LibraryRecord, Typed
<1>6. Proper(t) /\ SlotsQuiet(t) /\ Lives(t)
  BY <1>1, <1>3, <1>4, <1>5, LookUpProper
<1>7. LookingUp(t) /\ ~LookingUp(t)'
  BY <1>1, <1>2, <1>3 DEF LookingUp, LibraryFits
<1> QED
  BY <1>1, <1>3, <1>6, <1>7

-----------------------------------------------------------------------------
(* All starts.                                                             *)

LEMMA QuietLookups ==
  ASSUME NEW t \in Threads, Alone(t), LookupsQuiet(t), OneLookup
  PROVE  OneLookup'
<1>1. Relapsed => Relapsed'
  BY DEF Relapsed, Alone, LookupsQuiet
<1>2. \A u \in Threads : LookingUp(u)' => LookingUp(u)
  BY DEF LookingUp, Alone, LookupsQuiet
<1> QED
  BY <1>1, <1>2 DEF OneLookup, LookupsQuiet

LEMMA QuietSlots ==
  ASSUME NEW t \in Threads, Alone(t), SlotsQuiet(t), SlotsKnown
  PROVE  SlotsKnown'
<1>1. \A u \in Threads, s \in AllSlots : Uses(u, s)' => Uses(u, s) /\ jobs'[u].kind = jobs[u].kind
  BY DEF Uses, Alone, SlotsQuiet
<1>2. \A u \in Threads : At(u, "close", "scan")' => At(u, "close", "scan") /\ thread'[u] = thread[u]
  BY DEF At, Alone, SlotsQuiet
<1> QED
  BY <1>1, <1>2 DEF SlotsKnown, SlotsQuiet

\* A job that begins on slots no other job of its kind uses, and that no
\* closing has selected before it is entered.
LEMMA CreatedSlots ==
  ASSUME Typed, NEW t \in Threads, Alone(t), SlotsKnown, NEW k \in Kinds, NEW slots \in SUBSET AllSlots,
         CreateJob(t, k, slots), thread'[t].pc = "begin", thread'[t].slots = slots,
         overlapped = {} => \A u \in Threads, s \in slots : Uses(u, s) => jobs[u].kind # k
  PROVE  SlotsKnown'
<1> SUFFICES ASSUME overlapped' = {} PROVE SlotsKnown'
  BY DEF SlotsKnown
<1>1. /\ jobs'[t].kind = k /\ overlapped \subseteq overlapped'
      /\ \A m \in Kinds, s \in AllSlots :
              latest'[m][s] = IF m = k /\ s \in slots THEN t ELSE latest[m][s]
      /\ k \in {"batch", "close"} =>
              \A u \in Threads \ {t} : At(u, "close", "scan") => u \in overlapped'
  <2> DEFINE new == [s \in DOMAIN latest[k] |-> IF s \in slots THEN t ELSE latest[k][s]]
  <2>1. /\ jobs' = [jobs EXCEPT ![t] = [NoJob EXCEPT !.kind = k, !.running = TRUE]]
        /\ latest' = [latest EXCEPT ![k] = new]
        /\ overlapped' = overlapped \cup
               {u \in Threads \ {t} : At(u, "close", "scan") /\ k \in {"batch", "close"}}
    BY DEF CreateJob
  <2>2. DOMAIN latest = Kinds /\ DOMAIN latest[k] = AllSlots /\ t \in DOMAIN jobs
    BY DEF Typed, EntriesOfKind
  <2>3. \A s \in AllSlots : new[s] = IF s \in slots THEN t ELSE latest[k][s]
    BY <2>2
  <2> HIDE DEF new
  <2>4. jobs'[t].kind = k
    BY <2>1, <2>2 DEF NoJob
  <2>5. \A m \in Kinds : latest'[m] = IF m = k THEN new ELSE latest[m]
    BY <2>1, <2>2
  <2> QED
    BY <2>1, <2>3, <2>4, <2>5
<1>2. overlapped = {}
  BY <1>1
<1>3. \A u \in Threads \ {t} : /\ thread'[u] = thread[u] /\ jobs'[u] = jobs[u]
                               /\ \A s \in AllSlots : Uses(u, s)' <=> Uses(u, s)
                               /\ At(u, "close", "scan")' <=> At(u, "close", "scan")
  BY DEF Alone, Uses, At
<1>4. ~At(t, "close", "scan")'
  BY DEF At
<1>5. ASSUME NEW u \in Threads, NEW s \in AllSlots, Uses(u, s)'
      PROVE  latest'[jobs'[u].kind][s] = u
  <2>1. jobs'[u].kind \in Kinds
    BY <1>5 DEF Uses, Kinds, Direct
  <2>2. CASE u = t
    <3>1. s \in slots /\ jobs'[u].kind = k
      BY <1>1, <1>5, <2>2 DEF Uses
    <3> QED
      BY <1>1, <2>2, <3>1
  <2>3. CASE u # t
    <3>1. Uses(u, s) /\ jobs'[u].kind = jobs[u].kind
      BY <1>3, <1>5, <2>3
    <3>2. latest[jobs[u].kind][s] = u /\ ~(jobs[u].kind = k /\ s \in slots)
      BY <1>2, <3>1 DEF SlotsKnown
    <3> QED
      BY <1>1, <2>1, <3>1, <3>2
  <2> QED
    BY <2>2, <2>3
<1>6. ASSUME NEW u \in Threads, NEW s \in AllSlots, Uses(u, s)',
             NEW v \in Threads, At(v, "close", "scan")'
      PROVE  s \notin thread'[v].slots
  <2>1. v # t /\ At(v, "close", "scan")
    BY <1>3, <1>4, <1>6
  <2>2. CASE u = t
    <3>1. k \in {"batch", "close"}
      BY <1>1, <1>6, <2>2 DEF Uses
    <3> QED
      BY <1>1, <2>1, <3>1
  <2>3. CASE u # t
    BY <1>2, <1>3, <1>6, <2>1, <2>3 DEF SlotsKnown
  <2> QED
    BY <2>2, <2>3
<1> QED
  BY <1>5, <1>6 DEF SlotsKnown

\* Where the checks find a slot free, no job uses it.
LEMMA FreeMeansUnused ==
  ASSUME SlotsKnown, overlapped = {}, NEW s \in AllSlots, NEW k \in {"batch", "close"}, ~RunningOn(k, s),
         NEW u \in Threads, jobs[u].kind = k
  PROVE  ~Uses(u, s)
<1> SUFFICES ASSUME Uses(u, s) PROVE FALSE
  OBVIOUS
<1>1. latest[k][s] = u /\ jobs[u].running
  BY DEF SlotsKnown, Uses
<1>2. u # NoThread
  BY DEF Threads, NoThread
<1> QED
  BY <1>1, <1>2 DEF RunningOn

\* An action of start t, whichever it is.
Acts(t) ==
  \/ \E k \in Direct : \E s \in SlotsOf(k) : StartDirect(t, k, s)
  \/ \E k \in {"close", "library"} : StartSelection(t, k)
  \/ RequestStop(t)
  \/ ThreadStep(t)

\* The actions that neither begin a job nor have to do with the lookups.
Plain(t) ==
  \/ RequestStop(t) \/ RefuseStart(t)
  \/ CheckLogin(t) \/ TakeItem(t) \/ BeforeAttempt(t) \/ Query(t) \/ Record(t) \/ FinishBatch(t)
  \/ Tally(t) \/ SubmitTransfer(t) \/ ApplyTransfer(t) \/ BuildSummary(t) \/ SwitchSlot(t)
  \/ \E s \in QuerySlots : TakeOrder(t, s) \/ CloseOrder(t, s)

LEMMA PlainProper ==
  ASSUME Typed, NEW t \in Threads, Fits(t), Plain(t)
  PROVE  Proper(t) /\ Quiet(t) /\ Lives(t)
BY RequestStopProper, RefuseStartProper, CheckLoginProper, TakeItemProper, BeforeAttemptProper,
   QueryProper, RecordProper, FinishBatchProper, TallyProper, SubmitTransferProper,
   ApplyTransferProper, BuildSummaryProper, SwitchSlotProper, TakeOrderProper, CloseOrderProper
   DEF Plain

LEMMA ActsCases ==
  ASSUME NEW t \in Threads, Acts(t)
  PROVE  \/ Plain(t) \/ Scan(t) \/ CreateClose(t) \/ CreateLibrary(t)
         \/ LookUp(t) \/ CleanUp(t) \/ LoseLookUp(t)
         \/ \E k \in Direct : \E s \in SlotsOf(k) : StartDirect(t, k, s)
         \/ \E k \in {"close", "library"} : StartSelection(t, k)
BY DEF Acts, Plain, ThreadStep, Step, HelperStep

LEMMA ActsProper ==
  ASSUME Typed, NEW t \in Threads, Fits(t), Acts(t)
  PROVE  Proper(t) /\ Lives(t)
BY ZenonT(40), ActsCases, PlainProper, ScanProper, CreateCloseProper, CreateLibraryProper, LookUpStepProper,
   CleanUpProper, LoseLookUpProper, StartDirectProper, StartSelectionProper

LEMMA ActsOneLookup ==
  ASSUME Typed, NEW t \in Threads, Fits(t), OneLookup, Acts(t)
  PROVE  OneLookup'
<1>1. Alone(t)
  BY ActsProper DEF Proper
<1>2. CASE LookupsQuiet(t)
  BY <1>1, <1>2, QuietLookups
<1>3. CASE CreateLibrary(t) /\ ~LookupsQuiet(t)
  <2>1. /\ library.running = FALSE /\ library'.running = TRUE /\ library'.shows = t
        /\ thread[t].kind = "library" /\ thread'[t].kind = "library" /\ thread'[t].ok = thread[t].ok
    BY <1>3, CreateLibraryProper
  <2>2. Relapsed => Relapsed'
    BY <1>1, <2>1 DEF Relapsed, Alone
  <2>3. \A u \in Threads \ {t} : LookingUp(u)' <=> LookingUp(u)
    BY <1>1 DEF LookingUp, Alone
  <2> QED
    BY <2>1, <2>2, <2>3 DEF OneLookup
<1>4. CASE (LookUp(t) \/ LoseLookUp(t)) /\ ~LookupsQuiet(t)
  <2>1. /\ LookingUp(t) /\ ~LookingUp(t)'
        /\ thread[t].kind = "library" /\ thread'[t].kind = "library" /\ thread'[t].ok = thread[t].ok
    BY <1>4, LookUpStepProper, LoseLookUpProper
  <2>2. Relapsed => Relapsed'
    BY <1>1, <2>1 DEF Relapsed, Alone
  <2>3. \A u \in Threads \ {t} : LookingUp(u)' <=> LookingUp(u)
    BY <1>1 DEF LookingUp, Alone
  <2> QED
    BY <2>1, <2>2, <2>3 DEF OneLookup
<1>5. CASE CleanUp(t) /\ ~LookupsQuiet(t)
  <2>1. thread'[t].kind = "library" /\ thread'[t].ok
    BY <1>5, CleanUpProper
  <2> QED
    BY <2>1 DEF OneLookup, Relapsed
<1> QED
  BY <1>2, <1>3, <1>4, <1>5, ActsCases, PlainProper, ScanProper, CreateCloseProper,
     StartDirectProper, StartSelectionProper DEF Quiet

LEMMA ActsSlotsKnown ==
  ASSUME Typed, NEW t \in Threads, Fits(t), SlotsKnown, Acts(t)
  PROVE  SlotsKnown'
<1>1. Alone(t)
  BY ActsProper DEF Proper
<1>2. CASE SlotsQuiet(t)
  BY <1>1, <1>2, QuietSlots
<1>3. ASSUME NEW k \in Direct, NEW s \in SlotsOf(k), StartDirect(t, k, s)
      PROVE  SlotsKnown'
  <2>1. CreateJob(t, k, {s}) /\ thread'[t].pc = "begin" /\ thread'[t].slots = {s}
    BY <1>3, StartDirectProper
  <2>2. k \in Kinds /\ s \in AllSlots /\ {s} \in SUBSET AllSlots /\ k # "close"
    BY DirectKinds
  <2>3. ~RunningOn(k, s)
    BY <1>3 DEF StartDirect
  <2>4. overlapped = {} => \A u \in Threads, q \in {s} : Uses(u, q) => jobs[u].kind # k
    <3> SUFFICES ASSUME overlapped = {}, NEW u \in Threads, Uses(u, s), jobs[u].kind = k
                 PROVE  FALSE
      OBVIOUS
    <3>1. k \in {"batch", "close"}
      BY DEF Uses
    <3> QED
      BY <2>2, <2>3, <3>1, FreeMeansUnused
  <2> DEFINE slots == {s}
  <2>5. slots \in SUBSET AllSlots /\ CreateJob(t, k, slots) /\ thread'[t].slots = slots
        /\ (overlapped = {} => \A u \in Threads, q \in slots : Uses(u, q) => jobs[u].kind # k)
    BY <2>1, <2>2, <2>4
  <2> HIDE DEF slots
  <2> QED
    BY <1>1, <2>1, <2>2, <2>5, CreatedSlots
<1>4. CASE CreateClose(t)
  <2> DEFINE slots == thread[t].slots
  <2>1. /\ CreateJob(t, "close", slots) /\ thread'[t].pc = "begin" /\ thread'[t].slots = slots
        /\ At(t, "close", "scan")
    BY <1>4, CreateCloseProper
  <2>2. slots \in SUBSET AllSlots /\ "close" \in Kinds
    BY Words DEF Typed, ThreadRecord
  <2>3. overlapped = {} => \A u \in Threads, q \in slots : Uses(u, q) => jobs[u].kind # "close"
    BY <2>1, <2>2 DEF SlotsKnown
  <2> HIDE DEF slots
  <2> QED
    BY <1>1, <2>1, <2>2, <2>3, CreatedSlots
<1>5. CASE Scan(t)
  <2>1. /\ jobs' = jobs /\ latest' = latest /\ overlapped' = overlapped /\ jobs[t].running = FALSE
        /\ thread[t].pc = "scan" /\ thread'[t].kind = thread[t].kind
        /\ \A s \in thread'[t].slots \ thread[t].slots : s \in QuerySlots /\ Free(s)
    BY <1>5, ScanProper DEF NoJob
  <2> SUFFICES ASSUME overlapped = {} PROVE SlotsKnown'
    BY <2>1 DEF SlotsKnown
  <2>2. \A u \in Threads, s \in AllSlots : Uses(u, s)' => Uses(u, s) /\ u # t
    BY <1>1, <2>1 DEF Uses, Alone
  <2>3. ASSUME NEW u \in Threads, NEW s \in AllSlots, Uses(u, s),
               NEW v \in Threads, At(v, "close", "scan")'
        PROVE  s \notin thread'[v].slots
    <3>1. CASE v # t
      BY <1>1, <2>3, <3>1 DEF SlotsKnown, Alone, At
    <3>2. CASE v = t
      <4>1. At(v, "close", "scan") /\ s \notin thread[t].slots
        BY <2>1, <2>3, <3>2 DEF SlotsKnown, At
      <4>2. jobs[u].kind \in {"batch", "close"}
        BY <2>3 DEF Uses
      <4>3. ~Free(s)
        BY <2>3, <4>2, FreeMeansUnused DEF Free
      <4> QED
        BY <2>1, <3>2, <4>1, <4>3
    <3> QED
      BY <3>1, <3>2
  <2> QED
    BY <2>1, <2>2, <2>3 DEF SlotsKnown
<1>6. ASSUME NEW k \in {"close", "library"}, StartSelection(t, k)
      PROVE  SlotsKnown'
  <2>1. /\ jobs' = jobs /\ latest' = latest /\ overlapped' = overlapped
        /\ thread'[t].slots = {} /\ jobs[t].running = FALSE
    BY <1>6, StartSelectionProper DEF NoJob
  <2>2. \A u \in Threads, s \in AllSlots : Uses(u, s)' => Uses(u, s) /\ u # t
    BY <1>1, <2>1 DEF Uses, Alone
  <2>3. \A v \in Threads : At(v, "close", "scan")' => v = t \/ (At(v, "close", "scan") /\ thread'[v] = thread[v])
    BY <1>1 DEF At, Alone
  <2> QED
    BY <2>1, <2>2, <2>3 DEF SlotsKnown
<1> QED
  BY <1>2, <1>3, <1>4, <1>5, <1>6, ActsCases, PlainProper, CreateLibraryProper, LookUpStepProper,
     CleanUpProper, LoseLookUpProper DEF Quiet

\* A step that leaves all but the cooling slots as it is.
LEMMA NothingButCooling ==
  ASSUME IInv, cooling' \in SUBSET QuerySlots,
         UNCHANGED <<jobs, rows, library, latest, thread, helper, closed, overlapped>>
  PROVE  IInv'
<1>1. Typed'
  BY DEF IInv, Typed
<1>2. ASSUME NEW t \in Threads PROVE Fits(t)'
  <2>1. Fits(t)
    BY DEF IInv
  <2> QED
    BY <2>1 DEF Fits, Blank, BatchFits, CloseFits, QueueFits, InHand, Settled, TransferFits,
                SummaryFits, LibraryFits
<1>3. OneLookup' /\ SlotsKnown'
  BY DEF IInv, OneLookup, Relapsed, LookingUp, SlotsKnown, Uses, At
<1> QED
  BY <1>1, <1>2, <1>3 DEF IInv

LEMMA NextCases ==
  ASSUME [Next]_vars, Typed
  PROVE  \/ \E t \in Threads : Acts(t)
         \/ /\ cooling' \in SUBSET QuerySlots
            /\ UNCHANGED <<jobs, rows, library, latest, thread, helper, closed, overlapped>>
BY DEF Next, Acts, CoolDown, Terminating, vars, Typed

LEMMA StepIInv == IInv /\ [Next]_vars => IInv'
<1> SUFFICES ASSUME IInv, [Next]_vars PROVE IInv'
  OBVIOUS
<1>1. Typed /\ (\A t \in Threads : Fits(t)) /\ OneLookup /\ SlotsKnown
  BY DEF IInv
<1>2. ASSUME NEW t \in Threads, Acts(t) PROVE IInv'
  <2>1. Proper(t)
    BY <1>1, <1>2, ActsProper
  <2>2. \A u \in Threads : Fits(u)'
    BY <1>1, <2>1, OthersFit DEF Proper
  <2> QED
    BY <1>1, <1>2, <2>1, <2>2, ActsOneLookup, ActsSlotsKnown DEF IInv, Proper
<1> QED
  BY <1>1, <1>2, NextCases, NothingButCooling

-----------------------------------------------------------------------------
(* What the invariant means.                                               *)

LEMMA LocalJobsSafe == Spec => []IInv
BY InitIInv, StepIInv, PTL DEF Spec

\* The dictionaries, threads and helpers have their shapes.
THEOREM LocalTyped == Spec => []TypeOK
<1>1. IInv => TypeOK
  <2> SUFFICES ASSUME IInv PROVE TypeOK
    OBVIOUS
  <2>1. Typed
    BY DEF IInv
  <2>2. ASSUME NEW t \in Threads
        PROVE  /\ jobs[t].kind \in {"none", "close"} \cup Direct
               /\ thread[t].slots \subseteq QuerySlots \cup {TransferSlot}
               /\ jobs[t].current \in 0..Items
               /\ \A f \in {"running", "success", "stop", "error"} : jobs[t][f] \in BOOLEAN
               /\ thread[t].item \in 0..(Items + 1)
               /\ thread[t].attempt \in 0..(IF thread[t].kind = "library" THEN MaxAttempts ELSE Retries + 1)
               /\ thread[t].at \in 0..Len(SlotOrder)
               /\ helper[t] \in [QuerySlots -> {Out, Waiting} \cup Numbers]
               /\ rows[t] \in [Numbers -> {"none", "ok", "failed"}]
    <3>1. jobs[t] \in JobRecord /\ thread[t] \in ThreadRecord
      BY <2>1 DEF Typed
    <3>2. thread[t].kind \in ThreadKinds /\ thread[t].item \in Nat /\ thread[t].attempt \in Nat
      BY <3>1 DEF ThreadRecord
    <3>3. Fits(t)
      BY DEF IInv
    <3>4. /\ thread[t].item <= Items + 1
          /\ thread[t].kind = "library" => thread[t].attempt <= MaxAttempts
          /\ thread[t].kind # "library" => thread[t].attempt <= Retries + 1
      <4>1. CASE thread[t].kind = "none"
        <5>1. thread[t].item = 0 /\ thread[t].attempt = 0
          BY <3>3, <4>1 DEF Fits, Idle
        <5> QED
          BY <4>1, <5>1
      <4>2. CASE thread[t].kind = "batch"
        BY <3>3, <4>2 DEF Fits, BatchFits
      <4>3. CASE thread[t].kind = "close"
        <5>1. CloseFits(t)
          BY <3>3, <4>3 DEF Fits
        <5>2. thread[t].item <= Items /\ thread[t].attempt = 0
          BY <5>1 DEF CloseFits, QueueFits
        <5> QED
          BY <3>2, <4>3, <5>2
      <4>4. CASE thread[t].kind \in {"transfer", "summary"}
        <5>1. thread[t].item = 0 /\ thread[t].attempt = 0
          BY <3>3, <4>4 DEF Fits, TransferFits, SummaryFits
        <5> QED
          BY <4>4, <5>1
      <4>5. CASE thread[t].kind = "library"
        <5>1. thread[t].item = 0 /\ thread[t].attempt <= MaxAttempts
          BY <3>3, <4>5 DEF Fits, LibraryFits
        <5> QED
          BY <4>5, <5>1
      <4> QED
        BY <3>2, <4>1, <4>2, <4>3, <4>4, <4>5 DEF ThreadKinds, JobKinds, Kinds, Direct
    <3>5. thread[t].item \in 0..(Items + 1)
      BY <3>2, <3>4
    <3>6. thread[t].attempt \in 0..(IF thread[t].kind = "library" THEN MaxAttempts ELSE Retries + 1)
      BY <3>2, <3>4, AttemptsNat
    <3>7. /\ jobs[t].kind \in {"none", "close"} \cup Direct
          /\ jobs[t].current \in 0..Items
      BY <3>1 DEF JobRecord, JobKinds, Kinds, Counts
    <3>8. \A f \in {"running", "success", "stop", "error"} : jobs[t][f] \in BOOLEAN
      BY <3>1 DEF JobRecord
    <3>9. thread[t].slots \subseteq QuerySlots \cup {TransferSlot} /\ thread[t].at \in 0..Len(SlotOrder)
      BY <3>1 DEF ThreadRecord, AllSlots, Ats
    <3>10. helper[t] \in PlacesOfJob /\ rows[t] \in RowsOfJob
      BY <2>1 DEF Typed
    <3> QED
      BY <3>5, <3>6, <3>7, <3>8, <3>9, <3>10 DEF PlacesOfJob, Places, RowsOfJob, Values
  <2>3. library.shows \in Threads \cup {NoThread}
    BY <2>1 DEF Typed, LibraryRecord, Threads, NoThread
  <2> QED
    BY <2>1, <2>2, <2>3 DEF TypeOK, Typed
<1> QED
  BY LocalJobsSafe, <1>1, PTL

\* A stop that was accepted lets at most one more query of the batch happen,
\* at whatever point it reached the thread (_batch_stop_requested).
THEOREM StopCorrect == Spec => []StopWithinOneQuery
<1>1. IInv => StopWithinOneQuery
  <2> SUFFICES ASSUME IInv, NEW t \in Threads PROVE thread[t].late <= 1
    BY DEF StopWithinOneQuery
  <2>1. Fits(t)
    BY DEF IInv
  <2> QED
    BY <2>1 DEF Fits, BatchFits
<1> QED
  BY LocalJobsSafe, <1>1, PTL

\* What a closing shows, while it runs and when it has ended, is true of the
\* CRM (_run_service_close_job).
THEOREM ReportsCorrect == Spec => []ReportsMatchCrm
<1>1. IInv => ReportsMatchCrm
  <2> SUFFICES ASSUME IInv, NEW t \in Threads, jobs[t].kind = "close"
               PROVE  /\ jobs[t].success => Numbers \subseteq closed
                      /\ \A i \in Numbers : rows[t][i] = "ok" => i \in closed
                      /\ ~jobs[t].running /\ ~jobs[t].error => \A i \in Numbers : rows[t][i] # "none"
    BY DEF ReportsMatchCrm
  <2>1. Fits(t) /\ thread[t].kind \in ThreadKinds
    BY DEF IInv, Typed, ThreadRecord
  <2>2. thread[t].kind = "close"
    BY <2>1 DEF ThreadKinds, JobKinds, Kinds, Direct, Fits, Blank, NoJob, BatchFits, TransferFits,
                SummaryFits
  <2>3. CloseFits(t)
    BY <2>1, <2>2 DEF Fits
  <2>4. thread[t].pc # "scan"
    BY <2>1 DEF Fits, Blank, NoJob
  <2> QED
    BY <2>3, <2>4 DEF CloseFits
<1> QED
  BY LocalJobsSafe, <1>1, PTL

\* Lookups come one after another as long as none goes on after its success
\* (api_product_library_query_start, _run_library_query_job).
THEOREM LookupsCorrect == Spec => []LookupsApart
<1>1. IInv => LookupsApart
  BY DEF IInv, OneLookup, Relapsed, LookupsApart
<1> QED
  BY LocalJobsSafe, <1>1, PTL

\* A closing takes a slot in use only if another start came across a
\* selection (_select_idle_query_workers_desc).
THEOREM ClosingsCorrect == Spec => ClosingsTakeFreeSlots
<1> DEFINE Takes(t) ==
             /\ jobs[t].kind = "none" /\ jobs'[t].kind = "close"
             /\ \E u \in Threads : /\ jobs[u].running /\ jobs[u].kind \in {"batch", "close"}
                                   /\ thread[u].slots \cap thread'[t].slots # {}
           Fair == \A t \in Threads : Takes(t) => overlapped' # {}
<1>1. IInv /\ [Next]_vars => [Fair]_vars
  <2> SUFFICES ASSUME IInv, [Next]_vars, NEW t \in Threads, Takes(t) PROVE overlapped' # {}
    OBVIOUS
  <2>1. Typed /\ (\A u \in Threads : Fits(u)) /\ SlotsKnown
    BY DEF IInv
  <2>2. PICK u \in Threads : Acts(u)
    BY <2>1, NextCases
  <2>3. u = t
    BY <2>1, <2>2, ActsProper DEF Proper, Alone
  <2>4. ~SlotsQuiet(t) /\ jobs'[t].kind # jobs[t].kind /\ jobs'[t] # jobs[t]
    BY DEF SlotsQuiet
  <2>5. ASSUME NEW k \in Direct, NEW s \in SlotsOf(k), StartDirect(t, k, s) PROVE FALSE
    <3>1. CreateJob(t, k, {s})
      BY <2>1, <2>5, StartDirectProper
    <3>2. /\ k \in Kinds /\ k # "close"
      BY DirectKinds
    <3>3. jobs' = [jobs EXCEPT ![t] = [NoJob EXCEPT !.kind = k, !.running = TRUE]]
      BY <3>1 DEF CreateJob
    <3>4. jobs'[t].kind = k
      BY <2>1, <3>3 DEF NoJob, Typed
    <3> QED
      BY <3>2, <3>4
  <2>6. CreateClose(t)
    BY <2>1, <2>2, <2>3, <2>4, <2>5, ActsCases, PlainProper, ScanProper, CreateLibraryProper,
       LookUpStepProper, CleanUpProper, LoseLookUpProper, StartSelectionProper DEF Quiet
  <2> DEFINE slots == thread[t].slots
  <2>7. /\ At(t, "close", "scan") /\ CreateJob(t, "close", slots) /\ thread'[t].slots = slots
    BY <2>1, <2>6, CreateCloseProper
  <2>8. slots \in SUBSET AllSlots /\ "close" \in Kinds
    BY <2>1, Words DEF Typed, ThreadRecord
  <2>9. PICK v \in Threads, s \in slots : Uses(v, s)
    BY <2>7 DEF Uses
  <2>10. overlapped # {}
    BY <2>1, <2>7, <2>8, <2>9 DEF SlotsKnown
  <2> HIDE DEF slots
  <2>11. overlapped \subseteq overlapped'
    BY <2>1, <2>7, <2>8, JobCreated
  <2> QED
    BY <2>10, <2>11
<1>2. [][Fair]_vars <=> ClosingsTakeFreeSlots
  BY DEF ClosingsTakeFreeSlots
<1> QED
  BY LocalJobsSafe, <1>1, <1>2, PTL DEF Spec

-----------------------------------------------------------------------------
(* Every job lives as JobLife says.                                        *)

LEMMA BeginsAbsent == Init => Life!Init
<1> SUFFICES ASSUME Init PROVE Life!Init
  OBVIOUS
<1>1. \A t \in Threads : jobs[t].kind = "none" /\ jobs[t].current = 0 /\ jobs[t].success = FALSE
  BY DEF Init, NoJob
<1> QED
  BY <1>1 DEF Life!Init

LEMMA StepLives == IInv /\ [Next]_vars => [Life!Next]_Life!vars
<1> SUFFICES ASSUME IInv, [Next]_vars PROVE [Life!Next]_Life!vars
  OBVIOUS
<1> DEFINE phase == [u \in Threads |-> Phase(u)]
           count == [u \in Threads |-> Count(u)]
           shown == [u \in Threads |-> jobs[u].success]
<1>1. ASSUME NEW t \in Threads, Acts(t) PROVE [Life!Next]_Life!vars
  <2>1. Proper(t) /\ Lives(t)
    BY <1>1, ActsProper DEF IInv
  <2>2. \A u \in Threads \ {t} : /\ Phase(u)' = Phase(u) /\ Count(u)' = Count(u)
                                 /\ jobs'[u].success = jobs[u].success
    BY <2>1 DEF Proper, Alone, Phase, Count, Settled
  <2>3. /\ phase' = [phase EXCEPT ![t] = Phase(t)']
        /\ count' = [count EXCEPT ![t] = Count(t)']
        /\ shown' = [shown EXCEPT ![t] = jobs'[t].success]
    BY <2>2
  <2>4. phase[t] = Phase(t) /\ count[t] = Count(t) /\ shown[t] = jobs[t].success
    OBVIOUS
  <2>5. /\ Phase(t)' = Phase(t) => phase' = phase
        /\ Count(t)' = Count(t) => count' = count
        /\ jobs'[t].success = jobs[t].success => shown' = shown
    BY <2>2
  <2> HIDE DEF phase, count, shown
  <2>6. CASE Phase(t)' = Phase(t) /\ Count(t)' = Count(t) /\ jobs'[t].success = jobs[t].success
    <3>1. phase' = phase /\ count' = count /\ shown' = shown
      BY <2>5, <2>6
    <3> QED
      BY <3>1 DEF phase, count, shown, Phase, Count, Settled, Life!vars
  <2>7. CASE /\ Phase(t) = "absent" /\ Phase(t)' = "running"
             /\ Count(t)' = Count(t) /\ jobs'[t].success = jobs[t].success
    <3>1. /\ phase[t] = "absent" /\ phase' = [phase EXCEPT ![t] = "running"]
          /\ count' = count /\ shown' = shown
      BY <2>3, <2>4, <2>5, <2>7
    <3>2. Life!Begin(t)
      BY <3>1 DEF phase, count, shown, Phase, Count, Settled, Life!Begin
    <3> QED
      BY <3>2 DEF Life!Next
  <2>8. CASE /\ Phase(t) = "running" /\ Phase(t)' = "running"
             /\ Count(t) < Items /\ Count(t)' = Count(t) + 1 /\ jobs'[t].success = jobs[t].success
    <3>1. /\ phase[t] = "running" /\ count[t] < Items
          /\ count' = [count EXCEPT ![t] = count[t] + 1]
          /\ phase' = phase /\ shown' = shown
      BY <2>3, <2>4, <2>5, <2>8
    <3>2. Life!Report(t)
      BY <3>1 DEF phase, count, shown, Phase, Count, Settled, Life!Report
    <3> QED
      BY <3>2 DEF Life!Next
  <2>9. CASE /\ Phase(t) = "running" /\ Phase(t)' = "ended"
             /\ Count(t)' \in {Count(t), Items} /\ jobs'[t].success \in BOOLEAN
    <3> DEFINE n == Count(t)'
               ok == jobs'[t].success
    <3>1. /\ phase[t] = "running" /\ phase' = [phase EXCEPT ![t] = "ended"]
          /\ n \in {count[t], Items} /\ ok \in BOOLEAN
          /\ count' = [count EXCEPT ![t] = n] /\ shown' = [shown EXCEPT ![t] = ok]
      BY <2>3, <2>4, <2>9
    <3> HIDE DEF n, ok
    <3>2. Life!End(t)
      BY <3>1 DEF phase, count, shown, Phase, Count, Settled, Life!End
    <3> QED
      BY <3>2 DEF Life!Next
  <2>10. CASE /\ Phase(t) = "ended" /\ Phase(t)' = "ended" /\ Count(t)' = Count(t)
              /\ jobs[t].success = TRUE /\ jobs'[t].success = FALSE
    <3>1. /\ phase[t] = "ended" /\ shown[t] = TRUE /\ shown' = [shown EXCEPT ![t] = FALSE]
          /\ phase' = phase /\ count' = count
      BY <2>3, <2>4, <2>5, <2>10
    <3>2. Life!TakeBack(t)
      BY <3>1 DEF phase, count, shown, Phase, Count, Settled, Life!TakeBack
    <3> QED
      BY <3>2 DEF Life!Next
  <2> QED
    BY <2>1, <2>6, <2>7, <2>8, <2>9, <2>10 DEF Lives
<1>2. CASE UNCHANGED <<jobs, rows>>
  BY <1>2 DEF Life!vars
<1> QED
  BY <1>1, <1>2, NextCases DEF IInv

\* Every job of the application begins once, counts up while it runs, ends
\* once, and can afterwards only lose the success it shows.
THEOREM LivesCorrect == Spec => LivesAsPromised
BY BeginsAbsent, StepLives, LocalJobsSafe, PTL DEF Spec, LivesAsPromised, Life!Spec
=============================================================================
