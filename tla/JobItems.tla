------------------------------ MODULE JobItems ------------------------------
(***************************************************************************)
(* The committed rows of job_items, and the stop flag of their jobs, as    *)
(* cluster/jobs.py changes them.  One action is the row-level effect of    *)
(* one committed SQL transaction of JobRepository: this is what the        *)
(* repository promises to the schedulers of all nodes.  How transactions   *)
(* interleave, and the progress counters of the jobs row, are the subject  *)
(* of JobTransactions, which implements this module.                       *)
(*                                                                         *)
(* Abstracted: payload, result, error and reference texts; the row order   *)
(* in which claim_item scans (created_at, id), so a claim may take any     *)
(* claimable item; and the clock, of which only "has this lease run out"   *)
(* remains.                                                                *)
(***************************************************************************)
EXTENDS Integers

CONSTANTS
  Jobs,          (* jobs that may be created                               *)
  Items,         (* all the items of those jobs                            *)
  JobOf,         (* the job_id column                                      *)
  Kinds,         (* the values of the kind column                          *)
  KindOf,        (* the kind column                                        *)
  UnsafeKinds,   (* kinds with an effect in the CRM, jobs.py UNSAFE_KINDS  *)
  MaxAttempts,   (* payload_json.max_attempts of an item                   *)
  Owners,        (* lease owners, "node:slot"                              *)
  NoOwner,       (* the empty lease_owner                                  *)
  MaxExpiries    (* bound of the model: leases that run out, per item      *)

ASSUME JobItemsAssumption ==
  /\ JobOf \in [Items -> Jobs]
  /\ KindOf \in [Items -> Kinds]
  /\ UnsafeKinds \subseteq Kinds
  /\ MaxAttempts \in [Items -> Nat \ {0}]
  /\ NoOwner \notin Owners
  /\ MaxExpiries \in Nat

VARIABLES
  status,         (* column status, "absent" before the row is inserted    *)
  attempts,       (* column attempts                                       *)
  owner,          (* column lease_owner                                    *)
  lease,          (* column lease_expires_at, compared with now()          *)
  stopRequested,  (* column stop_requested of jobs                         *)
  everSubmitted,  (* history: items that ever were submitted_to_crm        *)
  expiries        (* history: how often the item's lease ran out           *)

columns == <<status, attempts, owner, lease>>
vars == <<status, attempts, owner, lease, stopRequested, everSubmitted, expiries>>

-----------------------------------------------------------------------------

Active == {"leased", "running", "submitted_to_crm"}

Terminal == {"succeeded", "cancelled", "skipped", "needs_review"}

\* What the CHECK of 0002_job_safety_states.sql admits, and a missing row.
Statuses == {"absent", "pending", "failed"} \cup Active \cup Terminal

Leases == {"none", "live", "expired"}

Unsafe(i) == KindOf[i] \in UnsafeKinds

ItemsOf(j) == {i \in Items : JobOf[i] = j}

Holds(i, o) == owner[i] = o /\ status[i] \in Active

Exhausted(i) == attempts[i] >= MaxAttempts[i]

\* The rows _refresh_job counts as completed.
Settled(i) == status[i] \in Terminal \/ (status[i] = "failed" /\ Exhausted(i))

\* Mutant of Claimable: failed rows are taken whatever their attempts.
ClaimableAlways(i) == status[i] \in {"pending", "failed"}

\* The WHERE clause of claim_item, without its join on the stop flag.
Claimable(i) == status[i] = "pending" \/ (status[i] = "failed" /\ ~Exhausted(i))

\* Mutant of AfterLoss: every lost item is retried.
AfterLossRetried(i) == "pending"

\* The CASE of recover_expired_items and the choice of fail_item.
AfterLoss(i) ==
  IF status[i] = "submitted_to_crm" /\ Unsafe(i) THEN "needs_review" ELSE "pending"
AfterFailure(i) ==
  IF status[i] = "submitted_to_crm" /\ Unsafe(i) THEN "needs_review" ELSE "failed"

\* Mutant of Release: lease_owner is not reset.
ReleaseLeaseOnly(i) ==
  /\ lease' = [lease EXCEPT ![i] = "none"]
  /\ UNCHANGED owner

Release(i) ==
  /\ owner' = [owner EXCEPT ![i] = NoOwner]
  /\ lease' = [lease EXCEPT ![i] = "none"]

-----------------------------------------------------------------------------

Init ==
  /\ status = [i \in Items |-> "absent"]
  /\ attempts = [i \in Items |-> 0]
  /\ owner = [i \in Items |-> NoOwner]
  /\ lease = [i \in Items |-> "none"]
  /\ stopRequested = [j \in Jobs |-> FALSE]
  /\ everSubmitted = [i \in Items |-> FALSE]
  /\ expiries = [i \in Items |-> 0]

\* The job row and its items appear together, in one transaction.
CreateJob(j) ==
  /\ ItemsOf(j) # {}
  /\ \A i \in ItemsOf(j) : status[i] = "absent"
  /\ status' = [i \in Items |-> IF JobOf[i] = j THEN "pending" ELSE status[i]]
  /\ UNCHANGED <<attempts, owner, lease, stopRequested, everSubmitted, expiries>>

\* Mutant of ClaimItem: no join on stop_requested.
ClaimItemUnstoppable(i, o) ==
  /\ Claimable(i)
  /\ status' = [status EXCEPT ![i] = "leased"]
  /\ attempts' = [attempts EXCEPT ![i] = @ + 1]
  /\ owner' = [owner EXCEPT ![i] = o]
  /\ lease' = [lease EXCEPT ![i] = "live"]
  /\ UNCHANGED <<stopRequested, everSubmitted, expiries>>

\* The second transaction of claim_item; its first one is RecoverExpired.
ClaimItem(i, o) ==
  /\ Claimable(i)
  /\ ~stopRequested[JobOf[i]]
  /\ status' = [status EXCEPT ![i] = "leased"]
  /\ attempts' = [attempts EXCEPT ![i] = @ + 1]
  /\ owner' = [owner EXCEPT ![i] = o]
  /\ lease' = [lease EXCEPT ![i] = "live"]
  /\ UNCHANGED <<stopRequested, everSubmitted, expiries>>

\* Mutant of StartItem: a status the schema's CHECK does not admit.
StartItemUnknownStatus(i, o) ==
  /\ owner[i] = o
  /\ status[i] = "leased"
  /\ status' = [status EXCEPT ![i] = "started"]
  /\ UNCHANGED <<attempts, owner, lease, stopRequested, everSubmitted, expiries>>

StartItem(i, o) ==
  /\ owner[i] = o
  /\ status[i] = "leased"
  /\ status' = [status EXCEPT ![i] = "running"]
  /\ UNCHANGED <<attempts, owner, lease, stopRequested, everSubmitted, expiries>>

\* A lease that ran out is renewed as well, as long as nobody recovered it.
RenewLease(i, o) ==
  /\ Holds(i, o)
  /\ lease' = [lease EXCEPT ![i] = "live"]
  /\ UNCHANGED <<status, attempts, owner, stopRequested, everSubmitted, expiries>>

MarkSubmitted(i, o) ==
  /\ owner[i] = o
  /\ status[i] \in {"leased", "running"}
  /\ status' = [status EXCEPT ![i] = "submitted_to_crm"]
  /\ everSubmitted' = [everSubmitted EXCEPT ![i] = TRUE]
  /\ UNCHANGED <<attempts, owner, lease, stopRequested, expiries>>

CompleteItem(i, o) ==
  /\ Holds(i, o)
  /\ status' = [status EXCEPT ![i] = "succeeded"]
  /\ Release(i)
  /\ UNCHANGED <<attempts, stopRequested, everSubmitted, expiries>>

\* fail_item asks for the owner only: LeaseIffActive is why that is enough.
FailItem(i, o) ==
  /\ owner[i] = o
  /\ status' = [status EXCEPT ![i] = AfterFailure(i)]
  /\ Release(i)
  /\ UNCHANGED <<attempts, stopRequested, everSubmitted, expiries>>

\* S is what the transaction saw run out at its now(): leases that run out
\* between that instant and the commit are left to the next call.
RecoverExpired(S) ==
  /\ S # {}
  /\ \A i \in S : status[i] \in Active /\ lease[i] = "expired"
  /\ status' = [i \in Items |-> IF i \in S THEN AfterLoss(i) ELSE status[i]]
  /\ owner' = [i \in Items |-> IF i \in S THEN NoOwner ELSE owner[i]]
  /\ lease' = [i \in Items |-> IF i \in S THEN "none" ELSE lease[i]]
  /\ UNCHANGED <<attempts, stopRequested, everSubmitted, expiries>>

\* Mutant of RequestStop: it cancels leased items too, and leaves them leased.
RequestStopLeased(j) ==
  /\ \E i \in ItemsOf(j) : status[i] # "absent"
  /\ stopRequested' = [stopRequested EXCEPT ![j] = TRUE]
  /\ status' = [i \in Items |-> IF JobOf[i] = j /\ status[i] \in {"pending", "failed", "leased"}
                                THEN "cancelled" ELSE status[i]]
  /\ UNCHANGED <<attempts, owner, lease, everSubmitted, expiries>>

RequestStop(j) ==
  /\ \E i \in ItemsOf(j) : status[i] # "absent"
  /\ stopRequested' = [stopRequested EXCEPT ![j] = TRUE]
  /\ status' = [i \in Items |-> IF JobOf[i] = j /\ status[i] \in {"pending", "failed"}
                                THEN "cancelled" ELSE status[i]]
  /\ UNCHANGED <<attempts, owner, lease, everSubmitted, expiries>>

\* The clock passes lease_expires_at: the holder crashed, stalled, lost the
\* database, or its renewer thread died.
LeaseExpires(i) ==
  /\ lease[i] = "live"
  /\ expiries[i] < MaxExpiries
  /\ lease' = [lease EXCEPT ![i] = "expired"]
  /\ expiries' = [expiries EXCEPT ![i] = @ + 1]
  /\ UNCHANGED <<status, attempts, owner, stopRequested, everSubmitted>>

HolderStep(i, o) ==
  \/ ClaimItem(i, o)
  \/ StartItem(i, o)
  \/ RenewLease(i, o)
  \/ MarkSubmitted(i, o)
  \/ CompleteItem(i, o)
  \/ FailItem(i, o)

Next ==
  \/ \E j \in Jobs : CreateJob(j) \/ RequestStop(j)
  \/ \E i \in Items, o \in Owners : HolderStep(i, o)
  \/ \E S \in SUBSET Items : RecoverExpired(S)
  \/ \E i \in Items : LeaseExpires(i)

Spec == Init /\ [][Next]_vars

-----------------------------------------------------------------------------

(* Types.  A status outside the CHECK constraint of the schema would make  *)
(* the UPDATE that writes it fail.                                         *)
TypeOK ==
  /\ status \in [Items -> Statuses]
  /\ attempts \in [Items -> Nat]
  /\ owner \in [Items -> Owners \cup {NoOwner}]
  /\ lease \in [Items -> Leases]
  /\ stopRequested \in [Jobs -> BOOLEAN]
  /\ everSubmitted \in [Items -> BOOLEAN]
  /\ expiries \in [Items -> Nat]

(* An item has an owner, and a lease to lose, exactly while it is being    *)
(* worked on.  complete, fail and recover must all give both back: an      *)
(* owner left on a settled row lets fail_item, which looks at the owner    *)
(* alone, overwrite the outcome; a missing lease is never recovered.       *)
LeaseIffActive ==
  \A i \in Items : /\ status[i] \in Active <=> owner[i] # NoOwner
                   /\ status[i] \in Active <=> lease[i] # "none"

(* Once an unsafe item (transfer, service_close) was recorded as submitted *)
(* to the CRM, no failure, lost lease, recovery or stop makes it claimable *)
(* again: it stays submitted, succeeds, or waits for a person.             *)
NoReplayAfterSubmit ==
  \A i \in Items : everSubmitted[i] /\ Unsafe(i) =>
    status[i] \in {"submitted_to_crm", "succeeded", "needs_review"}

(* max_attempts bounds failures, not lost leases: claim_item takes a       *)
(* pending row whatever its attempts.  Each lease that ran out buys at     *)
(* most one attempt beyond max_attempts, and nothing else does.            *)
AttemptsBounded ==
  \A i \in Items : attempts[i] <= MaxAttempts[i] + expiries[i]

(* Why AttemptsBounded holds: an attempt beyond max_attempts - 1 is paid   *)
(* for by a lost lease before the row is pending again.                    *)
PendingBudget ==
  \A i \in Items :
    status[i] \in {"absent", "pending"} \/ (status[i] \in Active /\ lease[i] = "expired") =>
      attempts[i] < MaxAttempts[i] + expiries[i]

(* A terminal row is never written again, by whoever still works on it.    *)
TerminalIsForever ==
  [][\A i \in Items : status[i] \in Terminal => status'[i] = status[i]]_vars

(* After request_stop no item of the job is taken up: what a worker held   *)
(* may finish, what it gives back (pending, failed) is not claimed again.  *)
StopIsFinal ==
  [][\A i \in Items : stopRequested[JobOf[i]] /\ status[i] \notin Active =>
       status'[i] \notin Active]_vars

=============================================================================
