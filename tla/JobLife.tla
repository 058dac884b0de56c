------------------------------- MODULE JobLife -------------------------------
(***************************************************************************)
(* What the pages rely on when they poll one of the application's own      *)
(* background jobs: a job begins once, its count of settled items only     *)
(* grows while it runs, it ends once, and the outcome it shows afterwards  *)
(* can only be taken back, never granted.  LocalJobs implements this.      *)
(***************************************************************************)
EXTENDS Integers

CONSTANTS Jobs,     \* the identities of the jobs
          Total     \* the largest number of items a job may have

VARIABLES phase,    \* "absent", "running" or "ended"
          count,    \* items settled so far
          shown     \* whether the job is shown as a success

vars == <<phase, count, shown>>

Init == /\ phase = [j \in Jobs |-> "absent"]
        /\ count = [j \in Jobs |-> 0]
        /\ shown = [j \in Jobs |-> FALSE]

Begin(j) == /\ phase[j] = "absent"
            /\ phase' = [phase EXCEPT ![j] = "running"]
            /\ UNCHANGED <<count, shown>>

Report(j) == /\ phase[j] = "running"
             /\ count[j] < Total
             /\ count' = [count EXCEPT ![j] = @ + 1]
             /\ UNCHANGED <<phase, shown>>

\* Ending may settle what is left at once, as a batch without a login does.
End(j) == /\ phase[j] = "running"
          /\ phase' = [phase EXCEPT ![j] = "ended"]
          /\ \E n \in {count[j], Total}, ok \in BOOLEAN :
                /\ count' = [count EXCEPT ![j] = n]
                /\ shown' = [shown EXCEPT ![j] = ok]

TakeBack(j) == /\ phase[j] = "ended"
               /\ shown[j]
               /\ shown' = [shown EXCEPT ![j] = FALSE]
               /\ UNCHANGED <<phase, count>>

Next == \E j \in Jobs : Begin(j) \/ Report(j) \/ End(j) \/ TakeBack(j)

Spec == Init /\ [][Next]_vars
=============================================================================
