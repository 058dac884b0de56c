----------------------------- MODULE MCJobItems -----------------------------
(* An instance of JobItems for TLC: a job with one transfer, a batch job   *)
(* with two queries of which one may be retried, and two lease owners.     *)
EXTENDS JobItems

MCJobs == {"move", "batch"}
MCItems == {"t1", "q1", "q2"}
MCJobOf == [i \in MCItems |-> IF i = "t1" THEN "move" ELSE "batch"]
MCKindOf == [i \in MCItems |-> IF i = "t1" THEN "transfer" ELSE "query"]
MCMaxAttempts == [i \in MCItems |-> IF i = "q2" THEN 1 ELSE 2]
=============================================================================
