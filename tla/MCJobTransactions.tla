-------------------------- MODULE MCJobTransactions --------------------------
(* Instances of JobTransactions for TLC: a batch of two items, or a job of *)
(* two that carry an effect in the CRM; a second request that repeats the  *)
(* idempotency key of the first one; two sessions or one.                  *)
EXTENDS JobTransactions

MCJobs == {"first", "again"}
MCItems == {"a", "b", "c"}
MCJobOf == [i \in MCItems |-> IF i = "c" THEN "again" ELSE "first"]
MCKindOf == [i \in MCItems |-> IF i = "b" THEN "query" ELSE "transfer"]
MCMaxAttempts == [i \in MCItems |-> IF i = "b" THEN 2 ELSE 1]
SameKey == [j \in MCJobs |-> "key"]
=============================================================================
