------------------------------- MODULE MCJobs -------------------------------
(* Values of the constants of Jobs for the model checker.                  *)
EXTENDS Jobs

\* While the catch-up of job 1 runs, job 2 waits for its own and fires again.
Two       == [j \in Jobs |-> IF j = 1 THEN {1} ELSE {2, 3}]
TwoPolicy == [j \in Jobs |-> IF j = 1 THEN 2 ELSE 3]
=============================================================================
