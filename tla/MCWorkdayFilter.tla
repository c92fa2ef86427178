--------------------------- MODULE MCWorkdayFilter ---------------------------
(* Values of the constants of WorkdayFilter for the model checker.          *)
EXTENDS WorkdayFilter, TLC

\* Seven days of one year and one of the next; day 5 is a working day at a weekend,
\* filed with the next year only.
MCDateYear == [d \in 1 .. 8 |-> IF d <= 7 THEN 1 ELSE 2]
MCMonth == [d \in 1 .. 8 |-> IF d <= 7 THEN 1 ELSE 2]
MCFiles == 1 :> (1 :> [type |-> "holiday", names |-> {"national"}])
        @@ 2 :> (5 :> [type |-> "workday", names |-> {"new year"}]
                 @@ 8 :> [type |-> "holiday", names |-> {"new year"}])
=============================================================================
