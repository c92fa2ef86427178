---------------------------- MODULE MCHousehold -----------------------------
(* What the daemon keeps beside its notifications, for the model checker: ledgers
   with their expenses and budgets, the recurring bills, the public holidays, the
   filter of the schedules that follows them, and the lock of the data directory.
   They share no variable (the filter works over the holidays), so their steps
   commute and every safety property that speaks of one of them holds in their
   composition if it holds of it alone: a behaviour here is one of a single
   component, the others at rest. *)
EXTENDS Expenses, Bills, WorkdayFilter, InstanceLock, TLC

CONSTANTS q1, q2, k0, k1, k2    \* processes and their pids

VARIABLE component

\* "Food" and "food" are one text to the dictionary, two to the budgets.
FoldedText(t) == IF t = "Food" THEN "food" ELSE t
EveryOtherDay == {d \in 1..2 * MaxDay : d % 2 = 1}
Alike == Permutations(Profiles)

\* Three days of one year and two of the next: date 2 is a working day filed with the
\* next year only, date 3 a holiday filed with both.
MCDateYear == [d \in 1 .. 5 |-> IF d <= 3 THEN 1 ELSE 2]
MCMonth == [d \in 1 .. 5 |-> IF d = 1 THEN 1 ELSE IF d <= 3 THEN 2 ELSE 3]
MCFiles == 1 :> (1 :> [type |-> "holiday", names |-> {"national"}]
                 @@ 3 :> [type |-> "holiday", names |-> {"eve"}])
        @@ 2 :> (2 :> [type |-> "workday", names |-> {"new year"}]
                 @@ 3 :> [type |-> "holiday", names |-> {"new year"}]
                 @@ 4 :> [type |-> "holiday", names |-> {"new year"}])

\* The lock found: none, one cut short, one of a dead daemon, one of an older
\* version (no start time, no token), one whose pid now belongs to q1.
AnyLock == {Nothing, Corrupt,
            [pid |-> k0, start |-> Earlier, token |-> Earlier],
            [pid |-> k0, start |-> Nothing,    token |-> Nothing],
            [pid |-> k1, start |-> Earlier, token |-> Earlier]}
OwnPids == [p \in Procs |-> IF p = q1 THEN k1 ELSE k2]

FilterAtRest ==
    /\ workdayFilter = "workday" /\ guessed = 0 /\ occurrences = << >>
    /\ ticking = FALSE /\ yearsNeedingBackfill = {} /\ crossYearRechecked = {}

LockAtRest ==
    /\ lock = Nothing /\ file = [i \in Inodes |-> Corrupt] /\ stale = [p \in Procs |-> Nothing]
    /\ pc = [p \in Procs |-> "off"] /\ attempt = [p \in Procs |-> 0]
    /\ seen = [p \in Procs |-> Nothing] /\ before = [p \in Procs |-> Nothing]
    /\ strangers = {} /\ company = {} /\ crashes = 0

\* Which inode the lock found has makes no difference.
LockFound == Init /\ lock \in {Nothing, CHOOSE i \in Inodes : TRUE}

UnionInit ==
    /\ component \in {"expenses", "bills", "holiday", "filter", "lock"}
    /\ ExpensesInit
    /\ BillsInit
    /\ IF component = "filter" THEN FilterInit ELSE HolidayInit /\ FilterAtRest
    /\ IF component = "lock" THEN LockFound ELSE LockAtRest

UnionNext ==
    /\ UNCHANGED component
    /\ component # "expenses" => UNCHANGED expenseVars
    /\ component # "bills" => UNCHANGED billsVars
    /\ component \notin {"holiday", "filter"} => UNCHANGED holidayVars
    /\ component # "filter" => UNCHANGED filterVars
    /\ component # "lock" => UNCHANGED vars
    /\ \/ component = "expenses" /\ ExpensesNext
       \/ component = "bills" /\ BillsNext
       \/ component = "holiday" /\ HolidayNext
       \/ component = "filter" /\ FilterNext
       \/ component = "lock" /\ Next

UnionSpec == UnionInit /\ [][UnionNext]_<<component, expenseVars, billsVars, holidayVars, filterVars, vars>>
=============================================================================
