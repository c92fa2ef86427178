---------------------------- MODULE WorkdayFilter ----------------------------
(* A schedule that reminds on working days only, or on days off only         *)
(* (modules/schedule/materialize.ts), over the calendar of Holiday, which    *)
(* knows the kind of a day only once the years it is filed with are in.      *)
(*                                                                           *)
(* The tick of the schedules materialises up to the first day whose kind is  *)
(* unknown, has the years it misses fetched, and when the year to come is in *)
(* looks once more at the last days of December: a release before this one   *)
(* had guessed their kinds by the day of the week, and left its rows behind. *)
(*                                                                           *)
(* One schedule with one reminder per event; its dates are those of Holiday. *)
EXTENDS Holiday

CONSTANTS
    Candidates,         \* the dates of its recurrence (nextDate)
    SchedulesJob,       \* the tick of the schedules as a caller of ensureYears
    NearHorizon, FarHorizon,                        \* days (62, 400)
    MATERIALIZE_ITERATIONS, EXEMPT_SCAN_ITERATIONS  \* dates of a scan (10, 500)

ASSUME FilterAssumption ==
    /\ Dates \subseteq Nat \ {0} /\ Dates # {} /\ IsFiniteSet(Dates) /\ Candidates \subseteq Dates
    /\ \A d, e \in Dates : d <= e => DateYear[d] <= DateYear[e]
    /\ SchedulesJob \in Callers \ {RefreshJob}
    /\ NearHorizon \in Nat /\ FarHorizon \in Nat /\ NearHorizon <= FarHorizon
    /\ MATERIALIZE_ITERATIONS \in Nat \ {0} /\ EXEMPT_SCAN_ITERATIONS \in Nat

VARIABLES
    workdayFilter,          \* "workday" or "holiday"
    occurrences,            \* date -> "pending", "notified" or "cancelled"
    ticking,                \* tickSchedules is at its await of ensureYears
    yearsNeedingBackfill, crossYearRechecked,   \* memory of the process
    guessed                 \* history: the last date of the release before, 0: none

filterVars == <<workdayFilter, occurrences, ticking, yearsNeedingBackfill, crossYearRechecked, guessed>>

workdayFilterMatches(kind) ==
    kind \in IF workdayFilter = "workday" THEN {"workday", "weekday"} ELSE {"holiday", "weekend"}

InOrder(S) == [i \in 1 .. Cardinality(S) |-> CHOOSE x \in S : Cardinality({y \in S : y < x}) = i - 1]
pendingOf(rows) == {d \in DOMAIN rows : rows[d] = "pending"}

\* Rows of the release before: it took a day for what the file of its own year makes of it.
Guess(d) == IF d \in DOMAIN cnDays THEN cnDays[d].type ELSE byWeekday(d)

FilterInit ==
    /\ clock = Min(Dates) * MidDay /\ holidayCrashes = 0
    /\ workdayFilter \in {"workday", "holiday"}
    /\ guessed \in {0} \cup {d \in Candidates : /\ d <= thisDay + NearHorizon
                                               /\ DateYear[d] = DateYear[thisDay]
                                               /\ DateYear[d] \in Years}
    /\ IF guessed = 0
         THEN cnDays = << >> /\ cnYears = << >> /\ published = {} /\ occurrences = << >>
         ELSE LET y == DateYear[thisDay]
              IN /\ published = {y}
                 /\ cnYears = [z \in {y} |-> [status |-> "ready", last |-> clock]]
                 /\ cnDays = [d \in DOMAIN Files[y] |->
                                [year |-> y, type |-> Files[y][d].type, names |-> Files[y][d].names]]
                 /\ occurrences = [d \in {c \in Candidates : /\ thisDay <= c /\ c <= guessed
                                                             /\ workdayFilterMatches(Guess(c))}
                                     |-> "pending"]
    /\ inflightYears = {} /\ ensuring = [c \in Callers |-> Resting]
    /\ watch = NoWatch /\ notices = {}
    /\ ticking = FALSE /\ yearsNeedingBackfill = {} /\ crossYearRechecked = {}

-----------------------------------------------------------------------------
(* Materialisation                                                          *)

\* Where it goes on: behind the last event that is not cancelled, at first with today.
goesOnAfter(rows) ==
    LET standing == {d \in DOMAIN rows : rows[d] # "cancelled"}
    IN IF standing = {} THEN thisDay - 1 ELSE Max(standing)

\* A day of the filter's kind without a row gets one.
opens(rows, d) == workdayFilterMatches(dayType(d)) /\ d \notin DOMAIN rows

\* A slip: a day of unknown kind is passed over.
visitsPastUnknown(rows, ahead, d) ==
    LET before == {c \in ahead : c < d}
        exempt == pendingOf(rows) = {}
    IN /\ Cardinality(before) < IF exempt THEN EXEMPT_SCAN_ITERATIONS ELSE MATERIALIZE_ITERATIONS
       /\ d > thisDay + NearHorizon => exempt /\ \A c \in before : ~opens(rows, c)

\* The scan comes to date d of `ahead` if it has dates left, no day of unknown kind ended
\* it, and d lies within the near horizon or is to be the first reminder ahead.
visits(rows, ahead, d) ==
    LET before == {c \in ahead : c < d}
        exempt == pendingOf(rows) = {}
    IN /\ Cardinality(before) < IF exempt THEN EXEMPT_SCAN_ITERATIONS ELSE MATERIALIZE_ITERATIONS
       /\ \A c \in before : dayType(c) # "unknown"
       /\ d > thisDay + NearHorizon => exempt /\ \A c \in before : ~opens(rows, c)

\* The rows with those the scan adds, and the years of the day of unknown kind it met.
materializeSchedule(rows, after) ==
    LET ahead == {d \in Candidates : d > after /\ d <= thisDay + FarHorizon}
        visited == {d \in ahead : visits(rows, ahead, d)}
        opened == {d \in visited : opens(rows, d)}
    IN [rows |-> [d \in DOMAIN rows \cup opened |-> IF d \in opened THEN "pending" ELSE rows[d]],
        needed |-> UNION {holidayYearsNeedingData(d) : d \in {e \in visited : dayType(e) = "unknown"}}]

-----------------------------------------------------------------------------
(* The tick                                                                 *)

\* A reminder is due in the last tick of its day.
dueAt(d) == (d + 1) * MidDay - 1

\* catchupSweep keeps the latest reminder that is overdue, fireDue sends what is left.
\* One that is due in this tick may be so recent that the sweep does not count it.
fireRows(rows, recent) ==
    LET due == {d \in pendingOf(rows) : dueAt(d) <= clock}
        overdue == IF recent THEN {d \in due : dueAt(d) < clock} ELSE due
        swept == {d \in overdue : \E e \in overdue : e > d}
    IN [d \in DOMAIN rows |-> IF d \in swept THEN "cancelled"
                              ELSE IF d \in due THEN "notified" ELSE rows[d]]

\* tickSchedules up to its await
TickStart ==
    /\ ~ticking /\ ensuring[SchedulesJob] = Resting
    /\ ticking' = TRUE
    /\ \E recent \in BOOLEAN :
          LET fired == fireRows(occurrences, recent)
              scan == materializeSchedule(fired, goesOnAfter(fired))
              years == yearsNeedingBackfill \cup scan.needed
          IN /\ occurrences' = scan.rows
             /\ IF years = {} THEN UNCHANGED fetchVars
                ELSE GoOn(SchedulesJob, InOrder(years), cnYears, inflightYears)
    /\ yearsNeedingBackfill' = {}
    /\ UNCHANGED <<workdayFilter, crossYearRechecked, guessed, calendarVars, watch, notices, outsideVars>>

\* A slip: the rows that are wrong stay.
recheckOnlyAdds(y) ==
    LET window == {d \in CrossYear : DateYear[d] = y - 1}
        missing == {d \in window : /\ d >= thisDay /\ dayType(d) # "unknown"
                                   /\ workdayFilterMatches(dayType(d))} \ DOMAIN occurrences
    IN IF missing = {} THEN [rows |-> occurrences, needed |-> {}]
       ELSE materializeSchedule(occurrences, thisDay - 1)

\* The last days of December, once the year after them is in: a row of the wrong kind
\* is cancelled, and for a day without a row the scan starts over from today.
recheckCrossYearOccurrences(y) ==
    LET window == {d \in CrossYear : DateYear[d] = y - 1 /\ dayType(d) # "unknown"}
        wrong == {d \in window \cap pendingOf(occurrences) : ~workdayFilterMatches(dayType(d))}
        missing == {d \in window : d >= thisDay /\ workdayFilterMatches(dayType(d))}
                      \ DOMAIN occurrences
        rows == [d \in DOMAIN occurrences |-> IF d \in wrong THEN "cancelled" ELSE occurrences[d]]
    IN IF wrong = {} /\ missing = {} THEN [rows |-> occurrences, needed |-> {}]
       ELSE materializeSchedule(rows, thisDay - 1)

\* recheckCrossYearOnce, behind the await: once for a year and a process
TickEnd ==
    /\ ticking /\ ensuring[SchedulesJob] = Resting
    /\ ticking' = FALSE
    /\ LET next == DateYear[thisDay] + 1
       IN IF next \in crossYearRechecked \/ ~isReady(next)
            THEN UNCHANGED <<occurrences, yearsNeedingBackfill, crossYearRechecked>>
            ELSE LET done == recheckCrossYearOccurrences(next)
                 IN /\ occurrences' = done.rows
                    /\ yearsNeedingBackfill' = yearsNeedingBackfill \cup done.needed
                    /\ crossYearRechecked' = crossYearRechecked \cup {next}
    /\ UNCHANGED <<workdayFilter, guessed, holidayVars>>

FilterCrash ==
    /\ HolidayCrash
    /\ ticking' = FALSE /\ yearsNeedingBackfill' = {} /\ crossYearRechecked' = {}
    /\ UNCHANGED <<workdayFilter, occurrences, guessed>>

FilterNext ==
    \/ TickStart
    \/ TickEnd
    \/ (ensureYears(RefreshJob) \/ FetchEnds(RefreshJob) \/ FetchEnds(SchedulesJob)
          \/ Publication \/ HolidayTime) /\ UNCHANGED filterVars
    \/ FilterCrash

FilterSpec == FilterInit /\ [][FilterNext]_<<holidayVars, filterVars>>

-----------------------------------------------------------------------------
(* Properties                                                               *)

LeftBehind(d) == d \in CrossYear /\ d <= guessed

\* The schedule reminds on the days its filter means, as the files still to come will
\* have it, and passes over none ahead up to its last row: a row of another day, or a day
\* without a row, is one the release before had guessed, and a wrong row of its is
\* gone once it was looked at again (materializeSchedule, recheckCrossYearOccurrences).
FilterMeansItsDays ==
    LET right(d) == workdayFilterMatches(Truth(d))
        rows == DOMAIN occurrences
    IN /\ \A d \in pendingOf(occurrences) :
             right(d) \/ (LeftBehind(d) /\ DateYear[d] + 1 \notin crossYearRechecked)
       /\ \A d \in (Candidates \cap (thisDay .. Max(rows \cup {0}))) \ rows :
             right(d) => LeftBehind(d)

\* "现在应当匹配、却没有任何 occurrence 的日期 ... 回退重物化是唯一的补回方式"
\* (materialize.ts:119): after the second look no day ahead is missing that the
\* release before had passed over.
PassedOverComesBack ==
    \A d \in Candidates \cap CrossYear :
        /\ DateYear[d] + 1 \in crossYearRechecked
        /\ thisDay < d /\ d <= goesOnAfter(occurrences)
        /\ workdayFilterMatches(dayType(d))
        => d \in DOMAIN occurrences
=============================================================================
