------------------------------ MODULE Holiday ------------------------------
(* The calendar of public holidays: how its years are fetched, checked and   *)
(* imported (core/holiday.ts), what it answers meanwhile, and the reminders  *)
(* made from it (modules/holiday/index.ts).                                  *)
(*                                                                           *)
(* Two callers of ensureYears run in one process and interleave while they   *)
(* wait for an answer: the refresh job (or the start), and the tick of the   *)
(* schedules.  A date is a number; what the published files say of it is a   *)
(* constant, and a file is there or not.  The files filed under neighbouring *)
(* years agree on the dates they share.                                      *)
EXTENDS Naturals, Integers, FiniteSets, FiniteSetsExt, Sequences

CONSTANTS
    DateYear,    \* date -> its year, on an interval of dates
    Month,       \* date -> its month, numbered over the years
    CrossYear,   \* the dates from December 25 to 31
    Autumn,      \* the dates from October on
    Weekends,
    Files,       \* year -> [date -> [type, names]] on the dates the file lists
    Callers, Readers,     \* of ensureYears; profiles
    RefreshJob,           \* the caller that asks for requiredYears
    FETCH_COOLDOWN, WORKDAY_PROXIMITY, remindDaysBefore,
    NoYear, MidDay,       \* ticks in a day
    MaxHolidayTick, MaxHolidayCrashes   \* bounds

Dates == DOMAIN DateYear
Years == DOMAIN Files

\* Of the year before, a file lists the last days only, though validateYearPayload
\* takes any day of its December.
ASSUME HolidayAssumption ==
    /\ MidDay \in Nat \ {0} /\ FETCH_COOLDOWN \in Nat \ {0} /\ MaxHolidayTick \in Nat
    /\ RefreshJob \in Callers /\ NoYear \notin Years
    /\ DateYear \in [Dates -> Nat] /\ Years \subseteq Nat
    /\ \A y \in Years : DOMAIN Files[y] \subseteq Dates
    /\ \A y \in Years : \A d \in DOMAIN Files[y] :
          /\ Files[y][d].type \in {"holiday", "workday"}
          /\ DateYear[d] = y \/ (d \in CrossYear /\ DateYear[d] = y - 1)
    /\ \A y, z \in Years : \A d \in DOMAIN Files[y] \cap DOMAIN Files[z] :
          Files[y][d].type = Files[z][d].type

VARIABLES
    cnDays,     \* cn_holiday_days: date -> [year, type, names]
    cnYears,    \* cn_holiday_years: year -> [status, last]
    inflightYears,
    ensuring,   \* caller -> [year, rest]: the year it fetches and those after it
    published,  \* years whose file is out
    watch,      \* the run of workday_watch: [today, type, periods, left], left = {}: none
    notices,    \* notifications: [to, what, day, note, workdays]
    clock, holidayCrashes

holidayVars == <<cnDays, cnYears, inflightYears, ensuring, published, watch, notices, clock, holidayCrashes>>
calendarVars == <<cnDays, cnYears>>
fetchVars == <<inflightYears, ensuring>>
outsideVars == <<published, clock, holidayCrashes>>

Resting == [year |-> NoYear, rest |-> << >>]
NoWatch == [today |-> 0, type |-> "unknown", periods |-> {}, left |-> {}]
todayOf(c) == c \div MidDay
thisDay == todayOf(clock)

HolidayInit ==
    /\ cnDays = << >> /\ cnYears = << >>
    /\ inflightYears = {} /\ ensuring = [c \in Callers |-> Resting]
    /\ published = {} /\ watch = NoWatch /\ notices = {}
    /\ clock = Min(Dates) * MidDay /\ holidayCrashes = 0

-----------------------------------------------------------------------------
(* What the calendar answers                                                *)

\* A slip: each date needs the file of its year only.
ownYearOnly(d) == {DateYear[d]}

\* The last days of December are filed with the next year.
holidayLookupYears(d) ==
    IF d \in CrossYear THEN {DateYear[d], DateYear[d] + 1} ELSE {DateYear[d]}

isReady(y) == y \in DOMAIN cnYears /\ cnYears[y].status = "ready"
holidayYearsNeedingData(d) == {y \in holidayLookupYears(d) : ~isReady(y)}

byWeekday(d) == IF d \in Weekends THEN "weekend" ELSE "weekday"

dayType(d) ==
    IF d \in DOMAIN cnDays THEN cnDays[d].type
    ELSE IF holidayYearsNeedingData(d) # {} THEN "unknown"
    ELSE byWeekday(d)

monthMissingYears(m) == UNION {holidayYearsNeedingData(d) : d \in {e \in Dates : Month[e] = m}}

\* The tool's answer for a month: its rows, or that it does not know.
monthAction(m) ==
    LET rows == {d \in DOMAIN cnDays : Month[d] = m}
    IN IF rows = {} /\ monthMissingYears(m) # {} THEN {"unknown"} ELSE rows

requiredYears == IF thisDay \in Autumn THEN <<DateYear[thisDay], DateYear[thisDay] + 1>>
                 ELSE <<DateYear[thisDay]>>

\* The working days that belong to a period: near it, and with a name in common.
workdaysOf(s, e) ==
    {d \in DOMAIN cnDays :
        /\ cnDays[d].type = "workday"
        /\ \E edge \in {s, e} : d - edge \in -WORKDAY_PROXIMITY .. WORKDAY_PROXIMITY
        /\ \E h \in s .. e : cnDays[h].names \cap cnDays[d].names # {}}

\* Holidays on end are one period, whatever their names.
holidayPeriods ==
    LET off == {d \in DOMAIN cnDays : cnDays[d].type = "holiday"}
        spans == {p \in off \X off : /\ p[1] <= p[2] /\ p[1] .. p[2] \subseteq off
                                     /\ p[1] - 1 \notin off /\ p[2] + 1 \notin off}
    IN {[start |-> p[1], end |-> p[2], workdays |-> workdaysOf(p[1], p[2])] : p \in spans}

-----------------------------------------------------------------------------
(* Fetching                                                                 *)

\* A date keeps the row of the file whose year is nearer; files list no later year.
keepsRow(d, y) ==
    d \in DOMAIN cnDays /\ cnDays[d].year # y /\ cnDays[d].year - DateYear[d] < y - DateYear[d]

importYear(y) ==
    LET kept == {d \in DOMAIN cnDays : cnDays[d].year # y}
        new == {d \in DOMAIN Files[y] : ~keepsRow(d, y)}
    IN /\ cnDays' = [d \in kept \cup new |->
                        IF d \in new
                          THEN [year |-> y, type |-> Files[y][d].type, names |-> Files[y][d].names]
                          ELSE cnDays[d]]
       /\ cnYears' = [z \in DOMAIN cnYears \cup {y} |->
                        IF z = y THEN [status |-> "ready", last |-> clock] ELSE cnYears[z]]

recordYearStatus(y, status) ==
    /\ IF isReady(y) THEN UNCHANGED cnYears
       ELSE cnYears' = [z \in DOMAIN cnYears \cup {y} |->
                           IF z = y THEN [status |-> status, last |-> clock] ELSE cnYears[z]]
    /\ UNCHANGED cnDays

cools(y, records) ==
    y \in DOMAIN records /\ records[y].status \in {"failed", "pending"}
    /\ clock - records[y].last < FETCH_COOLDOWN

\* The loop of ensureYears: years under way, ready or cooling are skipped.
GoOn(c, years, records, busy) ==
    LET due == {i \in DOMAIN years :
                  /\ years[i] \notin busy
                  /\ ~(years[i] \in DOMAIN records /\ records[years[i]].status = "ready")
                  /\ ~cools(years[i], records)}
    IN IF due = {}
         THEN ensuring' = [ensuring EXCEPT ![c] = Resting] /\ inflightYears' = busy
         ELSE LET i == Min(due)
              IN /\ ensuring' = [ensuring EXCEPT ![c] =
                                    [year |-> years[i], rest |-> SubSeq(years, i + 1, Len(years))]]
                 /\ inflightYears' = busy \cup {years[i]}

ensureYears(c) ==
    /\ ensuring[c] = Resting
    /\ \/ c = RefreshJob /\ GoOn(c, requiredYears, cnYears, inflightYears)
       \/ /\ c # RefreshJob
          /\ \E d \in Dates : \E y \in holidayYearsNeedingData(d) \cap Years :
                d >= thisDay /\ GoOn(c, <<y>>, cnYears, inflightYears)
    /\ UNCHANGED <<calendarVars, watch, notices, outsideVars>>

\* The answer to a fetch, from either address: the file, when it is out; another year's
\* file; or none, one that does not pass validateYearPayload among them.  Without the
\* file a year to come is pending, another one failed.
FetchEnds(c) ==
    LET y == ensuring[c].year
    IN /\ y # NoYear
       /\ \/ y \in published /\ importYear(y)
          \/ \E answer \in {"wrong year", "none"} :
                recordYearStatus(y, IF y > DateYear[thisDay] /\ answer # "wrong year"
                                      THEN "pending" ELSE "failed")
       /\ GoOn(c, ensuring[c].rest, cnYears', inflightYears \ {y})
       /\ UNCHANGED <<watch, notices, outsideVars>>

-----------------------------------------------------------------------------
(* Reminders                                                                *)

\* runWorkdayWatch, on time or as the catch-up of yesterday's run after midnight: the
\* day, its type and the periods are read once.
runWorkdayWatch(at) ==
    /\ watch.left = {} /\ at \in Dates /\ dayType(at) # "unknown"
    /\ watch' = [today |-> at, type |-> dayType(at), periods |-> holidayPeriods, left |-> Readers]
    /\ UNCHANGED <<calendarVars, fetchVars, notices, outsideVars>>

\* Per profile; each notification has a key of its own and is told once.  The day after
\* the last day of a period is looked up now.
WatchProfile(p) ==
    LET t == watch.today
        tomorrow == IF t + 1 \in Dates THEN dayType(t + 1) ELSE "unknown"
        notice(what, day, note, days) ==
            [to |-> p, what |-> what, day |-> day, note |-> note, workdays |-> days]
        due == (IF watch.type = "workday" THEN {notice("workday", t, "workday", {})} ELSE {})
          \cup {notice("period", q.start, "period", {d \in q.workdays : d >= t}) :
                   q \in {r \in watch.periods : r.start > t /\ r.start - t <= remindDaysBefore}}
          \cup {notice("lastday", t, tomorrow, {}) : q \in {r \in watch.periods : r.end = t}}
    IN /\ p \in watch.left
       /\ watch' = IF watch.left = {p} THEN NoWatch ELSE [watch EXCEPT !.left = @ \ {p}]
       /\ notices' = notices \cup
             {n \in due : ~\E m \in notices : m.to = p /\ m.what = n.what /\ m.day = n.day}
       /\ UNCHANGED <<calendarVars, fetchVars, outsideVars>>

-----------------------------------------------------------------------------
Publication ==
    /\ \E y \in Years \ published : published' = published \cup {y}
    /\ UNCHANGED <<calendarVars, fetchVars, watch, notices, clock, holidayCrashes>>

HolidayCrash ==
    /\ holidayCrashes < MaxHolidayCrashes /\ holidayCrashes' = holidayCrashes + 1
    /\ inflightYears' = {} /\ ensuring' = [c \in Callers |-> Resting] /\ watch' = NoWatch
    /\ UNCHANGED <<calendarVars, notices, published, clock>>

HolidayTime ==
    /\ clock < MaxHolidayTick /\ clock' = clock + 1
    /\ UNCHANGED <<calendarVars, fetchVars, watch, notices, published, holidayCrashes>>

HolidayNext ==
    \/ \E c \in Callers : ensureYears(c)
    \/ \E c \in Callers : FetchEnds(c)
    \/ \E at \in {thisDay, thisDay - 1} : runWorkdayWatch(at)
    \/ \E p \in Readers : WatchProfile(p)
    \/ Publication
    \/ HolidayCrash
    \/ HolidayTime

HolidaySpec == HolidayInit /\ [][HolidayNext]_holidayVars

-----------------------------------------------------------------------------
(* Properties                                                               *)

\* What all files together say.
Truth(d) ==
    IF \E y \in Years : d \in DOMAIN Files[y]
      THEN (CHOOSE t \in {"holiday", "workday"} :
               \E y \in Years : d \in DOMAIN Files[y] /\ Files[y][d].type = t)
      ELSE byWeekday(d)

\* No answer is a guess: the type of a date, that a month has no holidays, and what
\* reminders say of today and tomorrow hold also when the files still to come are in
\* ("未就绪 → unknown（调用方必须暂停，不得猜测）", dayType).
HolidayAnswersTrue ==
    /\ \A d \in Dates : dayType(d) \in {"unknown", Truth(d)}
    /\ \A d \in Dates : monthAction(Month[d]) = {} => Truth(d) = byWeekday(d)
    /\ \A n \in notices :
          /\ n.what = "workday" => Truth(n.day) = "workday"
          /\ n.what = "lastday" => n.note \in {"unknown", Truth(n.day + 1)}
=============================================================================
