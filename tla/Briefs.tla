------------------------------- MODULE Briefs -------------------------------
(* The morning and the evening brief (modules/weather/briefs.ts) and where   *)
(* a profile is taken to be (place.ts, index.ts): the destination of a       *)
(* journey on its days, else the place it saved, else the default city.      *)
(*                                                                           *)
(* A run visits the profiles one after the other, awaits the weather of each *)
(* and may cross midnight; it is anchored to the day it was due on, which    *)
(* for a catch-up may be the day before.  Runs of the two jobs interleave.   *)
EXTENDS Integers, FiniteSets, FiniteSetsExt

CONSTANTS
    BriefProfiles, Cities, DefaultCity,
    NoPlan, NoCity, NoRun,
    DayLength,                       \* ticks in a day
    CatchUp,                         \* ticks for which a missed run is made up for
    MaxBriefTick, MaxSettings, MaxBriefCrashes   \* bounds

ASSUME BriefsAssumption ==
    /\ DefaultCity \in Cities /\ NoCity \notin Cities
    /\ DayLength \in Nat \ {0} /\ CatchUp \in 0 .. DayLength - 1 /\ MaxBriefTick \in Nat

VARIABLES
    plans,      \* profile -> [city, start, end] or NoPlan: settings.travel_plan
    saved,      \* profile -> its settings.location, or NoCity
    runs,       \* kind -> [day, left, who, city] or NoRun: the run of that job
    briefs,     \* notifications: [kind, to, city, day, weather]
    visited,    \* [kind, to, day, said]: visits of runs, by the day they were due on
                \* and by whether there was something to say and no step failed
    briefTick, settings, briefCrashes

briefVars == <<plans, saved, runs, briefs, visited, briefTick, settings, briefCrashes>>
placeVars == <<plans, saved, settings>>

Kinds == {"daily", "evening"}
todayIso == briefTick \div DayLength
LastDay == MaxBriefTick \div DayLength

BriefsInit ==
    /\ plans = [p \in BriefProfiles |-> NoPlan] /\ saved = [p \in BriefProfiles |-> NoCity]
    /\ runs = [k \in Kinds |-> NoRun]
    /\ briefs = {} /\ visited = {}
    /\ briefTick = 0 /\ settings = 0 /\ briefCrashes = 0

-----------------------------------------------------------------------------
(* Places                                                                   *)

isTravelActive(plan, day) == plan # NoPlan /\ plan.start <= day /\ day <= plan.end

\* The default city has to be looked up, which may fail: NoCity.
resolveProfilePlace(p, day, found) ==
    IF isTravelActive(plans[p], day) THEN plans[p].city
    ELSE IF saved[p] # NoCity THEN saved[p]
    ELSE IF found THEN DefaultCity ELSE NoCity

locateAction(p, city) ==
    /\ saved' = [saved EXCEPT ![p] = city] /\ UNCHANGED plans

\* A journey does not end before today.
travelSet(p, city, start, end) ==
    /\ start <= end /\ end >= todayIso
    /\ plans' = [plans EXCEPT ![p] = [city |-> city, start |-> start, end |-> end]]
    /\ UNCHANGED saved

travelClear(p) == plans' = [plans EXCEPT ![p] = NoPlan] /\ UNCHANGED saved

SetPlace ==
    /\ settings < MaxSettings /\ settings' = settings + 1
    /\ \E p \in BriefProfiles :
          \/ \E city \in Cities : locateAction(p, city)
          \/ \E city \in Cities, start, end \in 0 .. LastDay : travelSet(p, city, start, end)
          \/ plans[p] # NoPlan /\ travelClear(p)
    /\ UNCHANGED <<runs, briefs, visited, briefTick, briefCrashes>>

-----------------------------------------------------------------------------
(* Runs                                                                     *)

\* A slip: the day on the clock while the profile is visited.
clockDay(run) == todayIso

calendarToday(run) == run.day

\* The morning brief is due when the day starts, the evening brief in its last tick.
dueAt(kind, day) == day * DayLength + (IF kind = "daily" THEN 0 ELSE DayLength - 1)

\* On time, or as the catch-up core/jobs.ts makes at a start, again perhaps after a
\* crash: anchored to the day the run was due on.
RunBrief(kind, day) ==
    /\ runs[kind] = NoRun
    /\ briefTick - dueAt(kind, day) \in 0 .. CatchUp
    /\ runs' = [runs EXCEPT ![kind] = [day |-> day, left |-> BriefProfiles, who |-> {}, city |-> NoCity]]
    /\ UNCHANGED <<placeVars, briefs, visited, briefTick, briefCrashes>>

\* The next profile: its place, and then the weather there is asked for.
VisitReader(kind, p) ==
    /\ runs[kind] # NoRun /\ runs[kind].who = {} /\ p \in runs[kind].left
    /\ \E found \in BOOLEAN :
          runs' = [runs EXCEPT ![kind].who = {p},
                               ![kind].city = resolveProfilePlace(p, calendarToday(runs[kind]), found)]
    /\ UNCHANGED <<placeVars, briefs, visited, briefTick, briefCrashes>>

\* publishProfile: a brief per profile, day and, in the morning, city.
publishBrief(kind, p, city, day, weather) ==
    LET same(b) == b.kind = kind /\ b.to = p /\ b.day = day /\ (kind = "daily" => b.city = city)
    IN briefs' = IF \E b \in briefs : same(b) THEN briefs
                 ELSE briefs \cup {[kind |-> kind, to |-> p, city |-> city, day |-> day,
                                    weather |-> weather]}

ReaderDone(kind, p) ==
    runs' = [runs EXCEPT ![kind] =
                IF @.left = {p} THEN NoRun
                ELSE [day |-> @.day, left |-> @.left \ {p}, who |-> {}, city |-> NoCity]]

\* The weather came or did not.  The morning brief is about the weather and is left out
\* without any; the evening brief is about tomorrow and says what it knows.  A step that
\* throws, publishProfile among them, costs this profile its brief; the others have theirs.
WriteBrief(kind, p) ==
    LET run == runs[kind]
        day == IF kind = "daily" THEN calendarToday(run) ELSE calendarToday(run) + 1
    IN /\ run # NoRun /\ run.who = {p}
       /\ \E weather, throws \in BOOLEAN :
             LET said == ~throws /\ (kind = "evening" \/ weather)
             IN /\ weather => run.city # NoCity
                /\ IF said THEN publishBrief(kind, p, run.city, day, weather)
                   ELSE UNCHANGED briefs
                /\ visited' = visited \cup {[kind |-> kind, to |-> p, day |-> run.day, said |-> said]}
       /\ ReaderDone(kind, p)
       /\ UNCHANGED <<placeVars, briefTick, briefCrashes>>

BriefTime ==
    /\ briefTick < MaxBriefTick /\ briefTick' = briefTick + 1
    /\ UNCHANGED <<placeVars, runs, briefs, visited, briefCrashes>>

BriefCrash ==
    /\ briefCrashes < MaxBriefCrashes /\ briefCrashes' = briefCrashes + 1
    /\ runs' = [k \in Kinds |-> NoRun] /\ runs # runs'
    /\ UNCHANGED <<placeVars, briefs, visited, briefTick>>

BriefsNext ==
    \/ SetPlace
    \/ \E kind \in Kinds, day \in 0 .. LastDay : RunBrief(kind, day)
    \/ \E kind \in Kinds, p \in BriefProfiles : VisitReader(kind, p)
    \/ \E kind \in Kinds, p \in BriefProfiles : WriteBrief(kind, p)
    \/ BriefTime
    \/ BriefCrash

BriefsSpec == BriefsInit /\ [][BriefsNext]_briefVars

-----------------------------------------------------------------------------
\* A visit that had something to say, and of which no step failed, left the profile a
\* brief of the day the run was due on, for the evening of the day after: a catch-up
\* after midnight does not take the place of the next evening's brief
\* ("把当晚的晚报静默吞掉", briefs.ts), and no brief is about a day whose run has not
\* been due.
BriefForEachRun ==
    /\ \A v \in visited : v.said =>
          \E b \in briefs : /\ b.kind = v.kind /\ b.to = v.to
                            /\ b.day = (IF v.kind = "daily" THEN v.day ELSE v.day + 1)
    /\ \A b \in briefs :
          dueAt(b.kind, IF b.kind = "daily" THEN b.day ELSE b.day - 1) <= briefTick
=============================================================================
