------------------------------ MODULE Schedules ------------------------------
(* One schedule and its reminders: modules/schedule/{actions,materialize,fire}.
   Rows of different schedules meet only in the LIMIT of the due list, so one
   schedule is enough.

   The tools are synchronous and so is publishProfile: nothing runs between two
   statements of a tick, except a crash. The tick is split at the statements
   between which a crash leaves something behind (publish, mark, derive).

   Time is counted in ticks of a clock, DAY of them to a local day. The dates a
   recurrence yields are a set of days (core/recurrence.ts); the work-day filter
   is "any". A row is found by its key <date>T<time>#<idx><suffix>. *)
EXTENDS Integers, Sequences, FiniteSetsExt

CONSTANTS
    DAY,                    \* clock ticks in a day
    Rules,                  \* recurrences: [recurring, days, count, until]
    Times,                  \* values of `time`, ticks after midnight
    OffsetLists,            \* values of remind_offsets
    Resends,                \* values of resend_minutes, 0 = none
    Escalations,            \* values of escalation, << >> = none
    Kinds,                  \* values of kind
    Patchable,              \* the fields that update is called with
    SnoozeMinutes,          \* values of `minutes` of snooze
    CATCHUP_GRACE_MINUTES, NEAR_HORIZON_DAYS, FAR_HORIZON_DAYS,
    MATERIALIZE_ITERATIONS, EXEMPT_SCAN_ITERATIONS, FIRE_LIMIT,
    OCCURRENCE_CLEANUP_DAYS,
    MaxNow,                 \* bound: last value of the clock
    MaxEdits,               \* bound: tool calls
    MaxFaults               \* bound: crashes and failing publications

NONE == 0                   \* no count, no until, no time in a dedupe key
RESEND == -1                \* the suffix :resend; n > 0 is #esc:n, 0 a normal row
Unfinished == {"pending", "notified"}

ASSUME SchedulesAssumption ==
    /\ DAY \in Nat \ {0}
    /\ Times \subseteq 0..(DAY - 1)
    /\ \A r \in Rules : /\ r \in [recurring : BOOLEAN, days : SUBSET (Nat \ {0}),
                                  count : Nat, until : Nat]
                        /\ r.days # {} /\ (~r.recurring => Cardinality(r.days) = 1)
    /\ \A o \in OffsetLists : o \in Seq(Int) /\ Len(o) > 0
    /\ Resends \subseteq Nat
    /\ \A e \in Escalations : e \in Seq(Nat)
    /\ Kinds \subseteq {"todo", "birthday", "anniversary"}
    /\ Patchable \subseteq {"time", "offsets", "rule", "resend", "esc", "kind", "status"}
    /\ SnoozeMinutes \subseteq Nat \ {0}
    /\ {CATCHUP_GRACE_MINUTES, NEAR_HORIZON_DAYS, FAR_HORIZON_DAYS,
        MATERIALIZE_ITERATIONS, EXEMPT_SCAN_ITERATIONS, FIRE_LIMIT,
        OCCURRENCE_CLEANUP_DAYS, MaxNow, MaxEdits, MaxFaults} \subseteq Nat
    /\ OCCURRENCE_CLEANUP_DAYS # 0

VARIABLES
    now,        \* the clock
    sched,      \* the row of `schedules`
    occ,        \* the rows of `occurrences`: key -> [due, status]
    outbox,     \* the reminders published: dedupe key and the due time announced
    tick,       \* the running tick: phase, due rows still to fire, row in hand
    settled,    \* history: events whose completion or skip was acknowledged
    edits, faults
vars == <<now, sched, occ, outbox, tick, settled, edits, faults>>

-----------------------------------------------------------------------------
(* Keys and times *)

Today == now \div DAY
Key(day, time, i, tail) == [day |-> day, time |-> time, idx |-> i, tail |-> tail]
eventAt(k) == k.day * DAY + k.time
eventPrefixOf(k) == <<k.day, k.time>>
parentOf(k) == Key(k.day, k.time, k.idx, 0)
isNormalReminderKey(k) == k.tail = 0
isEscalation(k) == k.tail > 0

Rows(o, statuses) == {k \in DOMAIN o : o[k].status \in statuses}
Row(due, status) == [due |-> due, status |-> status]
Pending(due) == Row(due, "pending")
SetStatus(o, K, st) ==
    [k \in DOMAIN o |-> IF k \in K THEN Row(o[k].due, st) ELSE o[k]]
SetDue(o, k, due) == [o EXCEPT ![k] = Row(due, o[k].status)]
RemoveRows(o, K) == [k \in DOMAIN o \ K |-> o[k]]
insertOrIgnore(o, rows) ==
    [k \in DOMAIN o \cup DOMAIN rows |-> IF k \in DOMAIN o THEN o[k] ELSE rows[k]]

\* Mutant: only the row that was answered, not its event.
theRowOnly(o, k) == {k} \cap Rows(o, Unfinished)

OfEvent(o, k) == {j \in Rows(o, Unfinished) : eventPrefixOf(j) = eventPrefixOf(k)}

-----------------------------------------------------------------------------
(* materialize.ts *)

existingDates(o) == {k.day : k \in DOMAIN o}

\* Mutant: one event too many.
countExceeded(s, dates) == s.rule.count # NONE /\ Cardinality(dates) > s.rule.count

countReached(s, dates) == s.rule.count # NONE /\ Cardinality(dates) >= s.rule.count

\* The day after which candidates are looked for; rewind = NONE or a day.
cursor(o, rewind) ==
    LET days == {k.day : k \in DOMAIN o \ Rows(o, {"cancelled"})}
    IN  IF days = {} THEN Today - 1
        ELSE IF rewind # NONE THEN rewind - 1 ELSE Max(days)

candidates(s, after) ==
    {d \in s.rule.days : /\ d > after /\ d <= Today + FAR_HORIZON_DAYS
                         /\ s.rule.until = NONE \/ d <= s.rule.until}

\* An event of which at least one offset has no row: visiting it is an insertion.
isNew(s, o, d) ==
    \E i \in DOMAIN s.offsets : Key(d, s.time, i - 1, 0) \notin DOMAIN o

\* Mutant: no event is exempt from the near horizon.
takesNearOnly(s, o, all, d) == d <= Today + NEAR_HORIZON_DAYS

\* The loop takes candidate d of `all` if none before d ended it: it has iterations
\* left; the count is not reached, or d is the first and has rows; and d lies within
\* the near horizon or no reminder is pending and d may be the first new event.
takes(s, o, all, d) ==
    LET exempt == Rows(o, {"pending"}) = {}
        before == {c \in all : c < d}
        new == {c \in before : isNew(s, o, c)}
        dates == existingDates(o) \cup new
    IN  /\ Cardinality(before) < IF exempt THEN EXEMPT_SCAN_ITERATIONS ELSE MATERIALIZE_ITERATIONS
        /\ countReached(s, dates) => before = {} /\ d \in dates
        /\ d > Today + NEAR_HORIZON_DAYS => exempt /\ new = {}

materializedDays(s, o, rewind) ==
    LET all == candidates(s, cursor(o, rewind))
    IN  IF countReached(s, existingDates(o)) /\ rewind = NONE THEN {}
        ELSE {d \in all : takes(s, o, all, d)}

inserted(s, days) ==
    [k \in {Key(d, s.time, i - 1, 0) : d \in days, i \in DOMAIN s.offsets} |->
        Pending(eventAt(k) + s.offsets[k.idx + 1])]

recurrenceExhausted(s) ==
    s.rule.until # NONE /\ {d \in s.rule.days : d > Today /\ d <= s.rule.until} = {}

finalizeExhaustedSchedule(s, o) ==
    IF /\ s.rule.recurring
       /\ Rows(o, {"pending"}) = {}
       /\ countReached(s, existingDates(o)) \/ recurrenceExhausted(s)
    THEN [s EXCEPT !.status = "done"] ELSE s

materializeSchedule(s, o, rewind) ==
    IF s.status # "active" THEN [sched |-> s, occ |-> o]
    ELSE LET new == insertOrIgnore(o, inserted(s, materializedDays(s, o, rewind)))
         IN  [sched |-> finalizeExhaustedSchedule(s, new), occ |-> new]

\* The latest event with a reminder out, if a normal one of it is still to come.
latestInterruptedEvent(o) ==
    LET out == Rows(o, {"notified"})
        last == Max({eventAt(k) : k \in out})
    IN  IF out # {} /\ \E k \in Rows(o, {"pending"}) :
                           isNormalReminderKey(k) /\ eventAt(k) = last
        THEN last \div DAY ELSE NONE

-----------------------------------------------------------------------------
(* actions.ts: the tools. Each is one transaction, except complete. *)

\* Nothing interleaves with the statements of a tick.
Tool == tick.phase = "idle" /\ edits < MaxEdits /\ edits' = edits + 1
Active == Tool /\ sched.status = "active"

expiredOneOff(s) == ~s.rule.recurring /\ \A d \in s.rule.days : d < Today
oneOffTodo == ~sched.rule.recurring /\ sched.kind = "todo"
Settle(K) == settled' = settled \cup {eventPrefixOf(k) : k \in K}

PatchValues == [time |-> Times, offsets |-> OffsetLists, rule |-> Rules, resend |-> Resends,
            esc |-> Escalations, kind |-> Kinds, status |-> {"active", "done", "cancelled"}]

validateScheduleInput(s) == s.esc # << >> => s.kind = "todo"

updateSchedule(field, value) ==
    LET merged == [sched EXCEPT ![field] = value]
        materializationAffected ==
            \/ field = "rule"
            \/ field \in {"time", "offsets", "status"} /\ value # sched[field]
        kept == RemoveRows(occ, {k \in Rows(occ, {"pending"}) : isNormalReminderKey(k)})
        m == materializeSchedule(merged, kept, latestInterruptedEvent(occ))
    IN  /\ Tool
        /\ ~(merged.status = "active" /\ sched.status = "done" /\ sched.kind = "todo")
        /\ validateScheduleInput(merged)
        /\ ~(merged.status = "active" /\ materializationAffected /\ expiredOneOff(merged))
        /\ sched' = IF materializationAffected THEN m.sched ELSE merged
        /\ occ' = IF materializationAffected THEN m.occ ELSE occ
        /\ UNCHANGED <<now, outbox, tick, settled, faults>>

\* complete with an occurrence_key: the reminders of its event end with it.
completeOccurrence(k, all) ==
    /\ Active
    /\ k \in Rows(occ, Unfinished)
    /\ occ' = SetStatus(occ, OfEvent(occ, k), "done")
    /\ sched' = IF oneOffTodo \/ all THEN [sched EXCEPT !.status = "done"] ELSE sched
    /\ Settle({k})
    /\ UNCHANGED <<now, outbox, tick, faults>>

\* complete without a key; a recurring schedule asks for all.
completeSchedule(all) ==
    /\ Active
    /\ sched.rule.recurring => all
    /\ occ' = SetStatus(occ, Rows(occ, Unfinished), "done")
    /\ sched' = IF sched.kind = "todo" \/ all THEN [sched EXCEPT !.status = "done"] ELSE sched
    /\ Settle(Rows(occ, Unfinished))
    /\ UNCHANGED <<now, outbox, tick, faults>>

\* complete is no transaction: the daemon may die after its first statement, which
\* ends rows K, and before the one that ends the event or the schedule.
completeTorn(K) ==
    /\ Active
    /\ K # {} /\ K \subseteq Rows(occ, Unfinished)
    /\ occ' = SetStatus(occ, K, "done")
    /\ faults < MaxFaults /\ faults' = faults + 1
    /\ UNCHANGED <<now, sched, outbox, tick, settled>>

firstStatement(k) == {{k}, OfEvent(occ, k), Rows(occ, Unfinished)}

snoozeSchedule(k, due) ==
    /\ Active
    /\ k \in Rows(occ, Unfinished) /\ isNormalReminderKey(k)
    /\ occ' = [occ EXCEPT ![k] = Pending(due)]
    /\ UNCHANGED <<now, sched, outbox, tick, settled, faults>>

\* `minutes` count from the reminder or the present, `until` is the next such time.
snoozedTo(k) ==
    {(IF occ[k].due > now THEN occ[k].due ELSE now) + m : m \in SnoozeMinutes}
    \cup {t \in now + 1..now + DAY : t % DAY \in Times}

skipSchedule(k) ==
    /\ Active
    /\ k \in Rows(occ, Unfinished)
    /\ occ' = SetStatus(occ, OfEvent(occ, k), "cancelled")
    /\ sched' = IF oneOffTodo THEN [sched EXCEPT !.status = "done"] ELSE sched
    /\ Settle({k})
    /\ UNCHANGED <<now, outbox, tick, faults>>

deleteSchedule ==
    /\ Tool
    /\ occ' = IF sched.rule.count = NONE THEN << >> ELSE occ
    /\ sched' = [sched EXCEPT !.status = "cancelled"]
    /\ settled' = {}
    /\ UNCHANGED <<now, outbox, tick, faults>>

runOccurrenceCleanup ==
    LET K == {k \in Rows(occ, {"notified", "done", "cancelled"}) :
                 eventAt(k) < now - OCCURRENCE_CLEANUP_DAYS * DAY}
    IN  /\ tick.phase = "idle"
        /\ sched.rule.count = NONE /\ K # {}
        /\ occ' = RemoveRows(occ, K)
        /\ UNCHANGED <<now, sched, outbox, tick, settled, edits, faults>>

-----------------------------------------------------------------------------
(* fire.ts: the tick *)

\* Of the reminders missed by more than the grace, the latest one is kept.
catchupSweep(o) ==
    LET overdue == {k \in Rows(o, {"pending"}) : o[k].due < now - CATCHUP_GRACE_MINUTES}
    IN  SetStatus(o, {k \in overdue : \E j \in overdue : o[k].due < o[j].due}, "cancelled")

dueRows(o) == IF sched.status = "active"
              THEN {k \in Rows(o, {"pending"}) : o[k].due <= now} ELSE {}

\* ORDER BY due_at LIMIT 50; the order of equal times is open.
FirstDue(o, K) ==
    {T \in SUBSET K : /\ Cardinality(T) = Min({FIRE_LIMIT, Cardinality(K)})
                      /\ \A k \in T, j \in K \ T : o[k].due <= o[j].due}

TickStart ==
    /\ tick.phase = "idle"
    /\ occ' = catchupSweep(occ)
    /\ \E T \in FirstDue(occ', dueRows(occ')) : tick' = [phase |-> "fire", todo |-> T]
    /\ UNCHANGED <<now, sched, outbox, settled, edits, faults>>

parentMatches(k) ==
    /\ k.time = sched.time
    /\ parentOf(k) \in Rows(occ, Unfinished)

\* The time a derived row is due by the schedule as it is now, if it still is.
resendIsValid(k) == sched.resend > 0 /\ sched.esc = << >> /\ parentMatches(k)
escalationIsValid(k) ==
    sched.kind = "todo" /\ k.tail < Len(sched.esc) /\ parentMatches(k)
isValid(k) == \/ isNormalReminderKey(k)
              \/ k.tail = RESEND /\ resendIsValid(k)
              \/ isEscalation(k) /\ escalationIsValid(k)
expectedDue(k) == IF isNormalReminderKey(k) THEN occ[k].due
                  ELSE eventAt(k) + (IF k.tail = RESEND THEN sched.resend
                                     ELSE sched.esc[k.tail + 1])

isSnoozedRow(k) ==
    /\ isNormalReminderKey(k)
    /\ k.idx < Len(sched.offsets)
    /\ occ[k].due # eventAt(k) + sched.offsets[k.idx + 1]

\* Mutant: the key of a snoozed reminder is the key it had.
withoutTime(k) == NONE
\* Mutant: the key is new in each tick.
withTimeOfTick(k) == now

dedupeAt(k) == IF isSnoozedRow(k) THEN occ[k].due ELSE NONE

\* publishProfile: a dedupe key that is known adds nothing.
publishProfile(k) ==
    outbox' = IF \E m \in outbox : m.key = k /\ m.at = dedupeAt(k) THEN outbox
              ELSE outbox \cup {[key |-> k, at |-> dedupeAt(k), due |-> expectedDue(k)]}

\* The row in hand; the due list is worked off in order.
Firing(k) ==
    /\ tick.phase = "fire"
    /\ k \in tick.todo
    /\ \A j \in tick.todo : occ[k].due <= occ[j].due
Passed(k) == tick' = [phase |-> "fire", todo |-> tick.todo \ {k}]

\* Mutant: a void row is passed over and stays.
passVoid(k) ==
    /\ Firing(k) /\ ~isValid(k)
    /\ Passed(k)
    /\ UNCHANGED <<now, sched, occ, outbox, settled, edits, faults>>

fireVoid(k) ==
    /\ Firing(k) /\ ~isValid(k)
    /\ occ' = SetStatus(occ, {k}, "cancelled")
    /\ Passed(k)
    /\ UNCHANGED <<now, sched, outbox, settled, edits, faults>>

fireLater(k) ==
    /\ Firing(k) /\ isValid(k) /\ expectedDue(k) > now
    /\ occ' = SetDue(occ, k, expectedDue(k))
    /\ Passed(k)
    /\ UNCHANGED <<now, sched, outbox, settled, edits, faults>>

fireNow(k) ==
    /\ Firing(k) /\ isValid(k) /\ expectedDue(k) <= now
    /\ occ' = SetDue(occ, k, expectedDue(k))
    /\ publishProfile(k)
    /\ tick' = [phase |-> "mark", todo |-> tick.todo, row |-> k]
    /\ UNCHANGED <<now, sched, settled, edits, faults>>

\* publishProfile throws: the row stays pending for the next tick.
fireFails(k) ==
    /\ Firing(k) /\ isValid(k) /\ expectedDue(k) <= now
    /\ faults < MaxFaults /\ faults' = faults + 1
    /\ occ' = SetDue(occ, k, expectedDue(k))
    /\ Passed(k)
    /\ UNCHANGED <<now, sched, outbox, settled, edits>>

MarkNotified ==
    /\ tick.phase = "mark"
    /\ occ' = SetStatus(occ, {tick.row}, "notified")
    /\ tick' = [phase |-> "derive", todo |-> tick.todo, row |-> tick.row]
    /\ UNCHANGED <<now, sched, outbox, settled, edits, faults>>

\* Mutant: only rows derived from this very row count.
derivedFromRow(k, tails) == \E j \in DOMAIN occ : parentOf(j) = parentOf(k) /\ j.tail \in tails

hasDerivedRow(k, tails) ==
    \E j \in DOMAIN occ : eventPrefixOf(j) = eventPrefixOf(k) /\ j.tail \in tails

\* The suffixes of the rows derived from row k: at most one.
nextReminder(k) ==
    IF isEscalation(k) THEN {n \in {k.tail + 1} : n < Len(sched.esc)}
    ELSE IF k.tail = RESEND \/ sched.kind # "todo" THEN {}
    ELSE IF sched.esc # << >>
         THEN {n \in {1} : Len(sched.esc) > 1 /\ ~hasDerivedRow(k, Nat \ {0})}
    ELSE {n \in {RESEND} : sched.resend > 0
                           /\ ~hasDerivedRow(k, {RESEND})}

\* insertEscalation, and its counterpart for the resend: INSERT OR IGNORE.
DeriveNext ==
    LET k == tick.row
        due(n) == eventAt(k) + (IF n = RESEND THEN sched.resend ELSE sched.esc[n + 1])
        keys == {Key(k.day, k.time, k.idx, n) : n \in nextReminder(k)}
    IN  /\ tick.phase = "derive"
        /\ occ' = insertOrIgnore(occ, [j \in keys |-> Pending(due(j.tail))])
        /\ Passed(k)
        /\ UNCHANGED <<now, sched, outbox, settled, edits, faults>>

TickReturns ==
    /\ tick.phase = "fire" /\ tick.todo = {}
    /\ tick' = [phase |-> "idle", todo |-> {}]

TickEnd ==
    LET m == materializeSchedule(sched, occ, NONE)
    IN  /\ TickReturns
        /\ sched' = m.sched /\ occ' = m.occ
        /\ UNCHANGED <<now, outbox, settled, edits, faults>>

\* The daemon dies within a tick. What it does when it starts is the next tick.
Crash ==
    /\ tick.phase # "idle"
    /\ faults < MaxFaults /\ faults' = faults + 1
    /\ tick' = [phase |-> "idle", todo |-> {}]
    /\ UNCHANGED <<now, sched, occ, outbox, settled, edits>>

\* A minute passes; whether the daemon was up is for TickStart to say.
ClockTicks ==
    /\ tick.phase = "idle"
    /\ now < MaxNow /\ now' = now + 1
    /\ UNCHANGED <<sched, occ, outbox, tick, settled, edits, faults>>

-----------------------------------------------------------------------------

Schedule == [status : {"active"}, kind : Kinds, rule : Rules, time : Times,
             offsets : OffsetLists, resend : Resends, esc : Escalations]

Init ==
    /\ now \in DAY..2 * DAY - 1
    /\ \E s \in Schedule : /\ validateScheduleInput(s) /\ ~expiredOneOff(s)
                           /\ LET m == materializeSchedule(s, << >>, NONE)
                              IN  sched = m.sched /\ occ = m.occ
    /\ outbox = {} /\ settled = {}
    /\ tick = [phase |-> "idle", todo |-> {}]
    /\ edits = 0 /\ faults = 0

Fire == \/ \E k \in tick.todo : fireVoid(k) \/ fireLater(k) \/ fireNow(k)
        \/ MarkNotified
        \/ DeriveNext

Tools ==
    \/ \E field \in Patchable : \E value \in PatchValues[field] : updateSchedule(field, value)
    \/ \E k \in DOMAIN occ : \/ \E all \in BOOLEAN : completeOccurrence(k, all)
                             \/ \E K \in firstStatement(k) : completeTorn(K)
                             \/ \E due \in snoozedTo(k) : snoozeSchedule(k, due)
                             \/ skipSchedule(k)
    \/ \E all \in BOOLEAN : completeSchedule(all)
    \/ deleteSchedule

Next ==
    \/ Tools
    \/ runOccurrenceCleanup
    \/ TickStart \/ Fire \/ TickEnd
    \/ \E k \in tick.todo : fireFails(k)
    \/ Crash
    \/ ClockTicks

Spec == Init /\ [][Next]_vars

\* The minute tick of the daemon runs, and goes on once it runs. (For TickEnd the
\* control says enough; TLC need not compute what it writes.)
FairSpec == Spec /\ WF_vars(TickStart) /\ WF_vars(Fire) /\ WF_tick(TickReturns)

-----------------------------------------------------------------------------
(* Properties *)

Reminders == [day : Nat, time : Times, idx : Nat, tail : Int]

\* An event that was completed or skipped has no reminder left to send: none of
\* its offsets, resends or escalations, whichever of them the user answered
\* (README 441), and none comes back (comment above skipSchedule).
SettledStaysQuiet ==
    \A k \in Rows(occ, Unfinished) : eventPrefixOf(k) \notin settled

\* A reminder that counts as sent was announced for the time it was due at last:
\* no crash between publication and mark, and no dedupe key already used,
\* swallows it (comment on dedupeKey in fireDue).
NotifiedWasAnnounced ==
    \A k \in Rows(occ, {"notified"}) :
        isNormalReminderKey(k) => \E m \in outbox : m.key = k /\ m.due = occ[k].due

\* No reminder is announced twice for the same time, however often the tick is
\* interrupted, and a resend or escalation step only once at all.
AnnouncedOnce ==
    \A m, n \in outbox :
        m.key = n.key /\ (m.due = n.due \/ ~isNormalReminderKey(m.key)) => m = n

\* An event has one chain of escalations and one resend, though each of its
\* offsets could start them (hasDerivedRow).
OneChainPerEvent ==
    \A j, k \in DOMAIN occ :
        /\ eventPrefixOf(j) = eventPrefixOf(k)
        /\ \/ isEscalation(j) /\ isEscalation(k)
           \/ j.tail = RESEND /\ k.tail = RESEND
        => j.idx = k.idx

\* A recurrence with a count reminds of no more events than that.
CountIsKept ==
    sched.rule.count # NONE =>
        Cardinality({m.key.day : m \in outbox}) <= sched.rule.count

\* While days are left, an active schedule shows its next reminder, however far
\* it is (exemptFirst), and a schedule at its end has no reminder unsent.
NextStaysVisible ==
    [][ tick.phase = "fire" /\ tick'.phase = "idle" /\ faults' = faults =>
          IF sched'.status = "active"
          THEN \/ Rows(occ', {"pending"}) # {}
               \/ countReached(sched, existingDates(occ'))
               \/ candidates(sched, Today) \ existingDates(occ') = {}
          ELSE sched.status = "active" => Rows(occ', {"pending"}) = {} ]_vars

\* The events of which one reminder is out and one is still to come.
Interrupted(o) ==
    {eventAt(k) : k \in {k \in Rows(o, {"pending"}) :
        /\ isNormalReminderKey(k)
        /\ \E j \in Rows(o, {"notified"}) : eventAt(j) = eventAt(k)}}

\* An update of the time or the offsets leaves a row for each offset on the days
\* of events E.
Rebuilds(E) ==
    /\ sched'.time # sched.time \/ sched'.offsets # sched.offsets
    /\ sched'.status = "active"
    => \A e \in E : \A i \in DOMAIN sched'.offsets :
           Key(e \div DAY, sched'.time, i - 1, 0) \in DOMAIN occ'

\* An update of the time or the offsets brings the reminders back that it deletes of
\* the latest event "of which a reminder was sent and a normal one was not yet
\* triggered" (materialize.ts, above latestInterruptedEvent), also if another event,
\* with nothing left to send, lies behind it.
InterruptedEventSurvives ==
    [][LET E == Interrupted(occ)
       IN  Rebuilds({e \in E : \A f \in E : f <= e})]_vars

\* Again and again no reminder of an active schedule is left due: all are sent,
\* put off, void or settled, more of them than one tick takes included.
DaemonCatchesUp == []<>(dueRows(occ) = {})
=============================================================================
