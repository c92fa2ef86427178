------------------------------- MODULE Reports -------------------------------
(* Entries of the ledgers and the reports about them: the daily digest of each
   recorder, the weekly and the monthly report of each ledger, the catch-up of
   missed ones and the retention job (modules/bookkeeping, core/retention).
   The calls of publishProfile of one job run without an await between them but
   commit one by one: a crash leaves any prefix of them behind.

   A clock tick is half a day: the day (month report at 09:00) and the evening
   (weekly report at 20:00, digest at 21:30). What matters of the expenses of a
   recorder in a ledger on a day is whether there are any. *)
EXTENDS Ledgers, Functions

CONSTANTS
    WEEK, MONTH,            \* days
    LOOKBACK_MONTHS,        \* lookbackMonths
    RETENTION_DAYS,         \* NOTIFICATION_RETENTION_DAYS
    DIGEST_WINDOW, WEEKLY_WINDOW,   \* CATCHUP_POLICY, ticks
    DateOffsets,            \* dates of expenses, relative to today
    Routed,                 \* profiles with an enabled route (routedProfiles)
    MaxNow, MaxEntries, MaxEdits, MaxCrashes,       \* bounds
    LastCall                \* bound: the last tick at which a tool is called

Jobs == {"ledger_digest", "weekly_report", "monthly_report"}

ASSUME ReportsAssumption ==
    /\ {WEEK, MONTH, LOOKBACK_MONTHS} \subseteq Nat \ {0}
    /\ {RETENTION_DAYS, DIGEST_WINDOW, WEEKLY_WINDOW, MaxNow, MaxEntries,
        MaxEdits, MaxCrashes, LastCall} \subseteq Nat
    /\ Routed \subseteq Profiles /\ DateOffsets \subseteq Int

VARIABLES
    now,
    up,                     \* the daemon runs
    spent,                  \* {[in, by, on]}: who has expenses where, of which day
    told,                   \* notifications: [to, kind, of, period] -> day of creation
    owed,                   \* per job the slot it has not succeeded for, or NULL
    sent,                   \* history: every notification ever created
    entries, edits, crashes
ownVars == <<now, up, spent, told, owed, sent, entries, edits, crashes>>
reportVars == <<ledger, default, ownVars>>

Today == now \div 2
DayOf(slot) == slot \div 2
weekRange(day) == day \div WEEK
monthRange(day) == day \div MONTH
Days == 0..(MaxNow \div 2)

Note(to, kind, of, period) == [to |-> to, kind |-> kind, of |-> of, period |-> period]

\* The slots of the crons at a tick.
Slots(t) ==
    LET day == DayOf(t) IN
    {j \in Jobs : \/ j = "monthly_report" /\ t % 2 = 0 /\ day % MONTH = 0
                  \/ j = "weekly_report" /\ t % 2 = 1 /\ day % WEEK = WEEK - 1
                  \/ j = "ledger_digest" /\ t % 2 = 1}

\* CATCHUP_POLICY: how long a missed slot is made up for; never for the month report.
CATCHUP_POLICY(j) == CASE j = "ledger_digest" -> DIGEST_WINDOW
                       [] j = "weekly_report" -> WEEKLY_WINDOW
                       [] j = "monthly_report" -> 0

-----------------------------------------------------------------------------
(* What a job publishes: a set of notifications, those deduped included.      *)

\* publishLedgerReport
Audience(l) == IF ledger[l].owner = FAMILY THEN Routed ELSE {ledger[l].owner}

Count(l, days) == {e \in spent : e.in = l /\ e.on \in days} # {}
MonthDays(m) == {d \in Days : monthRange(d) = m}
WeekDays(w) == {d \in Days : weekRange(d) = w}

pushDailyDigests(date) ==
    {Note(e.by, "digest", e.by, date) : e \in {x \in spent : x.on = date}}

pushWeeklyReports(date) ==
    UNION {{Note(p, "weekly", l, weekRange(date)) : p \in Audience(l)} :
            l \in {k \in listLedgers(FALSE) : Count(k, WeekDays(weekRange(date)))}}

\* Archived ledgers still hold entries of the month.
pushMonthlyReports(m) ==
    UNION {{Note(p, "monthly", l, m) : p \in Audience(l)} :
            l \in {k \in listLedgers(TRUE) : Count(k, MonthDays(m))}}

\* Of any profile: the key does not name the recipient.
monthlyReportPublished(l, m) ==
    \E n \in DOMAIN told : n.kind = "monthly" /\ n.of = l /\ n.period = m

Unreported(months) ==
    {x \in listLedgers(TRUE) \X months :
        Count(x[1], MonthDays(x[2])) /\ ~monthlyReportPublished(x[1], x[2])}

Months == 0..monthRange(MaxNow)
\* Mutant: the window ends a month too late.
shortWindow == {m \in Months : m < monthRange(Today) /\ m > monthRange(Today) - LOOKBACK_MONTHS}

inWindow == {m \in Months : m < monthRange(Today) /\ m >= monthRange(Today) - LOOKBACK_MONTHS}
\* previousMonth, after the months of findMissingMonthlyReports
MonthsToPush == {x[2] : x \in Unreported(inWindow)} \cup {monthRange(Today) - 1}

Published(j, at) ==
    CASE j = "ledger_digest"  -> pushDailyDigests(DayOf(at))
      [] j = "weekly_report"  -> pushWeeklyReports(DayOf(at))
      [] j = "monthly_report" -> UNION {pushMonthlyReports(m) : m \in MonthsToPush}

\* The order in which a job publishes.
Before(a, b) ==
    \/ a.period < b.period
    \/ a.period = b.period /\ a.of < b.of
    \/ a.period = b.period /\ a.of = b.of /\ a.to < b.to

-----------------------------------------------------------------------------
ReportsInit ==
    /\ LedgersInit
    /\ now = 0 /\ up = TRUE
    /\ spent = {} /\ told = << >> /\ sent = {}
    /\ owed = [j \in Jobs |-> NULL]
    /\ entries = 0 /\ edits = 0 /\ crashes = 0

Calling == up /\ now <= LastCall

\* One of the tools of Ledgers; the creation of a ledger is not counted.
LedgerTool ==
    /\ Calling /\ LedgersNext
    /\ IF Exists' # Exists THEN edits' = edits
       ELSE edits < MaxEdits /\ edits' = edits + 1
    /\ UNCHANGED <<now, up, spent, told, owed, sent, entries, crashes>>

EntryDates == {Today + d : d \in DateOffsets} \cap Days

Record(p, l, day) ==
    /\ entries' = entries + 1
    /\ spent' = spent \cup {[in |-> l, by |-> p, on |-> day]}
    /\ UNCHANGED <<ledger, default, now, up, told, owed, sent, edits, crashes>>

expenseAdd(p) ==
    /\ Calling /\ entries < MaxEntries
    /\ \E l \in writableLedgers(p), day \in EntryDates : Record(p, l, day)

expenseDelete(p) ==
    /\ Calling /\ edits < MaxEdits
    /\ \E e \in spent : e.in \in VisibleTo(p) /\ spent' = spent \ {e}
    /\ edits' = edits + 1
    /\ UNCHANGED <<ledger, default, now, up, told, owed, sent, entries, crashes>>

\* updateExpense with another date: neither ledger nor recorder can be changed.
expenseUpdate(p) ==
    /\ Calling /\ edits < MaxEdits
    /\ \E e \in spent, day \in EntryDates :
          /\ e.in \in VisibleTo(p)
          /\ spent' = (spent \ {e}) \cup {[e EXCEPT !.on = day]}
    /\ edits' = edits + 1
    /\ UNCHANGED <<ledger, default, now, up, told, owed, sent, entries, crashes>>

Tell(notes) ==
    LET new == notes \ DOMAIN told
    IN  /\ told' = [n \in DOMAIN told \cup new |-> IF n \in new THEN Today ELSE told[n]]
        /\ sent' = sent \cup new

RunJob(j) ==
    /\ up /\ owed[j] # NULL
    /\ Tell(Published(j, owed[j]))
    /\ owed' = [owed EXCEPT ![j] = NULL]
    /\ UNCHANGED <<ledger, default, now, up, spent, entries, edits, crashes>>

\* A crash between two publications.
JobCutShort(j) ==
    /\ up /\ owed[j] # NULL /\ crashes < MaxCrashes
    /\ \E cut \in Published(j, owed[j]) :
          Tell({n \in Published(j, owed[j]) : Before(n, cut)})
    /\ up' = FALSE /\ crashes' = crashes + 1
    /\ UNCHANGED <<ledger, default, now, spent, owed, entries, edits>>

Stop ==
    /\ up /\ crashes < MaxCrashes
    /\ up' = FALSE /\ crashes' = crashes + 1
    /\ UNCHANGED <<ledger, default, now, spent, told, owed, sent, entries, edits>>

\* What was missed for longer than the policy of its job is not made up for.
Start ==
    /\ ~up
    /\ up' = TRUE
    /\ owed' = [j \in Jobs |->
                  IF owed[j] # NULL /\ CATCHUP_POLICY(j) > 0 /\ now - owed[j] <= CATCHUP_POLICY(j)
                  THEN owed[j] ELSE NULL]
    /\ UNCHANGED <<ledger, default, now, spent, told, sent, entries, edits, crashes>>

\* The jobs of a slot, and catch-ups, run before the next slot.
Tick ==
    /\ now < MaxNow
    /\ up => \A j \in Jobs : owed[j] = NULL
    /\ now' = now + 1
    /\ owed' = [j \in Jobs |-> IF j \in Slots(now + 1) THEN now + 1 ELSE owed[j]]
    /\ UNCHANGED <<ledger, default, up, spent, told, sent, entries, edits, crashes>>

\* Mutant: without the exemption of month reports.
cleanupOfAnyKind == {n \in DOMAIN told : told[n] < Today - RETENTION_DAYS}

\* core/retention.ts. Who has read the old notifications by now is free.
notificationCleanupWhere ==
    {n \in DOMAIN told : n.kind # "monthly" /\ told[n] < Today - RETENTION_DAYS}

runRetention ==
    /\ up
    /\ \E readers \in SUBSET Profiles :
          told' = Restrict(told, {n \in DOMAIN told : n.to \in readers => n \notin notificationCleanupWhere})
    /\ UNCHANGED <<ledger, default, now, up, spent, owed, sent, entries, edits, crashes>>

ReportsNext ==
    \/ LedgerTool
    \/ \E p \in Profiles : expenseAdd(p) \/ expenseDelete(p) \/ expenseUpdate(p)
    \/ \E j \in Jobs : RunJob(j) \/ JobCutShort(j)
    \/ Stop \/ Start \/ Tick \/ runRetention

ReportsSpec == ReportsInit /\ [][ReportsNext]_reportVars

-----------------------------------------------------------------------------
\* A report is created once: over job runs repeated by catch-ups and crashes,
\* over moves of entries and ledgers, and after its notification was cleaned up.
ReportedOnce ==
    [][told' # told => DOMAIN told' \ DOMAIN told \subseteq sent' \ sent]_reportVars

\* A complete run of the month report leaves no month of the look-back window
\* with expenses and someone to tell unreported, whatever was missed before.
CaughtUp ==
    [][/\ up /\ up'
       /\ owed["monthly_report"] # NULL /\ owed'["monthly_report"] = NULL
       => \A m \in {k \in Months : monthRange(Today) - k \in 1..LOOKBACK_MONTHS}, l \in Exists :
             Count(l, MonthDays(m)) /\ Audience(l) # {} => monthlyReportPublished(l, m)']_reportVars
=============================================================================
