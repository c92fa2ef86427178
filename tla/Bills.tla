------------------------------- MODULE Bills -------------------------------
(* Recurring bills: modules/bills. A bill that reminds has a schedule of its own,
   and is paid by `bill pay' or by completing the reminder of a period; both
   record an expense under the key of bill and period. No transaction spans the
   bill and its schedule, or the expense and the reminder: the daemon may die
   between them.

   Of a schedule, this module keeps its status and the state of the one reminder
   of each period; module Schedules has the rest. The clock counts days. *)
EXTENDS Integers, FiniteSetsExt

CONSTANTS
    BillIds,                \* a bill belongs to one profile
    ScheduleIds,            \* 1..n, taken in order
    DueDates,               \* dates of the recurrence
    NEAR_HORIZON_DAYS,
    Missing,
    MaxDay, MaxEdits, MaxFaults         \* bounds

\* Of a row of schedules, its status and the reminders of its periods; of a row of
\* recurring_bills, what the reminders depend on.
ScheduleRow == [status : {"active", "cancelled"},
                event : UNION {[D -> {"pending", "notified", "done", "cancelled"}] :
                               D \in SUBSET DueDates}]
BillRow == [status : {"active", "paused"}, autoRemind : BOOLEAN,
            schedule : ScheduleIds \cup {Missing}]

ASSUME BillsAssumption ==
    /\ ScheduleIds \subseteq Nat /\ DueDates \subseteq Nat
    /\ NEAR_HORIZON_DAYS \in Nat
    /\ {MaxDay, MaxEdits, MaxFaults} \subseteq Nat
    /\ Missing \notin ScheduleIds \cup Int /\ Missing \notin ScheduleRow \cup BillRow

VARIABLES
    today,
    bill,                   \* rows of recurring_bills: Missing or [status, autoRemind, schedule]
    sched,                  \* Missing or [status, event: date -> status of its reminder]
    ledgerUsable,           \* the ledger of the bill is visible and not archived
    entries,                \* expenses: [bill, spentOn, key]
    cut,                    \* history: the `pay' that died half-way and is to be repeated
    touched,                \* history: schedules hit by a crash or by tools of their own
    edits, faults
billsVars == <<today, bill, sched, ledgerUsable, entries, cut, touched, edits, faults>>

Open == {"pending", "notified"}
OpenDates(s) == {d \in DOMAIN sched[s].event : sched[s].event[d] \in Open}
Active(s) == s # Missing /\ sched[s] # Missing /\ sched[s].status = "active"

\* Module Schedules: materializeSchedule, for one reminder a period.
materialize(s) ==
    LET e == s.event
        alive == {d \in DOMAIN e : e[d] # "cancelled"}
        after == IF alive = {} THEN today - 1 ELSE Max(alive)
        new == {d \in DueDates \ DOMAIN e : d > after}
        next == IF new = {} \/ \E d \in DOMAIN e : e[d] = "pending" THEN {} ELSE {Min(new)}
        days == {d \in new : d <= today + NEAR_HORIZON_DAYS} \cup next
    IN  IF s.status # "active" THEN s
        ELSE [status |-> "active",
              event |-> [d \in DOMAIN e \cup days |-> IF d \in DOMAIN e THEN e[d] ELSE "pending"]]

createSchedule == materialize([status |-> "active", event |-> << >>])
deleted == [status |-> "cancelled", event |-> << >>]
CanCreate == \E s \in ScheduleIds : sched[s] = Missing
FreeSchedule == Min({s \in ScheduleIds : sched[s] = Missing})

\* fireDue: of several overdue reminders the latest is sent.
fireDue(s) ==
    LET e == s.event
        due == {d \in DOMAIN e : e[d] = "pending" /\ d <= today}
    IN  IF s.status # "active" THEN s
        ELSE [status |-> "active",
              event |-> [d \in DOMAIN e |-> IF d \notin due THEN e[d]
                                            ELSE IF d = Max(due) THEN "notified" ELSE "cancelled"]]

-----------------------------------------------------------------------------
Edit == edits < MaxEdits /\ edits' = edits + 1
Fault == faults < MaxFaults /\ faults' = faults + 1
Whole == UNCHANGED faults

\* Mutant: the schedule stays when the row cannot be inserted.
insertFailsUncompensated(b) ==
    /\ Edit /\ Fault
    /\ bill[b] = Missing /\ ledgerUsable /\ CanCreate
    /\ \E s \in {FreeSchedule} : sched' = [sched EXCEPT ![s] = createSchedule]
    /\ UNCHANGED <<today, bill, ledgerUsable, entries, touched>> /\ cut' = Missing

\* The schedule is taken back when the row cannot be inserted.
insertFails(b) ==
    /\ Edit /\ Fault
    /\ bill[b] = Missing /\ ledgerUsable /\ CanCreate
    /\ \E s \in {FreeSchedule} : sched' = [sched EXCEPT ![s] = deleted]
    /\ UNCHANGED <<today, bill, ledgerUsable, entries, touched>> /\ cut' = Missing

\* A schedule for bill b, then the row that refers to it. A crash in between
\* leaves the schedule alone.
NewReminders(b, remind, crash) ==
    LET s == FreeSchedule IN
    /\ remind => CanCreate
    /\ sched' = IF remind THEN [sched EXCEPT ![s] = createSchedule] ELSE sched
    /\ IF crash
       THEN Fault /\ remind /\ touched' = touched \cup {s} /\ UNCHANGED bill
       ELSE /\ Whole /\ UNCHANGED touched
            /\ bill' = [bill EXCEPT ![b] = [status |-> "active", autoRemind |-> remind,
                                            schedule |-> IF remind THEN s ELSE Missing]]
    /\ UNCHANGED <<today, ledgerUsable, entries>> /\ cut' = Missing

createBill(b, remind, crash) ==
    Edit /\ bill[b] = Missing /\ ledgerUsable /\ NewReminders(b, remind, crash)

resumeBill(b, crash) ==
    /\ Edit /\ bill[b] # Missing /\ bill[b].status = "paused"
    /\ NewReminders(b, bill[b].autoRemind, crash)

pauseBill(b, crash) ==
    LET s == bill[b].schedule IN
    /\ Edit /\ bill[b] # Missing /\ bill[b].status = "active"
    /\ sched' = IF Active(s) THEN [sched EXCEPT ![s] = deleted] ELSE sched
    /\ IF crash
       THEN Fault /\ s # Missing /\ touched' = touched \cup {s} /\ UNCHANGED bill
       ELSE Whole /\ bill' = [bill EXCEPT ![b].status = "paused"] /\ UNCHANGED touched
    /\ UNCHANGED <<today, ledgerUsable, entries>> /\ cut' = Missing

\* Another ledger for the bill, a writable one.
updateBill(b) ==
    /\ Edit /\ bill[b] # Missing
    /\ ledgerUsable' = TRUE
    /\ UNCHANGED <<today, bill, sched, entries, touched, faults>> /\ cut' = Missing

\* The ledger is archived, or given to someone else.
LedgerLost ==
    /\ Edit
    /\ ledgerUsable' = FALSE
    /\ UNCHANGED <<today, bill, sched, entries, touched, faults>> /\ cut' = Missing

-----------------------------------------------------------------------------
billRequestId(b, period) == <<b, period>>

\* recordBillPayment: addExpenseChecked under the key of the period.
recorded(b, period) ==
    IF \E e \in entries : e.key = billRequestId(b, period) THEN entries
    ELSE entries \cup {[bill |-> b, spentOn |-> period, key |-> billRequestId(b, period)]}

\* The earliest reminder due, or else the next one; without any, today.
OpenOf(b) == IF Active(bill[b].schedule) THEN OpenDates(bill[b].schedule) ELSE {}
period(b, date) ==
    IF date # Missing THEN date ELSE IF OpenOf(b) # {} THEN Min(OpenOf(b)) ELSE today

\* The schedule with the reminder of d closed
closed(s, d, how) ==
    [status |-> sched[s].status, event |-> [sched[s].event EXCEPT ![d] = how]]

\* Mutant: the reminder is completed first.
completesFirst(b, date, crash) ==
    LET p == period(b, date)
        s == bill[b].schedule
        target == p \in OpenOf(b)
    IN  /\ bill[b] # Missing /\ bill[b].status = "active" /\ ledgerUsable
        /\ IF crash THEN Fault /\ target /\ cut' = [bill |-> b, date |-> date] /\ UNCHANGED entries
           ELSE Whole /\ cut' = Missing /\ entries' = recorded(b, p)
        /\ sched' = IF target THEN [sched EXCEPT ![s] = materialize(closed(s, p, "done"))] ELSE sched
        /\ UNCHANGED <<today, bill, ledgerUsable, touched, edits>>

payBill(b, date, crash) ==
    LET p == period(b, date)
        s == bill[b].schedule
        target == p \in OpenOf(b)
    IN  /\ bill[b] # Missing /\ bill[b].status = "active" /\ ledgerUsable
        /\ entries' = recorded(b, p)
        /\ IF crash THEN Fault /\ target /\ cut' = [bill |-> b, date |-> date] /\ UNCHANGED sched
           ELSE /\ Whole /\ cut' = Missing
                /\ sched' = IF target THEN [sched EXCEPT ![s] = materialize(closed(s, p, "done"))]
                            ELSE sched
        /\ UNCHANGED <<today, bill, ledgerUsable, touched, edits>>

\* schedule complete, and the hook of the bill: the failure to record is answered.
completeSchedule(s, d, crash) ==
    /\ Active(s) /\ d \in OpenDates(s)
    /\ sched' = [sched EXCEPT ![s] = closed(s, d, "done")]
    /\ LET paid == {b \in BillIds : bill[b] # Missing /\ bill[b].status = "active" /\ bill[b].schedule = s}
       IN  IF crash THEN Fault /\ UNCHANGED entries
           ELSE /\ Whole
                /\ entries' = IF ledgerUsable THEN UNION {recorded(b, d) : b \in paid} \cup entries
                              ELSE entries
    /\ UNCHANGED <<today, bill, ledgerUsable, touched, edits>> /\ cut' = Missing

skipSchedule(s, d) ==
    /\ Edit /\ Active(s) /\ d \in OpenDates(s)
    /\ sched' = [sched EXCEPT ![s] = closed(s, d, "cancelled")]
    /\ UNCHANGED <<today, bill, ledgerUsable, entries, touched, faults>> /\ cut' = Missing

\* The tools of schedules, used on the schedule of a bill: deletion, revival.
scheduleTool(s) ==
    /\ Edit /\ sched[s] # Missing
    /\ sched' = [sched EXCEPT ![s] =
          IF Active(s) THEN deleted
          ELSE materialize([status |-> "active", event |-> sched[s].event])]
    /\ touched' = touched \cup {s}
    /\ UNCHANGED <<today, bill, ledgerUsable, entries, faults>> /\ cut' = Missing

expenseDelete(e) ==
    /\ Edit
    /\ entries' = entries \ {e}
    /\ UNCHANGED <<today, bill, sched, ledgerUsable, touched, faults>> /\ cut' = Missing

Day ==
    /\ today < MaxDay
    /\ today' = today + 1
    /\ UNCHANGED <<bill, sched, ledgerUsable, entries, cut, touched, edits, faults>>

\* The reminder of the period that was cut is given up, for a later one is due too.
SweptAway ==
    cut # Missing /\ LET s == bill[cut.bill].schedule
                        p == period(cut.bill, cut.date)
                    IN  p \in OpenOf(cut.bill) /\ fireDue(sched[s]).event[p] = "cancelled"

\* The minute tick; it may be late by days, when the daemon was down.
Tick ==
    /\ sched' = [s \in ScheduleIds |->
                    IF sched[s] = Missing THEN Missing ELSE materialize(fireDue(sched[s]))]
    /\ cut' = IF SweptAway THEN Missing ELSE cut
    /\ UNCHANGED <<today, bill, ledgerUsable, entries, touched, edits, faults>>

BillsInit ==
    /\ today = 0
    /\ bill = [b \in BillIds |-> Missing]
    /\ sched = [s \in ScheduleIds |-> Missing]
    /\ ledgerUsable = TRUE /\ entries = {} /\ cut = Missing /\ touched = {}
    /\ edits = 0 /\ faults = 0

BillTool(b) ==
    \/ \E remind, crash \in BOOLEAN : createBill(b, remind, crash)
    \/ insertFails(b)
    \/ updateBill(b)
    \/ \E crash \in BOOLEAN : pauseBill(b, crash) \/ resumeBill(b, crash)
    \/ \E date \in (0..MaxDay) \cup {Missing}, crash \in BOOLEAN : payBill(b, date, crash)

ScheduleTool(s) ==
    \/ scheduleTool(s)
    \/ \E d \in DueDates, crash \in BOOLEAN : completeSchedule(s, d, crash)
    \/ \E d \in DueDates : skipSchedule(s, d)

BillsNext ==
    \/ \E b \in BillIds : BillTool(b)
    \/ \E s \in ScheduleIds : ScheduleTool(s)
    \/ \E e \in entries : expenseDelete(e)
    \/ LedgerLost \/ Day \/ Tick

BillsSpec == BillsInit /\ [][BillsNext]_billsVars

-----------------------------------------------------------------------------
\* A `pay' that died between the expense and the reminder is repaired by saying
\* it again, days later too: the same period is found, nothing is recorded twice.
\* That ends with the sweep that gives the reminder up (see Tick).
RepetitionRecordsNothing ==
    cut # Missing => recorded(cut.bill, period(cut.bill, cut.date)) = entries

\* Tools of bills leave no reminder without an active bill and no active bill
\* without its reminders, over failing inserts, pauses and resumes.
RemindersBelongToBills ==
    /\ \A s \in ScheduleIds \ touched :
          Active(s) => \E b \in BillIds :
              bill[b] # Missing /\ bill[b].status = "active" /\ bill[b].schedule = s
    /\ \A b \in BillIds :
          bill[b] # Missing /\ bill[b].autoRemind /\ bill[b].schedule \notin touched
             => (Active(bill[b].schedule) <=> bill[b].status = "active")
=============================================================================
