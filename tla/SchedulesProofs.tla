--------------------------- MODULE SchedulesProofs ---------------------------
(* Proofs about Schedules, for every clock, recurrence, offset and limit. *)
EXTENDS Schedules, FiniteSetTheorems, WellFoundedInduction, TLAPS

Statuses == {"pending", "notified", "done", "cancelled"}
ScheduleRow == [status : {"active", "done", "cancelled"}, kind : Kinds, rule : Rules,
                time : Times, offsets : OffsetLists, resend : Resends, esc : Escalations]
OccurrenceRow == [due : Int, status : Statuses]

Occurrences(o) == DOMAIN o \subseteq Reminders /\ \A k \in DOMAIN o : o[k] \in OccurrenceRow

LEMMA ScheduleConstants ==
    /\ DAY \in Nat \ {0} /\ Times \subseteq Nat
    /\ \A r \in Rules : r.days \subseteq Nat /\ r.count \in Nat
    /\ \A o \in OffsetLists : o \in Seq(Int) /\ Len(o) > 0
    /\ Resends \subseteq Nat /\ \A e \in Escalations : e \in Seq(Nat)
    /\ SnoozeMinutes \subseteq Nat \ {0}
    /\ Patchable \subseteq {"time", "offsets", "rule", "resend", "esc", "kind", "status"}
    /\ FAR_HORIZON_DAYS \in Nat
  <1>1. DAY \in Nat \ {0} /\ Times \subseteq 0..(DAY - 1)
    BY SchedulesAssumption
  <1>2. Times \subseteq Nat
    BY <1>1
  <1>3. \A r \in Rules : r.days \subseteq Nat /\ r.count \in Nat
    BY SchedulesAssumption
  <1>4. /\ \A o \in OffsetLists : o \in Seq(Int) /\ Len(o) > 0
        /\ Resends \subseteq Nat /\ \A e \in Escalations : e \in Seq(Nat)
        /\ SnoozeMinutes \subseteq Nat \ {0}
        /\ Patchable \subseteq {"time", "offsets", "rule", "resend", "esc", "kind", "status"}
    BY SchedulesAssumption
  <1>5. FAR_HORIZON_DAYS \in Nat
    BY SchedulesAssumption
  <1> QED
    BY <1>1, <1>2, <1>3, <1>4, <1>5

LEMMA TimesAreNumbers ==
  ASSUME NEW k \in Reminders
  PROVE  eventAt(k) \in Int
  <1>0. Times \subseteq Nat /\ DAY \in Int
    BY ScheduleConstants
  <1>1. k.day \in Nat /\ k.time \in Times
    BY DEF Reminders
  <1>2. k.day * DAY \in Int
    BY <1>0, <1>1
  <1>3. k.time \in Nat
    BY <1>0, <1>1, Zenon
  <1> QED
    BY <1>2, <1>3 DEF eventAt

LEMMA RowOf ==
  ASSUME NEW due, NEW st
  PROVE  /\ Row(due, st).due = due /\ Row(due, st).status = st
         /\ due \in Int /\ st \in Statuses => Row(due, st) \in OccurrenceRow
  BY DEF Row, OccurrenceRow

LEMMA KeyOf ==
  ASSUME NEW d, NEW t, NEW i, NEW n
  PROVE  /\ Key(d, t, i, n).day = d /\ Key(d, t, i, n).time = t
         /\ Key(d, t, i, n).idx = i /\ Key(d, t, i, n).tail = n
         /\ d \in Nat /\ t \in Times /\ i \in Nat /\ n \in Int => Key(d, t, i, n) \in Reminders
  BY DEF Key, Reminders

-----------------------------------------------------------------------------
(* The operators that change rows. *)

\* p has the rows of o, and new ones of schedule s: pending, at the planned time.
Grown(s, o, p) ==
    /\ DOMAIN o \subseteq DOMAIN p
    /\ \A k \in DOMAIN o : p[k] = o[k]
    /\ \A k \in DOMAIN p \ DOMAIN o :
          /\ k \in Reminders /\ isNormalReminderKey(k) /\ k.idx < Len(s.offsets)
          /\ p[k] = Pending(eventAt(k) + s.offsets[k.idx + 1])

LEMMA StatusSet ==
  ASSUME NEW o, Occurrences(o), NEW K, NEW st \in Statuses
  PROVE  /\ Occurrences(SetStatus(o, K, st)) /\ DOMAIN SetStatus(o, K, st) = DOMAIN o
         /\ \A k \in DOMAIN o : /\ SetStatus(o, K, st)[k].due = o[k].due
                                /\ k \in K => SetStatus(o, K, st)[k].status = st
                                /\ k \notin K => SetStatus(o, K, st)[k] = o[k]
  <1> DEFINE p == SetStatus(o, K, st)
  <1>1. DOMAIN p = DOMAIN o /\ \A k \in DOMAIN o : p[k] = IF k \in K THEN Row(o[k].due, st) ELSE o[k]
    BY DEF SetStatus
  <1> HIDE DEF p
  <1>2. ASSUME NEW k \in DOMAIN o
        PROVE  /\ p[k] \in OccurrenceRow /\ p[k].due = o[k].due
               /\ k \in K => p[k].status = st
               /\ k \notin K => p[k] = o[k]
    <2>1. o[k] \in OccurrenceRow /\ o[k].due \in Int
      BY DEF Occurrences, OccurrenceRow
    <2> QED
      BY <1>1, <2>1, RowOf
  <1> QED
    BY <1>1, <1>2 DEF Occurrences, p

LEMMA DueSet ==
  ASSUME NEW o, Occurrences(o), NEW k \in DOMAIN o, NEW due \in Int
  PROVE  /\ Occurrences(SetDue(o, k, due)) /\ DOMAIN SetDue(o, k, due) = DOMAIN o
         /\ SetDue(o, k, due)[k].due = due /\ SetDue(o, k, due)[k].status = o[k].status
         /\ \A j \in DOMAIN o : j # k => SetDue(o, k, due)[j] = o[j]
  <1>1. Row(due, o[k].status) \in OccurrenceRow
    BY RowOf DEF Occurrences, OccurrenceRow
  <1> QED
    BY <1>1, RowOf DEF SetDue, Occurrences

LEMMA RowsRemoved ==
  ASSUME NEW o, Occurrences(o), NEW K
  PROVE  /\ Occurrences(RemoveRows(o, K)) /\ DOMAIN RemoveRows(o, K) = DOMAIN o \ K
         /\ \A k \in DOMAIN o \ K : RemoveRows(o, K)[k] = o[k]
  BY DEF Occurrences, RemoveRows

\* The new rows of p are of the time of s, and an event has one for every offset.
Whole(s, o, p) ==
    \A k \in DOMAIN p \ DOMAIN o :
        k.time = s.time /\ \A i \in DOMAIN s.offsets : Key(k.day, k.time, i - 1, 0) \in DOMAIN p

\* The dates of new rows are candidates, and their offsets the schedule's.
LEMMA RowsInserted ==
  ASSUME NEW s \in ScheduleRow, NEW days, days \subseteq s.rule.days, NEW o, Occurrences(o)
  PROVE  /\ Occurrences(insertOrIgnore(o, inserted(s, days)))
         /\ Grown(s, o, insertOrIgnore(o, inserted(s, days)))
         /\ Whole(s, o, insertOrIgnore(o, inserted(s, days)))
         /\ existingDates(insertOrIgnore(o, inserted(s, days))) \subseteq existingDates(o) \cup days
  <1> DEFINE K == {Key(d, s.time, i - 1, 0) : d \in days, i \in DOMAIN s.offsets}
             new == inserted(s, days)
             p == insertOrIgnore(o, new)
  <1>1. s.offsets \in Seq(Int) /\ s.time \in Times /\ s.rule.days \subseteq Nat
    BY ScheduleConstants DEF ScheduleRow
  <1>2. ASSUME NEW k \in K
        PROVE  /\ k \in Reminders /\ k.tail = 0 /\ k.idx < Len(s.offsets) /\ k.day \in days
               /\ eventAt(k) + s.offsets[k.idx + 1] \in Int
    <2>1. PICK d \in days, i \in DOMAIN s.offsets : k = Key(d, s.time, i - 1, 0)
      OBVIOUS
    <2>2. i \in Nat \ {0} /\ i <= Len(s.offsets) /\ i - 1 \in Nat /\ d \in Nat
      BY <1>1
    <2>3. /\ k.day = d /\ k.idx = i - 1 /\ k.tail = 0 /\ k \in Reminders
      BY <1>1, <2>1, <2>2, KeyOf
    <2>4. s.offsets[k.idx + 1] \in Int
      BY <1>1, <2>2, <2>3
    <2> QED
      BY <2>2, <2>3, <2>4, TimesAreNumbers
  <1>a. ASSUME NEW k \in K
        PROVE  k.time = s.time /\ \A i \in DOMAIN s.offsets : Key(k.day, k.time, i - 1, 0) \in K
    <2>1. PICK d \in days, i \in DOMAIN s.offsets : k = Key(d, s.time, i - 1, 0)
      OBVIOUS
    <2>2. k.day = d /\ k.time = s.time
      BY <2>1, KeyOf
    <2> QED
      BY <2>2
  <1>3. DOMAIN new = K /\ \A k \in K : new[k] = Pending(eventAt(k) + s.offsets[k.idx + 1])
    BY DEF inserted
  <1> HIDE DEF K, new
  <1>4. /\ DOMAIN p = DOMAIN o \cup K /\ \A k \in DOMAIN o : p[k] = o[k]
        /\ \A k \in K \ DOMAIN o : p[k] = Pending(eventAt(k) + s.offsets[k.idx + 1])
    BY <1>3 DEF insertOrIgnore
  <1> HIDE DEF p
  <1>5. Grown(s, o, p)
    BY <1>2, <1>4 DEF Grown, isNormalReminderKey
  <1>b. Whole(s, o, p)
    BY <1>a, <1>4 DEF Whole
  <1>6. Occurrences(p)
    <2>1. \A k \in K \ DOMAIN o : p[k] \in OccurrenceRow
      BY <1>2, <1>4, RowOf DEF Pending, Statuses
    <2> QED
      BY <1>2, <1>4, <2>1 DEF Occurrences
  <1>7. existingDates(p) \subseteq existingDates(o) \cup days
    BY <1>2, <1>4 DEF existingDates
  <1> QED
    BY <1>5, <1>6, <1>7, <1>b DEF p, new

LEMMA Materialized ==
  ASSUME NEW s \in ScheduleRow, NEW o, Occurrences(o), NEW rewind
  PROVE  LET m == materializeSchedule(s, o, rewind)
         IN  /\ m.sched \in ScheduleRow /\ m.sched.offsets = s.offsets /\ m.sched.rule = s.rule
             /\ m.sched.time = s.time
             /\ Occurrences(m.occ) /\ Grown(s, o, m.occ) /\ Whole(s, o, m.occ)
             /\ existingDates(m.occ) \subseteq existingDates(o) \cup materializedDays(s, o, rewind)
  <1> DEFINE days == materializedDays(s, o, rewind)
             new == insertOrIgnore(o, inserted(s, days))
             m == materializeSchedule(s, o, rewind)
  <1>1. days \subseteq s.rule.days
    BY DEF materializedDays, candidates
  <1>2. CASE s.status # "active"
    <2>1. m.sched = s /\ m.occ = o
      BY <1>2 DEF materializeSchedule
    <2> QED
      BY <2>1 DEF Grown, Whole
  <1>3. CASE s.status = "active"
    <2>1. m.sched = finalizeExhaustedSchedule(s, new) /\ m.occ = new
      BY <1>3 DEF materializeSchedule
    <2>2. Occurrences(new) /\ Grown(s, o, new) /\ Whole(s, o, new) /\ existingDates(new) \subseteq existingDates(o) \cup days
      BY <1>1, RowsInserted
    <2> HIDE DEF new, days, m
    <2>3. finalizeExhaustedSchedule(s, new) \in {s, [s EXCEPT !.status = "done"]}
      BY DEF finalizeExhaustedSchedule
    <2>4. [s EXCEPT !.status = "done"] \in ScheduleRow
          /\ [s EXCEPT !.status = "done"].offsets = s.offsets
          /\ [s EXCEPT !.status = "done"].rule = s.rule
          /\ [s EXCEPT !.status = "done"].time = s.time
      BY DEF ScheduleRow
    <2> QED
      BY <2>1, <2>2, <2>3, <2>4 DEF m, days
  <1> QED
    BY <1>2, <1>3

-----------------------------------------------------------------------------
(* Types, and the rows the tick works on. *)

TickRows ==
    /\ tick.phase \in {"idle", "fire", "mark", "derive"}
    /\ tick.phase # "idle" => tick.todo \subseteq DOMAIN occ
    /\ tick.phase \in {"mark", "derive"} => tick.row \in DOMAIN occ

Announcements ==
    \A m \in outbox : m.key \in Reminders /\ m.at \in Int /\ m.due \in Int

Typed == /\ now \in Nat /\ sched \in ScheduleRow
         /\ Occurrences(occ) /\ TickRows /\ Announcements

LEMMA FieldUpdated ==
  ASSUME Typed, NEW field \in Patchable, NEW value \in PatchValues[field]
  PROVE  /\ [sched EXCEPT ![field] = value] \in ScheduleRow
         /\ field # "rule" => [sched EXCEPT ![field] = value].rule = sched.rule
         /\ field # "time" => [sched EXCEPT ![field] = value].time = sched.time
         /\ field # "offsets" => [sched EXCEPT ![field] = value].offsets = sched.offsets
  <1>1. field \in {"time", "offsets", "rule", "resend", "esc", "kind", "status"}
    BY ScheduleConstants
  <1>2. sched \in ScheduleRow
    BY DEF Typed
  <1>a. CASE field = "time"
    BY <1>2, <1>a DEF ScheduleRow, PatchValues
  <1>b. CASE field = "offsets"
    BY <1>2, <1>b DEF ScheduleRow, PatchValues
  <1>c. CASE field = "rule"
    BY <1>2, <1>c DEF ScheduleRow, PatchValues
  <1>d. CASE field = "resend"
    BY <1>2, <1>d DEF ScheduleRow, PatchValues
  <1>e. CASE field = "esc"
    BY <1>2, <1>e DEF ScheduleRow, PatchValues
  <1>f. CASE field = "kind"
    BY <1>2, <1>f DEF ScheduleRow, PatchValues
  <1>g. CASE field = "status"
    BY <1>2, <1>g DEF ScheduleRow, PatchValues
  <1> QED
    BY <1>1, <1>a, <1>b, <1>c, <1>d, <1>e, <1>f, <1>g

LEMMA ExpectedDueIsATime ==
  ASSUME Typed, NEW k \in DOMAIN occ, isValid(k)
  PROVE  expectedDue(k) \in Int
  <1>1. k \in Reminders /\ k.tail \in Int /\ eventAt(k) \in Int /\ occ[k].due \in Int
    BY TimesAreNumbers DEF Typed, Occurrences, Reminders, OccurrenceRow
  <1>2. sched.resend \in Nat /\ sched.esc \in Seq(Nat)
    BY ScheduleConstants DEF Typed, ScheduleRow
  <1>3. CASE isNormalReminderKey(k)
    BY <1>1, <1>3 DEF expectedDue
  <1>4. CASE k.tail = RESEND
    BY <1>1, <1>2, <1>4 DEF expectedDue, RESEND, isNormalReminderKey
  <1>5. CASE isEscalation(k) /\ escalationIsValid(k)
    <2>1. k.tail + 1 \in 1..Len(sched.esc)
      BY <1>1, <1>2, <1>5 DEF isEscalation, escalationIsValid
    <2>2. sched.esc[k.tail + 1] \in Nat /\ k.tail # RESEND /\ ~isNormalReminderKey(k)
      BY <1>1, <1>2, <1>5, <2>1 DEF isEscalation, RESEND, isNormalReminderKey
    <2> QED
      BY <1>1, <2>2 DEF expectedDue
  <1> QED
    BY <1>3, <1>4, <1>5 DEF isValid

\* The row derived from the row in hand: of the same event and offset, and the next
\* of its kind, if no row of the event is the first.
LEMMA RowsDerived ==
  ASSUME Typed, DeriveNext
  PROVE  /\ Occurrences(occ') /\ DOMAIN occ \subseteq DOMAIN occ'
         /\ \A k \in DOMAIN occ : occ'[k] = occ[k]
         /\ \A j \in DOMAIN occ' \ DOMAIN occ :
               /\ eventPrefixOf(j) = eventPrefixOf(tick.row) /\ j.idx = tick.row.idx
               /\ j.day = tick.row.day /\ ~isNormalReminderKey(j)
               /\ \/ isEscalation(tick.row) /\ isEscalation(j)
                  \/ j.tail = 1 /\ ~hasDerivedRow(tick.row, Nat \ {0})
                  \/ j.tail = RESEND /\ ~hasDerivedRow(tick.row, {RESEND})
  <1> DEFINE k == tick.row
             due(n) == eventAt(k) + (IF n = RESEND THEN sched.resend ELSE sched.esc[n + 1])
             K == {Key(k.day, k.time, k.idx, n) : n \in nextReminder(k)}
             rows == [j \in K |-> Pending(due(j.tail))]
  <1>1. /\ k \in DOMAIN occ /\ k \in Reminders /\ k.day \in Nat /\ k.time \in Times /\ k.idx \in Nat
        /\ k.tail \in Int /\ eventAt(k) \in Int
    BY TimesAreNumbers DEF Typed, TickRows, DeriveNext, Occurrences, Reminders
  <1>2. sched.resend \in Nat /\ sched.esc \in Seq(Nat) /\ Len(sched.esc) \in Nat
    BY ScheduleConstants DEF Typed, ScheduleRow
  <1>3. ASSUME NEW n \in nextReminder(k)
        PROVE  /\ n \in Int /\ n # 0 /\ (n # RESEND => n \in 1..(Len(sched.esc) - 1))
               /\ \/ isEscalation(k) /\ n > 0
                  \/ n = 1 /\ ~hasDerivedRow(k, Nat \ {0})
                  \/ n = RESEND /\ ~hasDerivedRow(k, {RESEND})
    <2>1. CASE isEscalation(k)
      BY <1>1, <1>2, <2>1 DEF nextReminder, isEscalation
    <2>2. CASE ~isEscalation(k) /\ sched.esc # << >>
      BY <1>1, <1>2, <2>2 DEF nextReminder
    <2>3. CASE ~isEscalation(k) /\ ~(sched.esc # << >>)
      BY <1>1, <1>2, <2>3 DEF nextReminder, RESEND
    <2> QED
      BY <2>1, <2>2, <2>3
  <1>4. ASSUME NEW j \in K
        PROVE  /\ j \in Reminders /\ j.day = k.day /\ j.time = k.time /\ j.idx = k.idx
               /\ j.tail \in nextReminder(k) /\ Pending(due(j.tail)) \in OccurrenceRow
    <2>1. PICK n \in nextReminder(k) : j = Key(k.day, k.time, k.idx, n)
      OBVIOUS
    <2>2. n \in Int
      BY <1>3
    <2>3. /\ j \in Reminders /\ j.day = k.day /\ j.time = k.time /\ j.idx = k.idx /\ j.tail = n
      BY <1>1, <2>1, <2>2, KeyOf
    <2>4. due(n) \in Int
      <3>1. CASE n = RESEND
        BY <1>1, <1>2, <3>1
      <3>2. CASE n # RESEND
        <4>1. n + 1 \in 1..Len(sched.esc)
          BY <1>2, <1>3, <3>2
        <4>2. sched.esc[n + 1] \in Nat
          BY <1>2, <4>1
        <4> QED
          BY <1>1, <3>2, <4>2
      <3> QED
        BY <3>1, <3>2
    <2> QED
      BY <2>3, <2>4, RowOf DEF Pending, Statuses
  <1>5. /\ occ' = insertOrIgnore(occ, rows) /\ DOMAIN rows = K
        /\ \A j \in K : rows[j] = Pending(due(j.tail))
    BY DEF DeriveNext
  <1>6. /\ DOMAIN occ' = DOMAIN occ \cup K /\ \A j \in DOMAIN occ : occ'[j] = occ[j]
        /\ \A j \in K \ DOMAIN occ : occ'[j] = Pending(due(j.tail))
    BY <1>5 DEF insertOrIgnore
  <1> HIDE DEF K, rows, due
  <1>7. Occurrences(occ')
    BY <1>4, <1>6 DEF Typed, Occurrences
  <1>8. ASSUME NEW j \in DOMAIN occ' \ DOMAIN occ
        PROVE  /\ eventPrefixOf(j) = eventPrefixOf(k) /\ j.idx = k.idx
               /\ j.day = k.day /\ ~isNormalReminderKey(j)
               /\ \/ isEscalation(k) /\ isEscalation(j)
                  \/ j.tail = 1 /\ ~hasDerivedRow(k, Nat \ {0})
                  \/ j.tail = RESEND /\ ~hasDerivedRow(k, {RESEND})
    BY <1>3, <1>4, <1>6 DEF eventPrefixOf, isNormalReminderKey, isEscalation
  <1> QED
    BY <1>6, <1>7, <1>8

-----------------------------------------------------------------------------
(* What a step does to the rows, other than to mark and to derive. *)

planned(k) == eventAt(k) + sched.offsets[k.idx + 1]

\* New rows are normal ones. While the offsets stay, a normal row keeps its due time
\* and is not marked, or it is made pending: at the planned time, or put off.
Calm ==
    /\ \A k \in DOMAIN occ' \ DOMAIN occ : isNormalReminderKey(k)
    /\ sched'.offsets = sched.offsets =>
          \A k \in DOMAIN occ' : isNormalReminderKey(k) =>
             \/ /\ k \in DOMAIN occ /\ occ'[k].due = occ[k].due
                /\ occ'[k].status = "notified" => occ[k].status = "notified"
             \/ /\ k \in DOMAIN occ /\ occ'[k].due # NONE /\ occ'[k].status = "pending"
             \/ /\ k.idx < Len(sched.offsets) /\ occ'[k].due = planned(k)
                /\ occ'[k].status = "pending"

LEMMA CalmWhenStatusIsSet ==
  ASSUME Typed, NEW K, NEW st \in Statuses \ {"notified"}, occ' = SetStatus(occ, K, st)
  PROVE  Occurrences(occ') /\ DOMAIN occ' = DOMAIN occ /\ Calm
  <1>1. /\ Occurrences(occ') /\ DOMAIN occ' = DOMAIN occ
        /\ \A k \in DOMAIN occ : /\ occ'[k].due = occ[k].due
                                 /\ k \in K => occ'[k].status = st
                                 /\ k \notin K => occ'[k] = occ[k]
    BY StatusSet DEF Typed
  <1> QED
    BY <1>1 DEF Calm

LEMMA CalmWhenRowsAreRemoved ==
  ASSUME Typed, NEW K, occ' = RemoveRows(occ, K)
  PROVE  Occurrences(occ') /\ Calm
  <1>1. /\ Occurrences(occ') /\ DOMAIN occ' = DOMAIN occ \ K
        /\ \A k \in DOMAIN occ \ K : occ'[k] = occ[k]
    BY RowsRemoved DEF Typed
  <1> QED
    BY <1>1 DEF Calm

LEMMA CalmWhenRowsStay ==
  ASSUME Typed, occ' = occ
  PROVE  Occurrences(occ') /\ Calm
  BY DEF Typed, Calm

LEMMA CalmWhenDueIsSet ==
  ASSUME Typed, NEW k \in DOMAIN occ, isValid(k), occ' = SetDue(occ, k, expectedDue(k))
  PROVE  Occurrences(occ') /\ DOMAIN occ' = DOMAIN occ /\ Calm /\ occ'[k].due = expectedDue(k)
  <1>1. expectedDue(k) \in Int /\ (isNormalReminderKey(k) => expectedDue(k) = occ[k].due)
    BY ExpectedDueIsATime DEF expectedDue
  <1>2. /\ Occurrences(occ') /\ DOMAIN occ' = DOMAIN occ
        /\ occ'[k].due = expectedDue(k) /\ occ'[k].status = occ[k].status
        /\ \A j \in DOMAIN occ : j # k => occ'[j] = occ[j]
    BY <1>1, DueSet DEF Typed
  <1> QED
    BY <1>1, <1>2 DEF Calm

LEMMA StatusOfSchedule ==
  ASSUME Typed, NEW st \in {"active", "done", "cancelled"}
  PROVE  [sched EXCEPT !.status = st] \in ScheduleRow
         /\ [sched EXCEPT !.status = st].rule = sched.rule
         /\ [sched EXCEPT !.status = st].time = sched.time
         /\ [sched EXCEPT !.status = st].offsets = sched.offsets
  BY DEF Typed, ScheduleRow

\* A tool leaves the clock, the outbox and the tick alone.
LEMMA ToolIsTyped ==
  ASSUME Typed, Tool, UNCHANGED <<now, outbox, tick>>, sched' \in ScheduleRow, Occurrences(occ')
  PROVE  Typed'
  BY DEF Typed, Tool, TickRows, Announcements

LEMMA CalmWhenMaterialized ==
  ASSUME Typed, NEW s \in ScheduleRow, NEW K, NEW rewind,
         occ' = materializeSchedule(s, RemoveRows(occ, K), rewind).occ,
         sched' = materializeSchedule(s, RemoveRows(occ, K), rewind).sched
  PROVE  sched' \in ScheduleRow /\ Occurrences(occ') /\ Calm
  <1> DEFINE kept == RemoveRows(occ, K)
  <1>1. /\ Occurrences(kept) /\ DOMAIN kept = DOMAIN occ \ K
        /\ \A k \in DOMAIN occ \ K : kept[k] = occ[k]
    BY RowsRemoved DEF Typed
  <1> HIDE DEF kept
  <1>2. /\ sched' \in ScheduleRow /\ sched'.offsets = s.offsets
        /\ Occurrences(occ') /\ Grown(s, kept, occ')
    BY <1>1, Materialized DEF kept
  <1>3. ASSUME NEW k \in DOMAIN occ' \ DOMAIN kept
        PROVE  /\ isNormalReminderKey(k) /\ k.idx < Len(s.offsets)
               /\ occ'[k].due = eventAt(k) + s.offsets[k.idx + 1] /\ occ'[k].status = "pending"
    BY <1>2, RowOf DEF Grown, Pending
  <1>4. \A k \in DOMAIN kept : occ'[k] = occ[k] /\ k \in DOMAIN occ
    BY <1>1, <1>2 DEF Grown
  <1> QED
    BY <1>1, <1>2, <1>3, <1>4 DEF Calm, planned

LEMMA ToolsAreCalm ==
  ASSUME Typed, Tools
  PROVE  Typed' /\ Calm /\ outbox' = outbox /\ tick' = tick /\ Tool
  <1>1. ASSUME NEW field \in Patchable, NEW value \in PatchValues[field], updateSchedule(field, value)
        PROVE  Typed' /\ Calm /\ outbox' = outbox /\ tick' = tick /\ Tool
    <2> DEFINE merged == [sched EXCEPT ![field] = value]
               K == {k \in Rows(occ, {"pending"}) : isNormalReminderKey(k)}
               m == materializeSchedule(merged, RemoveRows(occ, K), latestInterruptedEvent(occ))
    <2>1. merged \in ScheduleRow
      BY FieldUpdated
    <2> HIDE DEF merged
    <2>2. /\ Tool /\ UNCHANGED <<now, outbox, tick>>
          /\ \/ sched' = m.sched /\ occ' = m.occ
             \/ sched' = merged /\ occ' = occ
      BY <1>1 DEF updateSchedule, merged
    <2> HIDE DEF K
    <2>3. sched' \in ScheduleRow /\ Occurrences(occ') /\ Calm
      BY <2>1, <2>2, CalmWhenMaterialized, CalmWhenRowsStay
    <2> QED
      BY <2>2, <2>3, ToolIsTyped
  <1>2. ASSUME NEW k \in DOMAIN occ, NEW all \in BOOLEAN, completeOccurrence(k, all)
        PROVE  Typed' /\ Calm /\ outbox' = outbox /\ tick' = tick /\ Tool
    <2>1. /\ Tool /\ UNCHANGED <<now, outbox, tick>> /\ occ' = SetStatus(occ, OfEvent(occ, k), "done")
          /\ sched' \in {sched, [sched EXCEPT !.status = "done"]}
      BY <1>2 DEF completeOccurrence, Active
    <2>2. Occurrences(occ') /\ Calm
      BY <2>1, CalmWhenStatusIsSet DEF Statuses
    <2> QED
      BY <2>1, <2>2, StatusOfSchedule, ToolIsTyped DEF Typed
  <1>3. ASSUME NEW K, completeTorn(K)
        PROVE  Typed' /\ Calm /\ outbox' = outbox /\ tick' = tick /\ Tool
    <2>1. /\ Tool /\ UNCHANGED <<now, outbox, tick, sched>> /\ occ' = SetStatus(occ, K, "done")
      BY <1>3 DEF completeTorn, Active
    <2>2. Occurrences(occ') /\ Calm
      BY <2>1, CalmWhenStatusIsSet DEF Statuses
    <2> QED
      BY <2>1, <2>2, ToolIsTyped DEF Typed
  <1>4. ASSUME NEW k \in DOMAIN occ, NEW due \in snoozedTo(k), snoozeSchedule(k, due)
        PROVE  Typed' /\ Calm /\ outbox' = outbox /\ tick' = tick /\ Tool
    <2>1. /\ Tool /\ UNCHANGED <<now, outbox, tick, sched>> /\ occ' = [occ EXCEPT ![k] = Pending(due)]
      BY <1>4 DEF snoozeSchedule, Active
    <2>2. now \in Nat /\ occ[k].due \in Int /\ SnoozeMinutes \subseteq Nat \ {0}
      BY ScheduleConstants DEF Typed, Occurrences, OccurrenceRow
    <2>3. due \in Int /\ due > 0
      BY <2>2 DEF snoozedTo
    <2>4. Pending(due) \in OccurrenceRow /\ Pending(due).due = due /\ Pending(due).status = "pending"
      BY <2>3, RowOf DEF Pending, Statuses
    <2>5. DOMAIN occ' = DOMAIN occ /\ \A j \in DOMAIN occ : occ'[j] = IF j = k THEN Pending(due) ELSE occ[j]
      BY <2>1
    <2>6. Occurrences(occ')
      BY <2>4, <2>5 DEF Typed, Occurrences
    <2>7. due # NONE
      BY <2>3 DEF NONE
    <2>8. Calm
      BY <2>4, <2>5, <2>7 DEF Calm
    <2> QED
      BY <2>1, <2>6, <2>8, ToolIsTyped DEF Typed
  <1>5. ASSUME NEW k \in DOMAIN occ, skipSchedule(k)
        PROVE  Typed' /\ Calm /\ outbox' = outbox /\ tick' = tick /\ Tool
    <2>1. /\ Tool /\ UNCHANGED <<now, outbox, tick>> /\ occ' = SetStatus(occ, OfEvent(occ, k), "cancelled")
          /\ sched' \in {sched, [sched EXCEPT !.status = "done"]}
      BY <1>5 DEF skipSchedule, Active
    <2>2. Occurrences(occ') /\ Calm
      BY <2>1, CalmWhenStatusIsSet DEF Statuses
    <2> QED
      BY <2>1, <2>2, StatusOfSchedule, ToolIsTyped DEF Typed
  <1>6. ASSUME NEW all \in BOOLEAN, completeSchedule(all)
        PROVE  Typed' /\ Calm /\ outbox' = outbox /\ tick' = tick /\ Tool
    <2>1. /\ Tool /\ UNCHANGED <<now, outbox, tick>> /\ occ' = SetStatus(occ, Rows(occ, Unfinished), "done")
          /\ sched' \in {sched, [sched EXCEPT !.status = "done"]}
      BY <1>6 DEF completeSchedule, Active
    <2>2. Occurrences(occ') /\ Calm
      BY <2>1, CalmWhenStatusIsSet DEF Statuses
    <2> QED
      BY <2>1, <2>2, StatusOfSchedule, ToolIsTyped DEF Typed
  <1>7. ASSUME deleteSchedule
        PROVE  Typed' /\ Calm /\ outbox' = outbox /\ tick' = tick /\ Tool
    <2>1. /\ Tool /\ UNCHANGED <<now, outbox, tick>> /\ occ' \in {<< >>, occ}
          /\ sched' = [sched EXCEPT !.status = "cancelled"]
      BY <1>7 DEF deleteSchedule
    <2>2. CASE occ' = << >>
      <3>1. DOMAIN occ' = {}
        BY <2>2
      <3> QED
        BY <2>1, <3>1, StatusOfSchedule, ToolIsTyped DEF Occurrences, Calm
    <2>3. CASE occ' = occ
      BY <2>1, <2>3, CalmWhenRowsStay, StatusOfSchedule, ToolIsTyped
    <2> QED
      BY <2>1, <2>2, <2>3
  <1> QED
    BY <1>1, <1>2, <1>3, <1>4, <1>5, <1>6, <1>7 DEF Tools

LEMMA TodayIsADay ==
  ASSUME Typed
  PROVE  Today \in Nat
  <1>1. now \in Nat /\ DAY \in Nat \ {0}
    BY ScheduleConstants DEF Typed
  <1> QED
    BY <1>1 DEF Today

LEMMA InitIsTyped ==
  ASSUME Init
  PROVE  Typed /\ \A k \in DOMAIN occ :
            /\ isNormalReminderKey(k) /\ k.idx < Len(sched.offsets)
            /\ occ[k].due = planned(k) /\ occ[k].status = "pending"
  <1>1. PICK s \in Schedule : /\ sched = materializeSchedule(s, << >>, NONE).sched
                             /\ occ = materializeSchedule(s, << >>, NONE).occ
    BY DEF Init
  <1>2. s \in ScheduleRow
    BY DEF Schedule, ScheduleRow
  <1> DEFINE o == << >>
  <1>3. DOMAIN o = {} /\ Occurrences(o)
    BY DEF Occurrences
  <1> HIDE DEF o
  <1>4. /\ sched \in ScheduleRow /\ sched.offsets = s.offsets
        /\ Occurrences(occ) /\ Grown(s, o, occ)
    BY <1>1, <1>2, <1>3, Materialized DEF o
  <1>5. now \in Nat
    <2>1. DAY \in Nat /\ now \in DAY..2 * DAY - 1
      BY ScheduleConstants DEF Init
    <2> QED
      BY <2>1
  <1>6. TickRows /\ Announcements
    BY DEF Init, TickRows, Announcements
  <1>7. ASSUME NEW k \in DOMAIN occ
        PROVE  /\ isNormalReminderKey(k) /\ k.idx < Len(sched.offsets)
               /\ occ[k].due = planned(k) /\ occ[k].status = "pending"
    BY <1>3, <1>4, RowOf DEF Grown, planned, Pending
  <1> QED
    BY <1>4, <1>5, <1>6, <1>7 DEF Typed

\* The steps of the tick, of the clean-up and of the environment.
LEMMA FireNowRows ==
  ASSUME Typed, NEW k \in tick.todo, fireNow(k)
  PROVE  /\ Typed' /\ Calm /\ k \in DOMAIN occ /\ DOMAIN occ' = DOMAIN occ
         /\ occ'[k].due = expectedDue(k) /\ tick'.phase = "mark" /\ tick'.row = k
         /\ sched' = sched
  <1>1. /\ k \in DOMAIN occ /\ isValid(k) /\ occ' = SetDue(occ, k, expectedDue(k))
        /\ UNCHANGED <<now, sched>> /\ publishProfile(k)
        /\ tick' = [phase |-> "mark", todo |-> tick.todo, row |-> k]
        /\ tick.todo \subseteq DOMAIN occ
    BY DEF fireNow, Firing, Typed, TickRows
  <1>2. Occurrences(occ') /\ DOMAIN occ' = DOMAIN occ /\ Calm /\ occ'[k].due = expectedDue(k)
    BY <1>1, CalmWhenDueIsSet
  <1>3. tick'.phase = "mark" /\ tick'.todo = tick.todo /\ tick'.row = k
    BY <1>1
  <1>4. TickRows'
    BY <1>1, <1>2, <1>3 DEF TickRows
  <1>5. Announcements'
    <2> DEFINE new == [key |-> k, at |-> dedupeAt(k), due |-> expectedDue(k)]
    <2>1. k \in Reminders /\ occ[k].due \in Int /\ expectedDue(k) \in Int
      BY <1>1, ExpectedDueIsATime DEF Typed, Occurrences, OccurrenceRow
    <2>2. dedupeAt(k) \in Int
      BY <2>1 DEF dedupeAt, NONE
    <2>3. new.key \in Reminders /\ new.at \in Int /\ new.due \in Int
      BY <2>1, <2>2
    <2>4. outbox' \subseteq outbox \cup {new}
      BY <1>1 DEF publishProfile
    <2> HIDE DEF new
    <2> QED
      BY <2>3, <2>4 DEF Announcements, Typed
  <1> QED
    BY <1>1, <1>2, <1>3, <1>4, <1>5 DEF Typed

LEMMA RowHandled ==
  ASSUME Typed, NEW k \in tick.todo, fireVoid(k) \/ fireLater(k) \/ fireFails(k)
  PROVE  /\ Typed' /\ Calm /\ DOMAIN occ' = DOMAIN occ
         /\ outbox' = outbox /\ tick'.phase = "fire" /\ sched' = sched
  <1>1. /\ k \in DOMAIN occ /\ UNCHANGED <<now, sched, outbox>>
        /\ tick' = [phase |-> "fire", todo |-> tick.todo \ {k}]
        /\ tick.todo \subseteq DOMAIN occ
        /\ \/ occ' = SetStatus(occ, {k}, "cancelled")
           \/ isValid(k) /\ occ' = SetDue(occ, k, expectedDue(k))
    BY DEF fireVoid, fireLater, fireFails, Firing, Passed, Typed, TickRows
  <1>2. Occurrences(occ') /\ DOMAIN occ' = DOMAIN occ /\ Calm
    BY <1>1, CalmWhenDueIsSet, CalmWhenStatusIsSet DEF Statuses
  <1>3. tick'.phase = "fire" /\ tick'.todo = tick.todo \ {k}
    BY <1>1
  <1>4. TickRows'
    BY <1>1, <1>2, <1>3 DEF TickRows
  <1> QED
    BY <1>1, <1>2, <1>3, <1>4 DEF Typed, Announcements

LEMMA RowMarked ==
  ASSUME Typed, MarkNotified
  PROVE  /\ Typed' /\ DOMAIN occ' = DOMAIN occ /\ outbox' = outbox /\ sched' = sched
         /\ tick.phase = "mark" /\ tick'.phase = "derive"
         /\ \A k \in DOMAIN occ : /\ occ'[k].due = occ[k].due
                                  /\ k # tick.row => occ'[k] = occ[k]
  <1>1. /\ tick.row \in DOMAIN occ /\ UNCHANGED <<now, sched, outbox>>
        /\ tick' = [phase |-> "derive", todo |-> tick.todo, row |-> tick.row]
        /\ tick.todo \subseteq DOMAIN occ
        /\ occ' = SetStatus(occ, {tick.row}, "notified") /\ tick.phase = "mark"
    BY DEF MarkNotified, Typed, TickRows
  <1>2. /\ Occurrences(occ') /\ DOMAIN occ' = DOMAIN occ
        /\ \A k \in DOMAIN occ : /\ occ'[k].due = occ[k].due
                                 /\ k # tick.row => occ'[k] = occ[k]
    BY <1>1, StatusSet DEF Typed, Statuses
  <1>3. tick'.phase = "derive" /\ tick'.todo = tick.todo /\ tick'.row = tick.row
    BY <1>1
  <1>4. TickRows'
    BY <1>1, <1>2, <1>3 DEF TickRows
  <1> QED
    BY <1>1, <1>2, <1>3, <1>4 DEF Typed, Announcements

LEMMA DeriveIsTyped ==
  ASSUME Typed, DeriveNext
  PROVE  Typed' /\ outbox' = outbox /\ sched' = sched /\ tick'.phase = "fire"
  <1>1. /\ UNCHANGED <<now, sched, outbox>> /\ tick.todo \subseteq DOMAIN occ
        /\ tick' = [phase |-> "fire", todo |-> tick.todo \ {tick.row}]
    BY DEF DeriveNext, Typed, TickRows, Passed
  <1>2. Occurrences(occ') /\ DOMAIN occ \subseteq DOMAIN occ'
    BY RowsDerived
  <1>3. tick'.phase = "fire" /\ tick'.todo = tick.todo \ {tick.row}
    BY <1>1
  <1>4. TickRows'
    BY <1>1, <1>2, <1>3 DEF TickRows
  <1> QED
    BY <1>1, <1>2, <1>3, <1>4 DEF Typed, Announcements

LEMMA OthersAreCalm ==
  ASSUME Typed, runOccurrenceCleanup \/ TickStart \/ TickEnd \/ Crash \/ ClockTicks
  PROVE  /\ Typed' /\ Calm /\ outbox' = outbox /\ tick'.phase \in {"idle", "fire"}
  <1>1. CASE runOccurrenceCleanup
    <2>1. \E K : occ' = RemoveRows(occ, K)
      BY <1>1 DEF runOccurrenceCleanup
    <2>2. tick.phase = "idle" /\ UNCHANGED <<now, sched, outbox, tick>>
      BY <1>1 DEF runOccurrenceCleanup
    <2>3. Occurrences(occ') /\ Calm
      BY <2>1, CalmWhenRowsAreRemoved
    <2> QED
      BY <2>2, <2>3 DEF Typed, TickRows, Announcements
  <1>2. CASE TickStart
    <2>1. \E K : occ' = SetStatus(occ, K, "cancelled")
      BY <1>2 DEF TickStart, catchupSweep
    <2>2. Occurrences(occ') /\ Calm
      BY <2>1, CalmWhenStatusIsSet DEF Statuses
    <2>3. PICK T : T \in FirstDue(occ', dueRows(occ')) /\ tick' = [phase |-> "fire", todo |-> T]
      BY <1>2 DEF TickStart
    <2>4. T \subseteq DOMAIN occ'
      <3>1. T \subseteq dueRows(occ')
        BY <2>3 DEF FirstDue
      <3> QED
        BY <3>1 DEF dueRows, Rows
    <2>5. tick'.phase = "fire" /\ tick'.todo = T
      BY <2>3
    <2>6. TickRows'
      BY <2>4, <2>5 DEF TickRows
    <2>7. UNCHANGED <<now, sched, outbox>>
      BY <1>2 DEF TickStart
    <2> QED
      BY <2>2, <2>5, <2>6, <2>7 DEF Typed, Announcements
  <1>3. CASE TickEnd
    <2>1. /\ sched' = materializeSchedule(sched, occ, NONE).sched
          /\ occ' = materializeSchedule(sched, occ, NONE).occ
          /\ tick' = [phase |-> "idle", todo |-> {}] /\ UNCHANGED <<now, outbox>>
      BY <1>3 DEF TickEnd, TickReturns
    <2>2. /\ sched' \in ScheduleRow /\ Occurrences(occ') /\ Grown(sched, occ, occ')
      BY <2>1, Materialized DEF Typed
    <2>3. \A k \in DOMAIN occ' \ DOMAIN occ :
             /\ isNormalReminderKey(k) /\ k.idx < Len(sched.offsets)
             /\ occ'[k].due = planned(k) /\ occ'[k].status = "pending"
      BY <2>2, RowOf DEF Grown, Pending, planned
    <2>4. Calm
      BY <2>2, <2>3 DEF Calm, Grown
    <2>5. tick'.phase = "idle"
      BY <2>1
    <2> QED
      BY <2>1, <2>2, <2>4, <2>5 DEF Typed, TickRows, Announcements
  <1>4. CASE Crash \/ ClockTicks
    <2>1. /\ now' \in Nat /\ UNCHANGED <<sched, occ, outbox>>
          /\ tick'.phase = "idle"
      BY <1>4 DEF Crash, ClockTicks, Typed
    <2> QED
      BY <2>1, CalmWhenRowsStay DEF Typed, TickRows, Announcements
  <1> QED
    BY <1>1, <1>2, <1>3, <1>4

LEMMA StepKinds ==
  ASSUME Typed, [Next]_vars
  PROVE  /\ Typed'
         /\ \/ Calm /\ outbox' = outbox /\ tick'.phase \in {"idle", "fire"}
            \/ Calm /\ \E k \in tick.todo : fireNow(k)
            \/ MarkNotified
            \/ DeriveNext
            \/ UNCHANGED vars
  <1>1. CASE Tools
    <2>1. Typed' /\ Calm /\ outbox' = outbox /\ tick' = tick /\ Tool
      BY <1>1, ToolsAreCalm
    <2> QED
      BY <2>1 DEF Tool
  <1>2. CASE Fire
    BY <1>2, FireNowRows, RowHandled, RowMarked, DeriveIsTyped DEF Fire
  <1>3. CASE \E k \in tick.todo : fireFails(k)
    BY <1>3, RowHandled
  <1>4. CASE runOccurrenceCleanup \/ TickStart \/ TickEnd \/ Crash \/ ClockTicks
    BY <1>4, OthersAreCalm
  <1>5. CASE UNCHANGED vars
    BY <1>5 DEF vars, Typed, TickRows, Announcements
  <1> QED
    BY <1>1, <1>2, <1>3, <1>4, <1>5 DEF Next

\* In every reachable state the rows have their types, and the rows that the tick
\* has still to work on exist (the due list of fireDue).
THEOREM SchedulesTyped == Spec => []Typed
  <1>1. Init => Typed
    BY InitIsTyped
  <1>2. Typed /\ [Next]_vars => Typed'
    BY StepKinds
  <1> QED
    BY <1>1, <1>2, PTL DEF Spec

-----------------------------------------------------------------------------
(* One chain of escalations. *)

LEMMA ChainStart ==
  ASSUME Init
  PROVE  OneChainPerEvent
  <1>1. \A k \in DOMAIN occ : isNormalReminderKey(k)
    BY InitIsTyped
  <1> QED
    BY <1>1 DEF OneChainPerEvent, isNormalReminderKey, isEscalation, RESEND

LEMMA ChainKept ==
  ASSUME Typed, OneChainPerEvent, [Next]_vars
  PROVE  OneChainPerEvent'
  <1>1. CASE \A k \in DOMAIN occ' \ DOMAIN occ : isNormalReminderKey(k)
    <2>1. ASSUME NEW k \in DOMAIN occ', isEscalation(k) \/ k.tail = RESEND
          PROVE  k \in DOMAIN occ
      BY <1>1, <2>1 DEF isNormalReminderKey, isEscalation, RESEND
    <2> QED
      BY <2>1 DEF OneChainPerEvent
  <1>2. CASE DeriveNext
    <2> DEFINE r == tick.row
    <2>1. /\ \A j \in DOMAIN occ' \ DOMAIN occ :
                /\ eventPrefixOf(j) = eventPrefixOf(r) /\ j.idx = r.idx
                /\ \/ isEscalation(r) /\ isEscalation(j)
                   \/ j.tail = 1 /\ ~hasDerivedRow(r, Nat \ {0})
                   \/ j.tail = RESEND /\ ~hasDerivedRow(r, {RESEND})
      BY <1>2, RowsDerived
    <2>2. r \in DOMAIN occ /\ \A k \in DOMAIN occ : k.tail \in Int
      BY <1>2 DEF DeriveNext, Typed, TickRows, Occurrences, Reminders
    <2> HIDE DEF r
    <2>3. ASSUME NEW j \in DOMAIN occ' \ DOMAIN occ, NEW k \in DOMAIN occ,
                 eventPrefixOf(j) = eventPrefixOf(k),
                 \/ isEscalation(j) /\ isEscalation(k)
                 \/ j.tail = RESEND /\ k.tail = RESEND
          PROVE  j.idx = k.idx
      <3>1. CASE isEscalation(r) /\ isEscalation(j)
        <4>1. isEscalation(k)
          BY <2>3, <3>1 DEF isEscalation, RESEND
        <4>2. r.idx = k.idx
          BY <2>1, <2>2, <2>3, <3>1, <4>1 DEF OneChainPerEvent
        <4> QED
          BY <2>1, <4>2
      <3>2. CASE j.tail = 1 /\ ~hasDerivedRow(r, Nat \ {0})
        <4>1. k.tail \in Nat \ {0}
          BY <2>2, <2>3, <3>2 DEF isEscalation, RESEND
        <4> QED
          BY <2>1, <2>3, <3>2, <4>1 DEF hasDerivedRow
      <3>3. CASE j.tail = RESEND /\ ~hasDerivedRow(r, {RESEND})
        <4>1. k.tail = RESEND
          BY <2>3, <3>3 DEF isEscalation, RESEND
        <4> QED
          BY <2>1, <2>3, <3>3, <4>1 DEF hasDerivedRow
      <3> QED
        BY <2>1, <3>1, <3>2, <3>3
    <2>4. ASSUME NEW j \in DOMAIN occ' \ DOMAIN occ, NEW k \in DOMAIN occ' \ DOMAIN occ
          PROVE  j.idx = k.idx
      BY <2>1
    <2> QED
      BY <2>3, <2>4 DEF OneChainPerEvent
  <1>3. CASE MarkNotified
    BY <1>1, <1>3, RowMarked
  <1>4. CASE Calm
    BY <1>1, <1>4 DEF Calm
  <1>5. CASE UNCHANGED vars
    BY <1>1, <1>5 DEF vars
  <1> QED
    BY <1>2, <1>3, <1>4, <1>5, StepKinds

\* Whatever the offsets, the escalation and the tools used between the ticks, an event
\* has at most one chain of escalations and one resend: hasDerivedRow asks for any
\* row of the event, not of the reminder in hand.
THEOREM OneChain == Spec => []OneChainPerEvent
  <1>1. Init => Typed /\ OneChainPerEvent
    BY InitIsTyped, ChainStart
  <1>2. Typed /\ OneChainPerEvent /\ [Next]_vars => Typed' /\ OneChainPerEvent'
    BY ChainKept, StepKinds
  <1> QED
    BY <1>1, <1>2, PTL DEF Spec

-----------------------------------------------------------------------------
(* Announcements, as long as no update changes the offsets. *)

Announced(k, due) == \E m \in outbox : m.key = k /\ m.due = due

RowsTold ==
    \A k \in DOMAIN occ : isNormalReminderKey(k) =>
        /\ k.idx < Len(sched.offsets)
        /\ occ[k].due = planned(k) \/ occ[k].due # NONE
        /\ occ[k].status = "notified" => Announced(k, occ[k].due)

\* Between publication and mark, the row in hand is announced already.
RowInHandTold ==
    tick.phase = "mark" /\ isNormalReminderKey(tick.row)
        => Announced(tick.row, occ[tick.row].due)

\* The dedupe key holds a time only if that is the one announced, and not the planned.
DedupeKeys ==
    \A m \in outbox :
        /\ isNormalReminderKey(m.key) =>
              \/ m.at = NONE /\ m.due = planned(m.key)
              \/ m.at = m.due /\ m.due # planned(m.key) /\ m.at # NONE
        /\ ~isNormalReminderKey(m.key) => m.at = NONE

OncePerDedupeKey == \A m, n \in outbox : m.key = n.key /\ m.at = n.at => m = n

Told == RowsTold /\ RowInHandTold /\ DedupeKeys /\ OncePerDedupeKey

LEMMA ToldAtStart ==
  ASSUME Init
  PROVE  Told
  BY InitIsTyped DEF Init, Told, RowsTold, RowInHandTold, DedupeKeys, OncePerDedupeKey

LEMMA CalmRowsTold ==
  ASSUME Told, Calm, sched'.offsets = sched.offsets, outbox \subseteq outbox'
  PROVE  RowsTold'
  <1>1. \A k : planned(k)' = planned(k)
    BY DEF planned
  <1>2. ASSUME NEW k \in DOMAIN occ', isNormalReminderKey(k)
        PROVE  /\ k.idx < Len(sched'.offsets)
               /\ occ'[k].due = planned(k) \/ occ'[k].due # NONE
               /\ occ'[k].status = "notified" => Announced(k, occ'[k].due)
    BY <1>2 DEF Told, RowsTold, Calm
  <1> QED
    BY <1>1, <1>2 DEF RowsTold, Announced, planned

LEMMA ToldKept ==
  ASSUME Typed, Told, [Next]_vars, sched'.offsets = sched.offsets
  PROVE  Told'
  <1>1. CASE Calm /\ outbox' = outbox /\ tick'.phase \in {"idle", "fire"}
    BY <1>1, CalmRowsTold DEF Told, RowInHandTold, DedupeKeys, OncePerDedupeKey, planned
  <1>2. ASSUME NEW k \in tick.todo, fireNow(k), Calm
        PROVE  Told'
    <2> DEFINE new == [key |-> k, at |-> dedupeAt(k), due |-> expectedDue(k)]
    <2>1. /\ k \in DOMAIN occ /\ DOMAIN occ' = DOMAIN occ /\ occ'[k].due = expectedDue(k)
          /\ tick'.phase = "mark" /\ tick'.row = k
      BY <1>2, FireNowRows
    <2>2. /\ new.key = k /\ new.at = dedupeAt(k) /\ new.due = expectedDue(k)
      OBVIOUS
    <2>3. \/ outbox' = outbox /\ \E m \in outbox : m.key = new.key /\ m.at = new.at
          \/ /\ outbox' = outbox \cup {new}
             /\ ~ \E m \in outbox : m.key = new.key /\ m.at = new.at
      BY <1>2 DEF fireNow, publishProfile
    <2>4. /\ isNormalReminderKey(k) =>
                /\ new.due = occ[k].due
                /\ \/ new.at = NONE /\ new.due = planned(k)
                   \/ new.at = new.due /\ new.due # planned(k) /\ new.at # NONE
          /\ ~isNormalReminderKey(k) => new.at = NONE
      BY <2>1, <2>2 DEF expectedDue, dedupeAt, isSnoozedRow, planned, Told, RowsTold
    <2> HIDE DEF new
    <2>5. RowsTold'
      BY <1>2, <2>3, CalmRowsTold
    <2>6. DedupeKeys'
      BY <2>2, <2>3, <2>4 DEF Told, DedupeKeys, planned
    <2>7. OncePerDedupeKey'
      BY <2>3 DEF Told, OncePerDedupeKey
    <2>8. ASSUME isNormalReminderKey(k)
          PROVE  \E m \in outbox' : m.key = k /\ m.due = new.due
      <3>1. CASE new \in outbox'
        BY <2>2, <3>1
      <3>2. CASE \E m \in outbox : m.key = new.key /\ m.at = new.at
        <4>1. PICK m \in outbox : m.key = k /\ m.at = new.at
          BY <2>2, <3>2
        <4>2. \/ m.at = NONE /\ m.due = planned(k)
              \/ m.at = m.due /\ m.due # planned(k) /\ m.at # NONE
          BY <2>8, <4>1 DEF Told, DedupeKeys
        <4>3. m.due = new.due
          BY <2>4, <2>8, <4>1, <4>2
        <4> QED
          BY <2>3, <4>1, <4>3
      <3> QED
        BY <2>3, <3>1, <3>2
    <2>9. RowInHandTold'
      BY <2>1, <2>2, <2>8 DEF RowInHandTold, Announced
    <2> QED
      BY <2>5, <2>6, <2>7, <2>9 DEF Told
  <1>3. CASE MarkNotified
    <2>1. /\ DOMAIN occ' = DOMAIN occ /\ outbox' = outbox
          /\ tick.phase = "mark" /\ tick'.phase = "derive"
          /\ \A k \in DOMAIN occ : /\ occ'[k].due = occ[k].due
                                   /\ k # tick.row => occ'[k] = occ[k]
      BY <1>3, RowMarked
    <2>2. ASSUME NEW k \in DOMAIN occ', isNormalReminderKey(k), occ'[k].status = "notified"
          PROVE  Announced(k, occ'[k].due)
      <3>1. k \in DOMAIN occ /\ occ'[k].due = occ[k].due
        BY <2>1
      <3>2. CASE k = tick.row
        BY <2>1, <2>2, <3>1, <3>2 DEF Told, RowInHandTold
      <3>3. CASE k # tick.row
        BY <2>1, <2>2, <3>1, <3>3 DEF Told, RowsTold
      <3> QED
        BY <3>2, <3>3
    <2>4. RowsTold'
      <3>1. ASSUME NEW k \in DOMAIN occ', isNormalReminderKey(k)
            PROVE  /\ k.idx < Len(sched'.offsets)
                   /\ occ'[k].due = planned(k) \/ occ'[k].due # NONE
                   /\ occ'[k].status = "notified" => Announced(k, occ'[k].due)
        BY <2>1, <2>2, <3>1 DEF Told, RowsTold
      <3> QED
        BY <2>1, <3>1 DEF RowsTold, planned, Announced
    <2>5. RowInHandTold' /\ DedupeKeys' /\ OncePerDedupeKey'
      BY <2>1 DEF Told, RowInHandTold, DedupeKeys, OncePerDedupeKey, planned
    <2> QED
      BY <2>4, <2>5 DEF Told
  <1>4. CASE DeriveNext
    <2>1. outbox' = outbox /\ tick'.phase = "fire"
      BY <1>4, DeriveIsTyped
    <2>2. \A k \in DOMAIN occ' : isNormalReminderKey(k) => k \in DOMAIN occ /\ occ'[k] = occ[k]
      BY <1>4, RowsDerived
    <2> QED
      BY <2>1, <2>2 DEF Told, RowsTold, RowInHandTold, DedupeKeys, OncePerDedupeKey, planned, Announced
  <1>5. CASE UNCHANGED vars
    BY <1>5 DEF vars, Told, RowsTold, RowInHandTold, DedupeKeys, OncePerDedupeKey, planned, Announced
  <1> QED
    BY <1>1, <1>2, <1>3, <1>4, <1>5, StepKinds

LEMMA ToldStep ==
  ASSUME Typed, Told, [Next /\ sched'.offsets = sched.offsets]_vars
  PROVE  Typed' /\ Told'
  <1>1. [Next]_vars /\ sched'.offsets = sched.offsets
    BY DEF vars
  <1> QED
    BY <1>1, StepKinds, ToldKept

LEMMA ToldMeans ==
  ASSUME Told
  PROVE  NotifiedWasAnnounced /\ AnnouncedOnce
  <1>1. NotifiedWasAnnounced
    BY DEF Told, RowsTold, NotifiedWasAnnounced, Announced, Rows
  <1>2. AnnouncedOnce
    <2>1. ASSUME NEW m \in outbox, NEW n \in outbox, m.key = n.key,
                 m.due = n.due \/ ~isNormalReminderKey(m.key)
          PROVE  m.at = n.at
      BY <2>1 DEF Told, DedupeKeys
    <2> QED
      BY <2>1 DEF Told, OncePerDedupeKey, AnnouncedOnce
  <1> QED
    BY <1>1, <1>2

\* As long as no update changes the offsets, a reminder marked as notified was announced
\* for the time it was due at last, through every crash, retry and snooze.
THEOREM NotifiedMeansAnnounced ==
    Init /\ [][Next /\ sched'.offsets = sched.offsets]_vars => []NotifiedWasAnnounced
  <1>1. Init => Typed /\ Told
    BY InitIsTyped, ToldAtStart
  <1>2. Typed /\ Told /\ [Next /\ sched'.offsets = sched.offsets]_vars => (Typed /\ Told)'
    BY ToldStep
  <1>3. Typed /\ Told => NotifiedWasAnnounced
    BY ToldMeans
  <1> QED
    BY <1>1, <1>2, <1>3, PTL

\* As long as no update changes the offsets, the dedupe key keeps a repeated tick from
\* announcing a reminder twice for one time, and lets a snoozed one through.
THEOREM NoReminderTwice ==
    Init /\ [][Next /\ sched'.offsets = sched.offsets]_vars => []AnnouncedOnce
  <1>1. Init => Typed /\ Told
    BY InitIsTyped, ToldAtStart
  <1>2. Typed /\ Told /\ [Next /\ sched'.offsets = sched.offsets]_vars => (Typed /\ Told)'
    BY ToldStep
  <1>3. Typed /\ Told => AnnouncedOnce
    BY ToldMeans
  <1> QED
    BY <1>1, <1>2, <1>3, PTL

-----------------------------------------------------------------------------
(* The count of a recurrence, as long as no update rebuilds the rows. *)

\* An update that deletes pending rows and materialises anew.
Rebuilding ==
    \E field \in Patchable \cap {"rule", "time", "offsets", "status"} :
        \E value \in PatchValues[field] : updateSchedule(field, value)

CountHolds ==
    sched.rule.count # NONE =>
        /\ IsFiniteSet(existingDates(occ))
        /\ Cardinality(existingDates(occ)) <= sched.rule.count
        /\ \A m \in outbox : m.key.day \in existingDates(occ)

LEMMA GreatestOfBounded ==
  ASSUME NEW S, S \subseteq Nat, S # {}, NEW top \in Nat, \A n \in S : n <= top
  PROVE  \E m \in S : \A n \in S : n <= m
  <1> DEFINE T == {top - n : n \in S}
  <1>0. \A n \in S : top - n \in Nat
    OBVIOUS
  <1>1. T \subseteq Nat /\ T # {}
    BY <1>0
  <1>2. \E t \in T : \A x \in T : ~ (<<x, t>> \in OpToRel(<, Nat))
    BY <1>1, NatLessThanWellFounded, WFMin
  <1>3. PICK t \in T : \A x \in T : ~ (<<x, t>> \in OpToRel(<, Nat))
    BY <1>2
  <1>4. \A x \in T : ~ (x < t)
    BY <1>1, <1>3 DEF OpToRel
  <1>5. PICK m \in S : t = top - m
    OBVIOUS
  <1>6. \A n \in S : ~ (top - n < top - m)
    BY <1>4, <1>5
  <1> QED
    BY <1>6

\* Behind the dates that have rows, the loop takes none once there are enough.
LEMMA CountOfMaterialized ==
  ASSUME Typed, NEW s \in ScheduleRow, NEW o, s.rule.count # NONE,
         IsFiniteSet(existingDates(o)), Cardinality(existingDates(o)) <= s.rule.count,
         NEW D, D \subseteq existingDates(o) \cup materializedDays(s, o, NONE)
  PROVE  IsFiniteSet(D) /\ Cardinality(D) <= s.rule.count
  <1> DEFINE E == existingDates(o)
             all == candidates(s, cursor(o, NONE))
             days == materializedDays(s, o, NONE)
             fresh == days \ E
  <1>1. s.rule.count \in Nat /\ s.rule.days \subseteq Nat /\ s.offsets \in Seq(Int) /\ Len(s.offsets) > 0
    BY ScheduleConstants DEF ScheduleRow
  <1>2. PICK top \in Nat : top = Today + FAR_HORIZON_DAYS
    BY TodayIsADay, ScheduleConstants
  <1>3. days \subseteq all /\ \A d \in days : takes(s, o, all, d)
    BY DEF materializedDays
  <1>4. all \subseteq Nat /\ \A d \in all : d <= top
    BY <1>1, <1>2 DEF candidates
  <1>5. CASE fresh = {}
    <2>1. D \subseteq E
      BY <1>5
    <2> QED
      BY <1>1, <2>1, FS_Subset, FS_CardinalityType
  <1>6. CASE fresh # {}
    <2>1. PICK m \in fresh : \A d \in fresh : d <= m
      BY <1>2, <1>3, <1>4, <1>6, GreatestOfBounded
    <2> DEFINE before == {c \in all : c < m}
               new == {c \in before : isNew(s, o, c)}
               dates == E \cup new
    <2>2. ~countReached(s, dates)
      BY <1>3, <2>1 DEF takes
    <2>3. ~(Cardinality(dates) >= s.rule.count)
      BY <2>2 DEF countReached
    <2>4. new \subseteq Nat /\ \A d \in new : d <= top
      BY <1>4
    <2>5. IsFiniteSet(dates)
      <3>1. IsFiniteSet(new)
        BY <2>4, FS_BoundedSetOfNaturals
      <3> QED
        BY <3>1, FS_Union
    <2>6. fresh \subseteq dates \cup {m}
      <3>1. ASSUME NEW d \in fresh, d # m
            PROVE  d \in new
        <4>1. d \in all /\ d < m
          BY <1>3, <1>4, <2>1, <3>1
        <4>2. Key(d, s.time, 0, 0) \notin DOMAIN o
          <5>1. Key(d, s.time, 0, 0).day = d
            BY KeyOf
          <5> QED
            BY <3>1, <5>1 DEF existingDates
        <4>3. 1 \in DOMAIN s.offsets /\ 1 - 1 = 0
          BY <1>1
        <4>4. isNew(s, o, d)
          BY <4>2, <4>3 DEF isNew
        <4> QED
          BY <4>1, <4>4
      <3> QED
        BY <3>1
    <2> HIDE DEF dates, new, before
    <2>7. D \subseteq dates \cup {m}
      <3>1. E \subseteq dates
        BY DEF dates
      <3> QED
        BY <2>6, <3>1
    <2>8. IsFiniteSet(dates \cup {m}) /\ Cardinality(dates \cup {m}) <= Cardinality(dates) + 1
      <3>1. /\ IsFiniteSet(dates \cup {m})
            /\ \/ Cardinality(dates \cup {m}) = Cardinality(dates)
               \/ Cardinality(dates \cup {m}) = Cardinality(dates) + 1
        BY <2>5, FS_AddElement
      <3>2. Cardinality(dates) \in Nat
        BY <2>5, FS_CardinalityType
      <3> QED
        BY <3>1, <3>2
    <2>9. /\ IsFiniteSet(D) /\ Cardinality(D) <= Cardinality(dates \cup {m})
          /\ Cardinality(D) \in Nat /\ Cardinality(dates) \in Nat /\ Cardinality(dates \cup {m}) \in Nat
      BY <2>5, <2>7, <2>8, FS_Subset, FS_CardinalityType
    <2> QED
      BY <1>1, <2>3, <2>8, <2>9
  <1> QED
    BY <1>5, <1>6

LEMMA CountAtStart ==
  ASSUME Init
  PROVE  CountHolds
  <1>1. PICK s \in Schedule : /\ sched = materializeSchedule(s, << >>, NONE).sched
                             /\ occ = materializeSchedule(s, << >>, NONE).occ
    BY DEF Init
  <1>2. s \in ScheduleRow
    BY DEF Schedule, ScheduleRow
  <1> DEFINE o == << >>
  <1>3. DOMAIN o = {} /\ Occurrences(o) /\ existingDates(o) = {}
    BY DEF Occurrences, existingDates
  <1> HIDE DEF o
  <1>4. /\ sched.rule = s.rule
        /\ existingDates(occ) \subseteq existingDates(o) \cup materializedDays(s, o, NONE)
    BY <1>1, <1>2, <1>3, Materialized DEF o
  <1>5. /\ IsFiniteSet(existingDates(o)) /\ Cardinality(existingDates(o)) = 0
        /\ s.rule.count \in Nat
    BY <1>2, <1>3, FS_EmptySet, ScheduleConstants DEF ScheduleRow
  <1>6. Typed /\ outbox = {}
    BY InitIsTyped DEF Init
  <1>7. s.rule.count # NONE =>
            IsFiniteSet(existingDates(occ)) /\ Cardinality(existingDates(occ)) <= s.rule.count
    BY <1>2, <1>4, <1>5, <1>6, CountOfMaterialized
  <1> QED
    BY <1>4, <1>6, <1>7 DEF CountHolds

LEMMA ToolsKeepDates ==
  ASSUME Typed, Tools, ~Rebuilding
  PROVE  /\ sched'.rule = sched.rule /\ outbox' = outbox
         /\ \/ DOMAIN occ' = DOMAIN occ
            \/ sched.rule.count = NONE /\ DOMAIN occ' = {}
  <1>1. ASSUME NEW field \in Patchable, NEW value \in PatchValues[field], updateSchedule(field, value)
        PROVE  sched'.rule = sched.rule /\ occ' = occ
    <2>1. field \notin {"rule", "time", "offsets", "status"}
      BY <1>1 DEF Rebuilding
    <2>2. sched' = [sched EXCEPT ![field] = value] /\ occ' = occ
      BY <1>1, <2>1 DEF updateSchedule
    <2> QED
      BY <2>1, <2>2, FieldUpdated
  <1>2. ASSUME NEW k \in DOMAIN occ, NEW all \in BOOLEAN, completeOccurrence(k, all)
        PROVE  sched'.rule = sched.rule /\ DOMAIN occ' = DOMAIN occ
    BY <1>2, StatusOfSchedule DEF completeOccurrence, SetStatus
  <1>3. ASSUME NEW K, completeTorn(K)
        PROVE  sched'.rule = sched.rule /\ DOMAIN occ' = DOMAIN occ
    BY <1>3 DEF completeTorn, SetStatus
  <1>4. ASSUME NEW k, NEW due, snoozeSchedule(k, due)
        PROVE  sched'.rule = sched.rule /\ DOMAIN occ' = DOMAIN occ
    BY <1>4 DEF snoozeSchedule
  <1>5. ASSUME NEW k, skipSchedule(k)
        PROVE  sched'.rule = sched.rule /\ DOMAIN occ' = DOMAIN occ
    BY <1>5, StatusOfSchedule DEF skipSchedule, SetStatus
  <1>6. ASSUME NEW all \in BOOLEAN, completeSchedule(all)
        PROVE  sched'.rule = sched.rule /\ DOMAIN occ' = DOMAIN occ
    BY <1>6, StatusOfSchedule DEF completeSchedule, SetStatus
  <1>7. ASSUME deleteSchedule
        PROVE  /\ sched'.rule = sched.rule
               /\ \/ DOMAIN occ' = DOMAIN occ
                  \/ sched.rule.count = NONE /\ DOMAIN occ' = {}
    BY <1>7, StatusOfSchedule DEF deleteSchedule
  <1>8. outbox' = outbox
    BY ToolsAreCalm
  <1> QED
    BY <1>1, <1>2, <1>3, <1>4, <1>5, <1>6, <1>7, <1>8 DEF Tools

LEMMA CountKept ==
  ASSUME Typed, CountHolds, [Next]_vars, ~Rebuilding
  PROVE  CountHolds'
  <1>0. ASSUME sched'.rule = sched.rule, existingDates(occ') = existingDates(occ),
               sched.rule.count # NONE => \A m \in outbox' : m.key.day \in existingDates(occ)
        PROVE  CountHolds'
    BY <1>0 DEF CountHolds
  <1>1. CASE Tools
    BY <1>0, <1>1, ToolsKeepDates DEF CountHolds, existingDates
  <1>2. CASE runOccurrenceCleanup
    BY <1>2 DEF runOccurrenceCleanup, CountHolds
  <1>3. ASSUME NEW k \in tick.todo, fireVoid(k) \/ fireLater(k) \/ fireFails(k)
        PROVE  CountHolds'
    BY <1>0, <1>3, RowHandled DEF CountHolds, existingDates
  <1>4. ASSUME NEW k \in tick.todo, fireNow(k)
        PROVE  CountHolds'
    <2>1. k \in DOMAIN occ /\ DOMAIN occ' = DOMAIN occ /\ sched' = sched
      BY <1>4, FireNowRows
    <2>2. \A m \in outbox' : m \in outbox \/ m.key = k
      BY <1>4 DEF fireNow, publishProfile
    <2> QED
      BY <1>0, <2>1, <2>2 DEF CountHolds, existingDates
  <1>5. CASE MarkNotified
    BY <1>0, <1>5, RowMarked DEF CountHolds, existingDates
  <1>6. CASE DeriveNext
    <2>1. /\ DOMAIN occ \subseteq DOMAIN occ' /\ sched' = sched /\ outbox' = outbox
          /\ \A j \in DOMAIN occ' \ DOMAIN occ : j.day = tick.row.day
          /\ tick.row \in DOMAIN occ
      BY <1>6, RowsDerived, DeriveIsTyped DEF DeriveNext, Typed, TickRows
    <2>2. existingDates(occ') = existingDates(occ)
      BY <2>1 DEF existingDates
    <2> QED
      BY <1>0, <2>1, <2>2 DEF CountHolds
  <1>7. CASE TickStart
    <2>1. DOMAIN occ' = DOMAIN occ /\ UNCHANGED <<sched, outbox>>
      BY <1>7 DEF TickStart, catchupSweep, SetStatus
    <2> QED
      BY <1>0, <2>1 DEF CountHolds, existingDates
  <1>8. CASE TickEnd
    <2>1. /\ sched' = materializeSchedule(sched, occ, NONE).sched
          /\ occ' = materializeSchedule(sched, occ, NONE).occ /\ outbox' = outbox
      BY <1>8 DEF TickEnd, TickReturns
    <2>2. /\ sched'.rule = sched.rule /\ Grown(sched, occ, occ')
          /\ existingDates(occ') \subseteq existingDates(occ) \cup materializedDays(sched, occ, NONE)
      BY <2>1, Materialized DEF Typed
    <2>3. existingDates(occ) \subseteq existingDates(occ')
      BY <2>2 DEF Grown, existingDates
    <2>4. sched.rule.count # NONE =>
              IsFiniteSet(existingDates(occ')) /\ Cardinality(existingDates(occ')) <= sched.rule.count
      BY <2>2, CountOfMaterialized DEF CountHolds, Typed
    <2> QED
      BY <2>1, <2>2, <2>3, <2>4 DEF CountHolds
  <1>9. CASE Crash \/ ClockTicks \/ UNCHANGED vars
    BY <1>9 DEF Crash, ClockTicks, vars, CountHolds
  <1> QED
    BY <1>1, <1>2, <1>3, <1>4, <1>5, <1>6, <1>7, <1>8, <1>9 DEF Next, Fire

LEMMA CountMeans ==
  ASSUME Typed, CountHolds
  PROVE  CountIsKept
  <1>1. CASE sched.rule.count # NONE
    <2> DEFINE A == {m.key.day : m \in outbox}
    <2>1. A \subseteq existingDates(occ)
      BY <1>1 DEF CountHolds
    <2> HIDE DEF A
    <2>2. /\ Cardinality(A) <= Cardinality(existingDates(occ)) /\ Cardinality(A) \in Nat
          /\ Cardinality(existingDates(occ)) \in Nat
          /\ Cardinality(existingDates(occ)) <= sched.rule.count
      BY <1>1, <2>1, FS_Subset, FS_CardinalityType DEF CountHolds
    <2>3. sched.rule.count \in Nat
      BY ScheduleConstants DEF Typed, ScheduleRow
    <2> QED
      BY <2>2, <2>3 DEF CountIsKept, A
  <1> QED
    BY <1>1 DEF CountIsKept

\* As long as no update rebuilds the rows, a recurrence with a count announces no more
\* events than that, however far the horizons reach and whatever is snoozed or skipped.
THEOREM NoMoreThanCount ==
    Init /\ [][Next /\ ~Rebuilding]_vars => []CountIsKept
  <1>1. Init => Typed /\ CountHolds
    BY InitIsTyped, CountAtStart
  <1>2. Typed /\ CountHolds /\ [Next /\ ~Rebuilding]_vars => (Typed /\ CountHolds)'
    <2> SUFFICES ASSUME Typed, CountHolds, [Next /\ ~Rebuilding]_vars
                 PROVE  Typed' /\ CountHolds'
      OBVIOUS
    <2>1. CASE Next /\ ~Rebuilding
      BY <2>1, StepKinds, CountKept
    <2>2. CASE UNCHANGED vars
      <3>1. Typed'
        BY <2>2, StepKinds
      <3> QED
        BY <2>2, <3>1 DEF vars, CountHolds
    <2> QED
      BY <2>1, <2>2
  <1>3. Typed /\ CountHolds => CountIsKept
    BY CountMeans
  <1> QED
    BY <1>1, <1>2, <1>3, PTL

-----------------------------------------------------------------------------
(* The next reminder stays visible, as long as no update rebuilds the rows and fewer
   dates have rows than the scan for the exempt event has iterations. *)

Bounded(D) == \E top \in Nat : \A d \in D : d <= top

\* Of the dates to come, none before one that has rows is without.
NoGaps ==
    \A d \in sched.rule.days, e \in existingDates(occ) :
        d > Today /\ d < e => d \in existingDates(occ)

VisibleHolds == faults \in Nat /\ Bounded(existingDates(occ)) /\ NoGaps

LEMMA LaterDay ==
  ASSUME Typed, NEW d \in Nat, d > Today
  PROVE  d * DAY > now /\ d * DAY \in Nat
  <1> DEFINE q == now \div DAY
  <1>1. now \in Nat /\ DAY \in Nat \ {0}
    BY ScheduleConstants DEF Typed
  <1>2. q \in Int /\ now < (q + 1) * DAY /\ (q + 1) * DAY \in Int
    BY <1>1
  <1>3. d > q
    BY DEF Today
  <1> HIDE DEF q
  <1>4. d >= q + 1
    BY <1>2, <1>3
  <1>5. \A a, b, c \in Int : a >= b /\ c > 0 => a * c >= b * c
    OBVIOUS
  <1>6. d * DAY >= (q + 1) * DAY
    BY <1>1, <1>2, <1>4, <1>5
  <1>7. d * DAY \in Nat
    BY <1>1
  <1> QED
    BY <1>1, <1>2, <1>6, <1>7

LEMMA DatesAreNumbers ==
  ASSUME NEW o, Occurrences(o)
  PROVE  existingDates(o) \subseteq Nat
  BY DEF Occurrences, existingDates, Reminders

LEMMA MaxOfDates ==
  ASSUME NEW S, S \subseteq Nat, S # {}, Bounded(S)
  PROVE  Max(S) \in S
  <1>1. \E m \in S : \A n \in S : n <= m
    BY GreatestOfBounded DEF Bounded
  <1>2. \E m \in S : \A n \in S : m >= n
    BY <1>1
  <1> QED
    BY <1>2, Zenon DEF Max

LEMMA LeastOfNaturals ==
  ASSUME NEW S, S \subseteq Nat, S # {}
  PROVE  \E m \in S : \A n \in S : m <= n
  <1>1. \E m \in S : \A n \in S : ~ (<<n, m>> \in OpToRel(<, Nat))
    BY NatLessThanWellFounded, WFMin
  <1>2. PICK m \in S : \A n \in S : ~ (<<n, m>> \in OpToRel(<, Nat))
    BY <1>1
  <1>3. \A n \in S : ~ (n < m)
    BY <1>2 DEF OpToRel
  <1> QED
    BY <1>3

\* Where the loop begins, without rewinding: a date that has rows, or yesterday.
LEMMA CursorIs ==
  ASSUME Typed, NEW o, Occurrences(o), Bounded(existingDates(o))
  PROVE  cursor(o, NONE) \in existingDates(o) \/ cursor(o, NONE) = Today - 1
  <1> DEFINE days == {k.day : k \in DOMAIN o \ Rows(o, {"cancelled"})}
  <1>1. days \subseteq existingDates(o)
    BY DEF existingDates
  <1>2. days \subseteq Nat /\ Bounded(days)
    BY <1>1, DatesAreNumbers DEF Bounded
  <1>3. CASE days = {}
    BY <1>3 DEF cursor
  <1>4. CASE days # {}
    <2>1. Max(days) \in days
      BY <1>2, <1>4, MaxOfDates
    <2>2. cursor(o, NONE) = Max(days)
      BY <1>4 DEF cursor
    <2> QED
      BY <1>1, <2>1, <2>2
  <1> QED
    BY <1>3, <1>4

\* A loop that takes a candidate takes each before it.
LEMMA TakesInOrder ==
  ASSUME Typed, NEW s \in ScheduleRow, NEW o, Occurrences(o), Bounded(existingDates(o)),
         NEW all, all \subseteq Nat, NEW e \in all, takes(s, o, all, e),
         NEW d \in all, d < e
  PROVE  takes(s, o, all, d)
  <1> DEFINE B(x) == {c \in all : c < x}
             N(x) == {c \in B(x) : isNew(s, o, c)}
             D(x) == existingDates(o) \cup N(x)
             limit == IF Rows(o, {"pending"}) = {} THEN EXEMPT_SCAN_ITERATIONS
                                                  ELSE MATERIALIZE_ITERATIONS
  <1>1. limit \in Nat
    BY SchedulesAssumption
  <1>2. /\ Cardinality(B(e)) < limit
        /\ countReached(s, D(e)) => B(e) = {} /\ e \in D(e)
        /\ e > Today + NEAR_HORIZON_DAYS => Rows(o, {"pending"}) = {} /\ N(e) = {}
    BY DEF takes
  <1>3. /\ B(d) \subseteq B(e) /\ N(d) \subseteq N(e) /\ D(d) \subseteq D(e)
        /\ B(e) # {} /\ B(e) \subseteq Nat
    <2>1. \A c \in all : c < d => c < e
      OBVIOUS
    <2>2. B(d) \subseteq B(e) /\ d \in B(e) /\ B(e) \subseteq Nat
      BY <2>1
    <2>3. N(d) \subseteq N(e)
      BY <2>2
    <2> QED
      BY <2>2, <2>3
  <1>4. IsFiniteSet(B(e)) /\ IsFiniteSet(D(e))
    <2>1. \A c \in B(e) : c <= e
      OBVIOUS
    <2>2. IsFiniteSet(B(e))
      BY <1>3, <2>1, FS_BoundedSetOfNaturals
    <2>3. IsFiniteSet(N(e))
      BY <2>2, FS_Subset
    <2>4. IsFiniteSet(existingDates(o))
      BY DatesAreNumbers, FS_BoundedSetOfNaturals DEF Bounded
    <2> QED
      BY <2>2, <2>3, <2>4, FS_Union
  <1>5. /\ Cardinality(B(d)) <= Cardinality(B(e)) /\ Cardinality(B(d)) \in Nat
        /\ Cardinality(B(e)) \in Nat
        /\ Cardinality(D(d)) <= Cardinality(D(e)) /\ Cardinality(D(d)) \in Nat
        /\ Cardinality(D(e)) \in Nat
    BY <1>3, <1>4, FS_Subset, FS_CardinalityType
  <1>6. s.rule.count \in Nat /\ Today + NEAR_HORIZON_DAYS \in Nat
    <2>1. NEAR_HORIZON_DAYS \in Nat
      BY SchedulesAssumption
    <2> QED
      BY <2>1, ScheduleConstants, TodayIsADay DEF ScheduleRow
  <1> HIDE DEF B, N, D
  <1>7. ~countReached(s, D(d))
    <2>1. ~countReached(s, D(e))
      BY <1>2, <1>3
    <2> QED
      BY <2>1, <1>5, <1>6 DEF countReached
  <1>8. d > Today + NEAR_HORIZON_DAYS => Rows(o, {"pending"}) = {} /\ N(d) = {}
    BY <1>2, <1>3, <1>6
  <1>9. Cardinality(B(d)) < limit
    BY <1>1, <1>2, <1>5
  <1> QED
    BY <1>7, <1>8, <1>9 DEF takes, B, N, D

LEMMA RowsOfTaken ==
  ASSUME NEW s \in ScheduleRow, s.status = "active", NEW o,
         NEW d \in materializedDays(s, o, NONE)
  PROVE  LET p == materializeSchedule(s, o, NONE).occ
         IN  /\ d \in existingDates(p)
             /\ isNew(s, o, d) => \E k \in DOMAIN p \ DOMAIN o : k.day = d
  <1> DEFINE days == materializedDays(s, o, NONE)
             new == inserted(s, days)
             p == materializeSchedule(s, o, NONE).occ
  <1>1. p = insertOrIgnore(o, new)
    BY DEF materializeSchedule
  <1>2. s.offsets \in Seq(Int) /\ Len(s.offsets) > 0
    BY ScheduleConstants DEF ScheduleRow
  <1>3. DOMAIN new = {Key(c, s.time, i - 1, 0) : c \in days, i \in DOMAIN s.offsets}
    BY DEF inserted
  <1>4. \A i \in DOMAIN s.offsets : Key(d, s.time, i - 1, 0) \in DOMAIN new
    BY <1>3
  <1> HIDE DEF new, p
  <1>5. \A i \in DOMAIN s.offsets : Key(d, s.time, i - 1, 0) \in DOMAIN p
    BY <1>1, <1>4 DEF insertOrIgnore
  <1>6. \A i : Key(d, s.time, i - 1, 0).day = d
    BY DEF Key
  <1>7. d \in existingDates(p)
    <2>1. 1 \in DOMAIN s.offsets
      BY <1>2
    <2>2. \E k \in DOMAIN p : k.day = d
      BY <1>5, <1>6, <2>1
    <2> QED
      BY <2>2 DEF existingDates
  <1>8. isNew(s, o, d) => \E k \in DOMAIN p \ DOMAIN o : k.day = d
    BY <1>5, <1>6 DEF isNew
  <1> QED
    BY <1>7, <1>8 DEF p

\* Neither does the loop leave a date out, nor is one it has taken too far off.
LEMMA NoGapsMade ==
  ASSUME Typed, NEW s \in ScheduleRow, NEW o, Occurrences(o), Bounded(existingDates(o)),
         \A d \in s.rule.days, e \in existingDates(o) :
             d > Today /\ d < e => d \in existingDates(o)
  PROVE  LET E == existingDates(materializeSchedule(s, o, NONE).occ)
         IN  Bounded(E) /\ \A d \in s.rule.days, e \in E : d > Today /\ d < e => d \in E
  <1> DEFINE p == materializeSchedule(s, o, NONE).occ
             E == existingDates(p)
             all == candidates(s, cursor(o, NONE))
             days == materializedDays(s, o, NONE)
  <1>1. Grown(s, o, p) /\ E \subseteq existingDates(o) \cup days
    BY Materialized
  <1>2. existingDates(o) \subseteq E
    BY <1>1 DEF existingDates, Grown
  <1>3. CASE s.status # "active"
    <2>1. p = o
      BY <1>3 DEF materializeSchedule
    <2> QED
      BY <2>1
  <1>4. CASE s.status = "active"
    <2>1. s.rule.days \subseteq Nat /\ Today \in Nat /\ Today + FAR_HORIZON_DAYS \in Nat
      BY ScheduleConstants, TodayIsADay DEF ScheduleRow
    <2>2. days \subseteq all /\ all \subseteq s.rule.days /\ \A d \in days : takes(s, o, all, d)
      BY DEF materializedDays, candidates
    <2>3. days # {} => days = {d \in all : takes(s, o, all, d)}
      BY DEF materializedDays
    <2>4. \A d \in all : d <= Today + FAR_HORIZON_DAYS
      BY DEF candidates
    <2>5. Bounded(E)
      <3>1. PICK top \in Nat : \A d \in existingDates(o) : d <= top
        BY DEF Bounded
      <3>2. PICK far \in Nat : far = Today + FAR_HORIZON_DAYS
        BY <2>1
      <3>3. \A d \in E : d \in Nat /\ (d <= top \/ d <= far)
        BY <1>1, <2>1, <2>2, <2>4, <3>1, <3>2, DatesAreNumbers
      <3>4. \A d \in E : d <= top + far
        BY <3>3
      <3> QED
        BY <3>4 DEF Bounded
    <2>6. ASSUME NEW d \in s.rule.days, NEW e \in E, d > Today, d < e
          PROVE  d \in E
      <3>1. CASE e \in existingDates(o)
        BY <1>2, <2>6, <3>1
      <3>2. CASE e \in days /\ d <= cursor(o, NONE)
        <4>1. cursor(o, NONE) \in existingDates(o)
          BY <2>1, <2>6, <3>2, CursorIs
        <4>2. d \in existingDates(o)
          BY <2>1, <2>6, <3>2, <4>1, DatesAreNumbers
        <4> QED
          BY <1>2, <4>2
      <3>3. CASE e \in days /\ ~(d <= cursor(o, NONE))
        <4>1. cursor(o, NONE) \in Int
          <5>1. existingDates(o) \subseteq Nat
            BY DatesAreNumbers
          <5> QED
            BY <2>1, <5>1, CursorIs
        <4>2. e \in all /\ takes(s, o, all, e) /\ e \in Nat /\ d \in Nat
          BY <2>1, <2>2, <3>3
        <4>3. s.rule.until \in Nat /\ FAR_HORIZON_DAYS \in Nat
          BY SchedulesAssumption DEF ScheduleRow
        <4>4. d \in all
          BY <2>1, <2>6, <3>3, <4>1, <4>2, <4>3 DEF candidates
        <4>5. takes(s, o, all, d)
          <5>1. all \subseteq Nat
            BY <2>1, <2>2
          <5> QED
            BY <2>6, <4>2, <4>4, <5>1, TakesInOrder
        <4>6. d \in days
          BY <2>3, <3>3, <4>4, <4>5
        <4> QED
          BY <1>4, <4>6, RowsOfTaken
      <3> QED
        BY <1>1, <3>1, <3>2, <3>3
    <2> QED
      BY <2>5, <2>6
  <1> QED
    BY <1>3, <1>4

LEMMA VisibleAtStart ==
  ASSUME Init
  PROVE  VisibleHolds
  <1>1. PICK s \in Schedule : /\ sched = materializeSchedule(s, << >>, NONE).sched
                             /\ occ = materializeSchedule(s, << >>, NONE).occ
    BY DEF Init
  <1>2. s \in ScheduleRow
    BY DEF Schedule, ScheduleRow
  <1> DEFINE o == << >>
  <1>3. DOMAIN o = {} /\ Occurrences(o) /\ existingDates(o) = {}
    BY DEF Occurrences, existingDates
  <1> HIDE DEF o
  <1>4. Bounded(existingDates(o))
    BY <1>3 DEF Bounded
  <1>5. Typed /\ sched.rule = s.rule /\ faults = 0
    BY <1>1, <1>2, <1>3, InitIsTyped, Materialized DEF Init, o
  <1>6. /\ Bounded(existingDates(occ))
        /\ \A d \in s.rule.days, e \in existingDates(occ) :
              d > Today /\ d < e => d \in existingDates(occ)
    BY <1>1, <1>2, <1>3, <1>4, <1>5, NoGapsMade DEF o
  <1> QED
    BY <1>5, <1>6 DEF VisibleHolds, NoGaps

LEMMA VisibleKept ==
  ASSUME Typed, VisibleHolds, [Next]_vars, ~Rebuilding
  PROVE  VisibleHolds'
  <1>1. faults' \in Nat
    <2>1. faults' = faults \/ faults' = faults + 1
      BY DEF Next, Tools, Fire, updateSchedule, completeOccurrence, completeTorn, snoozeSchedule,
             skipSchedule, completeSchedule, deleteSchedule, runOccurrenceCleanup, TickStart,
             fireVoid, fireLater, fireNow, MarkNotified, DeriveNext, TickEnd, fireFails, Crash,
             ClockTicks, vars
    <2> QED
      BY <2>1 DEF VisibleHolds
  <1>2. Today \in Nat
    BY TodayIsADay
  <1>3. ASSUME sched'.rule = sched.rule, now' = now,
               existingDates(occ') \in {existingDates(occ), {}}
        PROVE  VisibleHolds'
    <2>1. Today' = Today
      BY <1>3 DEF Today
    <2>2. Bounded(existingDates(occ'))
      BY <1>3 DEF VisibleHolds, Bounded
    <2>3. NoGaps'
      BY <1>3, <2>1 DEF VisibleHolds, NoGaps
    <2> QED
      BY <1>1, <2>2, <2>3 DEF VisibleHolds
  <1>4. CASE Tools
    <2>1. now' = now
      BY <1>4 DEF Tools, updateSchedule, completeOccurrence, completeTorn, snoozeSchedule,
                  skipSchedule, completeSchedule, deleteSchedule
    <2>2. sched'.rule = sched.rule /\ (DOMAIN occ' = DOMAIN occ \/ DOMAIN occ' = {})
      BY <1>4, ToolsKeepDates
    <2>3. existingDates(occ') \in {existingDates(occ), {}}
      BY <2>2 DEF existingDates
    <2> QED
      BY <1>3, <2>1, <2>2, <2>3
  <1>5. CASE runOccurrenceCleanup
    <2> DEFINE K == {k \in Rows(occ, {"notified", "done", "cancelled"}) :
                        eventAt(k) < now - OCCURRENCE_CLEANUP_DAYS * DAY}
    <2>1. occ' = RemoveRows(occ, K) /\ UNCHANGED <<now, sched>>
      BY <1>5 DEF runOccurrenceCleanup
    <2>2. DOMAIN occ' = DOMAIN occ \ K
      BY <2>1, RowsRemoved DEF Typed
    <2>3. existingDates(occ') \subseteq existingDates(occ)
      BY <2>2 DEF existingDates
    <2>4. ASSUME NEW k \in DOMAIN occ, k.day > Today
          PROVE  k \in DOMAIN occ'
      <3>1. k \in Reminders /\ k.day \in Nat /\ k.time \in Times
        BY DEF Typed, Occurrences, Reminders
      <3>2. Times \subseteq Nat /\ DAY \in Nat /\ OCCURRENCE_CLEANUP_DAYS \in Nat /\ now \in Nat
        BY ScheduleConstants, SchedulesAssumption DEF Typed
      <3>3. k.day * DAY > now /\ k.day * DAY \in Nat
        BY <2>4, <3>1, LaterDay
      <3>4. OCCURRENCE_CLEANUP_DAYS * DAY \in Nat
        BY <3>2
      <3>5. k.time \in Nat
        BY <3>1, <3>2, Zenon
      <3>6. ~(k.day * DAY + k.time < now - OCCURRENCE_CLEANUP_DAYS * DAY)
        BY <3>2, <3>3, <3>4, <3>5
      <3> QED
        BY <2>2, <3>6 DEF eventAt
    <2>5. \A d \in existingDates(occ) : d > Today => d \in existingDates(occ')
      BY <2>4 DEF existingDates
    <2>6. Today' = Today
      BY <2>1 DEF Today
    <2>7. NoGaps'
      BY <2>1, <2>3, <2>5, <2>6 DEF VisibleHolds, NoGaps
    <2>8. Bounded(existingDates(occ'))
      BY <2>3 DEF VisibleHolds, Bounded
    <2> QED
      BY <1>1, <2>7, <2>8 DEF VisibleHolds
  <1>6. ASSUME NEW k \in tick.todo, fireVoid(k) \/ fireLater(k) \/ fireFails(k) \/ fireNow(k)
        PROVE  VisibleHolds'
    <2>1. sched' = sched /\ now' = now /\ DOMAIN occ' = DOMAIN occ
      BY <1>6, RowHandled, FireNowRows DEF fireVoid, fireLater, fireFails, fireNow
    <2> QED
      BY <1>3, <2>1 DEF existingDates
  <1>7. CASE MarkNotified \/ TickStart
    <2>1. sched' = sched /\ now' = now /\ DOMAIN occ' = DOMAIN occ
      BY <1>7 DEF MarkNotified, TickStart, catchupSweep, SetStatus
    <2> QED
      BY <1>3, <2>1 DEF existingDates
  <1>8. CASE DeriveNext
    <2>1. /\ DOMAIN occ \subseteq DOMAIN occ' /\ sched' = sched /\ now' = now
          /\ \A j \in DOMAIN occ' \ DOMAIN occ : j.day = tick.row.day
          /\ tick.row \in DOMAIN occ
      BY <1>8, RowsDerived, DeriveIsTyped DEF DeriveNext, Typed, TickRows
    <2>2. existingDates(occ') = existingDates(occ)
      BY <2>1 DEF existingDates
    <2> QED
      BY <1>3, <2>1, <2>2
  <1>9. CASE TickEnd
    <2>1. /\ sched' = materializeSchedule(sched, occ, NONE).sched
          /\ occ' = materializeSchedule(sched, occ, NONE).occ /\ now' = now
      BY <1>9 DEF TickEnd, TickReturns
    <2>2. sched'.rule = sched.rule /\ Today' = Today
      BY <2>1, Materialized DEF Typed, Today
    <2>3. /\ Bounded(existingDates(occ'))
          /\ \A d \in sched.rule.days, e \in existingDates(occ') :
                d > Today /\ d < e => d \in existingDates(occ')
      BY <2>1, NoGapsMade DEF Typed, VisibleHolds, NoGaps
    <2> QED
      BY <1>1, <2>2, <2>3 DEF VisibleHolds, NoGaps
  <1>10. CASE Crash \/ UNCHANGED vars
    <2>1. UNCHANGED <<now, sched, occ>>
      BY <1>10 DEF Crash, vars
    <2> QED
      BY <1>3, <2>1
  <1>11. CASE ClockTicks
    <2>1. UNCHANGED <<sched, occ>> /\ now' = now + 1 /\ now \in Nat
      BY <1>11 DEF ClockTicks, Typed
    <2>2. now' \div DAY >= now \div DAY /\ now' \div DAY \in Int
      <3>1. DAY \in Nat \ {0}
        BY ScheduleConstants
      <3> QED
        BY <2>1, <3>1
    <2>3. Today' \in Int /\ \A d \in Nat : d > Today' => d > Today
      BY <1>2, <2>2 DEF Today
    <2>4. sched.rule.days \subseteq Nat
      BY ScheduleConstants DEF Typed, ScheduleRow
    <2>5. NoGaps'
      BY <2>1, <2>3, <2>4 DEF VisibleHolds, NoGaps
    <2> QED
      BY <1>1, <2>1, <2>5 DEF VisibleHolds
  <1> QED
    BY <1>4, <1>5, <1>6, <1>7, <1>8, <1>9, <1>10, <1>11 DEF Next, Fire

\* The scan reaches the first event without a row, if fewer dates have rows than it has
\* iterations.
LEMMA FirstNewIsTaken ==
  ASSUME Typed, NEW s \in ScheduleRow, NEW o, Occurrences(o), Bounded(existingDates(o)),
         Rows(o, {"pending"}) = {}, ~countReached(s, existingDates(o)),
         Cardinality(existingDates(o)) < EXEMPT_SCAN_ITERATIONS,
         NEW d \in candidates(s, cursor(o, NONE)), d \notin existingDates(o)
  PROVE  \E n \in materializedDays(s, o, NONE) : isNew(s, o, n)
  <1> DEFINE all == candidates(s, cursor(o, NONE))
             fresh == {c \in all : isNew(s, o, c)}
  <1>1. all \subseteq Nat
    <2>1. s.rule.days \subseteq Nat
      BY ScheduleConstants DEF ScheduleRow
    <2> QED
      BY <2>1 DEF candidates
  <1>2. s.offsets \in Seq(Int) /\ Len(s.offsets) > 0
    BY ScheduleConstants DEF ScheduleRow
  <1>3. \A c \in all : ~isNew(s, o, c) => c \in existingDates(o)
    <2>1. 1 \in DOMAIN s.offsets
      BY <1>2
    <2>2. \A c : ~isNew(s, o, c) => Key(c, s.time, 1 - 1, 0) \in DOMAIN o
      BY <2>1 DEF isNew
    <2>3. \A c : Key(c, s.time, 1 - 1, 0).day = c
      BY DEF Key
    <2> QED
      BY <2>2, <2>3 DEF existingDates
  <1>4. fresh # {}
    BY <1>3
  <1>5. PICK n \in fresh : \A c \in fresh : n <= c
    BY <1>1, <1>4, LeastOfNaturals
  <1> DEFINE before == {c \in all : c < n}
             new == {c \in before : isNew(s, o, c)}
  <1>6. new = {}
    BY <1>1, <1>5
  <1>7. before \subseteq existingDates(o)
    BY <1>3, <1>6
  <1>8. Cardinality(before) < EXEMPT_SCAN_ITERATIONS
    <2>1. IsFiniteSet(existingDates(o))
      BY DatesAreNumbers, FS_BoundedSetOfNaturals DEF Bounded
    <2> HIDE DEF before
    <2>2. /\ Cardinality(before) <= Cardinality(existingDates(o)) /\ Cardinality(before) \in Nat
          /\ Cardinality(existingDates(o)) \in Nat
      BY <1>7, <2>1, FS_Subset, FS_CardinalityType
    <2>3. EXEMPT_SCAN_ITERATIONS \in Nat
      BY SchedulesAssumption
    <2> QED
      BY <2>2, <2>3
  <1>9. takes(s, o, all, n)
    <2>1. existingDates(o) \cup new = existingDates(o)
      BY <1>6
    <2> QED
      BY <1>6, <1>8, <2>1 DEF takes
  <1>10. n \in materializedDays(s, o, NONE)
    BY <1>5, <1>9 DEF materializedDays
  <1> QED
    BY <1>5, <1>10

VisibleAtEnd ==
    IF sched'.status = "active"
    THEN \/ Rows(occ', {"pending"}) # {}
         \/ countReached(sched, existingDates(occ'))
         \/ candidates(sched, Today) \ existingDates(occ') = {}
    ELSE sched.status = "active" => Rows(occ', {"pending"}) = {}

LEMMA EndShowsNext ==
  ASSUME Typed, VisibleHolds, TickEnd, Cardinality(existingDates(occ)) < EXEMPT_SCAN_ITERATIONS
  PROVE  VisibleAtEnd
  <1> DEFINE days == materializedDays(sched, occ, NONE)
             new == insertOrIgnore(occ, inserted(sched, days))
  <1>1. /\ sched' = materializeSchedule(sched, occ, NONE).sched
        /\ occ' = materializeSchedule(sched, occ, NONE).occ /\ sched \in ScheduleRow
        /\ Occurrences(occ) /\ Bounded(existingDates(occ))
    BY DEF TickEnd, TickReturns, Typed, VisibleHolds
  <1>2. Grown(sched, occ, occ')
    BY <1>1, Materialized
  <1>3. CASE sched.status # "active"
    BY <1>1, <1>3 DEF materializeSchedule, VisibleAtEnd
  <1>4. CASE sched.status = "active" /\ sched'.status # "active"
    <2>1. sched' = finalizeExhaustedSchedule(sched, new) /\ occ' = new
      BY <1>1, <1>4 DEF materializeSchedule
    <2> HIDE DEF new
    <2>2. Rows(new, {"pending"}) = {}
      BY <1>4, <2>1 DEF finalizeExhaustedSchedule
    <2> QED
      BY <1>4, <2>1, <2>2 DEF VisibleAtEnd
  <1>5. CASE sched.status = "active" /\ sched'.status = "active"
    <2> SUFFICES ASSUME Rows(occ', {"pending"}) = {}, ~countReached(sched, existingDates(occ')),
                        NEW d \in candidates(sched, Today), d \notin existingDates(occ')
                 PROVE  FALSE
      BY <1>5 DEF VisibleAtEnd
    <2>1. /\ DOMAIN occ \subseteq DOMAIN occ' /\ \A k \in DOMAIN occ : occ'[k] = occ[k]
          /\ existingDates(occ) \subseteq existingDates(occ')
      BY <1>2 DEF Grown, existingDates
    <2>2. \A k \in DOMAIN occ' \ DOMAIN occ : occ'[k].status = "pending"
      BY <1>2, RowOf DEF Grown, Pending
    <2>3. DOMAIN occ' = DOMAIN occ /\ Rows(occ, {"pending"}) = {}
      BY <2>1, <2>2 DEF Rows
    <2>4. existingDates(occ') = existingDates(occ)
      BY <2>3 DEF existingDates
    <2>5. /\ d \in sched.rule.days /\ d \in Nat /\ d > Today /\ d <= Today + FAR_HORIZON_DAYS
          /\ sched.rule.until = NONE \/ d <= sched.rule.until
      BY ScheduleConstants DEF candidates, Typed, ScheduleRow
    <2>6. d > cursor(occ, NONE)
      <3>1. CASE cursor(occ, NONE) = Today - 1
        BY <2>5, <3>1, TodayIsADay
      <3>2. CASE cursor(occ, NONE) \in existingDates(occ)
        <4>1. ~(d < cursor(occ, NONE)) /\ d # cursor(occ, NONE)
          BY <2>4, <2>5, <3>2 DEF VisibleHolds, NoGaps
        <4>2. cursor(occ, NONE) \in Nat
          BY <1>1, <3>2, DatesAreNumbers
        <4> QED
          BY <2>5, <4>1, <4>2
      <3> QED
        BY <1>1, <3>1, <3>2, CursorIs
    <2>7. d \in candidates(sched, cursor(occ, NONE))
      BY <2>5, <2>6 DEF candidates
    <2>8. PICK n \in materializedDays(sched, occ, NONE) : isNew(sched, occ, n)
      BY <1>1, <2>3, <2>4, <2>7, FirstNewIsTaken
    <2>9. \E k \in DOMAIN occ' \ DOMAIN occ : k.day = n
      BY <1>1, <1>5, <2>8, RowsOfTaken
    <2> QED
      BY <2>3, <2>9
  <1> QED
    BY <1>3, <1>4, <1>5

\* As long as no update rebuilds the rows, and fewer dates have rows than the scan of the
\* exempt event has iterations, a whole tick leaves an active schedule its next reminder,
\* or none was left to make: neither horizon nor cursor passes a date over for good.
THEOREM NextIsVisible ==
    Init /\ [][/\ Next /\ ~Rebuilding
              /\ Cardinality(existingDates(occ)) < EXEMPT_SCAN_ITERATIONS]_vars
        => NextStaysVisible
  <1> DEFINE Step == /\ Next /\ ~Rebuilding
                     /\ Cardinality(existingDates(occ)) < EXEMPT_SCAN_ITERATIONS
             Shown == tick.phase = "fire" /\ tick'.phase = "idle" /\ faults' = faults
                         => VisibleAtEnd
  <1>1. Init => Typed /\ VisibleHolds
    BY InitIsTyped, VisibleAtStart
  <1>2. Typed /\ VisibleHolds /\ [Step]_vars => (Typed /\ VisibleHolds)'
    <2> SUFFICES ASSUME Typed, VisibleHolds, [Step]_vars
                 PROVE  Typed' /\ VisibleHolds'
      OBVIOUS
    <2>1. CASE Step
      BY <2>1, StepKinds, VisibleKept
    <2>2. CASE UNCHANGED vars
      <3>1. Typed'
        BY <2>2, StepKinds
      <3> QED
        BY <2>2, <3>1 DEF vars, VisibleHolds, NoGaps, Bounded, Today
    <2> QED
      BY <2>1, <2>2
  <1>3. Typed /\ VisibleHolds /\ [Step]_vars => [Shown]_vars
    <2> SUFFICES ASSUME Typed, VisibleHolds, Step, tick.phase = "fire", tick'.phase = "idle",
                        faults' = faults
                 PROVE  VisibleAtEnd
      OBVIOUS
    <2>1. ~Tools
      BY DEF Tools, updateSchedule, completeOccurrence, completeTorn, snoozeSchedule,
             skipSchedule, completeSchedule, deleteSchedule, Active, Tool
    <2>2. ~Fire /\ ~ \E k \in tick.todo : fireFails(k)
      BY RowHandled, FireNowRows, RowMarked, DeriveIsTyped DEF Fire
    <2>3. ~runOccurrenceCleanup /\ ~TickStart /\ ~ClockTicks
      BY DEF runOccurrenceCleanup, TickStart, ClockTicks
    <2>4. ~Crash
      BY DEF Crash, VisibleHolds
    <2> QED
      BY <2>1, <2>2, <2>3, <2>4, EndShowsNext DEF Next
  <1>4. [][Shown]_vars => NextStaysVisible
    BY PTL DEF NextStaysVisible, VisibleAtEnd
  <1> QED
    BY <1>1, <1>2, <1>3, <1>4, PTL

-----------------------------------------------------------------------------
(* Settled events, as long as no update rebuilds the rows and none are cleaned up under
   an older reminder that is still to come. *)

\* The due rows still to fire are pending; the row in hand is, until it is marked.
RowsInHand ==
    /\ tick.phase = "fire" => \A k \in tick.todo : occ[k].status = "pending"
    /\ tick.phase \in {"mark", "derive"} =>
          \A k \in tick.todo \ {tick.row} : occ[k].status = "pending"
    /\ tick.phase = "mark" => occ[tick.row].status = "pending"
    /\ tick.phase = "derive" => occ[tick.row].status = "notified"

\* An event with a row has the normal row of each offset.
WholeEvents ==
    \A k \in DOMAIN occ :
        /\ k.time = sched.time
        /\ \A i \in DOMAIN sched.offsets : Key(k.day, k.time, i - 1, 0) \in DOMAIN occ

\* A day before today and not after the day of any row: the loop begins behind it.
LeftBehind(d) == d \in Int /\ d < Today /\ \A k \in DOMAIN occ : d <= k.day

SettledHasRows ==
    \A e \in settled : (\E k \in DOMAIN occ : eventPrefixOf(k) = e) \/ LeftBehind(e[1])

SettledHolds == RowsInHand /\ WholeEvents /\ SettledHasRows /\ SettledStaysQuiet

DaysGoOn == Today \in Int /\ Today' \in Int /\ Today <= Today'

LEMMA DaysAdvance ==
  ASSUME Typed, [Next]_vars
  PROVE  DaysGoOn
  <1>1. now' = now \/ now' = now + 1
    BY DEF Next, Tools, Fire, updateSchedule, completeOccurrence, completeTorn, snoozeSchedule,
           skipSchedule, completeSchedule, deleteSchedule, runOccurrenceCleanup, TickStart,
           fireVoid, fireLater, fireNow, MarkNotified, DeriveNext, TickEnd, fireFails, Crash,
           ClockTicks, vars
  <1>2. now \in Nat /\ DAY \in Nat \ {0}
    BY ScheduleConstants DEF Typed
  <1>3. now \div DAY \in Int /\ now' \div DAY \in Int /\ now \div DAY <= now' \div DAY
    BY <1>1, <1>2
  <1> QED
    BY <1>3 DEF DaysGoOn, Today

LEMMA SettledAtStart ==
  ASSUME Init
  PROVE  SettledHolds
  <1>1. PICK s \in Schedule : /\ sched = materializeSchedule(s, << >>, NONE).sched
                             /\ occ = materializeSchedule(s, << >>, NONE).occ
    BY DEF Init
  <1>2. s \in ScheduleRow
    BY DEF Schedule, ScheduleRow
  <1> DEFINE o == << >>
  <1>3. DOMAIN o = {} /\ Occurrences(o)
    BY DEF Occurrences
  <1> HIDE DEF o
  <1>4. sched.offsets = s.offsets /\ sched.time = s.time /\ Whole(s, o, occ)
    BY <1>1, <1>2, <1>3, Materialized DEF o
  <1>5. WholeEvents
    BY <1>3, <1>4 DEF Whole, WholeEvents
  <1>6. RowsInHand /\ SettledHasRows /\ SettledStaysQuiet
    BY DEF Init, RowsInHand, SettledHasRows, SettledStaysQuiet
  <1> QED
    BY <1>5, <1>6 DEF SettledHolds

\* The schedule keeps its time and its offsets, the rows stay, and none comes back.
Receding ==
    /\ sched'.time = sched.time /\ sched'.offsets = sched.offsets
    /\ DOMAIN occ' = DOMAIN occ
    /\ \A k \in DOMAIN occ : occ'[k].status \in Unfinished => occ[k].status \in Unfinished

LEMMA StillBehind ==
  ASSUME DaysGoOn, NEW d, LeftBehind(d),
         \A k \in DOMAIN occ' : \E j \in DOMAIN occ : j.day = k.day
  PROVE  LeftBehind(d)'
  <1>1. d \in Int /\ d < Today /\ \A k \in DOMAIN occ : d <= k.day
    BY DEF LeftBehind
  <1>2. d < Today'
    BY <1>1 DEF DaysGoOn
  <1>3. \A k \in DOMAIN occ' : d <= k.day
    BY <1>1
  <1> QED
    BY <1>1, <1>2, <1>3 DEF LeftBehind

LEMMA RecedingIsQuiet ==
  ASSUME DaysGoOn, SettledHolds, Receding, settled' = settled
  PROVE  WholeEvents' /\ SettledHasRows' /\ SettledStaysQuiet'
  <1>1. WholeEvents'
    BY DEF SettledHolds, WholeEvents, Receding
  <1>2. SettledHasRows'
    BY StillBehind DEF SettledHolds, SettledHasRows, Receding
  <1>3. SettledStaysQuiet'
    BY DEF SettledHolds, SettledStaysQuiet, Receding, Rows
  <1> QED
    BY <1>1, <1>2, <1>3

LEMMA StatusRecedes ==
  ASSUME Typed, NEW K, NEW st \in {"done", "cancelled"}, occ' = SetStatus(occ, K, st),
         sched'.time = sched.time, sched'.offsets = sched.offsets
  PROVE  /\ Receding
         /\ \A k \in K \cap DOMAIN occ : occ'[k].status \notin Unfinished
         /\ \A k \in DOMAIN occ \ K : occ'[k] = occ[k]
  <1>1. /\ DOMAIN occ' = DOMAIN occ
        /\ \A k \in DOMAIN occ : /\ k \in K => occ'[k].status = st
                                 /\ k \notin K => occ'[k] = occ[k]
    BY StatusSet DEF Typed, Statuses
  <1> QED
    BY <1>1 DEF Receding, Unfinished

\* The rows of the event of k end with it.
LEMMA EventSettled ==
  ASSUME Typed, DaysGoOn, SettledHolds, NEW k \in DOMAIN occ, NEW st \in {"done", "cancelled"},
         occ' = SetStatus(occ, OfEvent(occ, k), st), Settle({k}),
         sched'.time = sched.time, sched'.offsets = sched.offsets
  PROVE  WholeEvents' /\ SettledHasRows' /\ SettledStaysQuiet'
  <1>1. /\ Receding
        /\ \A j \in OfEvent(occ, k) \cap DOMAIN occ : occ'[j].status \notin Unfinished
        /\ \A j \in DOMAIN occ \ OfEvent(occ, k) : occ'[j] = occ[j]
    BY StatusRecedes
  <1>2. settled' = settled \cup {eventPrefixOf(k)}
    BY DEF Settle
  <1>3. WholeEvents'
    BY <1>1 DEF SettledHolds, WholeEvents, Receding
  <1>4. SettledHasRows'
    BY <1>1, <1>2, StillBehind DEF SettledHolds, SettledHasRows, Receding
  <1>5. ASSUME NEW j \in DOMAIN occ', occ'[j].status \in Unfinished
        PROVE  eventPrefixOf(j) \notin settled'
    <2>1. j \in DOMAIN occ /\ j \notin OfEvent(occ, k) /\ occ[j].status \in Unfinished
      BY <1>1, <1>5 DEF Receding
    <2>2. eventPrefixOf(j) # eventPrefixOf(k)
      BY <2>1 DEF OfEvent, Rows
    <2>3. eventPrefixOf(j) \notin settled
      BY <2>1 DEF SettledHolds, SettledStaysQuiet, Rows
    <2> QED
      BY <1>2, <2>2, <2>3
  <1> QED
    BY <1>3, <1>4, <1>5 DEF SettledStaysQuiet, Rows

LEMMA ToolsSettle ==
  ASSUME Typed, DaysGoOn, SettledHolds, Tools, ~Rebuilding
  PROVE  SettledHolds'
  <1>0. RowsInHand'
    <2>1. tick' = tick /\ tick.phase = "idle"
      BY ToolsAreCalm DEF Tool
    <2> QED
      BY <2>1 DEF RowsInHand
  <1>1. ASSUME NEW field \in Patchable, NEW value \in PatchValues[field], updateSchedule(field, value)
        PROVE  SettledHolds'
    <2>1. field \notin {"rule", "time", "offsets", "status"}
      BY <1>1 DEF Rebuilding
    <2>2. sched' = [sched EXCEPT ![field] = value] /\ occ' = occ /\ settled' = settled
      BY <1>1, <2>1 DEF updateSchedule
    <2>3. Receding
      BY <2>1, <2>2, FieldUpdated DEF Receding
    <2> QED
      BY <1>0, <2>2, <2>3, RecedingIsQuiet DEF SettledHolds
  <1>2. ASSUME NEW k \in DOMAIN occ, NEW all \in BOOLEAN, completeOccurrence(k, all)
        PROVE  SettledHolds'
    <2>1. /\ occ' = SetStatus(occ, OfEvent(occ, k), "done") /\ Settle({k})
          /\ sched' \in {sched, [sched EXCEPT !.status = "done"]}
      BY <1>2 DEF completeOccurrence
    <2> QED
      BY <1>0, <2>1, StatusOfSchedule, EventSettled DEF SettledHolds
  <1>3. ASSUME NEW K, completeTorn(K)
        PROVE  SettledHolds'
    <2>1. occ' = SetStatus(occ, K, "done") /\ sched' = sched /\ settled' = settled
      BY <1>3 DEF completeTorn
    <2> QED
      BY <1>0, <2>1, StatusRecedes, RecedingIsQuiet DEF SettledHolds
  <1>4. ASSUME NEW k \in DOMAIN occ, NEW due, snoozeSchedule(k, due)
        PROVE  SettledHolds'
    <2>1. /\ k \in Rows(occ, Unfinished) /\ occ' = [occ EXCEPT ![k] = Pending(due)]
          /\ sched' = sched /\ settled' = settled
      BY <1>4 DEF snoozeSchedule
    <2>2. Receding
      BY <2>1 DEF Receding, Rows
    <2> QED
      BY <1>0, <2>1, <2>2, RecedingIsQuiet DEF SettledHolds
  <1>5. ASSUME NEW k \in DOMAIN occ, skipSchedule(k)
        PROVE  SettledHolds'
    <2>1. /\ occ' = SetStatus(occ, OfEvent(occ, k), "cancelled") /\ Settle({k})
          /\ sched' \in {sched, [sched EXCEPT !.status = "done"]}
      BY <1>5 DEF skipSchedule
    <2> QED
      BY <1>0, <2>1, StatusOfSchedule, EventSettled DEF SettledHolds
  <1>6. ASSUME NEW all \in BOOLEAN, completeSchedule(all)
        PROVE  SettledHolds'
    <2>1. /\ occ' = SetStatus(occ, Rows(occ, Unfinished), "done") /\ Settle(Rows(occ, Unfinished))
          /\ sched' \in {sched, [sched EXCEPT !.status = "done"]}
      BY <1>6 DEF completeSchedule
    <2>2. sched'.time = sched.time /\ sched'.offsets = sched.offsets
      BY <2>1, StatusOfSchedule
    <2>3. /\ Receding
          /\ \A k \in Rows(occ, Unfinished) : occ'[k].status \notin Unfinished
          /\ DOMAIN occ' = DOMAIN occ
      <3>1. Rows(occ, Unfinished) \subseteq DOMAIN occ
        BY DEF Rows
      <3> QED
        BY <2>1, <2>2, <3>1, StatusRecedes DEF Receding
    <2>4. WholeEvents'
      BY <2>3 DEF SettledHolds, WholeEvents, Receding
    <2>5. SettledHasRows'
      BY <2>1, <2>3, StillBehind DEF SettledHolds, SettledHasRows, Settle, Rows
    <2>6. Rows(occ', Unfinished) = {}
      BY <2>3 DEF Receding, Rows
    <2>7. SettledStaysQuiet'
      BY <2>6 DEF SettledStaysQuiet
    <2> QED
      BY <1>0, <2>4, <2>5, <2>7 DEF SettledHolds
  <1>7. ASSUME deleteSchedule
        PROVE  SettledHolds'
    <2>1. /\ occ' \in {<< >>, occ} /\ settled' = {}
          /\ sched' = [sched EXCEPT !.status = "cancelled"]
      BY <1>7 DEF deleteSchedule
    <2>2. sched'.time = sched.time /\ sched'.offsets = sched.offsets
      BY <2>1, StatusOfSchedule
    <2>3. DOMAIN occ' \in {{}, DOMAIN occ}
      BY <2>1
    <2>4. WholeEvents'
      BY <2>2, <2>3 DEF SettledHolds, WholeEvents
    <2> QED
      BY <1>0, <2>1, <2>4 DEF SettledHolds, SettledHasRows, SettledStaysQuiet
  <1> QED
    BY <1>1, <1>2, <1>3, <1>4, <1>5, <1>6, <1>7 DEF Tools

\* The steps of the tick that add no rows.
LEMMA RowsSettle ==
  ASSUME Typed, DaysGoOn, SettledHolds, NEW k \in tick.todo,
         fireVoid(k) \/ fireLater(k) \/ fireFails(k) \/ fireNow(k)
  PROVE  SettledHolds'
  <1>1. /\ tick.phase = "fire" /\ k \in DOMAIN occ /\ tick.todo \subseteq DOMAIN occ
        /\ sched' = sched /\ settled' = settled
        /\ \A j \in tick.todo : occ[j].status = "pending"
    BY DEF fireVoid, fireLater, fireFails, fireNow, Firing, Typed, TickRows, SettledHolds, RowsInHand
  <1>2. /\ Receding /\ \A j \in DOMAIN occ \ {k} : occ'[j] = occ[j]
    <2>1. CASE fireVoid(k)
      <3>1. occ' = SetStatus(occ, {k}, "cancelled")
        BY <2>1 DEF fireVoid
      <3> QED
        BY <1>1, <3>1, StatusRecedes
    <2>2. CASE fireLater(k) \/ fireFails(k) \/ fireNow(k)
      <3>1. isValid(k) /\ occ' = SetDue(occ, k, expectedDue(k))
        BY <2>2 DEF fireLater, fireFails, fireNow
      <3>2. /\ DOMAIN occ' = DOMAIN occ /\ occ'[k].status = occ[k].status
            /\ \A j \in DOMAIN occ : j # k => occ'[j] = occ[j]
        BY <1>1, <3>1, ExpectedDueIsATime, DueSet DEF Typed
      <3> QED
        BY <1>1, <3>2 DEF Receding
    <2> QED
      BY <2>1, <2>2
  <1>3. RowsInHand'
    <2>1. CASE fireNow(k)
      <3>1. occ' = SetDue(occ, k, expectedDue(k)) /\ isValid(k)
            /\ tick' = [phase |-> "mark", todo |-> tick.todo, row |-> k]
        BY <2>1 DEF fireNow
      <3>2. occ'[k].status = occ[k].status
        BY <1>1, <3>1, ExpectedDueIsATime, DueSet DEF Typed
      <3>3. tick'.phase = "mark" /\ tick'.todo = tick.todo /\ tick'.row = k
        BY <3>1
      <3> QED
        BY <1>1, <1>2, <3>2, <3>3 DEF RowsInHand
    <2>2. CASE fireVoid(k) \/ fireLater(k) \/ fireFails(k)
      <3>1. tick' = [phase |-> "fire", todo |-> tick.todo \ {k}]
        BY <2>2 DEF fireVoid, fireLater, fireFails, Passed
      <3>2. tick'.phase = "fire" /\ tick'.todo = tick.todo \ {k}
        BY <3>1
      <3> QED
        BY <1>1, <1>2, <3>2 DEF RowsInHand
    <2> QED
      BY <2>1, <2>2
  <1> QED
    BY <1>1, <1>2, <1>3, RecedingIsQuiet DEF SettledHolds

LEMMA MarkSettles ==
  ASSUME Typed, DaysGoOn, SettledHolds, MarkNotified
  PROVE  SettledHolds'
  <1>1. /\ tick.phase = "mark" /\ tick.row \in DOMAIN occ /\ occ[tick.row].status = "pending"
        /\ tick.todo \subseteq DOMAIN occ
        /\ \A k \in tick.todo \ {tick.row} : occ[k].status = "pending"
        /\ sched' = sched /\ settled' = settled
        /\ occ' = SetStatus(occ, {tick.row}, "notified")
        /\ tick' = [phase |-> "derive", todo |-> tick.todo, row |-> tick.row]
    BY DEF MarkNotified, Typed, TickRows, SettledHolds, RowsInHand
  <1>2. /\ DOMAIN occ' = DOMAIN occ /\ occ'[tick.row].status = "notified"
        /\ \A k \in DOMAIN occ : k # tick.row => occ'[k] = occ[k]
    BY <1>1, StatusSet DEF Typed, Statuses
  <1>3. Receding
    BY <1>1, <1>2 DEF Receding, Unfinished
  <1>4. tick'.phase = "derive" /\ tick'.todo = tick.todo /\ tick'.row = tick.row
    BY <1>1
  <1>5. RowsInHand'
    BY <1>1, <1>2, <1>4 DEF RowsInHand
  <1> QED
    BY <1>1, <1>3, <1>5, RecedingIsQuiet DEF SettledHolds

\* A derived row is of the event of a notified row, which is not settled.
LEMMA DeriveSettles ==
  ASSUME Typed, DaysGoOn, SettledHolds, DeriveNext
  PROVE  SettledHolds'
  <1> DEFINE r == tick.row
  <1>1. /\ tick.phase = "derive" /\ r \in DOMAIN occ /\ occ[r].status = "notified"
        /\ tick.todo \subseteq DOMAIN occ
        /\ \A k \in tick.todo \ {r} : occ[k].status = "pending"
        /\ sched' = sched /\ settled' = settled
        /\ tick' = [phase |-> "fire", todo |-> tick.todo \ {r}]
    BY DEF DeriveNext, Passed, Typed, TickRows, SettledHolds, RowsInHand
  <1>2. tick'.phase = "fire" /\ tick'.todo = tick.todo \ {r}
    BY <1>1
  <1> HIDE DEF r
  <1>3. /\ DOMAIN occ \subseteq DOMAIN occ' /\ \A k \in DOMAIN occ : occ'[k] = occ[k]
        /\ \A j \in DOMAIN occ' \ DOMAIN occ : eventPrefixOf(j) = eventPrefixOf(r)
    BY RowsDerived DEF r
  <1>4. RowsInHand'
    BY <1>1, <1>2, <1>3 DEF RowsInHand
  <1>5. WholeEvents'
    <2>1. \A k \in DOMAIN occ' : \E j \in DOMAIN occ : k.day = j.day /\ k.time = j.time
      BY <1>1, <1>3 DEF eventPrefixOf
    <2>2. ASSUME NEW k \in DOMAIN occ'
          PROVE  /\ k.time = sched.time
                 /\ \A i \in DOMAIN sched.offsets : Key(k.day, k.time, i - 1, 0) \in DOMAIN occ'
      <3>1. PICK j \in DOMAIN occ : k.day = j.day /\ k.time = j.time
        BY <2>1
      <3>2. /\ j.time = sched.time
            /\ \A i \in DOMAIN sched.offsets : Key(j.day, j.time, i - 1, 0) \in DOMAIN occ
        BY DEF SettledHolds, WholeEvents
      <3> QED
        BY <1>3, <3>1, <3>2
    <2> QED
      BY <1>1, <2>2 DEF WholeEvents
  <1>6. SettledHasRows'
    <2>1. \A k \in DOMAIN occ' : \E j \in DOMAIN occ : j.day = k.day
      BY <1>1, <1>3 DEF eventPrefixOf
    <2> QED
      BY <1>1, <1>3, <2>1, StillBehind DEF SettledHolds, SettledHasRows
  <1>7. SettledStaysQuiet'
    <2>1. eventPrefixOf(r) \notin settled
      BY <1>1 DEF SettledHolds, SettledStaysQuiet, Rows, Unfinished
    <2> QED
      BY <1>1, <1>3, <2>1 DEF SettledHolds, SettledStaysQuiet, Rows
  <1> QED
    BY <1>4, <1>5, <1>6, <1>7 DEF SettledHolds

LEMMA StartSettles ==
  ASSUME Typed, DaysGoOn, SettledHolds, TickStart
  PROVE  SettledHolds'
  <1>1. \E K : occ' = SetStatus(occ, K, "cancelled")
    BY DEF TickStart, catchupSweep
  <1>2. sched' = sched /\ settled' = settled
    BY DEF TickStart
  <1>3. Receding
    BY <1>1, <1>2, StatusRecedes
  <1>4. PICK T : T \in FirstDue(occ', dueRows(occ')) /\ tick' = [phase |-> "fire", todo |-> T]
    BY DEF TickStart
  <1>5. \A k \in T : occ'[k].status = "pending"
    <2>1. T \subseteq dueRows(occ')
      BY <1>4 DEF FirstDue
    <2> QED
      BY <2>1 DEF dueRows, Rows
  <1>6. tick'.phase = "fire" /\ tick'.todo = T
    BY <1>4
  <1>7. RowsInHand'
    BY <1>5, <1>6 DEF RowsInHand
  <1> QED
    BY <1>2, <1>3, <1>7, RecedingIsQuiet DEF SettledHolds

\* What the end of a tick materialises is of events without a row.
LEMMA EndSettles ==
  ASSUME Typed, VisibleHolds, Today' = Today, SettledHolds, TickEnd
  PROVE  SettledHolds'
  <1>1. /\ sched' = materializeSchedule(sched, occ, NONE).sched
        /\ occ' = materializeSchedule(sched, occ, NONE).occ /\ settled' = settled
        /\ tick' = [phase |-> "idle", todo |-> {}]
    BY DEF TickEnd, TickReturns
  <1>2. /\ sched'.time = sched.time /\ sched'.offsets = sched.offsets
        /\ Grown(sched, occ, occ') /\ Whole(sched, occ, occ')
        /\ sched.offsets \in Seq(Int)
        /\ existingDates(occ') \subseteq existingDates(occ) \cup materializedDays(sched, occ, NONE)
    BY <1>1, Materialized, ScheduleConstants DEF Typed, ScheduleRow
  <1>3. tick'.phase = "idle"
    BY <1>1
  <1>4. RowsInHand'
    BY <1>3 DEF RowsInHand
  <1>5. WholeEvents'
    <2>1. ASSUME NEW k \in DOMAIN occ'
          PROVE  /\ k.time = sched.time
                 /\ \A i \in DOMAIN sched.offsets : Key(k.day, k.time, i - 1, 0) \in DOMAIN occ'
      <3>1. CASE k \in DOMAIN occ
        BY <1>2, <3>1 DEF SettledHolds, WholeEvents, Grown
      <3>2. CASE k \notin DOMAIN occ
        BY <1>2, <3>2 DEF Whole
      <3> QED
        BY <3>1, <3>2
    <2> QED
      BY <1>2, <2>1 DEF WholeEvents
  \* A new date lies behind the cursor, and so behind every date left behind.
  <1>6. ASSUME NEW d, LeftBehind(d), NEW c \in materializedDays(sched, occ, NONE)
        PROVE  d < c /\ c \in Nat
    <2>1. c > cursor(occ, NONE) /\ c \in Nat
      <3>1. c \in candidates(sched, cursor(occ, NONE))
        BY DEF materializedDays
      <3>2. sched.rule.days \subseteq Nat
        BY ScheduleConstants DEF Typed, ScheduleRow
      <3> QED
        BY <3>1, <3>2 DEF candidates
    <2>2. cursor(occ, NONE) \in existingDates(occ) \/ cursor(occ, NONE) = Today - 1
      BY CursorIs DEF Typed, VisibleHolds
    <2>3. d \in Int /\ d < Today /\ \A e \in existingDates(occ) : d <= e
      BY <1>6 DEF LeftBehind, existingDates
    <2>4. Today \in Nat /\ existingDates(occ) \subseteq Nat
      BY TodayIsADay, DatesAreNumbers DEF Typed
    <2>5. cursor(occ, NONE) \in Int /\ d <= cursor(occ, NONE)
      BY <2>2, <2>3, <2>4
    <2> QED
      BY <2>1, <2>3, <2>5
  <1>7. SettledHasRows'
    <2>1. ASSUME NEW d, LeftBehind(d), NEW k \in DOMAIN occ'
          PROVE  d <= k.day
      <3>1. k.day \in existingDates(occ) \cup materializedDays(sched, occ, NONE)
        BY <1>2 DEF existingDates
      <3>2. CASE k.day \in existingDates(occ)
        BY <2>1, <3>2 DEF LeftBehind, existingDates
      <3>3. CASE k.day \in materializedDays(sched, occ, NONE)
        <4>1. d \in Int /\ d < k.day /\ k.day \in Nat
          BY <1>6, <2>1, <3>3 DEF LeftBehind
        <4> QED
          BY <4>1
      <3> QED
        BY <3>1, <3>2, <3>3
    <2>2. \A d : LeftBehind(d) => LeftBehind(d)'
      BY <2>1 DEF LeftBehind
    <2> QED
      BY <1>1, <1>2, <2>2 DEF SettledHolds, SettledHasRows, Grown
  <1>8. ASSUME NEW k \in DOMAIN occ' \ DOMAIN occ
        PROVE  eventPrefixOf(k) \notin settled
    <2> SUFFICES ASSUME eventPrefixOf(k) \in settled
                 PROVE  FALSE
      OBVIOUS
    <2>1. \/ \E j \in DOMAIN occ : eventPrefixOf(j) = eventPrefixOf(k)
          \/ LeftBehind(k.day)
      BY DEF SettledHolds, SettledHasRows, eventPrefixOf
    <2>2. CASE \E j \in DOMAIN occ : eventPrefixOf(j) = eventPrefixOf(k)
      <3>1. PICK j \in DOMAIN occ : eventPrefixOf(j) = eventPrefixOf(k)
        BY <2>2
      <3>2. /\ k \in Reminders /\ k.tail = 0 /\ k.idx < Len(sched.offsets) /\ k.idx \in Nat
        BY <1>2 DEF Grown, isNormalReminderKey, Reminders
      <3>3. k.idx + 1 \in DOMAIN sched.offsets /\ (k.idx + 1) - 1 = k.idx
        BY <1>2, <3>2
      <3>4. Key(j.day, j.time, (k.idx + 1) - 1, 0) \in DOMAIN occ
        BY <3>3 DEF SettledHolds, WholeEvents
      <3>5. j.day = k.day /\ j.time = k.time
        BY <3>1 DEF eventPrefixOf
      <3>6. k = Key(k.day, k.time, k.idx, 0)
        BY <3>2 DEF Reminders, Key
      <3> QED
        BY <3>3, <3>4, <3>5, <3>6
    <2>3. CASE LeftBehind(k.day) /\ ~\E j \in DOMAIN occ : eventPrefixOf(j) = eventPrefixOf(k)
      <3>1. k.time = sched.time /\ \A j \in DOMAIN occ : j.time = sched.time
        BY <1>2 DEF Whole, SettledHolds, WholeEvents
      <3>2. k.day \notin existingDates(occ)
        BY <2>3, <3>1 DEF existingDates, eventPrefixOf
      <3>3. k.day \in materializedDays(sched, occ, NONE)
        BY <1>2, <3>2 DEF existingDates
      <3>4. k.day < k.day /\ k.day \in Nat
        BY <1>6, <2>3, <3>3
      <3> QED
        BY <3>4
    <2> QED
      BY <2>1, <2>2, <2>3
  <1>9. SettledStaysQuiet'
    BY <1>1, <1>2, <1>8 DEF SettledHolds, SettledStaysQuiet, Rows, Grown
  <1> QED
    BY <1>4, <1>5, <1>7, <1>9 DEF SettledHolds

\* A clean-up although a reminder as old as the rows it removes is still to come.
CleansUnderPending ==
    /\ runOccurrenceCleanup
    /\ \E k \in Rows(occ, {"pending"}) : eventAt(k) < now - OCCURRENCE_CLEANUP_DAYS * DAY

LEMMA EarlierEvent ==
  ASSUME NEW j \in Reminders, NEW k \in Reminders, eventAt(j) < eventAt(k)
  PROVE  j.day <= k.day
  <1>1. DAY \in Nat \ {0} /\ j.day \in Nat /\ k.day \in Nat
    BY ScheduleConstants DEF Reminders
  <1>2. j.time \in 0..(DAY - 1) /\ k.time \in 0..(DAY - 1)
    BY SchedulesAssumption DEF Reminders
  <1>3. j.day * DAY + j.time < k.day * DAY + k.time
    BY DEF eventAt
  <1>4. SUFFICES ASSUME k.day + 1 <= j.day
                 PROVE  FALSE
    BY <1>1
  <1>5. \A a, b, c \in Int : a <= b /\ c > 0 => a * c <= b * c
    OBVIOUS
  <1>6. (k.day + 1) * DAY <= j.day * DAY
    BY <1>1, <1>4, <1>5
  <1>7. (k.day + 1) * DAY = k.day * DAY + DAY /\ k.day * DAY \in Nat /\ j.day * DAY \in Nat
    BY <1>1
  <1> QED
    BY <1>1, <1>2, <1>3, <1>6, <1>7

LEMMA OldEventIsPast ==
  ASSUME Typed, NEW k \in Reminders, eventAt(k) < now - OCCURRENCE_CLEANUP_DAYS * DAY
  PROVE  k.day < Today
  <1>1. /\ DAY \in Nat \ {0} /\ now \in Nat /\ k.day \in Nat
        /\ OCCURRENCE_CLEANUP_DAYS \in Nat \ {0}
    BY ScheduleConstants, SchedulesAssumption DEF Typed, Reminders
  <1>2. k.time \in 0..(DAY - 1)
    BY SchedulesAssumption DEF Reminders
  <1>3. \A a, b, c \in Int : a <= b /\ c > 0 => a * c <= b * c
    OBVIOUS
  <1>4. 1 * DAY <= OCCURRENCE_CLEANUP_DAYS * DAY /\ OCCURRENCE_CLEANUP_DAYS * DAY \in Nat
    BY <1>1, <1>3
  <1>5. k.day * DAY \in Nat /\ k.day * DAY + DAY < now
    BY <1>1, <1>2, <1>4 DEF eventAt
  <1> DEFINE q == now \div DAY
  <1>6. q \in Int /\ now < (q + 1) * DAY
    BY <1>1
  <1> HIDE DEF q
  <1>7. SUFFICES ASSUME q <= k.day
                 PROVE  FALSE
    BY <1>1, <1>6 DEF Today, q
  <1>8. (q + 1) * DAY <= (k.day + 1) * DAY
    BY <1>1, <1>3, <1>6, <1>7
  <1>9. (k.day + 1) * DAY = k.day * DAY + DAY
    BY <1>1
  <1>10. (q + 1) * DAY \in Int
    BY <1>1, <1>6
  <1> QED
    BY <1>1, <1>5, <1>6, <1>8, <1>9, <1>10

LEMMA CleanupSettles ==
  ASSUME Typed, SettledHolds, runOccurrenceCleanup, ~CleansUnderPending
  PROVE  SettledHolds'
  <1> DEFINE old == now - OCCURRENCE_CLEANUP_DAYS * DAY
             K == {k \in Rows(occ, {"notified", "done", "cancelled"}) : eventAt(k) < old}
  <1>1. /\ occ' = RemoveRows(occ, K) /\ tick.phase = "idle"
        /\ UNCHANGED <<now, sched, tick, settled>>
    BY DEF runOccurrenceCleanup
  <1>2. /\ DOMAIN occ' = DOMAIN occ \ K /\ \A k \in DOMAIN occ \ K : occ'[k] = occ[k]
        /\ DOMAIN occ \subseteq Reminders
    BY <1>1, RowsRemoved DEF Typed, Occurrences
  <1>3. \A k \in DOMAIN occ : k \in K <=> eventAt(k) < old
    BY DEF CleansUnderPending, Rows, Typed, Occurrences, OccurrenceRow, Statuses
  <1>4. old \in Int /\ Today' = Today
    BY <1>1, ScheduleConstants, SchedulesAssumption DEF Typed, Today
  <1> HIDE DEF K, old
  <1>5. RowsInHand'
    BY <1>1 DEF RowsInHand
  <1>6. WholeEvents'
    <2>1. ASSUME NEW k \in DOMAIN occ \ K, NEW i \in DOMAIN sched.offsets
          PROVE  Key(k.day, k.time, i - 1, 0) \in DOMAIN occ \ K
      <3>1. Key(k.day, k.time, i - 1, 0) \in DOMAIN occ
        BY DEF SettledHolds, WholeEvents
      <3>2. eventAt(Key(k.day, k.time, i - 1, 0)) = eventAt(k)
        BY DEF eventAt, Key
      <3> QED
        BY <1>3, <3>1, <3>2
    <2> QED
      BY <1>1, <1>2, <2>1 DEF SettledHolds, WholeEvents
  <1>7. SettledHasRows'
    <2>1. ASSUME NEW d, LeftBehind(d)
          PROVE  LeftBehind(d)'
      BY <1>2, <1>4, <2>1 DEF LeftBehind
    <2>2. ASSUME NEW k \in K \cap DOMAIN occ
          PROVE  LeftBehind(k.day)'
      <3>1. k \in Reminders /\ k.day \in Int /\ eventAt(k) < old
        BY <1>2, <1>3 DEF Reminders
      <3>2. k.day < Today
        BY <3>1, OldEventIsPast DEF old
      <3>3. ASSUME NEW j \in DOMAIN occ'
            PROVE  k.day <= j.day
        <4>1. j \in Reminders /\ ~(eventAt(j) < old)
          BY <1>2, <1>3
        <4>2. eventAt(k) < eventAt(j)
          BY <1>4, <3>1, <4>1, TimesAreNumbers
        <4> QED
          BY <3>1, <4>1, <4>2, EarlierEvent
      <3> QED
        BY <1>4, <3>1, <3>2, <3>3 DEF LeftBehind
    <2>3. ASSUME NEW e \in settled
          PROVE  (\E k \in DOMAIN occ' : eventPrefixOf(k) = e) \/ LeftBehind(e[1])'
      <3>1. CASE LeftBehind(e[1])
        BY <2>1, <3>1
      <3>2. CASE \E k \in DOMAIN occ : eventPrefixOf(k) = e
        <4>1. PICK k \in DOMAIN occ : eventPrefixOf(k) = e
          BY <3>2
        <4>2. e[1] = k.day
          BY <4>1 DEF eventPrefixOf
        <4> QED
          BY <1>2, <2>2, <4>1, <4>2
      <3> QED
        BY <3>1, <3>2 DEF SettledHolds, SettledHasRows
    <2> QED
      BY <1>1, <2>3 DEF SettledHasRows
  <1>8. SettledStaysQuiet'
    BY <1>1, <1>2 DEF SettledHolds, SettledStaysQuiet, Rows
  <1> QED
    BY <1>5, <1>6, <1>7, <1>8 DEF SettledHolds

LEMMA SettledKept ==
  ASSUME Typed, VisibleHolds, SettledHolds, [Next]_vars, ~Rebuilding, ~CleansUnderPending
  PROVE  SettledHolds'
  <1>0. DaysGoOn
    BY DaysAdvance
  <1>1. CASE Tools
    BY <1>0, <1>1, ToolsSettle
  <1>2. CASE Fire \/ \E k \in tick.todo : fireFails(k)
    BY <1>0, <1>2, RowsSettle, MarkSettles, DeriveSettles DEF Fire
  <1>3. CASE TickStart
    BY <1>0, <1>3, StartSettles
  <1>4. CASE TickEnd
    <2>1. Today' = Today
      BY <1>4 DEF TickEnd, TickReturns, Today
    <2> QED
      BY <1>4, <2>1, EndSettles
  <1>5. CASE Crash \/ ClockTicks
    <2>1. UNCHANGED <<sched, occ, settled>> /\ tick'.phase = "idle"
      BY <1>5 DEF Crash, ClockTicks
    <2>2. Receding
      BY <2>1 DEF Receding
    <2>3. RowsInHand'
      BY <2>1 DEF RowsInHand
    <2> QED
      BY <1>0, <2>1, <2>2, <2>3, RecedingIsQuiet DEF SettledHolds
  <1>6. CASE runOccurrenceCleanup
    BY <1>6, CleanupSettles
  <1>7. CASE UNCHANGED vars
    <2>1. UNCHANGED <<sched, occ, settled, tick>>
      BY <1>7 DEF vars
    <2>2. Receding
      BY <2>1 DEF Receding
    <2>3. RowsInHand'
      BY <2>1 DEF SettledHolds, RowsInHand
    <2> QED
      BY <1>0, <2>1, <2>2, <2>3, RecedingIsQuiet DEF SettledHolds
  <1> QED
    BY <1>1, <1>2, <1>3, <1>4, <1>5, <1>6, <1>7 DEF Next

\* As long as no update rebuilds the rows, and none are cleaned up under a reminder as old
\* that is still to come (put off for longer than rows are kept), no reminder of a
\* completed or skipped event is left or comes back: not another offset, no escalation
\* or resend of a tick, no row of a later materialisation, and none of a torn `complete'.
THEOREM SettledIsQuiet ==
    Init /\ [][Next /\ ~Rebuilding /\ ~CleansUnderPending]_vars => []SettledStaysQuiet
  <1> DEFINE Inv == Typed /\ VisibleHolds /\ SettledHolds
             Step == Next /\ ~Rebuilding /\ ~CleansUnderPending
  <1>1. Init => Inv
    BY InitIsTyped, VisibleAtStart, SettledAtStart
  <1>2. Inv /\ [Step]_vars => Inv'
    <2> SUFFICES ASSUME Inv, [Step]_vars
                 PROVE  Inv'
      OBVIOUS
    <2>1. CASE Step
      BY <2>1, StepKinds, VisibleKept, SettledKept
    <2>2. CASE UNCHANGED vars
      <3>1. Typed'
        BY <2>2, StepKinds
      <3>2. VisibleHolds' /\ SettledHolds'
        BY <2>2 DEF vars, VisibleHolds, NoGaps, Today, SettledHolds, RowsInHand, WholeEvents,
                    SettledHasRows, LeftBehind, SettledStaysQuiet, Rows
      <3> QED
        BY <3>1, <3>2
    <2> QED
      BY <2>1, <2>2
  <1>3. Inv => SettledStaysQuiet
    BY DEF SettledHolds
  <1> QED
    BY <1>1, <1>2, <1>3, PTL
=============================================================================
