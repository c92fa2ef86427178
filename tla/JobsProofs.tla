----------------------------- MODULE JobsProofs -----------------------------
(* Proofs about Jobs, for every set of jobs, every timetable and every value *)
(* of the waits and bounds.                                                  *)
EXTENDS Jobs, SequenceTheorems, FiniteSetTheorems, WellFoundedInduction, TLAPS

-----------------------------------------------------------------------------
(* The inductive invariant.                                                  *)

\* A handler runs for a row of its job, which stays `running' until the handler
\* has settled or timed out.
HandlersHaveRows ==
    \A h \in handlers : /\ h.run \in DOMAIN runs
                        /\ runs[h.run].job = h.job
                        /\ ~h.timedOut => runs[h.run].status = "running"

\* Nothing was recorded or planned for a slot node-cron may still emit: recorded
\* and planned slots lie behind the last poll, and that is the slot handled last.
SlotsArePolled ==
    /\ \A i \in DOMAIN runs : runs[i].slot <= polled[runs[i].job]
    /\ \A k \in DOMAIN plan : plan[k].slot <= polled[plan[k].job]
    /\ \A j \in Jobs : /\ polled[j] <= now
                       /\ lastSlot[j] # NULL => lastSlot[j] = polled[j]

\* A poll that is being replayed has a minute left to emit.
TurnHasMinutes == turn # NULL => Matches(turn) # {}

\* Without a process nothing runs and nothing is to come.
DownIsIdle == phase = "down" => handlers = {} /\ plan = <<>> /\ turn = NULL

IInv ==
    /\ TypeOK
    /\ OneHandlerPerJob
    /\ MarksMatchHandlers
    /\ HandlersHaveRows
    /\ SlotsArePolled
    /\ TurnHasMinutes
    /\ DownIsIdle

-----------------------------------------------------------------------------
(* Least and greatest slots.                                                 *)

\* A set of natural numbers that is not empty has a least element.
LEMMA LeastNatural ==
  ASSUME NEW S, S \subseteq Nat, S # {}
  PROVE  \E m \in S : \A n \in S : m <= n
  <1>1. \E m \in S : \A n \in S : ~ (<<n, m>> \in OpToRel(<, Nat))
    BY NatLessThanWellFounded, WFMin
  <1>2. PICK m \in S : \A n \in S : ~ (<<n, m>> \in OpToRel(<, Nat))
    BY <1>1
  <1>3. \A n \in S : ~ (n < m)
    BY <1>2 DEF OpToRel
  <1> QED
    BY <1>3

\* Among slots there is a latest one.
LEMMA GreatestSlot ==
  ASSUME NEW S, S \subseteq Slots, S # {}
  PROVE  \E m \in S : \A n \in S : n <= m
  <1> DEFINE T == {Horizon - s : s \in S}
  <1>1. Horizon \in Nat
    BY JobsAssumption
  <1>2. T \subseteq Nat
    BY <1>1 DEF Slots
  <1>3. T # {}
    OBVIOUS
  <1>4. PICK t \in T : \A n \in T : t <= n
    BY <1>2, <1>3, LeastNatural
  <1>5. PICK m \in S : t = Horizon - m
    OBVIOUS
  <1>6. \A n \in S : Horizon - m <= Horizon - n
    BY <1>4, <1>5
  <1> QED
    BY <1>1, <1>6 DEF Slots

\* The minutes of a poll are slots of the job, none later than now.
LEMMA MatchesAreSlots ==
  ASSUME NEW j \in Jobs
  PROVE  Matches(j) \subseteq {m \in Fires[j] : m <= now} /\ Fires[j] \subseteq Slots
  <1>1. Fires[j] \subseteq Slots
    BY JobsAssumption
  <1> QED
    BY <1>1, JobsAssumption DEF Matches, Slots

\* The oldest of them is one of them.
LEMMA OldestMatch ==
  ASSUME NEW j \in Jobs, Matches(j) # {}
  PROVE  /\ Oldest(Matches(j)) \in Matches(j)
         /\ Oldest(Matches(j)) \in Slots
         /\ \A n \in Matches(j) : Oldest(Matches(j)) <= n
  <1>1. Matches(j) \subseteq Nat /\ Matches(j) \subseteq Slots
    BY MatchesAreSlots, JobsAssumption DEF Slots
  <1>2. \E m \in Matches(j) : \A n \in Matches(j) : m <= n
    BY <1>1, LeastNatural
  <1> QED
    BY <1>1, <1>2 DEF Oldest

\* previousFireTime is a slot of the job that is past.
LEMMA PreviousFire ==
  ASSUME NEW j \in Jobs, Past(j) # {}
  PROVE  previousFireTime(j) \in Slots /\ previousFireTime(j) <= now
  <1>1. Past(j) \subseteq Slots
    BY JobsAssumption DEF Past
  <1>2. \E m \in Past(j) : \A n \in Past(j) : n <= m
    BY <1>1, GreatestSlot
  <1>3. previousFireTime(j) \in Past(j)
    BY <1>2 DEF previousFireTime
  <1> QED
    BY <1>1, <1>3 DEF Past

\* Elements of a set counted from below: each number short of its cardinality is
\* the number of elements below one of them.
LEMMA Ranks ==
  ASSUME NEW S, IsFiniteSet(S), S \subseteq Nat,
         NEW n \in Nat, n < Cardinality(S)
  PROVE  \E j \in S : Cardinality({i \in S : i < j}) = n
  <1> DEFINE Below(j) == {i \in S : i < j}
             Missed == {k \in Nat : k < Cardinality(S) /\ \A j \in S : Cardinality(Below(j)) # k}
  <1>1. Cardinality(S) \in Nat
    BY FS_CardinalityType
  <1>2. \A j \in S : IsFiniteSet(Below(j))
    BY FS_Subset
  <1>3. SUFFICES ASSUME Missed # {} PROVE FALSE
    OBVIOUS
  <1>4. PICK k \in Missed : \A l \in Missed : k <= l
    BY <1>3, LeastNatural
  <1>5. CASE k = 0
    <2>1. S # {}
      BY <1>4, <1>5, FS_EmptySet
    <2>2. PICK m \in S : \A i \in S : m <= i
      BY <2>1, LeastNatural
    <2>3. \A i \in S : ~ (i < m)
      BY <2>2
    <2>4. Below(m) = {}
      BY <2>3
    <2> QED
      BY <1>4, <1>5, <2>2, <2>4, FS_EmptySet
  <1>6. CASE k # 0
    <2>1. k - 1 \in Nat /\ k - 1 < Cardinality(S) /\ k - 1 \notin Missed
      BY <1>1, <1>4, <1>6
    <2>2. PICK j \in S : Cardinality(Below(j)) = k - 1
      BY <2>1
    <2> DEFINE Above == {i \in S : j < i}
               Upto == Below(j) \cup {j}
    <2>3. Cardinality(Upto) = k
      <3>1. j \notin Below(j)
        OBVIOUS
      <3>2. IsFiniteSet(Below(j))
        BY <1>2
      <3>3. Cardinality(Upto) = Cardinality(Below(j)) + 1
        BY <3>1, <3>2, FS_AddElement
      <3> QED
        BY <1>4, <2>2, <3>3
    <2>4. Above # {}
      <3>1. SUFFICES ASSUME Above = {} PROVE FALSE
        OBVIOUS
      <3>2. \A i \in S : i <= j
        BY <3>1
      <3>3. \A i \in S : i = j \/ i < j
        BY <3>2
      <3>4. S = Upto
        BY <3>3
      <3> QED
        BY <1>4, <2>3, <3>4
    <2>5. PICK m \in Above : \A i \in Above : m <= i
      BY <2>4, LeastNatural
    <2>6. \A i \in S : i < m <=> i = j \/ i < j
      BY <2>5
    <2>7. Below(m) = Upto
      BY <2>6
    <2> QED
      BY <1>4, <2>3, <2>5, <2>7
  <1> QED
    BY <1>5, <1>6

\* Catch-ups are planned for past slots of jobs.
LEMMA PlanIsTyped ==
  ASSUME NEW rs
  PROVE  /\ planCatchups(rs) \in Seq(Catchup)
         /\ \A k \in DOMAIN planCatchups(rs) : planCatchups(rs)[k].slot <= now
  <1> DEFINE S == ToCatchUp(rs)
             nth(k) == CHOOSE j \in S : Cardinality({i \in S : i < j}) = k - 1
  <1>1. S \subseteq Jobs /\ IsFiniteSet(S) /\ S \subseteq Nat
    BY JobsAssumption, FS_Subset DEF ToCatchUp
  <1>2. Cardinality(S) \in Nat
    BY <1>1, FS_CardinalityType
  <1>3. planCatchups(rs) =
          [k \in 1 .. Cardinality(S) |-> [job |-> nth(k), slot |-> previousFireTime(nth(k))]]
    BY DEF planCatchups
  <1>4. \A k \in 1 .. Cardinality(S) : nth(k) \in S
    <2> SUFFICES ASSUME NEW k \in 1 .. Cardinality(S) PROVE nth(k) \in S
      OBVIOUS
    <2>1. k - 1 \in Nat /\ k - 1 < Cardinality(S)
      BY <1>2
    <2>2. \E j \in S : Cardinality({i \in S : i < j}) = k - 1
      BY <1>1, <2>1, Ranks
    <2> QED
      BY <2>2
  <1>5. \A j \in S : Past(j) # {}
    BY DEF ToCatchUp
  <1>6. \A j \in S : previousFireTime(j) \in Slots /\ previousFireTime(j) <= now
    BY <1>1, <1>5, PreviousFire
  <1> HIDE DEF S, nth
  <1>7. \A k \in 1 .. Cardinality(S) :
           [job |-> nth(k), slot |-> previousFireTime(nth(k))] \in Catchup
    BY <1>1, <1>4, <1>6 DEF Catchup
  <1>8. planCatchups(rs) \in [1 .. Cardinality(S) -> Catchup]
    BY <1>3, <1>7
  <1> QED
    BY <1>2, <1>3, <1>4, <1>6, <1>8, SeqDef

-----------------------------------------------------------------------------
(* Writes of job_runs.                                                       *)

\* What the two action properties say of a step.
OutcomesStay ==
    \A i \in DOMAIN runs : runs[i].status # "running" => runs'[i] = runs[i]

NothingRerun ==
    \A h \in handlers' :
       h.run \notin {g.run : g \in handlers} =>
          \A i \in DOMAIN runs :
             runs[i].job = h.job /\ runs[i].status = "ok" => runs[i].slot < h.slot

Finished(rs) == \A i \in DOMAIN rs : rs[i].finished = NULL <=> rs[i].status = "running"

\* A new row stands behind the others.
LEMMA Appending ==
  ASSUME runs \in Seq(Row), NEW e \in Row
  PROVE  /\ DOMAIN runs = 1 .. Len(runs) /\ Len(runs) \in Nat
         /\ Append(runs, e) \in Seq(Row)
         /\ DOMAIN Append(runs, e) = 1 .. Len(runs) + 1
         /\ \A i \in DOMAIN runs : Append(runs, e)[i] = runs[i]
         /\ Append(runs, e)[Len(runs) + 1] = e
  BY LenProperties

\* The row of a new run, and the row of a run that is skipped.
LEMMA NewRowIsRow ==
  ASSUME now \in 0 .. Horizon, NEW j \in Jobs, NEW s \in Slots,
         NEW st \in {"running", "skipped"}
  PROVE  /\ NewRow(j, s, st) \in Row
         /\ NewRow(j, s, st).finished = NULL <=> NewRow(j, s, st).status = "running"
         /\ NewRow(j, s, st).job = j /\ NewRow(j, s, st).slot = s
         /\ NewRow(j, s, st).status = st
  BY JobsAssumption DEF NewRow, Row

\* finishJobRun ends one row, or leaves it.
LEMMA FinishStep ==
  ASSUME TypeOK, NEW i \in DOMAIN runs, NEW st \in {"ok", "failed"},
         finishJobRun(i, st)
  PROVE  /\ faults' \in Nat
         /\ runs' \in Seq(Row) /\ DOMAIN runs' = DOMAIN runs /\ Finished(runs')
         /\ \A k \in DOMAIN runs : /\ k # i => runs'[k] = runs[k]
                                   /\ runs'[k].job = runs[k].job
                                   /\ runs'[k].slot = runs[k].slot
  <1>1. now \in 0 .. Horizon /\ faults \in Nat /\ runs \in Seq(Row) /\ Finished(runs)
    BY DEF TypeOK, Finished
  <1>2. DOMAIN runs = 1 .. Len(runs)
    BY <1>1, LenProperties
  <1>3. CASE WriteFails /\ UNCHANGED runs
    BY <1>1, <1>3 DEF WriteFails
  <1>4. CASE runs' = [runs EXCEPT ![i].status = st, ![i].finished = now] /\ UNCHANGED faults
    <2> DEFINE e == [runs[i] EXCEPT !.status = st, !.finished = now]
    <2>1. runs[i] \in Row
      BY <1>1, <1>2, ElementOfSeq
    <2>2. /\ e \in Row /\ e.job = runs[i].job /\ e.slot = runs[i].slot
          /\ e.status = st /\ e.finished = now
      BY <1>1, <2>1 DEF Row
    <2>3. runs' = [runs EXCEPT ![i] = e]
      BY <1>1, <1>4
    <2> HIDE DEF e
    <2>4. /\ runs' \in Seq(Row) /\ Len(runs') = Len(runs)
          /\ \A k \in 1 .. Len(runs) : runs'[k] = IF k = i THEN e ELSE runs[k]
      BY <1>1, <1>2, <2>2, <2>3, ExceptSeq
    <2>5. DOMAIN runs' = DOMAIN runs
      BY <2>3
    <2>6. Finished(runs')
      BY <1>1, <1>2, <2>2, <2>4, <2>5, JobsAssumption DEF Finished
    <2> QED
      BY <1>1, <1>2, <1>4, <2>2, <2>4, <2>5, <2>6
  <1> QED
    BY <1>3, <1>4 DEF finishJobRun

\* run leaves the rows as they are and adds at most one, of this job and slot.
LEMMA RunWrites ==
  ASSUME TypeOK, NEW j \in Jobs, NEW s \in Slots, run(j, s)
  PROVE  /\ faults' \in Nat
         /\ runs' \in Seq(Row) /\ Finished(runs') /\ Len(runs') \in Nat
         /\ DOMAIN runs \subseteq DOMAIN runs'
         /\ \A i \in DOMAIN runs : runs'[i] = runs[i]
         /\ \A i \in DOMAIN runs' \ DOMAIN runs : runs'[i].job = j /\ runs'[i].slot = s
  <1>1. now \in 0 .. Horizon /\ faults \in Nat /\ runs \in Seq(Row) /\ Finished(runs)
    BY DEF TypeOK, Finished
  <1>2. /\ faults' \in Nat
        /\ \/ runs' = runs
           \/ \E st \in {"running", "skipped"} : runs' = Append(runs, NewRow(j, s, st))
    BY <1>1 DEF run, recordSkip, Begins, WriteFails
  <1>3. CASE runs' = runs
    BY <1>1, <1>2, <1>3, LenProperties
  <1>4. CASE \E st \in {"running", "skipped"} : runs' = Append(runs, NewRow(j, s, st))
    <2>1. PICK st \in {"running", "skipped"} : runs' = Append(runs, NewRow(j, s, st))
      BY <1>4
    <2> DEFINE e == NewRow(j, s, st)
    <2>2. /\ e \in Row /\ (e.finished = NULL <=> e.status = "running")
          /\ e.job = j /\ e.slot = s
      BY <1>1, NewRowIsRow
    <2>3. runs' = Append(runs, e)
      BY <2>1
    <2> HIDE DEF e
    <2>4. /\ DOMAIN runs = 1 .. Len(runs) /\ Len(runs) \in Nat
          /\ runs' \in Seq(Row)
          /\ DOMAIN runs' = 1 .. Len(runs) + 1
          /\ \A i \in DOMAIN runs : runs'[i] = runs[i]
          /\ runs'[Len(runs) + 1] = e
      BY <1>1, <2>2, <2>3, Appending
    <2>5. \A i \in DOMAIN runs' : i \in DOMAIN runs \/ i = Len(runs) + 1
      BY <2>4
    <2>6. Finished(runs')
      BY <1>1, <2>2, <2>4, <2>5 DEF Finished
    <2>7. Len(runs') \in Nat
      BY <2>4, LenProperties
    <2> QED
      BY <1>2, <2>2, <2>4, <2>5, <2>6, <2>7
  <1> QED
    BY <1>2, <1>3, <1>4

\* run begins a handler only for a job that has none, with a row of its own.
LEMMA RunHandlers ==
  ASSUME IInv, NEW j \in Jobs, NEW s \in Slots, run(j, s), zombies' = zombies
  PROVE  /\ handlers' \subseteq Handler /\ busy' \subseteq Jobs
         /\ OneHandlerPerJob' /\ MarksMatchHandlers' /\ HandlersHaveRows'
         /\ \A h \in handlers' : h \in handlers \/ (h.job = j /\ h.slot = s)
  <1>1. /\ DOMAIN runs \subseteq DOMAIN runs'
        /\ \A i \in DOMAIN runs : runs'[i] = runs[i]
    BY RunWrites DEF IInv
  <1>2. /\ handlers \subseteq Handler /\ busy \subseteq Jobs
        /\ OneHandlerPerJob /\ MarksMatchHandlers /\ HandlersHaveRows
        /\ now \in 0 .. Horizon /\ runs \in Seq(Row)
    BY DEF IInv, TypeOK
  <1>3. CASE UNCHANGED <<handlers, busy>>
    BY <1>1, <1>2, <1>3 DEF OneHandlerPerJob, MarksMatchHandlers, HandlersHaveRows
  <1>4. CASE j \notin busy \cup zombies /\ Begins(j, s)
    <2> DEFINE n == [job |-> j, slot |-> s, run |-> Len(runs) + 1,
                     age |-> 0, timedOut |-> FALSE]
               e == NewRow(j, s, "running")
    <2>1. /\ runs' = Append(runs, e)
          /\ handlers' = handlers \cup {n} /\ busy' = busy \cup {j}
      BY <1>4 DEF Begins
    <2>2. e \in Row /\ e.job = j /\ e.status = "running"
      BY <1>2, NewRowIsRow
    <2> HIDE DEF e
    <2>3. /\ Len(runs) \in Nat
          /\ DOMAIN runs' = 1 .. Len(runs) + 1 /\ runs'[Len(runs) + 1] = e
      BY <1>2, <2>1, <2>2, Appending
    <2>4. /\ n \in Handler /\ n.job = j /\ n.slot = s /\ ~n.timedOut
          /\ n.run \in DOMAIN runs' /\ runs'[n.run].job = j /\ runs'[n.run].status = "running"
      BY <2>2, <2>3, JobsAssumption DEF Handler
    <2> HIDE DEF n
    <2>5. \A h \in handlers : h.job # j
      BY <1>2, <1>4 DEF MarksMatchHandlers
    <2>6. OneHandlerPerJob'
      BY <1>2, <2>1, <2>4, <2>5 DEF OneHandlerPerJob
    <2>7. MarksMatchHandlers'
      BY <1>2, <2>1, <2>4 DEF MarksMatchHandlers
    <2>8. HandlersHaveRows'
      BY <1>1, <1>2, <2>1, <2>4 DEF HandlersHaveRows
    <2> QED
      BY <1>2, <2>1, <2>4, <2>6, <2>7, <2>8
  <1> QED
    BY <1>3, <1>4 DEF run

-----------------------------------------------------------------------------
(* Steps.                                                                    *)

Kept == IInv' /\ OutcomesStay /\ NothingRerun

\* A step that leaves the rows as they are and begins no handler.
LEMMA NothingBegins ==
  ASSUME UNCHANGED runs, \A h \in handlers' : h.run \in {g.run : g \in handlers}
  PROVE  OutcomesStay /\ NothingRerun
  BY DEF OutcomesStay, NothingRerun

\* One emitted minute. It is the last one again, or lies behind what was polled.
LEMMA CronMatchKeeps ==
  ASSUME IInv, NEW j \in Jobs, CronMatch(j)
  PROVE  Kept
  <1> DEFINE m == Oldest(Matches(j))
  <1>1. turn = j /\ Matches(j) # {}
    BY JobsAssumption DEF CronMatch, IInv, TurnHasMinutes
  <1>2. m \in Matches(j) /\ m \in Slots
    BY <1>1, OldestMatch
  <1>3. m \in Int /\ m <= now /\ now \in 0 .. Horizon /\ m \in 0 .. Horizon
    BY <1>2, MatchesAreSlots, JobsAssumption DEF IInv, TypeOK, Slots
  <1>4. polled \in [Jobs -> 0 .. Horizon] /\ lastSlot \in [Jobs -> Slots \cup {NULL}]
    BY DEF IInv, TypeOK
  <1>5. polled[j] < m \/ m = lastSlot[j]
    BY <1>2 DEF Matches
  <1>6. /\ polled' = [polled EXCEPT ![j] = m]
        /\ lastSlot' = [lastSlot EXCEPT ![j] = m]
        /\ again' \in {again \ {j}, again \cup {j}}
        /\ turn' = IF \E n \in Matches(j) : n > m THEN j ELSE NULL
        /\ \/ m = lastSlot[j] /\ UNCHANGED <<faults, runs, handlers, busy>>
           \/ m # lastSlot[j] /\ run(j, m)
        /\ UNCHANGED <<now, procVars, zombies, plan, catching>>
    BY DEF CronMatch
  <1> HIDE DEF m
  <1>7. /\ polled' \in [Jobs -> 0 .. Horizon] /\ lastSlot' \in [Jobs -> Slots \cup {NULL}]
        /\ \A k \in Jobs : k # j => polled'[k] = polled[k] /\ lastSlot'[k] = lastSlot[k]
        /\ polled'[j] = m /\ lastSlot'[j] = m
    BY <1>2, <1>3, <1>4, <1>6
  <1>8. \A k \in Jobs : polled[k] <= polled'[k] /\ polled[k] \in Int /\ polled'[k] \in Int
    <2>1. polled[j] <= m
      BY <1>2, <1>3, <1>4, <1>5, JobsAssumption DEF IInv, SlotsArePolled, Slots
    <2> QED
      BY <1>3, <1>4, <1>7, <2>1
  <1>9. TurnHasMinutes'
    <2> SUFFICES ASSUME turn' # NULL PROVE Matches(turn)' # {}
      BY DEF TurnHasMinutes
    <2>1. PICK n \in Matches(j) : n > m /\ turn' = j
      BY <1>6
    <2>2. n \in Fires[j] /\ n <= now /\ CATCHUP_POLICY[j] # NULL
      BY <1>2, <1>3, <2>1, MatchesAreSlots DEF Matches
    <2>3. n \in Matches(j)'
      BY <1>6, <1>7, <2>1, <2>2 DEF Matches
    <2> QED
      BY <2>1, <2>3
  <1>10. \A i \in DOMAIN runs : runs[i].slot <= polled[runs[i].job]
                             /\ runs[i].job \in Jobs /\ runs[i].slot \in Int
    <2>1. \A i \in DOMAIN runs : runs[i] \in Row
      BY LenProperties, ElementOfSeq DEF IInv, TypeOK
    <2> QED
      BY <2>1 DEF IInv, SlotsArePolled, Row, Slots
  <1>11. /\ \A k \in DOMAIN plan' : plan'[k].slot <= polled'[plan'[k].job]
         /\ \A k \in Jobs : /\ polled'[k] <= now'
                            /\ lastSlot'[k] # NULL => lastSlot'[k] = polled'[k]
    <2>1. \A k \in DOMAIN plan : /\ plan[k].slot <= polled[plan[k].job]
                                 /\ plan[k].job \in Jobs /\ plan[k].slot \in Int
      <3>1. \A k \in DOMAIN plan : plan[k] \in Catchup
        BY LenProperties, ElementOfSeq DEF IInv, TypeOK
      <3> QED
        BY <3>1 DEF IInv, SlotsArePolled, Catchup, Slots
    <2>2. plan' = plan /\ now' = now
      BY <1>6
    <2>3. \A k \in DOMAIN plan' : plan'[k].slot <= polled'[plan'[k].job]
      BY <1>8, <2>1, <2>2
    <2> QED
      BY <1>3, <1>6, <1>7, <2>3 DEF IInv, SlotsArePolled
  <1>12. /\ again' \subseteq Jobs /\ turn' \in Jobs \cup {NULL}
         /\ UNCHANGED <<now, phase, waited, stopping, starts, zombies, plan, catching>>
    BY <1>6 DEF IInv, TypeOK, procVars
  <1>13. DownIsIdle'
    BY <1>1, <1>12, JobsAssumption DEF IInv, DownIsIdle
  <1>14. CASE m = lastSlot[j] /\ UNCHANGED <<faults, runs, handlers, busy>>
    <2>1. TypeOK'
      BY <1>7, <1>12, <1>14 DEF IInv, TypeOK
    <2>2. OneHandlerPerJob' /\ MarksMatchHandlers' /\ HandlersHaveRows'
      BY <1>6, <1>14 DEF IInv, OneHandlerPerJob, MarksMatchHandlers, HandlersHaveRows
    <2>3. SlotsArePolled'
      BY <1>8, <1>10, <1>11, <1>14 DEF SlotsArePolled
    <2> QED
      BY <1>9, <1>13, <1>14, <2>1, <2>2, <2>3, NothingBegins DEF Kept, IInv
  <1>15. CASE m # lastSlot[j] /\ run(j, m)
    <2>0. TypeOK /\ zombies' = zombies
      BY <1>6 DEF IInv
    <2>1. /\ faults' \in Nat
          /\ runs' \in Seq(Row) /\ Finished(runs')
          /\ DOMAIN runs \subseteq DOMAIN runs'
          /\ \A i \in DOMAIN runs : runs'[i] = runs[i]
          /\ \A i \in DOMAIN runs' \ DOMAIN runs : runs'[i].job = j /\ runs'[i].slot = m
      BY <1>2, <1>15, <2>0, RunWrites
    <2>2. /\ handlers' \subseteq Handler /\ busy' \subseteq Jobs
          /\ OneHandlerPerJob' /\ MarksMatchHandlers' /\ HandlersHaveRows'
          /\ \A h \in handlers' : h \in handlers \/ (h.job = j /\ h.slot = m)
      BY <1>2, <1>15, <2>0, RunHandlers
    <2>3. TypeOK'
      BY <1>7, <1>12, <2>1, <2>2 DEF IInv, TypeOK, Finished
    <2>4. SlotsArePolled'
      <3>1. \A i \in DOMAIN runs' : runs'[i].slot <= polled'[runs'[i].job]
        <4> SUFFICES ASSUME NEW i \in DOMAIN runs'
                     PROVE  runs'[i].slot <= polled'[runs'[i].job]
          OBVIOUS
        <4>1. CASE i \in DOMAIN runs
          BY <1>8, <1>10, <2>1, <4>1
        <4>2. CASE i \notin DOMAIN runs
          BY <1>3, <1>7, <2>1, <4>2
        <4> QED
          BY <4>1, <4>2
      <3> QED
        BY <1>11, <3>1 DEF SlotsArePolled
    <2>5. OutcomesStay
      BY <2>1 DEF OutcomesStay
    <2>6. NothingRerun
      <3>1. \A i \in DOMAIN runs : runs[i].job = j => runs[i].slot < m
        BY <1>3, <1>4, <1>5, <1>10, <1>15
      <3> QED
        BY <2>2, <3>1 DEF NothingRerun
    <2> QED
      BY <1>9, <1>13, <2>2, <2>3, <2>4, <2>5, <2>6 DEF Kept, IInv
  <1> QED
    BY <1>6, <1>14, <1>15

\* A planned catch-up is looked at again before it is run.
LEMMA NextCatchupKeeps ==
  ASSUME IInv, NextCatchup
  PROVE  Kept
  <1> DEFINE j == Head(plan).job
             s == Head(plan).slot
  <1>1. plan \in Seq(Catchup) /\ plan # <<>> /\ TypeOK /\ plan' = Tail(plan)
    BY DEF IInv, TypeOK, NextCatchup
  <1>2. /\ Head(plan) \in Catchup /\ Head(plan) = plan[1] /\ 1 \in DOMAIN plan
        /\ plan' \in Seq(Catchup)
        /\ \A k \in DOMAIN plan' : k + 1 \in DOMAIN plan /\ plan'[k] = plan[k + 1]
    BY <1>1, HeadTailProperties, LenProperties, EmptySeq
  <1>3. /\ j \in Jobs /\ s \in Slots /\ s \in Int /\ s <= polled[j]
    BY <1>2 DEF Catchup, Slots, IInv, SlotsArePolled
  <1>4. /\ UNCHANGED <<now, procVars, zombies, cronVars>>
        /\ \/ UNCHANGED <<faults, runs, handlers, busy, catching>>
           \/ /\ ~hasSuccessfulRunCovering(runs, j, s)
              /\ run(j, s)
              /\ catching' = IF handlers' # handlers THEN Len(runs') ELSE NULL
    BY DEF NextCatchup
  <1> HIDE DEF j, s
  <1>5. \A k \in DOMAIN plan' : plan'[k].slot <= polled'[plan'[k].job]
    BY <1>2, <1>4 DEF IInv, SlotsArePolled, cronVars
  <1>6. TurnHasMinutes'
    BY <1>4, JobsAssumption DEF NextCatchup, TurnHasMinutes, cronVars
  <1>7. DownIsIdle'
    BY <1>1, <1>4 DEF IInv, DownIsIdle, procVars
  <1>8. CASE UNCHANGED <<faults, runs, handlers, busy, catching>>
    <2>1. TypeOK'
      BY <1>2, <1>4, <1>8 DEF IInv, TypeOK, procVars, cronVars
    <2>2. OneHandlerPerJob' /\ MarksMatchHandlers' /\ HandlersHaveRows'
      BY <1>4, <1>8 DEF IInv, OneHandlerPerJob, MarksMatchHandlers, HandlersHaveRows
    <2>3. SlotsArePolled'
      BY <1>4, <1>5, <1>8 DEF IInv, SlotsArePolled, cronVars
    <2> QED
      BY <1>6, <1>7, <1>8, <2>1, <2>2, <2>3, NothingBegins DEF Kept, IInv
  <1>9. CASE /\ ~hasSuccessfulRunCovering(runs, j, s) /\ run(j, s)
             /\ catching' = IF handlers' # handlers THEN Len(runs') ELSE NULL
    <2>0. zombies' = zombies
      BY <1>4
    <2>1. /\ faults' \in Nat
          /\ runs' \in Seq(Row) /\ Finished(runs') /\ Len(runs') \in Nat
          /\ DOMAIN runs \subseteq DOMAIN runs'
          /\ \A i \in DOMAIN runs : runs'[i] = runs[i]
          /\ \A i \in DOMAIN runs' \ DOMAIN runs : runs'[i].job = j /\ runs'[i].slot = s
      BY <1>1, <1>3, <1>9, RunWrites
    <2>2. /\ handlers' \subseteq Handler /\ busy' \subseteq Jobs
          /\ OneHandlerPerJob' /\ MarksMatchHandlers' /\ HandlersHaveRows'
          /\ \A h \in handlers' : h \in handlers \/ (h.job = j /\ h.slot = s)
      BY <1>3, <1>9, <2>0, RunHandlers
    <2>3. TypeOK'
      BY <1>2, <1>4, <1>9, <2>1, <2>2 DEF IInv, TypeOK, procVars, cronVars, Finished
    <2>4. SlotsArePolled'
      <3>1. \A i \in DOMAIN runs' : runs'[i].slot <= polled'[runs'[i].job]
        BY <1>3, <1>4, <2>1 DEF IInv, SlotsArePolled, cronVars
      <3> QED
        BY <1>4, <1>5, <3>1 DEF IInv, SlotsArePolled, cronVars
    <2>5. OutcomesStay
      BY <2>1 DEF OutcomesStay
    <2>6. \A i \in DOMAIN runs : runs[i].slot \in Int
      <3>1. \A i \in DOMAIN runs : runs[i] \in Row
        BY <1>1, LenProperties, ElementOfSeq DEF TypeOK
      <3> QED
        BY <3>1 DEF Row, Slots
    <2>7. NothingRerun
      BY <1>3, <1>9, <2>2, <2>6 DEF NothingRerun, hasSuccessfulRunCovering
    <2> QED
      BY <1>6, <1>7, <2>2, <2>3, <2>4, <2>5, <2>7 DEF Kept, IInv
  <1> QED
    BY <1>4, <1>8, <1>9

\* Nothing moves the polls, and the rows keep their jobs and slots.
LEMMA PollsUntouched ==
  ASSUME IInv, UNCHANGED <<now, cronVars, plan>>, DOMAIN runs' = DOMAIN runs,
         \A i \in DOMAIN runs : runs'[i].job = runs[i].job /\ runs'[i].slot = runs[i].slot
  PROVE  SlotsArePolled' /\ TurnHasMinutes'
  <1>1. SlotsArePolled'
    BY DEF IInv, SlotsArePolled, cronVars
  <1>2. TurnHasMinutes'
    BY DEF IInv, TurnHasMinutes, Matches, cronVars
  <1> QED
    BY <1>1, <1>2

\* The handler of a job that runs owns its row.
LEMMA OwnRow ==
  ASSUME IInv, NEW h \in handlers
  PROVE  /\ h.run \in DOMAIN runs /\ runs[h.run].job = h.job
         /\ h \in Handler /\ h.job \in Jobs
         /\ ~h.timedOut => runs[h.run].status = "running"
         /\ \A g \in handlers : g # h => g.job # h.job /\ g.run # h.run
  BY DEF IInv, TypeOK, HandlersHaveRows, OneHandlerPerJob, Handler

\* A handler settles; if it has timed out it only leaves the zombies.
LEMMA HandlerEndsKeeps ==
  ASSUME IInv, NEW h \in handlers, NEW st \in {"ok", "failed"}, HandlerEnds(h, st)
  PROVE  Kept
  <1>1. /\ h.run \in DOMAIN runs /\ h \in Handler /\ h.job \in Jobs
        /\ ~h.timedOut => runs[h.run].status = "running"
        /\ \A g \in handlers : g # h => g.job # h.job /\ g.run # h.run
    BY OwnRow
  <1>2. /\ handlers' = handlers \ {h}
        /\ UNCHANGED <<now, procVars, cronVars, plan>>
        /\ \/ /\ h.timedOut
              /\ zombies' = zombies \ {h.job} /\ UNCHANGED <<faults, runs, busy, catching>>
           \/ /\ ~h.timedOut /\ finishJobRun(h.run, st)
              /\ busy' = busy \ {h.job} /\ catching' = Awaited(h)
              /\ UNCHANGED zombies
    BY DEF HandlerEnds
  <1>3. TypeOK
    BY DEF IInv
  <1>4. /\ faults' \in Nat
        /\ runs' \in Seq(Row) /\ DOMAIN runs' = DOMAIN runs /\ Finished(runs')
        /\ \A k \in DOMAIN runs : /\ k # h.run => runs'[k] = runs[k]
                                  /\ h.timedOut => runs'[k] = runs[k]
                                  /\ runs'[k].job = runs[k].job
                                  /\ runs'[k].slot = runs[k].slot
    <2>1. CASE h.timedOut
      BY <1>2, <1>3, <2>1 DEF TypeOK, Finished
    <2>2. CASE ~h.timedOut
      BY <1>1, <1>2, <1>3, <2>2, FinishStep
    <2> QED
      BY <2>1, <2>2
  <1>5. SlotsArePolled' /\ TurnHasMinutes'
    BY <1>2, <1>4, PollsUntouched
  <1>6. /\ busy' \subseteq Jobs /\ zombies' \subseteq Jobs /\ handlers' \subseteq Handler
        /\ catching' \in Nat \cup {NULL}
        /\ UNCHANGED <<now, phase, waited, stopping, starts,
                       lastSlot, polled, again, turn, plan>>
    BY <1>2 DEF IInv, TypeOK, Awaited, procVars, cronVars
  <1>7. TypeOK'
    BY <1>3, <1>4, <1>6 DEF TypeOK, Finished
  <1>8. OneHandlerPerJob'
    BY <1>2 DEF IInv, OneHandlerPerJob
  <1>9. MarksMatchHandlers'
    BY <1>1, <1>2 DEF IInv, MarksMatchHandlers
  <1>10. HandlersHaveRows'
    BY <1>1, <1>2, <1>4 DEF IInv, HandlersHaveRows
  <1>11. OutcomesStay
    BY <1>1, <1>4 DEF OutcomesStay
  <1>12. NothingRerun
    BY <1>2 DEF NothingRerun
  <1>13. DownIsIdle'
    BY <1>2, <1>6 DEF IInv, DownIsIdle
  <1> QED
    BY <1>5, <1>7, <1>8, <1>9, <1>10, <1>11, <1>12, <1>13 DEF Kept, IInv

\* The watchdog fails the run and makes its handler a zombie.
LEMMA watchdogKeeps ==
  ASSUME IInv, NEW h \in handlers, watchdog(h)
  PROVE  Kept
  <1> DEFINE z == [h EXCEPT !.timedOut = TRUE]
  <1>1. /\ h.run \in DOMAIN runs /\ h \in Handler /\ h.job \in Jobs
        /\ runs[h.run].job = h.job
        /\ \A g \in handlers : g # h => g.job # h.job /\ g.run # h.run
    BY OwnRow
  <1>2. /\ ~h.timedOut
        /\ handlers' = (handlers \ {h}) \cup {z}
        /\ finishJobRun(h.run, "failed")
        /\ busy' = busy \ {h.job} /\ zombies' = zombies \cup {h.job}
        /\ catching' = Awaited(h)
        /\ UNCHANGED <<now, procVars, cronVars, plan>>
    BY DEF watchdog
  <1>3. z \in Handler /\ z.job = h.job /\ z.run = h.run /\ z.timedOut
    BY <1>1 DEF Handler
  <1> HIDE DEF z
  <1>4. /\ faults' \in Nat
        /\ runs' \in Seq(Row) /\ DOMAIN runs' = DOMAIN runs /\ Finished(runs')
        /\ \A k \in DOMAIN runs : /\ k # h.run => runs'[k] = runs[k]
                                  /\ runs'[k].job = runs[k].job
                                  /\ runs'[k].slot = runs[k].slot
    BY <1>1, <1>2, FinishStep DEF IInv
  <1>5. SlotsArePolled' /\ TurnHasMinutes'
    BY <1>2, <1>4, PollsUntouched
  <1>6. /\ busy' \subseteq Jobs /\ zombies' \subseteq Jobs /\ handlers' \subseteq Handler
        /\ catching' \in Nat \cup {NULL}
        /\ UNCHANGED <<now, phase, waited, stopping, starts,
                       lastSlot, polled, again, turn, plan>>
    BY <1>1, <1>2, <1>3 DEF IInv, TypeOK, Awaited, procVars, cronVars
  <1>7. TypeOK'
    BY <1>4, <1>6 DEF IInv, TypeOK, Finished
  <1>8. OneHandlerPerJob'
    BY <1>1, <1>2, <1>3 DEF IInv, OneHandlerPerJob
  <1>9. MarksMatchHandlers'
    BY <1>1, <1>2, <1>3 DEF IInv, MarksMatchHandlers
  <1>10. HandlersHaveRows'
    BY <1>1, <1>2, <1>3, <1>4 DEF IInv, HandlersHaveRows
  <1>11. OutcomesStay
    BY <1>2, <1>4 DEF IInv, HandlersHaveRows, OutcomesStay
  <1>12. NothingRerun
    BY <1>2, <1>3 DEF NothingRerun
  <1>13. DownIsIdle'
    BY <1>6 DEF IInv, DownIsIdle
  <1> QED
    BY <1>5, <1>7, <1>8, <1>9, <1>10, <1>11, <1>12, <1>13 DEF Kept, IInv

\* A poll begins to be replayed.
LEMMA PollCronKeeps ==
  ASSUME IInv, NEW j \in Jobs, PollCron(j)
  PROVE  Kept
  <1>1. /\ Matches(j) # {} /\ turn' = j /\ phase = "up"
        /\ UNCHANGED <<now, procVars, faults, runs, handlers, busy, zombies,
                       lastSlot, polled, again, plan, catching>>
    BY DEF PollCron
  <1>2. TypeOK'
    BY <1>1 DEF IInv, TypeOK, procVars
  <1>3. /\ OneHandlerPerJob' /\ MarksMatchHandlers' /\ HandlersHaveRows' /\ SlotsArePolled'
    BY <1>1 DEF IInv, OneHandlerPerJob, MarksMatchHandlers, HandlersHaveRows, SlotsArePolled
  <1>4. TurnHasMinutes' /\ DownIsIdle'
    BY <1>1 DEF TurnHasMinutes, Matches, DownIsIdle, procVars
  <1> QED
    BY <1>1, <1>2, <1>3, <1>4, NothingBegins DEF Kept, IInv

\* The clock: nothing is recorded, and no poll is being replayed.
LEMMA TickKeeps ==
  ASSUME IInv, AtRest, Tick
  PROVE  Kept
  <1> DEFINE older(h) == [h EXCEPT !.age = IF @ < TIMEOUT THEN @ + 1 ELSE @]
  <1>1. /\ handlers' = {older(h) : h \in handlers}
        /\ UNCHANGED <<phase, starts, faults, runs, busy, zombies, lastSlot,
                       polled, again, turn, plan, catching>>
        /\ turn = NULL
    BY DEF Tick, AtRest, cronVars
  <1>2. now' \in 0 .. Horizon /\ now <= now' /\ waited' \in Nat /\ stopping' \in Nat
        /\ now \in Int
    <2>1. /\ now \in Int /\ 0 <= now /\ now <= Horizon /\ Horizon \in Int
          /\ waited \in Nat /\ stopping \in Nat
      BY JobsAssumption DEF IInv, TypeOK
    <2>2. now' = (IF now < Horizon THEN now + 1 ELSE now)
      BY DEF Tick
    <2>3. waited' \in {waited, waited + 1} /\ stopping' \in {stopping, stopping + 1}
      BY DEF Tick
    <2>4. now' \in 0 .. Horizon /\ now <= now'
      BY <2>1, <2>2
    <2>5. waited' \in Nat /\ stopping' \in Nat
      BY <2>1, <2>3
    <2> QED
      BY <2>1, <2>4, <2>5
  <1>3. \A h \in handlers : /\ older(h) \in Handler /\ older(h).job = h.job
                            /\ older(h).run = h.run /\ older(h).timedOut = h.timedOut
    <2> SUFFICES ASSUME NEW h \in handlers
                 PROVE  /\ older(h) \in Handler /\ older(h).job = h.job
                        /\ older(h).run = h.run /\ older(h).timedOut = h.timedOut
      OBVIOUS
    <2>1. h \in Handler /\ TIMEOUT \in Nat
      BY JobsAssumption DEF IInv, TypeOK
    <2> DEFINE a == IF h.age < TIMEOUT THEN h.age + 1 ELSE h.age
    <2>2. a \in 0 .. TIMEOUT
      BY <2>1 DEF Handler
    <2>3. older(h) = [h EXCEPT !.age = a]
      OBVIOUS
    <2> HIDE DEF a, older
    <2> QED
      BY <2>1, <2>2, <2>3 DEF Handler
  <1> HIDE DEF older
  <1>4. TypeOK'
    BY <1>1, <1>2, <1>3 DEF IInv, TypeOK
  <1>5. OneHandlerPerJob'
    BY <1>1, <1>3 DEF IInv, OneHandlerPerJob
  <1>6. MarksMatchHandlers'
    BY <1>1, <1>3 DEF IInv, MarksMatchHandlers
  <1>7. HandlersHaveRows'
    BY <1>1, <1>3 DEF IInv, HandlersHaveRows
  <1>8. SlotsArePolled'
    <2>1. \A j \in Jobs : polled[j] \in Int
      BY DEF IInv, TypeOK
    <2> QED
      BY <1>1, <1>2, <2>1 DEF IInv, SlotsArePolled
  <1>9. TurnHasMinutes' /\ DownIsIdle'
    BY <1>1 DEF IInv, TurnHasMinutes, DownIsIdle
  <1>10. \A h \in handlers' : h.run \in {g.run : g \in handlers}
    BY <1>1, <1>3
  <1> QED
    BY <1>1, <1>4, <1>5, <1>6, <1>7, <1>8, <1>9, <1>10, NothingBegins DEF Kept, IInv

\* A process that starts ends the rows of the last one, and plans only past slots.
LEMMA startDaemonKeeps ==
  ASSUME IInv, AtRest, startDaemon
  PROVE  Kept
  <1>1. /\ phase' = "up" /\ waited' = 0 /\ stopping' = 0 /\ starts' = starts + 1
        /\ runs' = markInterruptedJobRuns
        /\ plan' = planCatchups(runs')
        /\ lastSlot' = [j \in Jobs |-> NULL]
        /\ polled' = [j \in Jobs |-> now]
        /\ again' = {}
        /\ UNCHANGED <<now, faults, handlers, busy, zombies, turn, catching>>
        /\ turn = NULL
    BY DEF startDaemon, AtRest
  <1>2. plan' \in Seq(Catchup) /\ \A k \in DOMAIN plan' : plan'[k].slot <= now
    <2>1. PICK rs : rs = runs'
      OBVIOUS
    <2>2. plan' = planCatchups(rs)
      BY <1>1, <2>1
    <2> QED
      BY <2>2, PlanIsTyped
  <1>3. TypeOK /\ now \in 0 .. Horizon
    BY DEF IInv, TypeOK
  <1>4. /\ runs' \in Seq(Row) /\ DOMAIN runs' = DOMAIN runs /\ Finished(runs')
        /\ \A k \in DOMAIN runs : /\ runs[k].status # "running" => runs'[k] = runs[k]
                                  /\ runs'[k].job = runs[k].job
                                  /\ runs'[k].slot = runs[k].slot
    <2> DEFINE e(k) == IF runs[k].status = "running"
                       THEN [runs[k] EXCEPT !.status = "failed", !.finished = now]
                       ELSE runs[k]
    <2>1. runs' = [k \in DOMAIN runs |-> e(k)]
      BY <1>1 DEF markInterruptedJobRuns
    <2>2. runs \in Seq(Row) /\ DOMAIN runs = 1 .. Len(runs) /\ Len(runs) \in Nat
      BY <1>3, LenProperties DEF TypeOK
    <2>3. \A k \in DOMAIN runs : runs[k] \in Row
      BY <2>2, ElementOfSeq
    <2>4. \A k \in DOMAIN runs : /\ e(k) \in Row
                                 /\ e(k).finished = NULL <=> e(k).status = "running"
                                 /\ runs[k].status # "running" => e(k) = runs[k]
                                 /\ e(k).job = runs[k].job /\ e(k).slot = runs[k].slot
      <3> SUFFICES ASSUME NEW k \in DOMAIN runs
                   PROVE  /\ e(k) \in Row
                          /\ e(k).finished = NULL <=> e(k).status = "running"
                          /\ runs[k].status # "running" => e(k) = runs[k]
                          /\ e(k).job = runs[k].job /\ e(k).slot = runs[k].slot
        OBVIOUS
      <3>1. CASE runs[k].status # "running"
        BY <1>3, <2>3, <3>1 DEF TypeOK
      <3>2. CASE runs[k].status = "running"
        <4>1. e(k) = [runs[k] EXCEPT !.status = "failed", !.finished = now]
          BY <3>2
        <4>2. runs[k] \in Row /\ now # NULL
          BY <1>3, <2>3, JobsAssumption
        <4> HIDE DEF e
        <4> QED
          BY <1>3, <3>2, <4>1, <4>2 DEF Row
      <3> QED
        BY <3>1, <3>2
    <2> HIDE DEF e
    <2>5. runs' \in [1 .. Len(runs) -> Row]
      BY <2>1, <2>2, <2>4
    <2>6. runs' \in Seq(Row)
      BY <2>2, <2>5, SeqDef
    <2> QED
      BY <2>1, <2>4, <2>6 DEF Finished
  <1>5. TypeOK'
    <2>1. lastSlot' \in [Jobs -> Slots \cup {NULL}] /\ polled' \in [Jobs -> 0 .. Horizon]
      BY <1>1, <1>3
    <2> QED
      BY <1>1, <1>2, <1>3, <1>4, <2>1 DEF TypeOK, Finished
  <1>6. handlers = {}
    BY DEF startDaemon, IInv, DownIsIdle
  <1>7. OneHandlerPerJob' /\ MarksMatchHandlers' /\ HandlersHaveRows'
    BY <1>1, <1>6 DEF IInv, OneHandlerPerJob, MarksMatchHandlers, HandlersHaveRows
  <1>8. SlotsArePolled'
    <2>1. \A i \in DOMAIN runs : /\ runs[i].job \in Jobs /\ runs[i].slot \in Int
                                 /\ runs[i].slot <= polled[runs[i].job]
      <3>1. \A i \in DOMAIN runs : runs[i] \in Row
        BY <1>3, LenProperties, ElementOfSeq DEF TypeOK
      <3> QED
        BY <3>1 DEF IInv, SlotsArePolled, Row, Slots
    <2>2. \A j \in Jobs : polled[j] <= now /\ polled[j] \in Int
      BY <1>3 DEF TypeOK, IInv, SlotsArePolled
    <2>3. \A k \in DOMAIN plan' : plan'[k].job \in Jobs
      <3>1. \A k \in DOMAIN plan' : plan'[k] \in Catchup
        BY <1>2, LenProperties, ElementOfSeq
      <3> QED
        BY <3>1 DEF Catchup
    <2>4. \A i \in DOMAIN runs' : runs'[i].slot <= polled'[runs'[i].job]
      BY <1>1, <1>3, <1>4, <2>1, <2>2
    <2>5. \A k \in DOMAIN plan' : plan'[k].slot <= polled'[plan'[k].job]
      BY <1>1, <1>2, <2>3
    <2> QED
      BY <1>1, <1>3, <2>4, <2>5 DEF SlotsArePolled
  <1>9. TurnHasMinutes' /\ DownIsIdle'
    BY <1>1 DEF TurnHasMinutes, DownIsIdle
  <1>10. OutcomesStay
    BY <1>4 DEF OutcomesStay
  <1>11. NothingRerun
    BY <1>1 DEF NothingRerun
  <1> QED
    BY <1>5, <1>7, <1>8, <1>9, <1>10, <1>11 DEF Kept, IInv

\* A signal, and the end of a wait of stop(), touch only the phase.
LEMMA PhaseKeeps ==
  ASSUME IInv, phase' # "down", phase' \in Stopping, waited' \in Nat, stopping' \in Nat,
         UNCHANGED <<now, starts, faults, runs, handlers, busy, zombies, cronVars, plan,
                     catching>>
  PROVE  Kept
  <1>1. TypeOK'
    BY DEF IInv, TypeOK, cronVars
  <1>2. /\ OneHandlerPerJob' /\ MarksMatchHandlers' /\ HandlersHaveRows' /\ DownIsIdle'
    BY DEF IInv, OneHandlerPerJob, MarksMatchHandlers, HandlersHaveRows, DownIsIdle
  <1>3. SlotsArePolled' /\ TurnHasMinutes'
    BY PollsUntouched
  <1> QED
    BY <1>1, <1>2, <1>3, NothingBegins DEF Kept, IInv

\* The end of the process ends its handlers; the rows stay.
LEMMA ProcessEndsKeeps ==
  ASSUME IInv, ProcessEnds
  PROVE  Kept
  <1>1. /\ phase' = "down" /\ waited' = 0 /\ stopping' = 0
        /\ handlers' = {} /\ busy' = {} /\ zombies' = {}
        /\ plan' = <<>> /\ catching' = NULL /\ turn' = NULL
        /\ UNCHANGED <<now, starts, faults, runs, lastSlot, polled, again>>
    BY DEF ProcessEnds
  <1>2. TypeOK'
    BY <1>1, EmptySeq DEF IInv, TypeOK
  <1>3. /\ OneHandlerPerJob' /\ MarksMatchHandlers' /\ HandlersHaveRows'
        /\ DownIsIdle' /\ TurnHasMinutes'
    BY <1>1 DEF OneHandlerPerJob, MarksMatchHandlers, HandlersHaveRows, DownIsIdle,
                TurnHasMinutes
  <1>4. SlotsArePolled'
    <2>1. DOMAIN plan' = {}
      BY <1>1
    <2> QED
      BY <1>1, <2>1 DEF IInv, SlotsArePolled
  <1> QED
    BY <1>1, <1>2, <1>3, <1>4, NothingBegins DEF Kept, IInv

\* Every step.
LEMMA StepKeeps ==
  ASSUME IInv, [Next]_vars
  PROVE  Kept
  <1>1. CASE UNCHANGED vars
    <2>1. UNCHANGED <<now, phase, waited, stopping, starts, faults, runs, handlers, busy,
                      zombies, lastSlot, polled, again, turn, plan, catching>>
      BY <1>1 DEF vars, procVars, cronVars
    <2>2. TypeOK'
      BY <2>1 DEF IInv, TypeOK
    <2>3. /\ OneHandlerPerJob' /\ MarksMatchHandlers' /\ HandlersHaveRows' /\ DownIsIdle'
      BY <2>1 DEF IInv, OneHandlerPerJob, MarksMatchHandlers, HandlersHaveRows, DownIsIdle
    <2>4. SlotsArePolled' /\ TurnHasMinutes'
      BY <2>1, PollsUntouched DEF cronVars
    <2> QED
      BY <2>1, <2>2, <2>3, <2>4, NothingBegins DEF Kept, IInv
  <1>2. CASE \E j \in Jobs : CronMatch(j)
    BY <1>2, CronMatchKeeps
  <1>3. CASE NextCatchup
    BY <1>3, NextCatchupKeeps
  <1>4. CASE \E h \in handlers, st \in {"ok", "failed"} : HandlerEnds(h, st)
    BY <1>4, HandlerEndsKeeps
  <1>5. CASE Watchdogs
    BY <1>5, watchdogKeeps DEF Watchdogs
  <1>6. CASE \E j \in Jobs : PollCron(j)
    BY <1>6, PollCronKeeps
  <1>7. CASE AtRest /\ startDaemon
    BY <1>7, startDaemonKeeps
  <1>8. CASE StopBegins
    BY <1>8, PhaseKeeps DEF StopBegins, Stopping
  <1>9. CASE WaitOver
    <2>1. CASE phase = "drain"
      BY <1>9, <2>1, ProcessEndsKeeps DEF WaitOver, IInv, TypeOK
    <2>2. CASE phase # "drain"
      <3>1. /\ phase \in {"onstart", "jobs", "zombies", "http"}
            /\ phase' = Following /\ waited' = 0
            /\ UNCHANGED <<now, stopping, starts, faults, runs, handlers, busy, zombies,
                           cronVars, plan, catching>>
        BY <1>9, <2>2 DEF WaitOver, Stopping
      <3>2. Following \in Stopping \ {"down"}
        BY <3>1 DEF Following, Stopping
      <3>3. stopping' \in Nat
        BY <3>1 DEF IInv, TypeOK
      <3> QED
        BY <3>1, <3>2, <3>3, PhaseKeeps
    <2> QED
      BY <2>1, <2>2
  <1>10. CASE FallbackExit
    BY <1>10, ProcessEndsKeeps DEF FallbackExit
  <1>11. CASE Crash
    BY <1>11, ProcessEndsKeeps DEF Crash
  <1>12. CASE AtRest /\ Tick
    BY <1>12, TickKeeps
  <1> QED
    BY <1>1, <1>2, <1>3, <1>4, <1>5, <1>6, <1>7, <1>8, <1>9, <1>10, <1>11, <1>12 DEF Next

LEMMA InitIInv == Init => IInv
  <1> SUFFICES ASSUME Init PROVE IInv
    OBVIOUS
  <1>1. TypeOK
    <2>1. runs \in Seq(Row) /\ plan \in Seq(Catchup) /\ DOMAIN runs = {}
      BY EmptySeq DEF Init
    <2>2. 0 \in 0 .. Horizon
      BY JobsAssumption
    <2>3. lastSlot \in [Jobs -> Slots \cup {NULL}] /\ polled \in [Jobs -> 0 .. Horizon]
      BY <2>2 DEF Init
    <2>4. /\ now \in 0 .. Horizon /\ phase \in {"down", "up"} \cup Stopping
          /\ handlers \subseteq Handler /\ busy \subseteq Jobs /\ zombies \subseteq Jobs
          /\ again \subseteq Jobs /\ turn \in Jobs \cup {NULL} /\ catching \in Nat \cup {NULL}
      BY <2>2 DEF Init
    <2>5. {waited, stopping, starts, faults} \subseteq Nat
      BY DEF Init
    <2> QED
      BY <2>1, <2>3, <2>4, <2>5 DEF TypeOK
  <1>2. /\ OneHandlerPerJob /\ MarksMatchHandlers /\ HandlersHaveRows
        /\ DownIsIdle /\ TurnHasMinutes
    BY DEF Init, OneHandlerPerJob, MarksMatchHandlers, HandlersHaveRows, DownIsIdle,
           TurnHasMinutes
  <1>3. SlotsArePolled
    <2>1. DOMAIN runs = {} /\ DOMAIN plan = {}
      BY DEF Init
    <2> QED
      BY <2>1 DEF Init, SlotsArePolled
  <1> QED
    BY <1>1, <1>2, <1>3 DEF IInv

LEMMA Invariance == Spec => []IInv
  <1>1. IInv /\ [Next]_vars => IInv'
    BY StepKeeps DEF Kept
  <1> QED
    BY InitIInv, <1>1, PTL DEF Spec

-----------------------------------------------------------------------------
(* Theorems.                                                                 *)

\* The table, the marks of the runner and the catch-up plan are well typed, and a
\* row has an end exactly when it is not running.
THEOREM TypeCorrect == Spec => []TypeOK
  <1>1. IInv => TypeOK
    BY DEF IInv
  <1> QED
    BY Invariance, <1>1, PTL

\* No two handlers of a job run side by side, timed-out ones included, whatever
\* hangs, crashes or fails to be written (job-runner.ts:53-61).
THEOREM MutualExclusion == Spec => []OneHandlerPerJob
  <1>1. IInv => OneHandlerPerJob
    BY DEF IInv
  <1> QED
    BY Invariance, <1>1, PTL

\* A name is held exactly while a handler of it runs: nothing leaves a mark behind
\* that would stop the job for good (job-runner.ts:9-26).
THEOREM MarksAreExact == Spec => []MarksMatchHandlers
  <1>1. IInv => MarksMatchHandlers
    BY DEF IInv
  <1> QED
    BY Invariance, <1>1, PTL

\* A recorded outcome is never overwritten, by a late end or by a restart
\* (job-runner.ts:23-26, 126-127).
THEOREM OutcomesAreFinal == Spec => RecordedOutcomeStays
  <1>1. IInv /\ [Next]_vars =>
          [\A i \in DOMAIN runs : runs[i].status # "running" => runs'[i] = runs[i]]_vars
    BY StepKeeps DEF Kept, OutcomesStay
  <1> QED
    BY Invariance, <1>1, PTL DEF Spec, RecordedOutcomeStays

\* What has succeeded is not run again: not by a second emission of its minute, not
\* by a catch-up planned before, not after a restart (daemon.ts:480-486, jobs.ts:484-489).
THEOREM SuccessIsNotRepeated == Spec => NoRerunAfterOk
  <1>1. IInv /\ [Next]_vars =>
          [\A h \in handlers' :
              h.run \notin {g.run : g \in handlers} =>
                 \A i \in DOMAIN runs :
                    runs[i].job = h.job /\ runs[i].status = "ok" => runs[i].slot < h.slot]_vars
    BY StepKeeps DEF Kept, NothingRerun
  <1> QED
    BY Invariance, <1>1, PTL DEF Spec, NoRerunAfterOk
=============================================================================
