--------------------------- MODULE WeatherProofs ----------------------------
(* Theorems about the weather service: its client, the alert watch and the briefs.
   They share no variable; each is proved from an invariant of its own. *)
EXTENDS Upstream, AlertWatch, Briefs, FiniteSetTheorems, SequenceTheorems, TLAPS

-----------------------------------------------------------------------------
(* The gate of the weather client.  Whatever the number of calls, places and
   attempts it neither leaks places nor forgets a call that waits.
   GateKeepsItsPlaces is not inductive: that the place released goes to one call and
   no more needs the calls that wait to be listed once. *)

Entry == [pc : {"idle", "sending", "waiting", "backoff"}, key : Lookups,
          attempt : Nat, asked : Nat]

\* Types of the variables the gate depends on.
GateTypeOK ==
    /\ op \in [Slots -> Entry]
    /\ waiting \in Seq(Slots)
    /\ active \in Nat
    /\ tick \in Nat

\* A call waits at one place of the queue only.
WaitsOnce == \A i, j \in DOMAIN waiting : waiting[i] = waiting[j] => i = j

\* GateKeepsItsPlaces says who waits by the range of the queue; here by its elements.
QueueIsWhoWaits ==
    /\ \A i \in DOMAIN waiting : op[waiting[i]].pc = "waiting"
    /\ \A s \in Slots : op[s].pc = "waiting" => \E i \in DOMAIN waiting : waiting[i] = s

Sending == {s \in Slots : op[s].pc = "sending"}

PlacesAreCounted ==
    /\ active = Cardinality(Sending)
    /\ active <= MAX_CONCURRENCY
    /\ waiting # << >> => active = MAX_CONCURRENCY

GateInv == GateTypeOK /\ WaitsOnce /\ QueueIsWhoWaits /\ PlacesAreCounted

-----------------------------------------------------------------------------
LEMMA SendingIsFinite == IsFiniteSet(Sending) /\ IsFiniteSet(Sending)'
  <1>1. Sending \subseteq Slots /\ Sending' \subseteq Slots
    BY DEF Sending
  <1> QED
    BY <1>1, UpstreamAssumption, FS_Subset

\* What the slot under way becomes decides about the places, when no other changes.
LEMMA OneMoreSends ==
  ASSUME NEW s \in Slots, op[s].pc # "sending", op'[s].pc = "sending",
         \A t \in Slots \ {s} : op'[t].pc = op[t].pc
  PROVE  Cardinality(Sending') = Cardinality(Sending) + 1
  <1>1. Sending' = Sending \cup {s} /\ s \notin Sending
    BY DEF Sending
  <1> QED
    BY <1>1, SendingIsFinite, FS_AddElement

LEMMA OneLessSends ==
  ASSUME NEW s \in Slots, op[s].pc = "sending", op'[s].pc # "sending",
         \A t \in Slots \ {s} : op'[t].pc = op[t].pc
  PROVE  Cardinality(Sending') = Cardinality(Sending) - 1
  <1>1. Sending' = Sending \ {s} /\ s \in Sending
    BY DEF Sending
  <1> QED
    BY <1>1, SendingIsFinite, FS_RemoveElement

\* One leaves, another comes: the count stays.
LEMMA PlaceHandedOver ==
  ASSUME NEW s \in Slots, NEW w \in Slots, s # w,
         op[s].pc = "sending", op'[s].pc # "sending",
         op[w].pc # "sending", op'[w].pc = "sending",
         \A t \in Slots \ {s, w} : op'[t].pc = op[t].pc
  PROVE  Cardinality(Sending') = Cardinality(Sending)
  <1> DEFINE Rest == Sending \ {s}
  <1>1. Sending' = Rest \cup {w} /\ w \notin Rest /\ s \in Sending
    BY DEF Sending
  <1>2. IsFiniteSet(Rest) /\ Cardinality(Rest) = Cardinality(Sending) - 1
    BY <1>1, SendingIsFinite, FS_RemoveElement
  <1>3. Cardinality(Rest \cup {w}) = Cardinality(Rest) + 1
    BY <1>1, <1>2, FS_AddElement
  <1>4. Cardinality(Sending) \in Nat
    BY SendingIsFinite, FS_CardinalityType
  <1> HIDE DEF Rest
  <1> QED
    BY <1>1, <1>2, <1>3, <1>4

-----------------------------------------------------------------------------
\* A call that takes a place or begins to wait.
LEMMA GateFetchKeeps ==
  ASSUME GateInv, NEW s \in Slots, op[s].pc \in {"idle", "backoff"},
         NEW entry \in Entry, gateFetch(s, entry), UNCHANGED tick
  PROVE  GateInv'
  <1> USE DEF GateInv
  <1>1. CASE active < MAX_CONCURRENCY
    <2>1. /\ active' = active + 1 /\ waiting' = waiting
          /\ op' = [op EXCEPT ![s] = [entry EXCEPT !.pc = "sending"]]
      BY <1>1 DEF gateFetch
    <2>2. op'[s].pc = "sending" /\ \A t \in Slots \ {s} : op'[t] = op[t]
      BY <2>1 DEF GateTypeOK, Entry
    <2>3. GateTypeOK'
      <3>1. [entry EXCEPT !.pc = "sending"] \in Entry
        BY DEF Entry
      <3>2. op' \in [Slots -> Entry]
        BY <2>1, <3>1 DEF GateTypeOK
      <3> QED
        BY <2>1, <3>2 DEF GateTypeOK
    <2>4. WaitsOnce'
      BY <2>1 DEF WaitsOnce
    <2>5. QueueIsWhoWaits'
      BY <2>1, <2>2 DEF QueueIsWhoWaits, GateTypeOK
    <2>6. waiting = << >>
      BY <1>1, UpstreamAssumption DEF PlacesAreCounted
    <2>7. PlacesAreCounted'
      <3>1. Cardinality(Sending') = Cardinality(Sending) + 1
        BY <2>2, OneMoreSends
      <3>2. active' = Cardinality(Sending')
        BY <2>1, <3>1 DEF PlacesAreCounted
      <3>3. active' <= MAX_CONCURRENCY /\ waiting' = << >>
        BY <1>1, <2>1, <2>6, UpstreamAssumption DEF GateTypeOK
      <3> QED
        BY <3>2, <3>3 DEF PlacesAreCounted
    <2> QED
      BY <2>3, <2>4, <2>5, <2>7
  <1>2. CASE ~(active < MAX_CONCURRENCY)
    <2>1. /\ active' = active /\ waiting' = Append(waiting, s)
          /\ op' = [op EXCEPT ![s] = [entry EXCEPT !.pc = "waiting"]]
      BY <1>2 DEF gateFetch
    <2>2. op'[s].pc = "waiting" /\ \A t \in Slots \ {s} : op'[t] = op[t]
      BY <2>1 DEF GateTypeOK, Entry
    <2>3. GateTypeOK'
      <3>1. [entry EXCEPT !.pc = "waiting"] \in Entry
        BY DEF Entry
      <3>2. op' \in [Slots -> Entry]
        BY <2>1, <3>1 DEF GateTypeOK
      <3> QED
        BY <2>1, <3>2 DEF GateTypeOK
    <2>4. /\ DOMAIN waiting' = DOMAIN waiting \cup {Len(waiting) + 1}
          /\ Len(waiting) + 1 \notin DOMAIN waiting
          /\ waiting'[Len(waiting) + 1] = s
          /\ \A i \in DOMAIN waiting : waiting'[i] = waiting[i] /\ waiting[i] \in Slots
      BY <2>1 DEF GateTypeOK
    <2>5. \A i \in DOMAIN waiting : waiting[i] # s
      BY DEF QueueIsWhoWaits
    <2>6. WaitsOnce'
      BY <2>4, <2>5 DEF WaitsOnce
    <2>7. QueueIsWhoWaits'
      BY <2>2, <2>4, <2>5 DEF QueueIsWhoWaits
    <2>8. Sending' = Sending
      BY <2>2 DEF Sending
    <2>9. active = MAX_CONCURRENCY
      BY <1>2, UpstreamAssumption DEF PlacesAreCounted, GateTypeOK
    <2>10. PlacesAreCounted'
      BY <2>1, <2>8, <2>9 DEF PlacesAreCounted
    <2> QED
      BY <2>3, <2>6, <2>7, <2>10
  <1> QED
    BY <1>1, <1>2

\* A call that gives its place back.
LEMMA ReleaseKeeps ==
  ASSUME GateInv, NEW s \in Slots, op[s].pc = "sending",
         NEW entry \in Entry, entry.pc \in {"idle", "backoff"},
         NEW ops, ops = [op EXCEPT ![s] = entry], release(ops), UNCHANGED tick
  PROVE  GateInv'
  <1> USE DEF GateInv
  <1>1. /\ ops \in [Slots -> Entry] /\ ops[s] = entry
        /\ \A t \in Slots \ {s} : ops[t] = op[t]
    BY DEF GateTypeOK
  <1>2. CASE waiting = << >>
    <2>1. active' = active - 1 /\ op' = ops /\ waiting' = waiting
      BY <1>2 DEF release
    <2>2. Cardinality(Sending') = Cardinality(Sending) - 1
      BY <1>1, <2>1, OneLessSends
    <2>3. Cardinality(Sending) \in Nat /\ Cardinality(Sending') \in Nat
      BY SendingIsFinite, FS_CardinalityType
    <2>4. active' \in Nat /\ active' = Cardinality(Sending') /\ active' <= MAX_CONCURRENCY
      BY <2>1, <2>2, <2>3, UpstreamAssumption DEF PlacesAreCounted
    <2>5. GateTypeOK'
      BY <1>1, <2>1, <2>4 DEF GateTypeOK
    <2>6. WaitsOnce' /\ PlacesAreCounted'
      BY <1>2, <2>1, <2>4 DEF WaitsOnce, PlacesAreCounted
    <2>7. QueueIsWhoWaits'
      BY <1>1, <1>2, <2>1 DEF QueueIsWhoWaits
    <2> QED
      BY <2>5, <2>6, <2>7
  <1>3. CASE waiting # << >>
    <2> DEFINE w == Head(waiting)
    <2>1. /\ active' = active /\ waiting' = Tail(waiting)
          /\ op' = [ops EXCEPT ![w].pc = "sending"]
      BY <1>3 DEF release
    <2>2. /\ 1 \in DOMAIN waiting /\ w = waiting[1] /\ w \in Slots
          /\ DOMAIN waiting' = {i \in Nat : i + 1 \in DOMAIN waiting /\ i # 0}
          /\ \A i \in DOMAIN waiting' : waiting'[i] = waiting[i + 1]
          /\ DOMAIN waiting \subseteq Nat \ {0}
      BY <1>3, <2>1 DEF GateTypeOK
    <2>3. op[w].pc = "waiting" /\ w # s
      BY <2>2 DEF QueueIsWhoWaits
    <2> HIDE DEF w
    <2>4. /\ op'[s].pc = entry.pc /\ op'[w].pc = "sending"
          /\ \A t \in Slots \ {s, w} : op'[t] = op[t]
      BY <1>1, <2>1, <2>2, <2>3 DEF Entry
    <2>5. GateTypeOK'
      <3>1. op' \in [Slots -> Entry]
        BY <1>1, <2>1, <2>2 DEF Entry
      <3>2. waiting' \in Seq(Slots)
        BY <1>3, <2>1 DEF GateTypeOK
      <3> QED
        BY <2>1, <3>1, <3>2 DEF GateTypeOK
    <2>6. WaitsOnce'
      <3> SUFFICES ASSUME NEW i \in DOMAIN waiting', NEW j \in DOMAIN waiting',
                          waiting'[i] = waiting'[j]
                   PROVE  i = j
        BY DEF WaitsOnce
      <3>1. i \in Nat /\ j \in Nat /\ i + 1 = j + 1
        BY <2>2 DEF WaitsOnce
      <3> QED
        BY <3>1
    <2>7. QueueIsWhoWaits'
      <3>1. ASSUME NEW i \in DOMAIN waiting'
            PROVE  op'[waiting'[i]].pc = "waiting"
        <4>1. i + 1 \in DOMAIN waiting /\ i + 1 # 1 /\ waiting'[i] = waiting[i + 1]
          BY <2>2
        <4>2. op[waiting[i + 1]].pc = "waiting" /\ waiting[i + 1] # w
          BY <2>2, <4>1 DEF QueueIsWhoWaits, WaitsOnce
        <4>3. waiting[i + 1] \in Slots
          BY <4>1 DEF GateTypeOK
        <4> QED
          BY <2>4, <4>1, <4>2, <4>3
      <3>2. ASSUME NEW t \in Slots, op'[t].pc = "waiting"
            PROVE  \E i \in DOMAIN waiting' : waiting'[i] = t
        <4>1. t # w /\ t # s /\ op[t].pc = "waiting"
          BY <2>4, <3>2
        <4>2. PICK k \in DOMAIN waiting : waiting[k] = t
          BY <4>1 DEF QueueIsWhoWaits
        <4>3. k # 1 /\ k \in Nat \ {0}
          BY <2>2, <4>1, <4>2
        <4>4. k - 1 \in DOMAIN waiting' /\ waiting'[k - 1] = t
          BY <2>2, <4>2, <4>3
        <4> QED
          BY <4>4
      <3> QED
        BY <3>1, <3>2 DEF QueueIsWhoWaits
    <2>8. PlacesAreCounted'
      <3>1. Cardinality(Sending') = Cardinality(Sending)
        BY <2>2, <2>3, <2>4, PlaceHandedOver
      <3> QED
        BY <1>3, <2>1, <3>1 DEF PlacesAreCounted
    <2> QED
      BY <2>5, <2>6, <2>7, <2>8
  <1> QED
    BY <1>2, <1>3

-----------------------------------------------------------------------------
LEMMA GateInit == UpstreamInit => GateInv
  <1> SUFFICES ASSUME UpstreamInit PROVE GateInv
    OBVIOUS
  <1>1. GateTypeOK
    BY DEF UpstreamInit, GateTypeOK, Entry, AtRest, Lookups, CacheKeys
  <1>2. WaitsOnce /\ QueueIsWhoWaits
    BY DEF UpstreamInit, WaitsOnce, QueueIsWhoWaits, AtRest
  <1>3. PlacesAreCounted
    <2>1. Sending = {}
      BY DEF UpstreamInit, Sending, AtRest
    <2> QED
      BY <2>1, FS_EmptySet, UpstreamAssumption DEF UpstreamInit, PlacesAreCounted
  <1> QED
    BY <1>1, <1>2, <1>3 DEF GateInv

\* A step that leaves the slots, the queue and the count alone.
LEMMA GateUntouched ==
  ASSUME GateInv, UNCHANGED <<op, waiting, active>>, tick' \in Nat
  PROVE  GateInv'
  BY DEF GateInv, GateTypeOK, WaitsOnce, QueueIsWhoWaits, PlacesAreCounted, Sending

LEMMA GateStep == GateInv /\ [UpstreamNext]_upstreamVars => GateInv'
  <1> SUFFICES ASSUME GateInv, [UpstreamNext]_upstreamVars
               PROVE  GateInv'
    OBVIOUS
  <1>1. ASSUME NEW key \in CacheKeys, AskCached(key)
        PROVE  GateInv'
    <2>0. tick' = tick /\ tick \in Nat
      BY <1>1 DEF AskCached, GateInv, GateTypeOK
    <2>1. CASE UNCHANGED <<op, gateVars>>
      BY <2>0, <2>1, GateUntouched DEF gateVars
    <2>2. CASE \E s \in Slots :
                 /\ op[s].pc = "idle"
                 /\ gateFetch(s, [pc |-> "sending", key |-> key, attempt |-> 1, asked |-> tick])
      <3>1. [pc |-> "sending", key |-> key, attempt |-> 1, asked |-> tick] \in Entry
        BY <2>0 DEF Entry, Lookups
      <3> QED
        BY <2>0, <2>2, <3>1, GateFetchKeeps
    <2> QED
      BY <1>1, <2>1, <2>2 DEF AskCached
  <1>2. CASE geoLookup
    <2>0. tick' = tick /\ tick \in Nat
      BY <1>2 DEF geoLookup, GateInv, GateTypeOK
    <2>1. CASE UNCHANGED <<op, gateVars>>
      BY <2>0, <2>1, GateUntouched DEF gateVars
    <2>2. CASE \E s \in Slots :
                 /\ op[s].pc = "idle"
                 /\ gateFetch(s, [pc |-> "sending", key |-> "geo", attempt |-> 1, asked |-> tick])
      <3>1. [pc |-> "sending", key |-> "geo", attempt |-> 1, asked |-> tick] \in Entry
        BY <2>0 DEF Entry, Lookups
      <3> QED
        BY <2>0, <2>2, <3>1, GateFetchKeeps
    <2> QED
      BY <1>2, <2>1, <2>2 DEF geoLookup
  <1>3. ASSUME NEW s \in Slots, Answered(s)
        PROVE  GateInv'
    <2>1. op[s].pc = "sending" /\ release([op EXCEPT ![s] = AtRest]) /\ UNCHANGED tick
      BY <1>3 DEF Answered, upstreamBounds
    <2>2. AtRest \in Entry /\ AtRest.pc = "idle"
      BY DEF AtRest, Entry, Lookups
    <2> QED
      BY <2>1, <2>2, ReleaseKeeps
  <1>4. ASSUME NEW s \in Slots, Failed(s)
        PROVE  GateInv'
    <2>1. /\ op[s].pc = "sending" /\ UNCHANGED tick
          /\ \/ release([op EXCEPT ![s].pc = "backoff"])
             \/ release([op EXCEPT ![s] = AtRest])
      BY <1>4 DEF Failed, upstreamBounds
    <2>2. AtRest \in Entry /\ AtRest.pc = "idle"
      BY DEF AtRest, Entry, Lookups
    <2>3. op \in [Slots -> Entry]
      BY DEF GateInv, GateTypeOK
    <2> DEFINE again == [op[s] EXCEPT !.pc = "backoff"]
    <2>4. /\ again \in Entry /\ again.pc = "backoff"
          /\ [op EXCEPT ![s].pc = "backoff"] = [op EXCEPT ![s] = again]
      BY <2>3 DEF Entry
    <2> HIDE DEF again
    <2> QED
      BY <2>1, <2>2, <2>4, ReleaseKeeps
  <1>5. ASSUME NEW s \in Slots, TryAgain(s)
        PROVE  GateInv'
    <2>1. /\ op[s].pc = "backoff" /\ UNCHANGED tick
          /\ gateFetch(s, [op[s] EXCEPT !.attempt = @ + 1])
      BY <1>5 DEF TryAgain, upstreamBounds
    <2>2. [op[s] EXCEPT !.attempt = @ + 1] \in Entry
      BY DEF GateInv, GateTypeOK, Entry
    <2> QED
      BY <2>1, <2>2, GateFetchKeeps
  <1>6. CASE RestartProcess
    <2>1. /\ op' = [s \in Slots |-> AtRest] /\ waiting' = << >> /\ active' = 0
          /\ tick' = tick
      BY <1>6 DEF RestartProcess
    <2>2. GateTypeOK'
      BY <2>1 DEF GateInv, GateTypeOK, Entry, AtRest, Lookups, CacheKeys
    <2>3. WaitsOnce' /\ QueueIsWhoWaits'
      BY <2>1 DEF WaitsOnce, QueueIsWhoWaits, AtRest
    <2>4. Sending' = {}
      BY <2>1 DEF Sending, AtRest
    <2>5. PlacesAreCounted'
      BY <2>1, <2>4, FS_EmptySet, UpstreamAssumption DEF PlacesAreCounted
    <2> QED
      BY <2>2, <2>3, <2>5 DEF GateInv
  <1>7. CASE pruneCache
    BY <1>7, GateUntouched DEF pruneCache, gateVars, upstreamBounds, GateInv, GateTypeOK
  <1>8. CASE TimePasses
    BY <1>8, GateUntouched DEF TimePasses, gateVars, GateInv, GateTypeOK
  <1>9. CASE UNCHANGED upstreamVars
    BY <1>9, GateUntouched DEF upstreamVars, GateInv, GateTypeOK
  <1> QED
    BY <1>1, <1>2, <1>3, <1>4, <1>5, <1>6, <1>7, <1>8, <1>9 DEF UpstreamNext

LEMMA GateInvKeepsPlaces == GateInv => GateKeepsItsPlaces
  <1> SUFFICES ASSUME GateInv PROVE GateKeepsItsPlaces
    OBVIOUS
  <1>1. Range(waiting) = {s \in Slots : op[s].pc = "waiting"}
    BY DEF GateInv, GateTypeOK, QueueIsWhoWaits, Range
  <1> QED
    BY <1>1 DEF GateInv, PlacesAreCounted, Sending, GateKeepsItsPlaces

\* At every moment the places of the gate are the requests on their way, never
\* more than QWEATHER_MAX_CONCURRENCY; the calls that wait are those in the queue,
\* and they wait only while every place is taken (Semaphore of core/qweather.ts).
THEOREM GateIsKept == UpstreamSpec => []GateKeepsItsPlaces
  <1>1. UpstreamSpec => []GateInv
    BY GateInit, GateStep, PTL DEF UpstreamSpec
  <1> QED
    BY <1>1, GateInvKeepsPlaces, PTL

-----------------------------------------------------------------------------
(* A forecast starts today.                                                   *)

AskedBefore == \A s \in Slots : op[s].asked <= tick

\* A cached forecast does not outlive its first day.
CacheHoldsToday ==
    /\ DOMAIN cache = CacheKeys
    /\ cache["daily"] # NoEntry =>
          /\ cache["daily"].first \in Nat /\ cache["daily"].first <= today
          /\ cache["daily"].expires <= (cache["daily"].first + 1) * DayTicks
          /\ cache["daily"].expires \in Nat

ForecastInv == GateInv /\ AskedBefore /\ CacheHoldsToday /\ ForecastStartsToday

LEMMA DaysGoOn ==
  ASSUME NEW a \in Nat, NEW b \in Nat, a <= b
  PROVE  /\ a \div DayTicks \in Nat /\ b \div DayTicks \in Nat
         /\ a \div DayTicks <= b \div DayTicks
         /\ (a \div DayTicks + 1) * DayTicks \in Nat
         /\ (a \div DayTicks + 1) * DayTicks <= (b \div DayTicks + 1) * DayTicks
  <1>1. a \div DayTicks \in Nat /\ b \div DayTicks \in Nat /\ a \div DayTicks <= b \div DayTicks
    BY UpstreamAssumption
  <1> DEFINE m == a \div DayTicks
             n == b \div DayTicks
  <1> HIDE DEF m, n
  <1>2. ASSUME m \in Nat, n \in Nat, m <= n
        PROVE  (m + 1) * DayTicks \in Nat /\ (m + 1) * DayTicks <= (n + 1) * DayTicks
    BY <1>2, UpstreamAssumption
  <1> QED
    BY <1>1, <1>2 DEF m, n

LEMMA BeforeTheNextDay ==
  ASSUME NEW t \in Nat, NEW day \in Nat, t < (day + 1) * DayTicks
  PROVE  t \div DayTicks <= day
  BY UpstreamAssumption

\* The first day of the days that are not over.
LEMMA FirstRow ==
  ASSUME NEW first \in Nat, first <= today, today \in Nat, currentRows(first) # {}
  PROVE  Min(currentRows(first)) = today
  <1>1. today \in currentRows(first) /\ \A d \in currentRows(first) : today <= d /\ d \in Nat
    BY DEF currentRows
  <1>2. \E x \in currentRows(first) : \A y \in currentRows(first) : x <= y
    BY <1>1
  <1>3. PICK x : x = Min(currentRows(first)) /\ x \in currentRows(first)
                 /\ \A y \in currentRows(first) : x <= y
    BY <1>2, Zenon DEF Min
  <1> QED
    BY <1>1, <1>3

\* The moment a forecast expires lies in the day it was asked for.
LEMMA ExpiresThatDay ==
  ASSUME NEW asked \in Nat
  PROVE  /\ dailyForecastExpiresAt(asked) \in Nat
         /\ dailyForecastExpiresAt(asked) <= (asked \div DayTicks + 1) * DayTicks
  <1> DEFINE later == asked + DailyTtl
             midnight == (asked \div DayTicks + 1) * DayTicks
  <1>1. later \in Nat /\ midnight \in Nat
    BY DaysGoOn, UpstreamAssumption
  <1>2. dailyForecastExpiresAt(asked) = Min({later, midnight})
    BY DEF dailyForecastExpiresAt
  <1> HIDE DEF later, midnight
  <1>3. \E x \in {later, midnight} : \A y \in {later, midnight} : x <= y
    BY <1>1
  <1>4. PICK x : x = Min({later, midnight}) /\ x \in {later, midnight}
                 /\ \A y \in {later, midnight} : x <= y
    BY <1>3, Zenon DEF Min
  <1> QED
    BY <1>1, <1>2, <1>4 DEF midnight

\* Calls that go through the gate keep the time they were asked at.
LEMMA FetchAsked ==
  ASSUME GateInv, AskedBefore, NEW s \in Slots, NEW entry \in Entry, entry.asked <= tick,
         gateFetch(s, entry), UNCHANGED tick
  PROVE  AskedBefore'
  <1>1. PICK pc : op' = [op EXCEPT ![s] = [entry EXCEPT !.pc = pc]]
    BY DEF gateFetch
  <1>2. [entry EXCEPT !.pc = pc].asked = entry.asked
    BY DEF Entry
  <1> QED
    BY <1>1, <1>2 DEF AskedBefore, GateInv, GateTypeOK

LEMMA ReleaseAsked ==
  ASSUME GateInv, AskedBefore, NEW s \in Slots, NEW entry \in Entry, entry.asked <= tick,
         release([op EXCEPT ![s] = entry]), UNCHANGED tick
  PROVE  AskedBefore'
  <1> DEFINE ops == [op EXCEPT ![s] = entry]
  <1>1. ops \in [Slots -> Entry] /\ \A t \in Slots : ops[t].asked <= tick
    BY DEF AskedBefore, GateInv, GateTypeOK
  <1> HIDE DEF ops
  <1>2. CASE op' = ops
    BY <1>1, <1>2 DEF AskedBefore
  <1>3. CASE waiting # << >> /\ op' = [ops EXCEPT ![Head(waiting)].pc = "sending"]
    <2>1. Head(waiting) \in Slots
      BY <1>3 DEF GateInv, GateTypeOK
    <2>2. \A t \in Slots : op'[t].asked = ops[t].asked
      BY <1>1, <1>3, <2>1 DEF Entry
    <2> QED
      BY <1>1, <2>2 DEF AskedBefore
  <1> QED
    BY <1>2, <1>3 DEF release, ops

LEMMA ForecastRests ==
  CacheHoldsToday /\ ForecastStartsToday /\ UNCHANGED <<cache, handed, tick>>
     => CacheHoldsToday' /\ ForecastStartsToday'
  BY DEF CacheHoldsToday, ForecastStartsToday, today

LEMMA AnsweredKeeps ==
  ASSUME ForecastInv, NEW s \in Slots, Answered(s)
  PROVE  AskedBefore' /\ CacheHoldsToday' /\ ForecastStartsToday'
  <1>1. UNCHANGED tick /\ tick \in Nat /\ release([op EXCEPT ![s] = AtRest])
    BY DEF Answered, upstreamBounds, ForecastInv, GateInv, GateTypeOK
  <1>2. AskedBefore'
    <2>1. AtRest \in Entry /\ AtRest.asked = 0
      BY DEF AtRest, Entry, Lookups
    <2> QED
      BY <1>1, <2>1, ReleaseAsked DEF ForecastInv
  <1>3. CASE UNCHANGED <<cache, handed>>
    BY <1>1, <1>2, <1>3, ForecastRests DEF ForecastInv
  <1>4. CASE setCache("minute", op[s].asked, 0) /\ UNCHANGED handed
    <2>1. DOMAIN cache' = CacheKeys /\ cache'["daily"] = cache["daily"]
      BY <1>4 DEF setCache, ForecastInv, CacheHoldsToday, CacheKeys
    <2> QED
      BY <1>1, <1>2, <1>4, <2>1 DEF ForecastInv, CacheHoldsToday, ForecastStartsToday, today
  <1>5. ASSUME NEW first \in op[s].asked \div DayTicks .. today, currentRows(first) # {},
               setCache("daily", op[s].asked, Min(currentRows(first))),
               HandForecast(Min(currentRows(first)))
        PROVE  CacheHoldsToday' /\ ForecastStartsToday'
    <2> DEFINE asked == op[s].asked
    <2>1. asked \in Nat /\ asked <= tick
      BY DEF ForecastInv, GateInv, GateTypeOK, Entry, AskedBefore
    <2>2. asked \div DayTicks \in Nat /\ today \in Nat
          /\ (asked \div DayTicks + 1) * DayTicks \in Nat
          /\ (asked \div DayTicks + 1) * DayTicks <= (today + 1) * DayTicks
          /\ (today + 1) * DayTicks \in Nat
      BY <1>1, <2>1, DaysGoOn DEF today
    <2>3. first \in Nat /\ first <= today
      BY <2>2
    <2>4. Min(currentRows(first)) = today
      BY <1>5, <2>2, <2>3, FirstRow
    <2>5. cache' = [cache EXCEPT !["daily"] = [first |-> today, expires |-> dailyForecastExpiresAt(asked)]]
      BY <1>5, <2>4 DEF setCache, expiresAt
    <2>6. DOMAIN cache' = CacheKeys /\ cache'["daily"].first = today
          /\ cache'["daily"].expires = dailyForecastExpiresAt(asked)
      BY <2>5 DEF ForecastInv, CacheHoldsToday, CacheKeys
    <2>7. dailyForecastExpiresAt(asked) \in Nat /\ dailyForecastExpiresAt(asked) <= (today + 1) * DayTicks
      <3>1. /\ dailyForecastExpiresAt(asked) \in Nat
            /\ dailyForecastExpiresAt(asked) <= (asked \div DayTicks + 1) * DayTicks
        BY <2>1, ExpiresThatDay
      <3> DEFINE midnight == (asked \div DayTicks + 1) * DayTicks
                 next == (today + 1) * DayTicks
      <3>2. midnight \in Nat /\ next \in Nat /\ midnight <= next /\ dailyForecastExpiresAt(asked) <= midnight
        BY <2>2, <3>1
      <3> HIDE DEF midnight, next
      <3>3. dailyForecastExpiresAt(asked) <= next
        BY <3>1, <3>2
      <3> QED
        BY <3>1, <3>3 DEF next
    <2>8. today' = today
      BY <1>1 DEF today
    <2>9. CacheHoldsToday'
      BY <2>2, <2>6, <2>7, <2>8 DEF CacheHoldsToday
    <2>10. ForecastStartsToday'
      BY <1>5, <2>4 DEF HandForecast, ForecastStartsToday
    <2> QED
      BY <2>9, <2>10
  <1> QED
    BY <1>2, <1>3, <1>4, <1>5 DEF Answered

LEMMA ForecastStep == ForecastInv /\ [UpstreamNext]_upstreamVars => ForecastInv'
  <1> SUFFICES ASSUME ForecastInv, [UpstreamNext]_upstreamVars
               PROVE  AskedBefore' /\ CacheHoldsToday' /\ ForecastStartsToday'
    BY GateStep DEF ForecastInv
  <1>0. tick \in Nat
    BY DEF ForecastInv, GateInv, GateTypeOK
  <1>1. ASSUME NEW key \in CacheKeys, AskCached(key)
        PROVE  AskedBefore' /\ CacheHoldsToday' /\ ForecastStartsToday'
    <2>1. UNCHANGED tick /\ [pc |-> "sending", key |-> key, attempt |-> 1, asked |-> tick] \in Entry
      BY <1>0, <1>1 DEF AskCached, Entry, Lookups
    <2>2. CASE UNCHANGED <<op, cache, handed>>
      BY <2>1, <2>2, ForecastRests DEF ForecastInv, AskedBefore
    <2>3. CASE UNCHANGED storeVars /\ \E s \in Slots : gateFetch(s, [pc |-> "sending", key |-> key, attempt |-> 1, asked |-> tick])
      BY <1>0, <2>1, <2>3, FetchAsked, ForecastRests DEF ForecastInv, storeVars
    <2>4. CASE /\ key = "daily" /\ getCache("daily") # NoEntry /\ HandForecast(getCache("daily").first)
               /\ UNCHANGED <<op, cache>>
      <3>1. /\ getCache("daily") = cache["daily"] /\ cache["daily"] # NoEntry
            /\ cache["daily"].expires > tick
        BY <2>4 DEF getCache
      <3>2. /\ cache["daily"].first \in Nat /\ cache["daily"].first <= today
            /\ cache["daily"].expires <= (cache["daily"].first + 1) * DayTicks
            /\ cache["daily"].expires \in Nat
        BY <3>1 DEF ForecastInv, CacheHoldsToday
      <3>3. (cache["daily"].first + 1) * DayTicks \in Nat
        BY <3>2, UpstreamAssumption
      <3>4. tick < (cache["daily"].first + 1) * DayTicks
        <4> DEFINE next == (cache["daily"].first + 1) * DayTicks
        <4>1. next \in Nat /\ cache["daily"].expires <= next
          BY <3>2, <3>3
        <4> HIDE DEF next
        <4>2. tick < next
          BY <1>0, <3>1, <3>2, <4>1
        <4> QED
          BY <4>2 DEF next
      <3>5. today <= cache["daily"].first
        BY <1>0, <3>2, <3>4, BeforeTheNextDay DEF today
      <3>6. cache["daily"].first = today
        <4>1. today \in Nat
          BY <1>0, DaysGoOn DEF today
        <4> QED
          BY <3>2, <3>5, <4>1
      <3>7. ForecastStartsToday'
        BY <2>4, <3>1, <3>6 DEF HandForecast, ForecastStartsToday
      <3>8. CacheHoldsToday'
        BY <2>1, <2>4 DEF ForecastInv, CacheHoldsToday, today
      <3> QED
        BY <2>1, <2>4, <3>7, <3>8 DEF ForecastInv, AskedBefore
    <2> QED
      BY <1>1, <2>2, <2>3, <2>4 DEF AskCached, storeVars
  <1>2. CASE geoLookup
    <2>1. UNCHANGED tick /\ [pc |-> "sending", key |-> "geo", attempt |-> 1, asked |-> tick] \in Entry
      BY <1>0, <1>2 DEF geoLookup, Entry, Lookups
    <2>2. AskedBefore'
      <3>1. CASE UNCHANGED op
        BY <2>1, <3>1 DEF ForecastInv, AskedBefore
      <3>2. CASE \E s \in Slots : gateFetch(s, [pc |-> "sending", key |-> "geo", attempt |-> 1, asked |-> tick])
        BY <1>0, <2>1, <3>2, FetchAsked DEF ForecastInv
      <3> QED
        BY <1>2, <3>1, <3>2 DEF geoLookup
    <2> QED
      BY <1>2, <2>1, <2>2, ForecastRests DEF ForecastInv, geoLookup, storeVars
  <1>3. ASSUME NEW s \in Slots, Answered(s)
        PROVE  AskedBefore' /\ CacheHoldsToday' /\ ForecastStartsToday'
    BY <1>3, AnsweredKeeps
  <1>4. ASSUME NEW s \in Slots, Failed(s)
        PROVE  AskedBefore' /\ CacheHoldsToday' /\ ForecastStartsToday'
    <2>1. /\ UNCHANGED <<cache, handed, tick>>
          /\ \/ release([op EXCEPT ![s].pc = "backoff"])
             \/ release([op EXCEPT ![s] = AtRest])
      BY <1>4 DEF Failed, upstreamBounds, storeVars
    <2>2. AtRest \in Entry /\ AtRest.asked <= tick
      BY <1>0 DEF AtRest, Entry, Lookups
    <2>3. op \in [Slots -> Entry] /\ op[s].asked <= tick
      BY DEF ForecastInv, GateInv, GateTypeOK, AskedBefore
    <2> DEFINE again == [op[s] EXCEPT !.pc = "backoff"]
    <2>4. /\ again \in Entry /\ again.asked <= tick
          /\ [op EXCEPT ![s].pc = "backoff"] = [op EXCEPT ![s] = again]
      BY <2>3 DEF Entry
    <2> HIDE DEF again
    <2> QED
      BY <2>1, <2>2, <2>4, ReleaseAsked, ForecastRests DEF ForecastInv
  <1>5. ASSUME NEW s \in Slots, TryAgain(s)
        PROVE  AskedBefore' /\ CacheHoldsToday' /\ ForecastStartsToday'
    <2>1. /\ UNCHANGED <<cache, handed, tick>>
          /\ gateFetch(s, [op[s] EXCEPT !.attempt = @ + 1])
      BY <1>5 DEF TryAgain, upstreamBounds, storeVars
    <2>2. [op[s] EXCEPT !.attempt = @ + 1] \in Entry /\ [op[s] EXCEPT !.attempt = @ + 1].asked <= tick
      <3>1. op[s] \in Entry /\ op[s].asked <= tick
        BY DEF ForecastInv, GateInv, GateTypeOK, AskedBefore
      <3> DEFINE again == [op[s] EXCEPT !.attempt = @ + 1]
      <3>2. again \in Entry
        BY <3>1 DEF Entry
      <3>3. again.asked = op[s].asked
        BY <3>1 DEF Entry
      <3> QED
        BY <3>1, <3>2, <3>3
    <2> QED
      BY <2>1, <2>2, FetchAsked, ForecastRests DEF ForecastInv
  <1>6. CASE RestartProcess
    BY <1>0, <1>6, ForecastRests DEF RestartProcess, ForecastInv, AskedBefore, AtRest
  <1>7. CASE pruneCache
    <2>1. DOMAIN cache' = CacheKeys /\ cache'["daily"] \in {cache["daily"], NoEntry}
      BY <1>7 DEF pruneCache, getCache, CacheKeys
    <2> QED
      BY <1>7, <2>1 DEF pruneCache, upstreamBounds, ForecastInv, AskedBefore, CacheHoldsToday,
                        ForecastStartsToday, today
  <1>8. CASE TimePasses
    <2>1. tick' = tick + 1 /\ UNCHANGED <<op, cache, handed>>
      BY <1>8 DEF TimePasses, storeVars
    <2>2. today \in Nat /\ today' \in Nat /\ today <= today'
      <3>1. tick \div DayTicks <= (tick + 1) \div DayTicks /\ tick \div DayTicks \in Nat
            /\ (tick + 1) \div DayTicks \in Nat
        BY <1>0, DaysGoOn
      <3> QED
        BY <2>1, <3>1 DEF today
    <2>3. AskedBefore'
      BY <1>0, <2>1 DEF ForecastInv, AskedBefore, GateInv, GateTypeOK, Entry
    <2>4. CacheHoldsToday'
      BY <2>1, <2>2 DEF ForecastInv, CacheHoldsToday
    <2> QED
      BY <2>1, <2>3, <2>4 DEF ForecastInv, ForecastStartsToday
  <1>9. CASE UNCHANGED upstreamVars
    BY <1>9, ForecastRests DEF upstreamVars, ForecastInv, AskedBefore
  <1> QED
    BY <1>1, <1>2, <1>3, <1>4, <1>5, <1>6, <1>7, <1>8, <1>9 DEF UpstreamNext

\* A forecast handed to a caller starts with the day on which it is handed over, from the
\* cache, over midnight on its way, or asked for the day before (dailyForecastExpiresAt, and
\* the filter of forecast()), whatever the times to live and the retries.
THEOREM ForecastsStartToday == UpstreamSpec => []ForecastStartsToday
  <1>1. UpstreamInit => ForecastInv
    <2>1. UpstreamInit => AskedBefore /\ CacheHoldsToday /\ ForecastStartsToday
      BY DEF UpstreamInit, AskedBefore, CacheHoldsToday, ForecastStartsToday, AtRest, CacheKeys
    <2> QED
      BY <2>1, GateInit DEF ForecastInv
  <1>2. ForecastInv => ForecastStartsToday
    BY DEF ForecastInv
  <1> QED
    BY <1>1, <1>2, ForecastStep, PTL DEF UpstreamSpec

-----------------------------------------------------------------------------
(* Nobody is told of an alert again but at a higher level.                    *)

\* Ranks have a highest.
LEMMA HighestRank ==
  ASSUME NEW S \in SUBSET (1 .. 5), S # {}
  PROVE  Max(S) \in S /\ \A x \in S : x <= Max(S)
  <1>1. \E m \in S : \A x \in S : m >= x
    <2>1. CASE 5 \in S
      BY <2>1
    <2>2. CASE 5 \notin S /\ 4 \in S
      BY <2>2
    <2>3. CASE 5 \notin S /\ 4 \notin S /\ 3 \in S
      BY <2>3
    <2>4. CASE 5 \notin S /\ 4 \notin S /\ 3 \notin S /\ 2 \in S
      BY <2>4
    <2>5. CASE 5 \notin S /\ 4 \notin S /\ 3 \notin S /\ 2 \notin S
      <3>1. \A x \in S : x = 1
        BY <2>5
      <3>2. 1 \in S
        BY <3>1
      <3> QED
        BY <3>1, <3>2
    <2> QED
      BY <2>1, <2>2, <2>3, <2>4, <2>5
  <1>2. PICK m \in S : \A x \in S : m >= x
    BY <1>1
  <1>3. Max(S) \in S /\ \A x \in S : Max(S) >= x
    BY <1>2, Zenon DEF Max
  <1>4. Max(S) \in 1 .. 5
    BY <1>3
  <1> QED
    BY <1>3, <1>4

LEMMA RankType == \A l : levelRank(l) \in 1 .. 5
  <1> SUFFICES ASSUME NEW l PROVE levelRank(l) \in 1 .. 5
    OBVIOUS
  <1>1. CASE l \in DOMAIN Rank
    <2>1. Rank[l] \in 1 .. 4
      BY <1>1, AlertAssumption, Zenon
    <2>2. levelRank(l) = Rank[l]
      BY <1>1 DEF levelRank
    <2> QED
      BY <2>1, <2>2
  <1>2. CASE l \notin DOMAIN Rank
    BY <1>2 DEF levelRank, UNKNOWN_LEVEL_RANK
  <1> QED
    BY <1>1, <1>2

\* What notifiedAlertRanks looks back at.
Counts(n) == n.level # NoLevel /\ alertTick - n.at <= HistoryWindow

LEMMA RanksOfTheTold ==
  ASSUME NEW w, NEW i \in DOMAIN alerted[w], Counts(alerted[w][i])
  PROVE  /\ alerted[w][i].alert \in DOMAIN notifiedAlertRanks(w)
         /\ levelRank(alerted[w][i].level) <= notifiedAlertRanks(w)[alerted[w][i].alert]
  <1> DEFINE recent == {alerted[w][k] : k \in {j \in DOMAIN alerted[w] :
                          /\ alerted[w][j].level # NoLevel
                          /\ alertTick - alerted[w][j].at <= HistoryWindow}}
             ranks(a) == {levelRank(n.level) : n \in {m \in recent : m.alert = a}}
             id == alerted[w][i].alert
  <1>1. notifiedAlertRanks(w) = [a \in {n.alert : n \in recent} |-> Max(ranks(a))]
    BY DEF notifiedAlertRanks
  <1>2. alerted[w][i] \in recent
    BY DEF Counts
  <1>3. levelRank(alerted[w][i].level) \in ranks(id)
    BY <1>2
  <1>4. ranks(id) \in SUBSET (1 .. 5) /\ ranks(id) # {}
    BY <1>3, RankType
  <1>5. levelRank(alerted[w][i].level) <= Max(ranks(id))
    BY <1>3, <1>4, HighestRank
  <1>6. id \in {n.alert : n \in recent}
    BY <1>2
  <1> HIDE DEF recent, ranks
  <1> QED
    BY <1>1, <1>5, <1>6

\* A rank comes of a notification.
LEMMA RanksAreTold ==
  ASSUME NEW w, NEW a \in DOMAIN notifiedAlertRanks(w)
  PROVE  \E i \in DOMAIN alerted[w] :
            /\ alerted[w][i].alert = a /\ alerted[w][i].level # NoLevel
            /\ levelRank(alerted[w][i].level) = notifiedAlertRanks(w)[a]
  <1> DEFINE recent == {alerted[w][k] : k \in {j \in DOMAIN alerted[w] :
                          /\ alerted[w][j].level # NoLevel
                          /\ alertTick - alerted[w][j].at <= HistoryWindow}}
             ranks == {levelRank(n.level) : n \in {m \in recent : m.alert = a}}
  <1>1. a \in {n.alert : n \in recent} /\ notifiedAlertRanks(w)[a] = Max(ranks)
    BY DEF notifiedAlertRanks
  <1>2. ranks \in SUBSET (1 .. 5) /\ ranks # {}
    BY <1>1, RankType
  <1>3. Max(ranks) \in ranks
    BY <1>2, HighestRank
  <1>4. PICK n \in recent : n.alert = a /\ levelRank(n.level) = Max(ranks)
    BY <1>3
  <1> QED
    BY <1>1, <1>4

-----------------------------------------------------------------------------
IsEntry(e) == e.id \in Alerts /\ e.level \in Levels

RoundIsRecord ==
    round = [at |-> round.at, left |-> round.left, who |-> round.who, list |-> round.list,
             ranks |-> round.ranks, failed |-> round.failed]

Told == [alert : Alerts, level : Levels, at : Nat]

WatchTypeOK ==
    /\ alertTick \in Nat
    /\ DOMAIN alert = Alerts /\ \A a \in Alerts : alert[a].level \in Levels \cup {"none"}
    /\ lists # NoList => \A e \in lists.alerts : IsEntry(e)
    /\ RoundIsRecord /\ \A e \in round.list : IsEntry(e)
    /\ alerted \in [Watchers -> Seq(Told)]
    /\ \A w \in Watchers : \A i \in DOMAIN alerted[w] : alerted[w][i].at <= alertTick

\* While a profile is visited the round knows the rank of what it was told lately.
RanksKnown ==
    \A w \in Watchers : round.who = {w} =>
        /\ \A a \in DOMAIN round.ranks : round.ranks[a] \in 1 .. 5
        /\ \A i \in DOMAIN alerted[w] : Counts(alerted[w][i]) =>
              /\ alerted[w][i].alert \in DOMAIN round.ranks
              /\ levelRank(alerted[w][i].level) <= round.ranks[alerted[w][i].alert]

\* Of two notifications of an alert: another level, and no lower one.
Rises(m, n) ==
    m.alert = n.alert =>
        /\ m.level # n.level
        /\ (m.level # NoLevel /\ n.at - m.at <= HistoryWindow) => levelRank(m.level) <= levelRank(n.level)

NeverFalls ==
    \A w \in Watchers : \A i, j \in DOMAIN alerted[w] : i < j => Rises(alerted[w][i], alerted[w][j])

WatchInv == WatchTypeOK /\ RanksKnown /\ NeverFalls

\* What was told, one by one.
LEMMA ToldShape ==
  ASSUME WatchTypeOK, NEW w \in Watchers, NEW i \in DOMAIN alerted[w]
  PROVE  /\ alerted[w][i].level \in Levels /\ alerted[w][i].at \in Nat
         /\ alerted[w][i].at <= alertTick /\ alertTick \in Nat
  <1>1. alerted[w] \in Seq(Told)
    BY DEF WatchTypeOK
  <1>2. alerted[w][i] \in Told
    BY <1>1
  <1>3. alerted[w][i].level \in Levels /\ alerted[w][i].at \in Nat
    BY <1>2 DEF Told
  <1> QED
    BY <1>3 DEF WatchTypeOK

\* The entries of a fresh list.
LEMMA FreshEntries ==
  ASSUME WatchTypeOK, NEW e \in alertsNow
  PROVE  IsEntry(e) /\ e = [id |-> e.id, level |-> alert[e.id].level, ends |-> alert[e.id].ends]
                    /\ alert[e.id].level # "none"
  BY DEF WatchTypeOK, alertsNow, IsEntry

\* What a step leaves alone.
LEMMA WatchRests ==
  WatchInv /\ UNCHANGED <<round, alerted, alertTick>> /\ WatchTypeOK' => WatchInv'
  BY DEF WatchInv, RanksKnown, NeverFalls, Counts

LEMMA VisitKeeps ==
  ASSUME WatchInv, NEW w \in Watchers, VisitProfile(w)
  PROVE  WatchInv'
  <1>1. UNCHANGED <<alert, alerted, alertTick>>
    BY DEF VisitProfile, bounds
  <1>2. ASSUME NEW list, \A e \in list : IsEntry(e),
               round' = [round EXCEPT !.who = {w}, !.list = list, !.ranks = notifiedAlertRanks(w)]
        PROVE  /\ RoundIsRecord' /\ RanksKnown' /\ \A e \in round'.list : IsEntry(e)
    <2>1. round' = [at |-> round.at, left |-> round.left, who |-> {w}, list |-> list,
                    ranks |-> notifiedAlertRanks(w), failed |-> round.failed]
      BY <1>2 DEF WatchInv, WatchTypeOK, RoundIsRecord
    <2>2. RoundIsRecord' /\ \A e \in round'.list : IsEntry(e)
      BY <1>2, <2>1 DEF RoundIsRecord
    <2>3. ASSUME NEW a \in DOMAIN notifiedAlertRanks(w) PROVE notifiedAlertRanks(w)[a] \in 1 .. 5
      <3>1. PICK i \in DOMAIN alerted[w] : levelRank(alerted[w][i].level) = notifiedAlertRanks(w)[a]
        BY <2>3, RanksAreTold
      <3> QED
        BY <3>1, RankType
    <2>5. \A v \in Watchers : round'.who = {v} => v = w
      BY <2>1
    <2>6. round'.ranks = notifiedAlertRanks(w)
      BY <2>1
    <2>4. RanksKnown'
      BY <1>1, <2>3, <2>5, <2>6, RanksOfTheTold DEF RanksKnown, Counts
    <2> QED
      BY <2>2, <2>4
  <1>3. CASE hasList /\ UNCHANGED lists
             /\ round' = [round EXCEPT !.who = {w}, !.list = lists.alerts, !.ranks = notifiedAlertRanks(w)]
    <2>1. RoundIsRecord' /\ RanksKnown' /\ \A e \in round'.list : IsEntry(e)
      BY <1>2, <1>3 DEF WatchInv, WatchTypeOK, hasList
    <2> QED
      BY <1>1, <1>3, <2>1 DEF WatchInv, WatchTypeOK, NeverFalls
  <1>4. CASE /\ round' = [round EXCEPT !.who = {w}, !.list = alertsNow, !.ranks = notifiedAlertRanks(w)]
             /\ lists' = [alerts |-> alertsNow, expires |-> alertTick + AlertTtl]
    <2>1. \A e \in alertsNow : IsEntry(e)
      BY FreshEntries DEF WatchInv
    <2>2. RoundIsRecord' /\ RanksKnown' /\ \A e \in round'.list : IsEntry(e)
      BY <1>2, <1>4, <2>1
    <2>3. \A e \in lists'.alerts : IsEntry(e)
      BY <1>4, <2>1
    <2> QED
      BY <1>1, <2>2, <2>3 DEF WatchInv, WatchTypeOK, NeverFalls
  <1>5. CASE UNCHANGED lists /\ round' = IF round.left = {w} THEN NoRound ELSE [round EXCEPT !.left = @ \ {w}]
    <2>1. \/ round' = NoRound
          \/ round' = [at |-> round.at, left |-> round.left \ {w}, who |-> round.who,
                       list |-> round.list, ranks |-> round.ranks, failed |-> round.failed]
      BY <1>5 DEF WatchInv, WatchTypeOK, RoundIsRecord
    <2>2. RoundIsRecord' /\ RanksKnown' /\ \A e \in round'.list : IsEntry(e)
      <3>1. CASE round' = NoRound
        BY <3>1 DEF RoundIsRecord, RanksKnown, NoRound
      <3>2. CASE round' = [at |-> round.at, left |-> round.left \ {w}, who |-> round.who,
                           list |-> round.list, ranks |-> round.ranks, failed |-> round.failed]
        BY <1>1, <3>2 DEF WatchInv, WatchTypeOK, RoundIsRecord, RanksKnown, Counts
      <3> QED
        BY <2>1, <3>1, <3>2
    <2> QED
      BY <1>1, <1>5, <2>2 DEF WatchInv, WatchTypeOK, NeverFalls
  <1> QED
    BY <1>3, <1>4, <1>5 DEF VisitProfile

LEMMA HandleKeeps ==
  ASSUME WatchInv, NEW w \in Watchers, HandleAlert(w)
  PROVE  WatchInv'
  <1>1. UNCHANGED <<alert, lists, alertTick>> /\ round.who = {w}
    BY DEF HandleAlert, bounds
  <1>2. PICK entry \in round.list :
           \/ /\ isDue(entry) /\ publishAlert(w, entry)
              /\ round' = [round EXCEPT !.list = @ \ {entry},
                             !.ranks = IF entry.level = NoLevel THEN @
                                       ELSE withRank(@, entry)]
           \/ round' = [round EXCEPT !.list = @ \ {entry}] /\ UNCHANGED alerted
           \/ skipAlert(entry) /\ UNCHANGED alerted
    BY DEF HandleAlert
  <1>3. IsEntry(entry) /\ alertTick \in Nat /\ alerted[w] \in Seq(Told)
    BY <1>2 DEF WatchInv, WatchTypeOK
  <1>4. CASE /\ round' = [round EXCEPT !.list = @ \ {entry}] \/ skipAlert(entry)
             /\ UNCHANGED alerted
    <2>1. PICK failed : round' = [at |-> round.at, left |-> round.left, who |-> round.who,
                                  list |-> round.list \ {entry}, ranks |-> round.ranks,
                                  failed |-> failed]
      BY <1>4 DEF skipAlert, WatchInv, WatchTypeOK, RoundIsRecord
    <2>2. /\ RoundIsRecord' /\ round'.who = round.who /\ round'.ranks = round.ranks
          /\ round'.list = round.list \ {entry}
      BY <2>1 DEF RoundIsRecord
    <2> QED
      BY <1>1, <1>4, <2>2 DEF WatchInv, WatchTypeOK, RoundIsRecord, RanksKnown, NeverFalls, Counts
  <1>5. CASE /\ isDue(entry) /\ publishAlert(w, entry)
             /\ round' = [round EXCEPT !.list = @ \ {entry},
                            !.ranks = IF entry.level = NoLevel THEN @
                                      ELSE withRank(@, entry)]
    <2> DEFINE rank == levelRank(entry.level)
               ranks == IF entry.level = NoLevel THEN round.ranks ELSE withRank(round.ranks, entry)
               n == [alert |-> entry.id, level |-> entry.level, at |-> alertTick]
    <2>2. round' = [at |-> round.at, left |-> round.left, who |-> round.who,
                    list |-> round.list \ {entry}, ranks |-> ranks, failed |-> round.failed]
      BY <1>5 DEF WatchInv, WatchTypeOK, RoundIsRecord
    <2>3. rank \in 1 .. 5 /\ (entry.id \in DOMAIN round.ranks => round.ranks[entry.id] <= rank)
      BY <1>5, RankType DEF isDue
    <2>4. \A a \in DOMAIN round.ranks : round.ranks[a] \in 1 .. 5
      BY <1>1 DEF WatchInv, RanksKnown
    <2>5. /\ \A a \in DOMAIN ranks : ranks[a] \in 1 .. 5
          /\ \A a \in DOMAIN round.ranks : a \in DOMAIN ranks /\ round.ranks[a] <= ranks[a]
          /\ entry.level # NoLevel => entry.id \in DOMAIN ranks /\ ranks[entry.id] = rank
      <3>1. CASE entry.level = NoLevel
        <4>1. ranks = round.ranks
          BY <3>1
        <4> HIDE DEF ranks, rank
        <4> QED
          BY <2>4, <3>1, <4>1
      <3>2. CASE entry.level # NoLevel
        <4>1. ranks = [a \in {entry.id} \cup DOMAIN round.ranks |->
                         IF a = entry.id THEN rank ELSE round.ranks[a]]
          BY <3>2 DEF withRank
        <4> HIDE DEF ranks, rank
        <4>2. ASSUME NEW a \in DOMAIN ranks PROVE ranks[a] \in 1 .. 5
          BY <2>3, <2>4, <4>1
        <4>3. ASSUME NEW a \in DOMAIN round.ranks
              PROVE  a \in DOMAIN ranks /\ round.ranks[a] <= ranks[a]
          BY <2>3, <2>4, <4>1
        <4> QED
          BY <4>1, <4>2, <4>3
      <3> QED
        BY <3>1, <3>2
    <2> HIDE DEF ranks, rank
    <2>6. ASSUME NEW i \in DOMAIN alerted[w], Counts(alerted[w][i])
          PROVE  /\ alerted[w][i].alert \in DOMAIN round.ranks
                 /\ levelRank(alerted[w][i].level) <= round.ranks[alerted[w][i].alert]
                 /\ alerted[w][i].alert \in DOMAIN ranks
                 /\ levelRank(alerted[w][i].level) <= ranks[alerted[w][i].alert]
      <3>1. /\ alerted[w][i].alert \in DOMAIN round.ranks
            /\ levelRank(alerted[w][i].level) <= round.ranks[alerted[w][i].alert]
        BY <1>1, <2>6 DEF WatchInv, RanksKnown
      <3>2. levelRank(alerted[w][i].level) \in 1 .. 5
        BY RankType
      <3>3. /\ alerted[w][i].alert \in DOMAIN ranks
            /\ round.ranks[alerted[w][i].alert] \in 1 .. 5 /\ ranks[alerted[w][i].alert] \in 1 .. 5
            /\ round.ranks[alerted[w][i].alert] <= ranks[alerted[w][i].alert]
        BY <2>4, <2>5, <3>1
      <3> QED
        BY <3>1, <3>2, <3>3
    <2>7. RoundIsRecord' /\ round'.who = {w} /\ round'.ranks = ranks /\ round'.list = round.list \ {entry}
      BY <1>1, <2>2 DEF RoundIsRecord
    <2>8. CASE UNCHANGED alerted
      <3>1. RanksKnown'
        BY <1>1, <2>5, <2>6, <2>7, <2>8 DEF RanksKnown, Counts
      <3> QED
        BY <1>1, <2>7, <2>8, <3>1 DEF WatchInv, WatchTypeOK, NeverFalls
    <2>9. CASE /\ alerted' = [alerted EXCEPT ![w] = Append(@, n)]
               /\ \A i \in DOMAIN alerted[w] :
                     ~(alerted[w][i].alert = entry.id /\ alerted[w][i].level = entry.level)
      <3>1. n \in Told
        BY <1>3 DEF Told, IsEntry
      <3> HIDE DEF n
      <3>2. /\ Append(alerted[w], n) \in Seq(Told)
            /\ DOMAIN Append(alerted[w], n) = DOMAIN alerted[w] \cup {Len(alerted[w]) + 1}
            /\ \A i \in DOMAIN alerted[w] : Append(alerted[w], n)[i] = alerted[w][i]
            /\ Append(alerted[w], n)[Len(alerted[w]) + 1] = n
        BY <1>3, <3>1
      <3>3. /\ alerted' \in [Watchers -> Seq(Told)] /\ alerted'[w] = Append(alerted[w], n)
            /\ \A v \in Watchers : v # w => alerted'[v] = alerted[v]
        BY <2>9, <3>2 DEF WatchInv, WatchTypeOK
      <3>4. n.at = alertTick /\ n.alert = entry.id /\ n.level = entry.level
        BY DEF n
      <3>5. WatchTypeOK'
        <4>1. ASSUME NEW v \in Watchers, NEW i \in DOMAIN alerted'[v]
              PROVE  alerted'[v][i].at <= alertTick
          <5>1. CASE v = w /\ i = Len(alerted[w]) + 1
            BY <1>3, <3>2, <3>3, <3>4, <5>1
          <5>2. CASE v = w /\ i \in DOMAIN alerted[w]
            BY <3>2, <3>3, <5>2, ToldShape DEF WatchInv
          <5>3. CASE v # w
            BY <3>3, <4>1, <5>3, ToldShape DEF WatchInv
          <5> QED
            BY <3>2, <3>3, <4>1, <5>1, <5>2, <5>3
        <4> QED
          BY <1>1, <2>7, <3>3, <4>1 DEF WatchInv, WatchTypeOK
      <3>6. RanksKnown'
        <4>1. \A v \in Watchers : round'.who = {v} => v = w
          BY <2>7
        <4>2. ASSUME NEW i \in DOMAIN alerted'[w], Counts(alerted'[w][i])
              PROVE  /\ alerted'[w][i].alert \in DOMAIN ranks
                     /\ levelRank(alerted'[w][i].level) <= ranks[alerted'[w][i].alert]
          <5>1. CASE i \in DOMAIN alerted[w]
            BY <2>6, <3>2, <3>3, <4>2, <5>1
          <5>2. CASE i = Len(alerted[w]) + 1
            <6>1. alerted'[w][i] = n
              BY <3>2, <3>3, <5>2
            <6>2. entry.level # NoLevel
              BY <3>4, <4>2, <6>1 DEF Counts
            <6>3. levelRank(n.level) = rank
              BY <3>4 DEF rank
            <6> QED
              BY <2>3, <2>5, <3>4, <6>1, <6>2, <6>3
          <5> QED
            BY <3>2, <3>3, <5>1, <5>2
        <4> QED
          BY <1>1, <2>5, <2>7, <4>1, <4>2 DEF RanksKnown, Counts
      <3>7. NeverFalls'
        <4>1. ASSUME NEW i \in DOMAIN alerted[w] PROVE Rises(alerted[w][i], n)
          <5> SUFFICES ASSUME alerted[w][i].alert = entry.id
                       PROVE  /\ alerted[w][i].level # entry.level
                              /\ (alerted[w][i].level # NoLevel /\ alertTick - alerted[w][i].at <= HistoryWindow)
                                    => levelRank(alerted[w][i].level) <= rank
            BY <3>4 DEF Rises, rank
          <5>1. alerted[w][i].level # entry.level
            BY <2>9
          <5>2. ASSUME Counts(alerted[w][i]) PROVE levelRank(alerted[w][i].level) <= rank
            <6>1. entry.id \in DOMAIN round.ranks /\ levelRank(alerted[w][i].level) <= round.ranks[entry.id]
              BY <2>6, <5>2
            <6>2. levelRank(alerted[w][i].level) \in 1 .. 5 /\ round.ranks[entry.id] \in 1 .. 5
              BY <2>4, <6>1, RankType
            <6> QED
              BY <2>3, <6>1, <6>2
          <5> QED
            BY <5>1, <5>2 DEF Counts
        <4>2. ASSUME NEW v \in Watchers, NEW i \in DOMAIN alerted'[v], NEW j \in DOMAIN alerted'[v], i < j
              PROVE  Rises(alerted'[v][i], alerted'[v][j])
          <5>1. CASE v # w
            BY <3>3, <4>2, <5>1 DEF WatchInv, NeverFalls
          <5>2. CASE v = w /\ j \in DOMAIN alerted[w]
            <6>1. i \in DOMAIN alerted[w]
              BY <1>3, <3>2, <3>3, <4>2, <5>2
            <6> QED
              BY <3>2, <3>3, <4>2, <5>2, <6>1 DEF WatchInv, NeverFalls
          <5>3. CASE v = w /\ j = Len(alerted[w]) + 1
            <6>1. i \in DOMAIN alerted[w]
              BY <1>3, <3>2, <3>3, <4>2, <5>3
            <6> QED
              BY <3>2, <3>3, <4>1, <5>3, <6>1
          <5> QED
            BY <3>2, <3>3, <5>1, <5>2, <5>3
        <4> QED
          BY <4>2 DEF NeverFalls
      <3> QED
        BY <3>5, <3>6, <3>7 DEF WatchInv
    <2> QED
      BY <1>5, <2>8, <2>9 DEF publishAlert
  <1> QED
    BY <1>2, <1>4, <1>5

LEMMA WatchStep == WatchInv /\ [AlertNext]_alertVars => WatchInv'
  <1> SUFFICES ASSUME WatchInv, [AlertNext]_alertVars PROVE WatchInv'
    OBVIOUS
  <1>1. CASE AlertChanges
    <2>1. DOMAIN alert' = Alerts /\ \A a \in Alerts : alert'[a].level \in Levels \cup {"none"}
      BY <1>1 DEF AlertChanges, WatchInv, WatchTypeOK, NoAlert
    <2> QED
      BY <1>1, <2>1, WatchRests DEF AlertChanges, WatchInv, WatchTypeOK, RoundIsRecord
  <1>2. CASE OthersAsk
    <2>1. \A e \in lists'.alerts : IsEntry(e)
      BY <1>2, FreshEntries DEF OthersAsk, WatchInv
    <2> QED
      BY <1>2, <2>1, WatchRests DEF OthersAsk, bounds, WatchInv, WatchTypeOK, RoundIsRecord
  <1>3. CASE runAlertWatch
    <2>1. round' = [at |-> alertTick, left |-> Watchers, who |-> {}, list |-> {}, ranks |-> << >>,
                    failed |-> {}]
      BY <1>3 DEF runAlertWatch, NoRound
    <2> QED
      <3>1. RoundIsRecord' /\ round'.who = {} /\ round'.list = {}
        BY <2>1 DEF RoundIsRecord
      <3> QED
        BY <1>3, <3>1 DEF runAlertWatch, bounds, WatchInv, WatchTypeOK, RanksKnown, NeverFalls
  <1>4. ASSUME NEW w \in Watchers, ProfileServed(w) PROVE WatchInv'
    <2>1. \/ round' = NoRound
          \/ round' = [at |-> round.at, left |-> round.left \ {w}, who |-> {},
                       list |-> {}, ranks |-> << >>, failed |-> {}]
      BY <1>4 DEF ProfileServed, NoRound
    <2>2. RoundIsRecord' /\ round'.who = {} /\ round'.list \subseteq round.list
      BY <2>1 DEF RoundIsRecord, NoRound
    <2> QED
      BY <1>4, <2>2 DEF ProfileServed, bounds, WatchInv, WatchTypeOK, RanksKnown, NeverFalls
  <1>5. CASE RoundCrash
    <2>1. RoundIsRecord' /\ round'.who = {} /\ round'.list = {}
      BY <1>5 DEF RoundCrash, RoundIsRecord, NoRound
    <2> QED
      BY <1>5, <2>1 DEF RoundCrash, bounds, WatchInv, WatchTypeOK, RanksKnown, NeverFalls
  <1>6. CASE AlertTime
    <2>1. alertTick \in Nat /\ alertTick' = alertTick + 1 /\ UNCHANGED <<alert, lists, round, alerted>>
      BY <1>6 DEF AlertTime, WatchInv, WatchTypeOK
    <2>2. \A w \in Watchers : \A i \in DOMAIN alerted[w] :
             alerted[w][i].at \in Nat /\ alerted[w][i].at <= alertTick
      BY ToldShape DEF WatchInv
    <2>3. WatchTypeOK'
      BY <2>1, <2>2 DEF WatchInv, WatchTypeOK, RoundIsRecord
    <2>4. ASSUME NEW w \in Watchers, NEW i \in DOMAIN alerted[w], Counts(alerted[w][i])'
          PROVE  Counts(alerted[w][i])
      <3>1. HistoryWindow \in Nat
        BY AlertAssumption, Zenon
      <3>2. /\ alerted[w][i].level # NoLevel /\ alertTick' - alerted[w][i].at <= HistoryWindow
            /\ alerted[w][i].at \in Nat
        BY <2>1, <2>2, <2>4 DEF Counts
      <3> QED
        BY <2>1, <3>1, <3>2 DEF Counts
    <2>5. RanksKnown'
      BY <2>1, <2>4 DEF WatchInv, RanksKnown
    <2> QED
      BY <2>1, <2>3, <2>5 DEF WatchInv, NeverFalls
  <1>7. CASE UNCHANGED alertVars
    BY <1>7 DEF alertVars, WatchInv, WatchTypeOK, RoundIsRecord, RanksKnown, NeverFalls, Counts
  <1> QED
    BY <1>1, <1>2, <1>3, <1>4, <1>5, <1>6, <1>7, VisitKeeps, HandleKeeps DEF AlertNext

LEMMA WatchHolds == AlertSpec => []WatchInv
  <1>1. AlertInit => WatchInv
    <2> SUFFICES ASSUME AlertInit PROVE WatchInv
      OBVIOUS
    <2>1. \A w \in Watchers : alerted[w] = << >>
      BY DEF AlertInit
    <2>2. alerted \in [Watchers -> Seq(Told)]
      BY DEF AlertInit
    <2>3. round.who = {} /\ round.list = {} /\ RoundIsRecord
      BY DEF AlertInit, NoRound, RoundIsRecord
    <2>4. DOMAIN alert = Alerts /\ \A a \in Alerts : alert[a].level = "none"
      BY DEF AlertInit, NoAlert
    <2> QED
      BY <2>1, <2>2, <2>3, <2>4 DEF AlertInit, WatchInv, WatchTypeOK, RanksKnown, NeverFalls
  <1> QED
    BY <1>1, WatchStep, PTL DEF AlertSpec

\* A profile is told of an alert once per level and, within the time that is looked back,
\* at rising levels only (runAlertWatch, notifiedAlertRanks), where different levels have
\* different ranks: where a service names its levels in one way and knows ALERT_LEVEL_RANK.
THEOREM OnlyUpgrades ==
  ASSUME \A l, k \in Levels : l # k => levelRank(l) # levelRank(k)
  PROVE  AlertSpec => []AlertsOnlyUpgrade
  <1>1. WatchInv => AlertsOnlyUpgrade
    <2> SUFFICES ASSUME WatchInv, NEW w \in Watchers, NEW i \in DOMAIN alerted[w],
                        NEW j \in DOMAIN alerted[w], i < j,
                        alerted[w][i].alert = alerted[w][j].alert
                 PROVE  /\ alerted[w][i].level # alerted[w][j].level
                        /\ (/\ alerted[w][i].level # NoLevel
                            /\ alerted[w][j].at - alerted[w][i].at <= HistoryWindow)
                              => levelRank(alerted[w][i].level) < levelRank(alerted[w][j].level)
      BY DEF AlertsOnlyUpgrade
    <2>1. Rises(alerted[w][i], alerted[w][j])
      BY DEF WatchInv, NeverFalls
    <2>2. alerted[w][i].level \in Levels /\ alerted[w][j].level \in Levels
      BY ToldShape DEF WatchInv
    <2>3. levelRank(alerted[w][i].level) \in 1 .. 5 /\ levelRank(alerted[w][j].level) \in 1 .. 5
      BY RankType
    <2>4. levelRank(alerted[w][i].level) # levelRank(alerted[w][j].level)
      BY <2>1, <2>2 DEF Rises
    <2> QED
      BY <2>1, <2>3, <2>4 DEF Rises
  <1> QED
    BY <1>1, WatchHolds, PTL

\* Whatever the levels are called, nobody is told of an alert again at a level told
\* before, nor at a lower one than what was told lately.
THEOREM NeverTwiceNorLower == AlertSpec => []NeverFalls
  <1>1. WatchInv => NeverFalls
    BY DEF WatchInv
  <1> QED
    BY <1>1, WatchHolds, PTL

-----------------------------------------------------------------------------
(* A lasting alert is told.                                                   *)

EntryOf(a) == [id |-> a, level |-> alert[a].level, ends |-> alert[a].ends]

\* An alert that a round which began then has to tell of.
Lasting(a, at) ==
    /\ alert[a].level # "none"
    /\ alert[a].since + LongestTtl <= at
    /\ ~isExpiredAlert(alert[a], at)
    /\ ~(alert[a].level \in DOMAIN Rank /\ Rank[alert[a].level] < minRank)

IsTold(w, a) ==
    \E i \in DOMAIN alerted[w] :
        /\ alerted[w][i].alert = a
        /\ \/ alerted[w][i].level = alert[a].level
           \/ alerted[w][i].level # NoLevel /\ levelRank(alerted[w][i].level) > levelRank(alert[a].level)

TimesOK ==
    /\ \A a \in Alerts : alert[a].since \in Nat /\ alert[a].since <= alertTick
    /\ round.at \in Nat /\ round.at <= alertTick
    /\ \A w \in Watchers : served[w] \in Nat /\ served[w] <= alertTick
    /\ DOMAIN served = Watchers /\ DOMAIN missed = Watchers

\* A cached list holds every alert unchanged since before it could have been asked for.
ListHolds ==
    lists # NoList =>
        /\ lists.expires \in Nat /\ lists.expires <= alertTick + LongestTtl
        /\ \A a \in Alerts :
              alert[a].level # "none" /\ alert[a].since + LongestTtl < lists.expires
                 => EntryOf(a) \in lists.alerts

\* What a round has to tell of is still on its list, has been told, or has failed; and a
\* rank it knows was told.
RoundTells ==
    \A w \in Watchers : round.who = {w} =>
        /\ \A a \in Alerts : Lasting(a, round.at) =>
              EntryOf(a) \in round.list \/ IsTold(w, a) \/ a \in round.failed
        /\ \A a \in DOMAIN round.ranks : \E i \in DOMAIN alerted[w] :
              /\ alerted[w][i].alert = a /\ alerted[w][i].level # NoLevel
              /\ levelRank(alerted[w][i].level) = round.ranks[a]

LastingTold ==
    \A w \in Watchers, a \in Alerts : Lasting(a, served[w]) => IsTold(w, a) \/ a \in missed[w]

LastingInv == TimesOK /\ ListHolds /\ RoundTells /\ LastingTold

LEMMA TtlsKnown ==
  /\ AlertTtl \in Nat /\ ToolTtl \in Nat /\ LongestTtl \in Nat \ {0}
  /\ AlertTtl <= LongestTtl /\ ToolTtl <= LongestTtl
  <1>1. AlertTtl \in Nat \ {0} /\ ToolTtl \in Nat
    BY AlertAssumption, Zenon
  <1> QED
    BY <1>1 DEF LongestTtl

\* Every alert there is lies in a fresh list.
LEMMA FreshHolds ==
  ASSUME NEW a \in Alerts, alert[a].level # "none"
  PROVE  EntryOf(a) \in alertsNow
  BY DEF EntryOf, alertsNow

\* What was told stays told, while the alerts stay what they are.
Grows ==
    \A w \in Watchers : \A i \in DOMAIN alerted[w] :
        i \in DOMAIN alerted'[w] /\ alerted'[w][i] = alerted[w][i]

LEMMA StaysTold ==
  ASSUME Grows, UNCHANGED alert, NEW w \in Watchers, NEW a, IsTold(w, a)
  PROVE  IsTold(w, a)'
  BY DEF Grows, IsTold

LEMMA PublishedIsTold ==
  ASSUME WatchTypeOK, NEW w \in Watchers, NEW entry, IsEntry(entry), publishAlert(w, entry)
  PROVE  /\ Grows
         /\ \E i \in DOMAIN alerted'[w] :
               alerted'[w][i].alert = entry.id /\ alerted'[w][i].level = entry.level
  <1>1. alerted[w] \in Seq(Told) /\ DOMAIN alerted = Watchers
    BY DEF WatchTypeOK
  <1>2. CASE UNCHANGED alerted /\ \E i \in DOMAIN alerted[w] :
                alerted[w][i].alert = entry.id /\ alerted[w][i].level = entry.level
    BY <1>2 DEF Grows
  <1> DEFINE n == [alert |-> entry.id, level |-> entry.level, at |-> alertTick]
  <1>3. CASE alerted' = [alerted EXCEPT ![w] = Append(@, n)]
    <2>1. n \in Told /\ n.alert = entry.id /\ n.level = entry.level
      BY DEF WatchTypeOK, Told, IsEntry
    <2> HIDE DEF n
    <2>2. /\ DOMAIN Append(alerted[w], n) = DOMAIN alerted[w] \cup {Len(alerted[w]) + 1}
          /\ \A i \in DOMAIN alerted[w] : Append(alerted[w], n)[i] = alerted[w][i]
          /\ Append(alerted[w], n)[Len(alerted[w]) + 1] = n
      BY <1>1, <2>1
    <2>3. alerted'[w] = Append(alerted[w], n) /\ \A v \in Watchers : v # w => alerted'[v] = alerted[v]
      BY <1>1, <1>3
    <2> QED
      BY <2>1, <2>2, <2>3 DEF Grows
  <1> QED
    BY <1>2, <1>3 DEF publishAlert

\* An alert that changes is not a lasting one.
LEMMA ChangedIsNew ==
  ASSUME WatchInv, LastingInv, AlertChanges
  PROVE  LastingInv'
  <1>1. PICK a \in Alerts :
           \/ alert' = [alert EXCEPT ![a] = NoAlert]
           \/ \E l \in Levels, end \in {NoEnd, alertTick + 1} :
                 alert' = [alert EXCEPT ![a] = [level |-> l, since |-> alertTick, ends |-> end]]
    BY DEF AlertChanges
  <1>2. UNCHANGED <<lists, round, alerted, served, missed, alertTick>> /\ alertTick \in Nat
    BY DEF AlertChanges, outcomes, WatchInv, WatchTypeOK
  <1>3. /\ alert'[a].level = "none" \/ alert'[a].since = alertTick
        /\ alert'[a].since \in Nat /\ alert'[a].since <= alertTick
        /\ \A b \in Alerts : b # a => alert'[b] = alert[b]
    BY <1>1, <1>2 DEF WatchInv, WatchTypeOK, NoAlert
  <1>4. TimesOK'
    BY <1>2, <1>3 DEF LastingInv, TimesOK
  <1>5. ASSUME NEW b \in Alerts, NEW at \in Nat, at <= alertTick, Lasting(b, at)'
        PROVE  b # a /\ Lasting(b, at)
    <2>1. b # a
      BY <1>2, <1>3, <1>5, TtlsKnown DEF Lasting
    <2> QED
      BY <1>3, <1>5, <2>1 DEF Lasting, isExpiredAlert
  <1>6. ASSUME NEW b \in Alerts, b # a
        PROVE  /\ EntryOf(b)' = EntryOf(b)
               /\ \A w \in Watchers : IsTold(w, b) => IsTold(w, b)'
    BY <1>2, <1>3, <1>6 DEF EntryOf, IsTold
  <1>7. ListHolds'
    <2> SUFFICES ASSUME lists # NoList, NEW b \in Alerts, alert'[b].level # "none",
                        alert'[b].since + LongestTtl < lists.expires
                 PROVE  EntryOf(b)' \in lists.alerts
      BY <1>2 DEF ListHolds, LastingInv
    <2>1. b # a
      BY <1>2, <1>3, TtlsKnown DEF LastingInv, ListHolds
    <2> QED
      BY <1>3, <1>6, <2>1 DEF LastingInv, ListHolds
  <1>8. RoundTells'
    BY <1>2, <1>5, <1>6 DEF LastingInv, TimesOK, RoundTells
  <1>9. LastingTold'
    BY <1>2, <1>5, <1>6 DEF LastingInv, TimesOK, LastingTold
  <1> QED
    BY <1>4, <1>7, <1>8, <1>9 DEF LastingInv

LEMMA VisitFinds ==
  ASSUME WatchInv, LastingInv, NEW w \in Watchers, VisitProfile(w)
  PROVE  LastingInv'
  <1>1. UNCHANGED <<alert, alerted, served, missed, alertTick>> /\ alertTick \in Nat
    BY DEF VisitProfile, bounds, outcomes, WatchInv, WatchTypeOK
  <1>2. LastingTold'
    BY <1>1 DEF LastingInv, LastingTold, Lasting, IsTold
  <1>3. ASSUME NEW list, \A a \in Alerts : Lasting(a, round.at) => EntryOf(a) \in list,
               round' = [round EXCEPT !.who = {w}, !.list = list, !.ranks = notifiedAlertRanks(w)]
        PROVE  TimesOK' /\ RoundTells'
    <2>1. round' = [at |-> round.at, left |-> round.left, who |-> {w}, list |-> list,
                    ranks |-> notifiedAlertRanks(w), failed |-> round.failed]
      BY <1>3 DEF WatchInv, WatchTypeOK, RoundIsRecord
    <2>2. /\ round'.at = round.at /\ round'.list = list /\ round'.ranks = notifiedAlertRanks(w)
          /\ \A v \in Watchers : round'.who = {v} => v = w
      BY <2>1
    <2>3. ASSUME NEW a \in DOMAIN notifiedAlertRanks(w)
          PROVE  \E i \in DOMAIN alerted[w] :
                    /\ alerted[w][i].alert = a /\ alerted[w][i].level # NoLevel
                    /\ levelRank(alerted[w][i].level) = notifiedAlertRanks(w)[a]
      BY RanksAreTold
    <2>4. ASSUME NEW a \in Alerts, Lasting(a, round.at)' PROVE EntryOf(a)' \in list
      BY <1>1, <1>3, <2>2, <2>4 DEF Lasting, EntryOf
    <2>5. RoundTells'
      BY <1>1, <2>2, <2>3, <2>4 DEF RoundTells
    <2> QED
      BY <1>1, <2>2, <2>5 DEF LastingInv, TimesOK
  <1>4. CASE hasList /\ UNCHANGED lists
             /\ round' = [round EXCEPT !.who = {w}, !.list = lists.alerts, !.ranks = notifiedAlertRanks(w)]
    <2>1. ASSUME NEW a \in Alerts, Lasting(a, round.at) PROVE EntryOf(a) \in lists.alerts
      BY <1>1, <1>4, <2>1, TtlsKnown DEF hasList, Lasting, LastingInv, TimesOK, ListHolds
    <2>2. ListHolds'
      BY <1>1, <1>4 DEF LastingInv, ListHolds, EntryOf
    <2> QED
      BY <1>2, <1>3, <1>4, <2>1, <2>2 DEF LastingInv
  <1>5. CASE /\ round' = [round EXCEPT !.who = {w}, !.list = alertsNow, !.ranks = notifiedAlertRanks(w)]
             /\ lists' = [alerts |-> alertsNow, expires |-> alertTick + AlertTtl]
    <2>1. ASSUME NEW a \in Alerts, Lasting(a, round.at) PROVE EntryOf(a) \in alertsNow
      BY <2>1, FreshHolds DEF Lasting
    <2>2. ListHolds'
      <3>1. lists'.alerts = alertsNow /\ lists'.expires = alertTick + AlertTtl
        BY <1>5
      <3>2. ASSUME NEW a \in Alerts, alert'[a].level # "none" PROVE EntryOf(a)' \in lists'.alerts
        BY <1>1, <3>1, <3>2, FreshHolds DEF EntryOf
      <3> QED
        BY <1>1, <3>1, <3>2, TtlsKnown DEF ListHolds
    <2> QED
      BY <1>2, <1>3, <1>5, <2>1, <2>2 DEF LastingInv
  <1>6. CASE UNCHANGED lists /\ round' = IF round.left = {w} THEN NoRound ELSE [round EXCEPT !.left = @ \ {w}]
    <2>1. ListHolds'
      BY <1>1, <1>6 DEF LastingInv, ListHolds, EntryOf
    <2>2. CASE round' = NoRound
      <3>1. round'.who = {} /\ round'.at = 0
        BY <2>2 DEF NoRound
      <3> QED
        BY <1>1, <1>2, <2>1, <3>1 DEF LastingInv, TimesOK, RoundTells
    <2>3. CASE round' = [round EXCEPT !.left = @ \ {w}]
      <3>1. round' = [at |-> round.at, left |-> round.left \ {w}, who |-> round.who,
                      list |-> round.list, ranks |-> round.ranks, failed |-> round.failed]
        BY <2>3 DEF WatchInv, WatchTypeOK, RoundIsRecord
      <3>2. round'.at = round.at /\ round'.who = round.who /\ round'.list = round.list
            /\ round'.ranks = round.ranks /\ round'.failed = round.failed
        BY <3>1
      <3>3. TimesOK' /\ RoundTells'
        BY <1>1, <3>2 DEF LastingInv, TimesOK, RoundTells, Lasting, EntryOf, IsTold
      <3> QED
        BY <1>2, <2>1, <3>3 DEF LastingInv
    <2> QED
      BY <1>6, <2>2, <2>3
  <1> QED
    BY <1>4, <1>5, <1>6 DEF VisitProfile

LEMMA HandleTells ==
  ASSUME WatchInv, LastingInv, NEW w \in Watchers, HandleAlert(w)
  PROVE  LastingInv'
  <1>1. UNCHANGED <<alert, lists, served, missed, alertTick>> /\ round.who = {w}
    BY DEF HandleAlert, bounds, outcomes
  <1>2. PICK entry \in round.list :
           \/ /\ isDue(entry) /\ publishAlert(w, entry)
              /\ round' = [round EXCEPT !.list = @ \ {entry},
                             !.ranks = IF entry.level = NoLevel THEN @ ELSE withRank(@, entry)]
           \/ skipAlert(entry) /\ UNCHANGED alerted
           \/ /\ ~isDue(entry)
              /\ round' = [round EXCEPT !.list = @ \ {entry}] /\ UNCHANGED alerted
    BY DEF HandleAlert
  <1>3. IsEntry(entry)
    BY <1>2 DEF WatchInv, WatchTypeOK
  <1>4. Grows
    BY <1>2, <1>3, PublishedIsTold DEF WatchInv, Grows
  <1>5. \A a \in Alerts : \A v \in Watchers : IsTold(v, a) => IsTold(v, a)'
    BY <1>1, <1>4, StaysTold
  <1>6. /\ round'.at = round.at /\ round'.who = {w} /\ round'.list = round.list \ {entry}
        /\ \/ round'.ranks = round.ranks
           \/ /\ entry.level # NoLevel /\ round'.ranks = withRank(round.ranks, entry)
              /\ publishAlert(w, entry)
        /\ round.failed \subseteq round'.failed
        /\ skipAlert(entry) => entry.id \in round'.failed
    <2>1. CASE /\ publishAlert(w, entry)
               /\ round' = [round EXCEPT !.list = @ \ {entry},
                              !.ranks = IF entry.level = NoLevel THEN @ ELSE withRank(@, entry)]
               /\ ~skipAlert(entry)
      <3>1. round' = [at |-> round.at, left |-> round.left, who |-> round.who,
                      list |-> round.list \ {entry},
                      ranks |-> IF entry.level = NoLevel THEN round.ranks ELSE withRank(round.ranks, entry),
                      failed |-> round.failed]
        BY <2>1 DEF WatchInv, WatchTypeOK, RoundIsRecord
      <3> QED
        BY <1>1, <2>1, <3>1
    <2>2. CASE round' = [round EXCEPT !.list = @ \ {entry}] /\ ~skipAlert(entry)
      <3>1. round' = [at |-> round.at, left |-> round.left, who |-> round.who,
                      list |-> round.list \ {entry}, ranks |-> round.ranks, failed |-> round.failed]
        BY <2>2 DEF WatchInv, WatchTypeOK, RoundIsRecord
      <3> QED
        BY <1>1, <2>2, <3>1
    <2>3. CASE skipAlert(entry)
      <3>1. round' = [at |-> round.at, left |-> round.left, who |-> round.who,
                      list |-> round.list \ {entry}, ranks |-> round.ranks,
                      failed |-> round.failed \cup {entry.id}]
        BY <2>3 DEF skipAlert, WatchInv, WatchTypeOK, RoundIsRecord
      <3> QED
        BY <1>1, <3>1
    <2> QED
      BY <1>2, <2>1, <2>2, <2>3
  <1>7. ASSUME NEW a \in Alerts, Lasting(a, round.at), EntryOf(a) = entry
        PROVE  IsTold(w, a)' \/ a \in round'.failed
    <2>1. entry.id = a /\ entry.level = alert[a].level /\ entry.ends = alert[a].ends
      BY <1>7 DEF EntryOf
    <2>2. CASE skipAlert(entry)
      BY <1>6, <2>1, <2>2
    <2>3. CASE isDue(entry) /\ ~skipAlert(entry)
      <3>1. \E i \in DOMAIN alerted'[w] : alerted'[w][i].alert = a /\ alerted'[w][i].level = alert[a].level
        BY <1>2, <1>3, <2>1, <2>3, PublishedIsTold DEF WatchInv
      <3> QED
        BY <1>1, <3>1 DEF IsTold
    <2>4. CASE ~isDue(entry)
      <3>1. ~isExpiredAlert(entry, round.at)
        BY <1>7, <2>1 DEF Lasting, isExpiredAlert
      <3>2. levelRank(entry.level) >= minRank
        <4>1. minRank \in 1 .. 4 /\ \A l \in DOMAIN Rank : Rank[l] \in 1 .. 4
          BY AlertAssumption, Zenon
        <4>2. CASE entry.level \in DOMAIN Rank
          BY <1>7, <2>1, <4>1, <4>2 DEF Lasting, levelRank
        <4>3. CASE entry.level \notin DOMAIN Rank
          BY <4>1, <4>3 DEF levelRank, UNKNOWN_LEVEL_RANK
        <4> QED
          BY <4>2, <4>3
      <3>3. a \in DOMAIN round.ranks /\ ~(round.ranks[a] <= levelRank(alert[a].level))
        BY <2>1, <2>4, <3>1, <3>2 DEF isDue
      <3>4. PICK i \in DOMAIN alerted[w] :
               /\ alerted[w][i].alert = a /\ alerted[w][i].level # NoLevel
               /\ levelRank(alerted[w][i].level) = round.ranks[a]
        BY <1>1, <3>3 DEF LastingInv, RoundTells
      <3>5. levelRank(alerted[w][i].level) \in 1 .. 5 /\ levelRank(alert[a].level) \in 1 .. 5
        BY RankType
      <3>6. levelRank(alerted[w][i].level) > levelRank(alert[a].level)
        BY <3>3, <3>4, <3>5
      <3> QED
        BY <1>5, <3>4, <3>6 DEF IsTold
    <2> QED
      BY <2>2, <2>3, <2>4
  <1>8. ASSUME NEW a \in Alerts, Lasting(a, round.at)
        PROVE  EntryOf(a) \in round'.list \/ IsTold(w, a)' \/ a \in round'.failed
    BY <1>1, <1>5, <1>6, <1>7, <1>8 DEF LastingInv, RoundTells
  <1>9. ASSUME NEW a \in DOMAIN round'.ranks
        PROVE  \E i \in DOMAIN alerted'[w] :
                  /\ alerted'[w][i].alert = a /\ alerted'[w][i].level # NoLevel
                  /\ levelRank(alerted'[w][i].level) = round'.ranks[a]
    <2>1. CASE a \in DOMAIN round.ranks /\ round'.ranks[a] = round.ranks[a]
      <3>1. PICK i \in DOMAIN alerted[w] :
               /\ alerted[w][i].alert = a /\ alerted[w][i].level # NoLevel
               /\ levelRank(alerted[w][i].level) = round.ranks[a]
        BY <1>1, <2>1 DEF LastingInv, RoundTells
      <3> QED
        BY <1>4, <2>1, <3>1 DEF Grows
    <2>2. CASE /\ entry.level # NoLevel /\ publishAlert(w, entry)
               /\ a = entry.id /\ round'.ranks[a] = levelRank(entry.level)
      BY <1>3, <2>2, PublishedIsTold DEF WatchInv
    <2>3. \/ a \in DOMAIN round.ranks /\ round'.ranks[a] = round.ranks[a]
          \/ /\ entry.level # NoLevel /\ publishAlert(w, entry)
             /\ a = entry.id /\ round'.ranks[a] = levelRank(entry.level)
      BY <1>6, <1>9 DEF withRank
    <2> QED
      BY <2>1, <2>2, <2>3
  <1>10. RoundTells'
    <2>1. \A v \in Watchers : round'.who = {v} => v = w
      BY <1>6
    <2>2. \A a \in Alerts : Lasting(a, round.at)' => Lasting(a, round.at)
      BY <1>1, <1>6 DEF Lasting
    <2>3. \A a \in Alerts : EntryOf(a)' = EntryOf(a)
      BY <1>1 DEF EntryOf
    <2> QED
      BY <1>8, <1>9, <2>1, <2>2, <2>3 DEF RoundTells
  <1>11. LastingTold'
    BY <1>1, <1>5 DEF LastingInv, LastingTold, Lasting
  <1>12. TimesOK' /\ ListHolds'
    BY <1>1, <1>6 DEF LastingInv, TimesOK, ListHolds, EntryOf
  <1> QED
    BY <1>10, <1>11, <1>12 DEF LastingInv

LEMMA LastingStep == WatchInv /\ LastingInv /\ [AlertNext]_alertVars => LastingInv'
  <1> SUFFICES ASSUME WatchInv, LastingInv, [AlertNext]_alertVars PROVE LastingInv'
    OBVIOUS
  <1>0. ASSUME UNCHANGED <<alert, alerted, alertTick>>
        PROVE  /\ \A a \in Alerts : EntryOf(a)' = EntryOf(a)
               /\ \A w \in Watchers, a \in Alerts : IsTold(w, a)' = IsTold(w, a)
               /\ \A a \in Alerts : \A at \in Nat : Lasting(a, at)' = Lasting(a, at)
    BY <1>0 DEF EntryOf, IsTold, Lasting
  <1>1. CASE OthersAsk
    <2>1. PICK ttl \in {ToolTtl, AlertTtl} : lists' = [alerts |-> alertsNow, expires |-> alertTick + ttl]
      BY <1>1 DEF OthersAsk
    <2>2. UNCHANGED <<alert, round, alerted, served, missed, alertTick>> /\ alertTick \in Nat
      BY <1>1 DEF OthersAsk, bounds, outcomes, WatchInv, WatchTypeOK
    <2>3. lists'.alerts = alertsNow /\ lists'.expires = alertTick + ttl
      BY <2>1
    <2>4. ASSUME NEW a \in Alerts, alert'[a].level # "none" PROVE EntryOf(a)' \in lists'.alerts
      BY <2>2, <2>3, <2>4, FreshHolds DEF EntryOf
    <2>5. ListHolds'
      BY <2>2, <2>3, <2>4, TtlsKnown DEF ListHolds
    <2>6. TimesOK' /\ RoundTells' /\ LastingTold'
      BY <2>2 DEF LastingInv, TimesOK, RoundTells, LastingTold, EntryOf, IsTold, Lasting
    <2> QED
      BY <2>5, <2>6 DEF LastingInv
  <1>2. CASE runAlertWatch
    <2>1. round'.at = alertTick /\ round'.who = {} /\ alertTick \in Nat
      BY <1>2 DEF runAlertWatch, NoRound, WatchInv, WatchTypeOK
    <2>2. UNCHANGED <<alert, lists, alerted, served, missed, alertTick>>
      BY <1>2 DEF runAlertWatch, bounds, outcomes
    <2>3. RoundTells' /\ TimesOK'
      BY <2>1, <2>2 DEF LastingInv, RoundTells, TimesOK
    <2> QED
      BY <2>2, <2>3 DEF LastingInv, ListHolds, LastingTold, EntryOf, IsTold, Lasting
  <1>3. ASSUME NEW w \in Watchers, ProfileServed(w) PROVE LastingInv'
    <2>1. \/ round' = NoRound
          \/ round' = [at |-> round.at, left |-> round.left \ {w}, who |-> {},
                       list |-> {}, ranks |-> << >>, failed |-> {}]
      BY <1>3 DEF ProfileServed, NoRound
    <2>2. round'.who = {} /\ round'.at \in {0, round.at}
      BY <2>1 DEF NoRound
    <2>3. UNCHANGED <<alert, lists, alerted, alertTick>> /\ round.who = {w} /\ round.list = {}
      BY <1>3 DEF ProfileServed, bounds
    <2>4. /\ served'[w] = round.at /\ DOMAIN served' = Watchers
          /\ missed'[w] = round.failed /\ DOMAIN missed' = Watchers
          /\ \A v \in Watchers : v # w => served'[v] = served[v] /\ missed'[v] = missed[v]
      BY <1>3 DEF ProfileServed, LastingInv, TimesOK
    <2>5. \A a \in Alerts : Lasting(a, round.at) => IsTold(w, a) \/ a \in missed'[w]
      BY <2>3, <2>4 DEF LastingInv, RoundTells
    <2>6. \A v \in Watchers, a \in Alerts : Lasting(a, served'[v]) => IsTold(v, a) \/ a \in missed'[v]
      BY <2>4, <2>5 DEF LastingInv, LastingTold
    <2>7. LastingTold'
      BY <2>3, <2>6 DEF LastingTold, Lasting, IsTold
    <2>8. TimesOK'
      <3>1. round'.at \in Nat /\ round'.at <= alertTick
        BY <2>2 DEF LastingInv, TimesOK, WatchInv, WatchTypeOK
      <3>2. \A v \in Watchers : served'[v] \in Nat /\ served'[v] <= alertTick
        BY <2>4 DEF LastingInv, TimesOK
      <3> QED
        BY <2>3, <2>4, <3>1, <3>2 DEF LastingInv, TimesOK
    <2>9. RoundTells' /\ ListHolds'
      BY <2>2, <2>3 DEF LastingInv, RoundTells, ListHolds, EntryOf
    <2> QED
      BY <2>7, <2>8, <2>9 DEF LastingInv
  <1>4. CASE RoundCrash
    <2>1. round'.who = {} /\ round'.at = 0 /\ UNCHANGED <<alert, lists, alerted, served, missed, alertTick>>
      BY <1>4 DEF RoundCrash, NoRound, bounds, outcomes
    <2>2. TimesOK' /\ RoundTells' /\ ListHolds'
      BY <2>1 DEF LastingInv, TimesOK, RoundTells, ListHolds, EntryOf, WatchInv, WatchTypeOK
    <2> QED
      BY <2>1, <2>2 DEF LastingInv, LastingTold, Lasting, IsTold
  <1>5. CASE AlertTime
    <2>1. alertTick \in Nat /\ alertTick' = alertTick + 1 /\ UNCHANGED <<alert, lists, round, alerted, served, missed>>
      BY <1>5 DEF AlertTime, outcomes, WatchInv, WatchTypeOK
    <2>2. TimesOK' /\ ListHolds'
      BY <2>1, TtlsKnown DEF LastingInv, TimesOK, ListHolds, EntryOf
    <2> QED
      BY <2>1, <2>2 DEF LastingInv, LastingTold, RoundTells, EntryOf, Lasting, IsTold
  <1>6. CASE UNCHANGED alertVars
    BY <1>6 DEF alertVars, LastingInv, TimesOK, ListHolds, LastingTold, RoundTells, EntryOf, Lasting, IsTold
  <1> QED
    BY <1>1, <1>2, <1>3, <1>4, <1>5, <1>6, ChangedIsNew, VisitFinds, HandleTells DEF AlertNext

\* A profile that was served has been told of every alert that had been there for as long
\* as a list is cached, unless of a higher level of it, or the notification of this very
\* alert threw in its last round: neither the cache, nor the history that is looked back
\* on, nor a crash of a round, nor another alert that failed costs an alert (runAlertWatch).
THEOREM LastingIsTold == AlertSpec => []LastingAlertIsTold
  <1>1. AlertInit => LastingInv
    <2> SUFFICES ASSUME AlertInit PROVE LastingInv
      OBVIOUS
    <2>1. \A a \in Alerts : alert[a].level = "none" /\ alert[a].since = 0
      BY DEF AlertInit, NoAlert
    <2>2. round.who = {} /\ round.at = 0
      BY DEF AlertInit, NoRound
    <2> QED
      BY <2>1, <2>2 DEF AlertInit, LastingInv, TimesOK, ListHolds, RoundTells, LastingTold, Lasting
  <1>2. LastingInv => LastingAlertIsTold
    BY DEF LastingInv, LastingTold, LastingAlertIsTold, Lasting, IsTold
  <1> QED
    BY <1>1, <1>2, WatchHolds, LastingStep, PTL DEF AlertSpec

-----------------------------------------------------------------------------
(* Every run leaves its brief.                                                *)

\* The day of the run a brief is of.
RunDay(b) == IF b.kind = "daily" THEN b.day ELSE b.day - 1

IsRun(run) ==
    /\ run = [day |-> run.day, left |-> run.left, who |-> run.who, city |-> run.city]
    /\ run.day \in Int

\* No run is under way, and no brief written, of a day that has not been due.
BriefsInv ==
    /\ briefTick \in Nat /\ DOMAIN runs = Kinds
    /\ \A k \in Kinds : runs[k] # NoRun => IsRun(runs[k]) /\ dueAt(k, runs[k].day) <= briefTick
    /\ \A b \in briefs : b.day \in Int
    /\ BriefForEachRun

LEMMA DueAtInt == \A k, day : day \in Int => dueAt(k, day) \in Int
  <1>1. DayLength \in Int
    BY BriefsAssumption
  <1> SUFFICES ASSUME NEW k, NEW day \in Int PROVE dueAt(k, day) \in Int
    OBVIOUS
  <1>2. day * DayLength \in Int
    BY <1>1
  <1>3. (IF k = "daily" THEN 0 ELSE DayLength - 1) \in Int
    BY <1>1
  <1> QED
    BY <1>2, <1>3 DEF dueAt

LEMMA BriefsRest == BriefsInv /\ UNCHANGED <<runs, briefs, visited, briefTick>> => BriefsInv'
  BY DEF BriefsInv, BriefForEachRun, dueAt

LEMMA WriteKeeps ==
  ASSUME BriefsInv, NEW kind \in Kinds, NEW p \in BriefProfiles, WriteBrief(kind, p)
  PROVE  BriefsInv'
  <1> DEFINE run == runs[kind]
             day == IF kind = "daily" THEN run.day ELSE run.day + 1
  <1>1. IsRun(run) /\ dueAt(kind, run.day) <= briefTick /\ run.day \in Int /\ briefTick \in Nat
    BY DEF WriteBrief, BriefsInv, IsRun
  <1>2. PICK weather \in BOOLEAN, said \in BOOLEAN :
           /\ IF said THEN publishBrief(kind, p, run.city, day, weather) ELSE UNCHANGED briefs
           /\ visited' = visited \cup {[kind |-> kind, to |-> p, day |-> run.day, said |-> said]}
    BY DEF WriteBrief, calendarToday
  <1>3. briefTick' = briefTick /\ ReaderDone(kind, p)
    BY DEF WriteBrief
  <1>4. DOMAIN runs' = Kinds /\ \A k \in Kinds : runs'[k] # NoRun =>
           runs[k] # NoRun /\ IsRun(runs'[k]) /\ runs'[k].day = runs[k].day
    <2>1. DOMAIN runs' = Kinds /\ \A k \in Kinds : k # kind => runs'[k] = runs[k]
      BY <1>3 DEF ReaderDone, BriefsInv
    <2>2. \/ runs'[kind] = NoRun
          \/ runs'[kind] = [day |-> run.day, left |-> run.left \ {p}, who |-> {}, city |-> NoCity]
      BY <1>3 DEF ReaderDone, BriefsInv
    <2>4. runs'[kind] # NoRun => IsRun(runs'[kind]) /\ runs'[kind].day = run.day
      BY <1>1, <2>2 DEF IsRun
    <2> QED
      BY <2>1, <2>4 DEF BriefsInv, WriteBrief
  <1>5. /\ briefs \subseteq briefs'
        /\ \A b \in briefs' \ briefs : b.kind = kind /\ b.day = day
        /\ said => \E b \in briefs' : b.kind = kind /\ b.to = p /\ b.day = day
    <2> DEFINE same(b) == b.kind = kind /\ b.to = p /\ b.day = day /\ (kind = "daily" => b.city = run.city)
               new == [kind |-> kind, to |-> p, city |-> run.city, day |-> day, weather |-> weather]
    <2>1. CASE said = FALSE \/ (briefs' = briefs /\ \E b \in briefs : same(b))
      BY <1>2, <2>1
    <2>2. CASE briefs' = briefs \cup {new}
      <3>1. new.kind = kind /\ new.to = p /\ new.day = day
        OBVIOUS
      <3> HIDE DEF new
      <3> QED
        BY <2>2, <3>1
    <2> QED
      BY <1>2, <2>1, <2>2 DEF publishBrief
  <1>6. day \in Int /\ (kind # "daily" => day - 1 = run.day)
    BY <1>1
  <1>7. ASSUME NEW v \in visited', v.said
        PROVE  \E b \in briefs' : /\ b.kind = v.kind /\ b.to = v.to
                                  /\ b.day = (IF v.kind = "daily" THEN v.day ELSE v.day + 1)
    <2>1. CASE v \in visited
      BY <1>5, <1>7, <2>1 DEF BriefsInv, BriefForEachRun
    <2>2. CASE v = [kind |-> kind, to |-> p, day |-> run.day, said |-> said]
      BY <1>5, <1>7, <2>2
    <2> QED
      BY <1>2, <2>1, <2>2
  <1>8. ASSUME NEW b \in briefs'
        PROVE  b.day \in Int /\ dueAt(b.kind, IF b.kind = "daily" THEN b.day ELSE b.day - 1) <= briefTick
    <2>1. CASE b \in briefs
      BY <2>1 DEF BriefsInv, BriefForEachRun
    <2>2. CASE b \notin briefs
      <3>1. b.kind = kind /\ b.day = day
        BY <1>5, <1>8, <2>2
      <3>2. (IF b.kind = "daily" THEN b.day ELSE b.day - 1) = run.day
        BY <1>6, <3>1
      <3> QED
        BY <1>1, <1>6, <3>1, <3>2
    <2> QED
      BY <2>1, <2>2
  <1>9. BriefForEachRun'
    BY <1>3, <1>7, <1>8 DEF BriefForEachRun, dueAt
  <1> QED
    BY <1>1, <1>3, <1>4, <1>8, <1>9 DEF BriefsInv, dueAt

LEMMA BriefsStep == BriefsInv /\ [BriefsNext]_briefVars => BriefsInv'
  <1> SUFFICES ASSUME BriefsInv, [BriefsNext]_briefVars PROVE BriefsInv'
    OBVIOUS
  <1>1. CASE SetPlace \/ UNCHANGED briefVars
    BY <1>1, BriefsRest DEF SetPlace, briefVars
  <1>2. ASSUME NEW kind \in Kinds, NEW day \in 0 .. LastDay, RunBrief(kind, day) PROVE BriefsInv'
    <2>1. dueAt(kind, day) \in Int /\ briefTick \in Nat
      BY <1>2, DueAtInt DEF BriefsInv
    <2>2. dueAt(kind, day) <= briefTick
      BY <1>2, <2>1, BriefsAssumption DEF RunBrief
    <2>3. UNCHANGED <<briefs, visited, briefTick>>
      BY <1>2 DEF RunBrief
    <2>4. runs' = [runs EXCEPT ![kind] = [day |-> day, left |-> BriefProfiles, who |-> {}, city |-> NoCity]]
      BY <1>2 DEF RunBrief
    <2>5. \A k \in Kinds : runs'[k] # NoRun => IsRun(runs'[k]) /\ dueAt(k, runs'[k].day) <= briefTick
      BY <2>2, <2>4 DEF BriefsInv, IsRun
    <2> QED
      BY <2>3, <2>4, <2>5 DEF BriefsInv, BriefForEachRun, dueAt
  <1>3. ASSUME NEW kind \in Kinds, NEW p \in BriefProfiles, VisitReader(kind, p) PROVE BriefsInv'
    <2>1. PICK city : runs' = [runs EXCEPT ![kind].who = {p}, ![kind].city = city]
      BY <1>3 DEF VisitReader
    <2>2. UNCHANGED <<briefs, visited, briefTick>> /\ runs[kind] # NoRun
      BY <1>3 DEF VisitReader
    <2>3. IsRun(runs[kind])
      BY <2>2 DEF BriefsInv
    <2>4. /\ DOMAIN runs' = Kinds /\ \A k \in Kinds : k # kind => runs'[k] = runs[k]
          /\ runs'[kind] = [[runs[kind] EXCEPT !.who = {p}] EXCEPT !.city = city]
      BY <2>1 DEF BriefsInv
    <2>5. runs'[kind] = [day |-> runs[kind].day, left |-> runs[kind].left, who |-> {p}, city |-> city]
      BY <2>3, <2>4 DEF IsRun
    <2>6. \A k \in Kinds : runs'[k] # NoRun => IsRun(runs'[k]) /\ dueAt(k, runs'[k].day) <= briefTick
      BY <2>2, <2>3, <2>4, <2>5 DEF BriefsInv, IsRun
    <2> QED
      BY <2>2, <2>4, <2>6 DEF BriefsInv, BriefForEachRun, dueAt
  <1>4. CASE BriefTime
    <2>1. UNCHANGED <<runs, briefs, visited>> /\ briefTick' = briefTick + 1 /\ briefTick \in Nat
      BY <1>4 DEF BriefTime, BriefsInv
    <2>2. ASSUME NEW b \in briefs
          PROVE  dueAt(b.kind, IF b.kind = "daily" THEN b.day ELSE b.day - 1) <= briefTick'
      <3>1. (IF b.kind = "daily" THEN b.day ELSE b.day - 1) \in Int
        BY DEF BriefsInv
      <3>2. dueAt(b.kind, IF b.kind = "daily" THEN b.day ELSE b.day - 1) \in Int
        BY <3>1, DueAtInt
      <3>3. dueAt(b.kind, IF b.kind = "daily" THEN b.day ELSE b.day - 1) <= briefTick
        BY DEF BriefsInv, BriefForEachRun
      <3> QED
        BY <2>1, <3>2, <3>3
    <2>3. ASSUME NEW k \in Kinds, runs[k] # NoRun
          PROVE  IsRun(runs[k]) /\ dueAt(k, runs[k].day) <= briefTick'
      <3>1. IsRun(runs[k]) /\ dueAt(k, runs[k].day) <= briefTick /\ dueAt(k, runs[k].day) \in Int
        BY <2>3, DueAtInt DEF BriefsInv, IsRun
      <3> QED
        BY <2>1, <3>1
    <2> QED
      BY <2>1, <2>2, <2>3 DEF BriefsInv, BriefForEachRun, dueAt
  <1>5. CASE BriefCrash
    BY <1>5 DEF BriefCrash, BriefsInv, BriefForEachRun, dueAt
  <1> QED
    BY <1>1, <1>2, <1>3, <1>4, <1>5, WriteKeeps DEF BriefsNext

\* Every visit of a run that had something to say, and of which no step failed, left a brief
\* of the day the run was due on, also one made up for after midnight, and no brief is of a
\* day not yet due, whatever the runs, the changes of place and the crashes between them
\* (runBriefFor, publishProfile).
THEOREM EachRunIsBriefed == BriefsSpec => []BriefForEachRun
  <1>1. BriefsInit => BriefsInv
    BY DEF BriefsInit, BriefsInv, BriefForEachRun
  <1>2. BriefsInv => BriefForEachRun
    BY DEF BriefsInv
  <1> QED
    BY <1>1, <1>2, BriefsStep, PTL DEF BriefsSpec
=============================================================================
