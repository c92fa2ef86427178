------------------------------ MODULE Upstream ------------------------------
(* The client of the weather service (core/qweather.ts): the cache and the   *)
(* single flight in front of it, the gate that bounds the requests in        *)
(* flight, the retries with back-off, the count of requests, and the memory  *)
(* of places that may not be stored.                                         *)
(*                                                                           *)
(* One slot of `op' is one call that went past the cache.  It runs between   *)
(* awaits: for the gate, for the answer, for the back-off.  What an answer   *)
(* says is left out but for the first day of a forecast.  How long a         *)
(* back-off lasts is left open.                                              *)
EXTENDS Naturals, FiniteSets, Functions, FiniteSetsExt, Sequences, TLC

CONSTANTS
    Slots,             \* calls that can be past the cache at one time
    MAX_CONCURRENCY,   \* QWEATHER_MAX_CONCURRENCY
    maxAttempts,
    DayTicks,          \* ticks in a day
    MinuteTtl,         \* time to live of current weather, alerts and air, in ticks
    DailyTtl,          \* CACHE_TTL_MS.daily
    MemoTtl,           \* GEO_MEMO_TTL_MS
    NoEntry,
    MaxTick, MaxCalls   \* bounds

ASSUME UpstreamAssumption ==
    /\ MAX_CONCURRENCY \in Nat \ {0} /\ maxAttempts \in Nat \ {0} /\ DayTicks \in Nat \ {0}
    /\ MinuteTtl \in Nat /\ DailyTtl \in Nat /\ MemoTtl \in Nat /\ MaxTick \in Nat
    /\ IsFiniteSet(Slots) /\ NoEntry \notin Nat

VARIABLES
    op,        \* slot -> [pc, key, attempt, asked]
    waiting,   \* Semaphore.queue: slots in the order of their arrival
    active,    \* Semaphore.active
    cache,     \* key -> [first, expires] or NoEntry; `first': first day of a forecast
    memo,      \* when the place in geoMemo was asked for, or NoEntry
    usage,     \* the count in memory: [day, requests]
    counted,   \* qweather_usage: day -> requests
    handed,    \* the last forecast handed to a caller: [first, day], or NoEntry
    tick, calls

upstreamVars == <<op, waiting, active, cache, memo, usage, counted, handed, tick, calls>>
gateVars == <<waiting, active>>
storeVars == <<cache, memo, handed>>
upstreamBounds == <<tick, calls>>

\* `minute' stands for each of current weather, alerts and air quality.
CacheKeys == {"daily", "minute"}
Lookups == CacheKeys \cup {"geo"}
AtRest == [pc |-> "idle", key |-> "geo", attempt |-> 0, asked |-> 0]
today == tick \div DayTicks
Days == 0 .. MaxTick \div DayTicks

UpstreamInit ==
    /\ op = [s \in Slots |-> AtRest] /\ waiting = << >> /\ active = 0
    /\ cache = [k \in CacheKeys |-> NoEntry] /\ memo = NoEntry
    /\ usage = [day |-> 0, requests |-> 0] /\ counted = [d \in Days |-> 0]
    /\ handed = NoEntry
    /\ tick = 0 /\ calls = 0

-----------------------------------------------------------------------------
(* The count                                                                *)

rollUsageDay == IF usage.day = today THEN usage ELSE [day |-> today, requests |-> 0]

\* The write of the stored count is taken to succeed; a failure is swallowed.
recordUpstreamRequest ==
    /\ usage' = [rollUsageDay EXCEPT !.requests = @ + 1]
    /\ counted' = [counted EXCEPT ![today] = @ + 1]

\* daemon.ts reads the count of the day back when it starts.
seedQweatherUsage(requests) == usage' = [day |-> today, requests |-> requests]

-----------------------------------------------------------------------------
(* The gate                                                                 *)

\* gateFetch by slot s: it counts first, then takes a place or waits for one.
gateFetch(s, entry) ==
    /\ recordUpstreamRequest
    /\ IF active < MAX_CONCURRENCY
          THEN /\ active' = active + 1
               /\ op' = [op EXCEPT ![s] = [entry EXCEPT !.pc = "sending"]]
               /\ UNCHANGED waiting
          ELSE /\ waiting' = Append(waiting, s)
               /\ op' = [op EXCEPT ![s] = [entry EXCEPT !.pc = "waiting"]]
               /\ UNCHANGED active

\* A slip: the place falls free although the first that waits takes it.
releaseFreesToo(ops) ==
    IF waiting = << >>
      THEN active' = active - 1 /\ op' = ops /\ UNCHANGED waiting
      ELSE /\ waiting' = Tail(waiting)
           /\ op' = [ops EXCEPT ![Head(waiting)].pc = "sending"]
           /\ active' = active - 1

\* The place goes to the first that waits; only without one does it fall free.
release(ops) ==
    IF waiting = << >>
      THEN active' = active - 1 /\ op' = ops /\ UNCHANGED waiting
      ELSE /\ waiting' = Tail(waiting)
           /\ op' = [ops EXCEPT ![Head(waiting)].pc = "sending"]
           /\ UNCHANGED active

-----------------------------------------------------------------------------
(* The cache                                                                *)

\* A slip: two hours, also over midnight.
plainTtl(asked) == asked + DailyTtl

dailyForecastExpiresAt(asked) ==
    Min({asked + DailyTtl, (asked \div DayTicks + 1) * DayTicks})

\* The forecast counts from when it was asked for, the others from when they are stored.
expiresAt(key, asked) ==
    IF key = "daily" THEN dailyForecastExpiresAt(asked) ELSE tick + MinuteTtl

getCache(key) ==
    IF cache[key] # NoEntry /\ cache[key].expires > tick THEN cache[key] ELSE NoEntry

geoMemoGet == IF memo # NoEntry /\ tick - memo <= MemoTtl THEN memo ELSE NoEntry

inflightByKey == {op[s].key : s \in {t \in Slots : op[t].pc # "idle"}} \cap CacheKeys

HandForecast(first) == handed' = [first |-> first, day |-> today]

\* forecast, currentWeather, alerts, airQuality: from the cache, or together with
\* the call that is under way, or by a call of one's own.
AskCached(key) ==
    /\ calls < MaxCalls /\ calls' = calls + 1
    /\ \/ /\ getCache(key) # NoEntry
          /\ IF key = "daily" THEN HandForecast(getCache(key).first) ELSE UNCHANGED handed
          /\ UNCHANGED <<op, gateVars, usage, counted, cache, memo>>
       \/ /\ getCache(key) = NoEntry /\ key \in inflightByKey
          /\ UNCHANGED <<op, gateVars, usage, counted, storeVars>>
       \/ /\ getCache(key) = NoEntry /\ key \notin inflightByKey
          /\ \E s \in Slots : /\ op[s].pc = "idle"
                              /\ gateFetch(s, [pc |-> "sending", key |-> key, attempt |-> 1,
                                               asked |-> tick])
          /\ UNCHANGED storeVars
    /\ UNCHANGED tick

\* geoLookup: from memory, or by a call of one's own.
geoLookup ==
    /\ calls < MaxCalls /\ calls' = calls + 1
    /\ \/ geoMemoGet # NoEntry /\ UNCHANGED <<op, gateVars, usage, counted>>
       \/ /\ geoMemoGet = NoEntry
          /\ \E s \in Slots : /\ op[s].pc = "idle"
                              /\ gateFetch(s, [pc |-> "sending", key |-> "geo", attempt |-> 1,
                                               asked |-> tick])
    /\ UNCHANGED <<storeVars, tick>>

-----------------------------------------------------------------------------
(* Answers                                                                  *)

\* The days of an answer that are not over; the far end may have answered before midnight.
currentRows(first) == {d \in first .. first + 6 : d >= today}

setCache(key, asked, first) ==
    cache' = [cache EXCEPT ![key] = [first |-> first, expires |-> expiresAt(key, asked)]]

\* 429, 5xx and passing trouble of the network are tried again; whatever says that
\* the request is wrong is not.
isRetryableError(outcome) == outcome \in {"busy", "network"}

\* A well-formed answer: stored, and handed to all who wait for it.  One without a day
\* that is not over counts as malformed.
Answered(s) ==
    /\ op[s].pc = "sending"
    /\ release([op EXCEPT ![s] = AtRest])
    /\ \/ op[s].key = "geo" /\ memo' = op[s].asked /\ UNCHANGED <<cache, handed>>
       \/ op[s].key = "minute" /\ setCache("minute", op[s].asked, 0) /\ UNCHANGED <<memo, handed>>
       \/ /\ op[s].key = "daily"
          /\ \E first \in op[s].asked \div DayTicks .. today :
                /\ currentRows(first) # {}
                /\ setCache("daily", op[s].asked, Min(currentRows(first)))
                /\ HandForecast(Min(currentRows(first)))
          /\ UNCHANGED memo
    /\ UNCHANGED <<usage, counted, upstreamBounds>>

\* No answer, or one that is refused, wrong or malformed: nothing is stored.
Failed(s) ==
    /\ op[s].pc = "sending"
    /\ \E outcome \in {"busy", "network", "refused", "malformed"} :
          IF isRetryableError(outcome) /\ op[s].attempt < maxAttempts
            THEN release([op EXCEPT ![s].pc = "backoff"])
            ELSE release([op EXCEPT ![s] = AtRest])
    /\ UNCHANGED <<usage, counted, storeVars, upstreamBounds>>

\* withRetry after its sleep: the same request again, through the gate.
TryAgain(s) ==
    /\ op[s].pc = "backoff"
    /\ gateFetch(s, [op[s] EXCEPT !.attempt = @ + 1])
    /\ UNCHANGED <<storeVars, upstreamBounds>>

-----------------------------------------------------------------------------
\* The cache and the stored count outlive the process.
RestartProcess ==
    /\ op' = [s \in Slots |-> AtRest] /\ waiting' = << >> /\ active' = 0 /\ memo' = NoEntry
    /\ seedQweatherUsage(counted[today])
    /\ UNCHANGED <<cache, counted, handed, tick, calls>>

pruneCache ==
    /\ cache' = [k \in CacheKeys |-> getCache(k)]
    /\ cache' # cache
    /\ UNCHANGED <<op, gateVars, usage, counted, memo, handed, upstreamBounds>>

TimePasses ==
    /\ tick < MaxTick /\ tick' = tick + 1
    /\ UNCHANGED <<op, gateVars, usage, counted, storeVars, calls>>

UpstreamNext ==
    \/ \E key \in CacheKeys : AskCached(key)
    \/ geoLookup
    \/ \E s \in Slots : Answered(s)
    \/ \E s \in Slots : Failed(s)
    \/ \E s \in Slots : TryAgain(s)
    \/ RestartProcess
    \/ pruneCache
    \/ TimePasses

UpstreamSpec == UpstreamInit /\ [][UpstreamNext]_upstreamVars

-----------------------------------------------------------------------------
(* Properties                                                               *)

\* The gate neither leaks places nor forgets who waits: the places taken are the
\* requests on their way, at most MAX_CONCURRENCY, and somebody waits only while
\* all are taken (Semaphore: the place is handed over, not freed and taken again).
GateKeepsItsPlaces ==
    /\ active = Cardinality({s \in Slots : op[s].pc = "sending"})
    /\ active <= MAX_CONCURRENCY
    /\ Range(waiting) = {s \in Slots : op[s].pc = "waiting"}
    /\ waiting # << >> => active = MAX_CONCURRENCY

\* A forecast handed to a caller starts with the day on which it is handed over,
\* whether it comes from the cache, crossed midnight on its way, or was asked for
\* yesterday ("过了 00:00 首日会变成「昨天」", dailyForecastExpiresAt).
ForecastStartsToday == handed # NoEntry => handed.first = handed.day
=============================================================================
