-------------------------------- MODULE Jobs --------------------------------
(***************************************************************************)
(* The scheduled jobs of the daemon: the mutual exclusion and watchdog of  *)
(* src/core/job-runner.ts, the table job_runs and the start-up catch-up of *)
(* src/core/jobs.ts, the cron callbacks and the stop sequence of           *)
(* src/daemon.ts.                                                          *)
(*                                                                         *)
(* One callback of the event loop is one action, with two exceptions that  *)
(* are urgent (nothing else happens before they are over): a poll of       *)
(* node-cron that replays several missed minutes, one CronMatch each, and  *)
(* the catch-up chain, which goes on to its next job in the turn in which  *)
(* the job before it settles.                                              *)
(*                                                                         *)
(* The clock counts ticks up to Horizon and then stands still, so that no  *)
(* further slot comes; ages and waits go on.                               *)
(***************************************************************************)
EXTENDS Integers, FiniteSets, Sequences

CONSTANTS
    Jobs,                   \* numbered in the order of their module.name
    Fires,                  \* the slots of each job: previousFireTime is their maximum so far
    CATCHUP_POLICY,         \* ticks within which a missed slot is caught up; NULL: never
    TIMEOUT,                \* watchdog
    ONSTART_WAIT, JOB_WAIT, ZOMBIE_WAIT, HTTP_WAIT, DRAIN_WAIT,     \* waits of stop()
    FALLBACK,               \* the process exits this long after the signal
    NULL,
    Horizon, MaxStarts,     \* bounds of the model
    MaxFaults               \* writes of job_runs that may fail (SQLITE_BUSY)

Slots == 1 .. Horizon

ASSUME JobsAssumption ==
    /\ Jobs \subseteq Nat /\ IsFiniteSet(Jobs)
    /\ Fires \in [Jobs -> SUBSET Slots]
    /\ CATCHUP_POLICY \in [Jobs -> Nat \cup {NULL}]
    /\ TIMEOUT \in Nat \ {0}
    /\ {ONSTART_WAIT, JOB_WAIT, ZOMBIE_WAIT, HTTP_WAIT, DRAIN_WAIT, FALLBACK} \subseteq Nat
    /\ Horizon \in Nat /\ MaxStarts \in Nat /\ MaxFaults \in Nat
    /\ NULL \notin Int

VARIABLES
    now,
    phase,      \* "down", "up", or the wait that stop() is in
    waited,     \* ticks in that wait
    stopping,   \* ticks since the signal
    starts,
    faults,     \* writes that have failed
    runs,       \* table job_runs; the id of a row is its index
    handlers,   \* the handlers that run, timed out or not
    busy,       \* names the runner holds (and its map inFlight)
    zombies,
    lastSlot,   \* per job: the slot its cron callback handled last
    polled,     \* per job: when node-cron looked last
    again,      \* jobs whose last minute node-cron may emit a second time
    turn,       \* the job whose poll is being replayed; NULL: none
    plan,       \* the catch-ups still to come
    catching    \* the run the catch-up chain awaits; NULL: none

procVars == <<phase, waited, stopping, starts>>
cronVars == <<lastSlot, polled, again, turn>>
vars == <<now, procVars, faults, runs, handlers, busy, zombies, cronVars, plan, catching>>

Stopping == {"onstart", "jobs", "zombies", "http", "drain"}

Row     == [job : Jobs, slot : Slots, status : {"running", "ok", "failed", "skipped"},
            finished : 0 .. Horizon \cup {NULL}]
Handler == [job : Jobs, slot : Slots, run : Nat, age : 0 .. TIMEOUT, timedOut : BOOLEAN]
Catchup == [job : Jobs, slot : Slots]

AtRest == turn = NULL /\ (plan = <<>> \/ catching # NULL)

-----------------------------------------------------------------------------
(* job_runs                                                                *)

NewRow(j, s, st) == [job |-> j, slot |-> s, status |-> st,
                     finished |-> IF st = "running" THEN NULL ELSE now]

WriteFails == faults < MaxFaults /\ faults' = faults + 1

\* finishJobRun; if the write fails the row is left as it is (a warning).
finishJobRun(i, st) ==
    \/ runs' = [runs EXCEPT ![i].status = st, ![i].finished = now] /\ UNCHANGED faults
    \/ WriteFails /\ UNCHANGED runs

\* What a previous process left running has failed.
markInterruptedJobRuns ==
    [i \in DOMAIN runs |-> IF runs[i].status = "running"
                           THEN [runs[i] EXCEPT !.status = "failed", !.finished = now]
                           ELSE runs[i]]

\* In rows rs: a successful run ended after slot s, or was for s or a later slot.
hasSuccessfulRunCovering(rs, j, s) ==
    \E i \in DOMAIN rs : /\ rs[i].job = j /\ rs[i].status = "ok"
                         /\ rs[i].finished >= s \/ rs[i].slot >= s

-----------------------------------------------------------------------------
(* createJobRunner                                                         *)

\* start and finish of one row, each of which may fail
recordSkip(j, s) ==
    \/ runs' = Append(runs, NewRow(j, s, "skipped")) /\ UNCHANGED faults
    \/ WriteFails /\ runs' \in {runs, Append(runs, NewRow(j, s, "running"))}

Begins(j, s) ==
    /\ runs' = Append(runs, NewRow(j, s, "running"))
    /\ handlers' = handlers \cup {[job |-> j, slot |-> s, run |-> Len(runs) + 1,
                                   age |-> 0, timedOut |-> FALSE]}
    /\ busy' = busy \cup {j}
    /\ UNCHANGED faults

\* Mutants: zombies do not count, or the mark of a run that did not begin stays.
runBesideZombies(j, s) ==
    \/ j \in busy /\ recordSkip(j, s) /\ UNCHANGED <<handlers, busy>>
    \/ j \notin busy /\ Begins(j, s)
    \/ j \notin busy /\ WriteFails /\ UNCHANGED <<runs, handlers, busy>>
runLeaksBusy(j, s) ==
    \/ j \in busy \cup zombies /\ recordSkip(j, s) /\ UNCHANGED <<handlers, busy>>
    \/ j \notin busy \cup zombies /\ Begins(j, s)
    \/ j \notin busy \cup zombies /\ WriteFails
          /\ busy' = busy \cup {j} /\ UNCHANGED <<runs, handlers>>

\* run: skipped while the name is busy or a zombie of it runs; not begun if its
\* row cannot be written.
run(j, s) ==
    \/ j \in busy \cup zombies /\ recordSkip(j, s) /\ UNCHANGED <<handlers, busy>>
    \/ j \notin busy \cup zombies /\ Begins(j, s)
    \/ j \notin busy \cup zombies /\ WriteFails /\ UNCHANGED <<runs, handlers, busy>>

Awaited(h) == IF catching = h.run THEN NULL ELSE catching

\* Mutant: the late end of a handler is recorded although it has timed out.
lateEndRecorded(h, st) ==
    /\ handlers' = handlers \ {h}
    /\ finishJobRun(h.run, st)
    /\ IF h.timedOut THEN zombies' = zombies \ {h.job} /\ UNCHANGED <<busy, catching>>
                     ELSE /\ busy' = busy \ {h.job} /\ catching' = Awaited(h)
                          /\ UNCHANGED zombies
    /\ UNCHANGED <<now, procVars, cronVars, plan>>

\* The handler's promise settles (`finished', `task'); after a time-out that
\* only buries the zombie.
HandlerEnds(h, st) ==
    /\ handlers' = handlers \ {h}
    /\ IF h.timedOut
       THEN zombies' = zombies \ {h.job} /\ UNCHANGED <<faults, runs, busy, catching>>
       ELSE /\ finishJobRun(h.run, st)
            /\ busy' = busy \ {h.job} /\ catching' = Awaited(h)
            /\ UNCHANGED zombies
    /\ UNCHANGED <<now, procVars, cronVars, plan>>

\* Mutant: the one who awaits the run is not told.
watchdogKeepsWaiting(h) ==
    /\ ~h.timedOut /\ h.age = TIMEOUT
    /\ handlers' = (handlers \ {h}) \cup {[h EXCEPT !.timedOut = TRUE]}
    /\ finishJobRun(h.run, "failed")
    /\ busy' = busy \ {h.job} /\ zombies' = zombies \cup {h.job}
    /\ UNCHANGED <<now, procVars, cronVars, plan, catching>>

\* The watchdog gives the name free and makes the handler a zombie.
watchdog(h) ==
    /\ ~h.timedOut /\ h.age = TIMEOUT
    /\ handlers' = (handlers \ {h}) \cup {[h EXCEPT !.timedOut = TRUE]}
    /\ finishJobRun(h.run, "failed")
    /\ busy' = busy \ {h.job} /\ zombies' = zombies \cup {h.job}
    /\ catching' = Awaited(h)
    /\ UNCHANGED <<now, procVars, cronVars, plan>>

-----------------------------------------------------------------------------
(* scheduleJobCron                                                         *)

\* External, node-cron: the minutes a poll emits.  With recoverMissedExecutions
\* those since the last poll, and the last one handled a second time.
Matches(j) ==
    IF CATCHUP_POLICY[j] # NULL
    THEN {m \in Fires[j] : m <= now /\ (polled[j] < m \/ (j \in again /\ m = lastSlot[j]))}
    ELSE Fires[j] \cap {m \in {now} : polled[j] < m}

Oldest(S) == CHOOSE m \in S : \A n \in S : m <= n

PollCron(j) ==
    /\ phase = "up"
    /\ Matches(j) # {}
    /\ turn' = j
    /\ UNCHANGED <<now, procVars, faults, runs, handlers, busy, zombies, lastSlot, polled, again, plan, catching>>

\* One emitted minute, oldest first; the slot handled last is not run again.
CronMatch(j) ==
    LET m == Oldest(Matches(j)) IN
    /\ turn = j
    /\ polled' = [polled EXCEPT ![j] = m]
    /\ lastSlot' = [lastSlot EXCEPT ![j] = m]
    /\ again' = IF m = lastSlot[j] \/ CATCHUP_POLICY[j] = NULL THEN again \ {j} ELSE again \cup {j}
    /\ turn' = IF \E n \in Matches(j) : n > m THEN j ELSE NULL
    /\ IF m = lastSlot[j] THEN UNCHANGED <<faults, runs, handlers, busy>> ELSE run(j, m)
    /\ UNCHANGED <<now, procVars, zombies, plan, catching>>

-----------------------------------------------------------------------------
(* The start-up catch-up.                                                  *)

Past(j) == {s \in Fires[j] : s <= now}
previousFireTime(j) == CHOOSE s \in Past(j) : \A t \in Past(j) : t <= s

\* The jobs whose last slot is within the window and not covered (in rows rs)
ToCatchUp(rs) ==
    {j \in Jobs : /\ CATCHUP_POLICY[j] # NULL
                  /\ Past(j) # {}
                  /\ now - previousFireTime(j) <= CATCHUP_POLICY[j]
                  /\ ~hasSuccessfulRunCovering(rs, j, previousFireTime(j))}

planCatchups(rs) ==
    LET S == ToCatchUp(rs)
        nth[k \in 1 .. Cardinality(S)] ==
           CHOOSE j \in S : Cardinality({i \in S : i < j}) = k - 1
    IN  [k \in 1 .. Cardinality(S) |-> [job |-> nth[k], slot |-> previousFireTime(nth[k])]]

\* Mutant: no second look before a planned catch-up is run.
catchupUnchecked ==
    /\ turn = NULL /\ plan # <<>> /\ catching = NULL
    /\ plan' = Tail(plan)
    /\ run(Head(plan).job, Head(plan).slot)
    /\ catching' = IF handlers' # handlers THEN Len(runs') ELSE NULL
    /\ UNCHANGED <<now, procVars, zombies, cronVars>>

\* runStartupCatchups: one by one, each checked again before it is run.
NextCatchup ==
    /\ turn = NULL /\ plan # <<>> /\ catching = NULL
    /\ plan' = Tail(plan)
    /\ IF hasSuccessfulRunCovering(runs, Head(plan).job, Head(plan).slot)
       THEN UNCHANGED <<faults, runs, handlers, busy, catching>>
       ELSE /\ run(Head(plan).job, Head(plan).slot)
            /\ catching' = IF handlers' # handlers THEN Len(runs') ELSE NULL
    /\ UNCHANGED <<now, procVars, zombies, cronVars>>

-----------------------------------------------------------------------------
(* startDaemon, stop, exit and the clock.                                  *)

startDaemon ==
    /\ phase = "down" /\ starts < MaxStarts
    /\ starts' = starts + 1
    /\ phase' = "up" /\ waited' = 0 /\ stopping' = 0
    /\ runs' = markInterruptedJobRuns
    /\ plan' = planCatchups(runs')
    /\ lastSlot' = [j \in Jobs |-> NULL]
    /\ polled' = [j \in Jobs |-> now]
    /\ again' = {}
    /\ UNCHANGED <<now, faults, handlers, busy, zombies, turn, catching>>

\* SIGTERM: the cron tasks stop, stop() begins to wait.
StopBegins ==
    /\ phase = "up"
    /\ phase' = "onstart" /\ waited' = 0 /\ stopping' = 0
    /\ UNCHANGED <<now, starts, faults, runs, handlers, busy, zombies, cronVars, plan, catching>>

WaitBound == CASE phase = "onstart" -> ONSTART_WAIT
               [] phase = "jobs"    -> JOB_WAIT
               [] phase = "zombies" -> ZOMBIE_WAIT
               [] phase = "http"    -> HTTP_WAIT
               [] phase = "drain"   -> DRAIN_WAIT
               [] OTHER             -> 0

\* What each wait is for; requests and the drain may be over at any time.
Converged == CASE phase = "onstart" -> plan = <<>> /\ catching = NULL
               [] phase = "jobs"    -> busy = {}
               [] phase = "zombies" -> zombies = {}
               [] OTHER             -> TRUE

Following == CASE phase = "onstart" -> "jobs"
               [] phase = "jobs"    -> "zombies"
               [] phase = "zombies" -> "http"
               [] phase = "http"    -> "drain"

\* The process is gone, its handlers with it.
ProcessEnds ==
    /\ phase' = "down" /\ waited' = 0 /\ stopping' = 0
    /\ handlers' = {} /\ busy' = {} /\ zombies' = {}
    /\ plan' = <<>> /\ catching' = NULL /\ turn' = NULL
    /\ UNCHANGED <<now, starts, faults, runs, lastSlot, polled, again>>

\* Mutant: the zombies are waited for without a bound.
waitsForZombies ==
    /\ phase \in Stopping
    /\ Converged \/ (waited >= WaitBound /\ phase # "zombies")
    /\ IF phase = "drain"
       THEN ProcessEnds
       ELSE /\ phase' = Following /\ waited' = 0
            /\ UNCHANGED <<now, stopping, starts, faults, runs, handlers, busy, zombies, cronVars,
                           plan, catching>>

\* A wait of stop() is over; after the last one the database is closed, the
\* lock released and the process exits.
WaitOver ==
    /\ phase \in Stopping
    /\ Converged \/ waited >= WaitBound
    /\ IF phase = "drain"
       THEN ProcessEnds
       ELSE /\ phase' = Following /\ waited' = 0
            /\ UNCHANGED <<now, stopping, starts, faults, runs, handlers, busy, zombies, cronVars,
                           plan, catching>>

\* The timer the signal handler has set, whatever stop() is doing.
FallbackExit ==
    /\ phase \in Stopping /\ stopping >= FALLBACK
    /\ ProcessEnds

Crash ==
    /\ phase # "down"
    /\ ProcessEnds
   

\* The timers of stop() are on time; that of the watchdog and the polls may be late.
Tick ==
    /\ phase \in Stopping => waited < WaitBound /\ stopping < FALLBACK
    /\ now' = IF now < Horizon THEN now + 1 ELSE now
    /\ waited' = IF phase \in Stopping THEN waited + 1 ELSE waited
    /\ stopping' = IF phase \in Stopping THEN stopping + 1 ELSE stopping
    /\ handlers' = {[h EXCEPT !.age = IF @ < TIMEOUT THEN @ + 1 ELSE @] : h \in handlers}
    /\ UNCHANGED <<phase, starts, faults, runs, busy, zombies, cronVars, plan, catching>>

-----------------------------------------------------------------------------
Init ==
    /\ now = 0
    /\ phase = "down" /\ waited = 0 /\ stopping = 0 /\ starts = 0
    /\ faults = 0 /\ runs = <<>>
    /\ handlers = {} /\ busy = {} /\ zombies = {}
    /\ lastSlot = [j \in Jobs |-> NULL]
    /\ polled = [j \in Jobs |-> 0]
    /\ again = {} /\ turn = NULL /\ plan = <<>> /\ catching = NULL

Watchdogs == \E h \in handlers : watchdog(h)

Next ==
    \/ \E j \in Jobs : CronMatch(j)
    \/ NextCatchup
    \/ /\ AtRest
       /\ \/ \E h \in handlers, st \in {"ok", "failed"} : HandlerEnds(h, st)
          \/ Watchdogs
          \/ \E j \in Jobs : PollCron(j)
          \/ startDaemon \/ StopBegins \/ WaitOver \/ FallbackExit \/ Crash
          \/ Tick

Spec == Init /\ [][Next]_vars

\* Timers fire and the event loop goes on; handlers may hang, nothing makes the
\* operator start or stop the daemon.
Fairness ==
    /\ \A j \in Jobs : WF_vars(CronMatch(j))
    /\ WF_vars(NextCatchup)
    /\ WF_vars(AtRest /\ Tick) /\ WF_vars(AtRest /\ Watchdogs) /\ WF_vars(AtRest /\ WaitOver)

FairSpec == Spec /\ Fairness

-----------------------------------------------------------------------------
(* Properties.                                                             *)

\* Types, and: a row has an end exactly when it is not running.
TypeOK ==
    /\ now \in 0 .. Horizon
    /\ phase \in {"down", "up"} \cup Stopping
    /\ {waited, stopping, starts, faults} \subseteq Nat
    /\ runs \in Seq(Row)
    /\ \A i \in DOMAIN runs : runs[i].finished = NULL <=> runs[i].status = "running"
    /\ handlers \subseteq Handler
    /\ busy \subseteq Jobs /\ zombies \subseteq Jobs
    /\ lastSlot \in [Jobs -> Slots \cup {NULL}]
    /\ polled \in [Jobs -> 0 .. Horizon]
    /\ again \subseteq Jobs
    /\ turn \in Jobs \cup {NULL}
    /\ plan \in Seq(Catchup)
    /\ catching \in Nat \cup {NULL}

\* No two handlers of a job run side by side, a hung one that has timed out
\* included: cron, replayed minutes and catch-up share the names (job-runner.ts:53-61).
OneHandlerPerJob == \A g, h \in handlers : g.job = h.job => g = h

\* A name is held exactly while a handler of it runs: no failed write, throw,
\* time-out or late end leaves a mark that would stop the job for good
\* (job-runner.ts:9-26).
MarksMatchHandlers ==
    /\ busy    = {h.job : h \in {g \in handlers : ~g.timedOut}}
    /\ zombies = {h.job : h \in {g \in handlers : g.timedOut}}

\* The outcome recorded for a run stands: neither the late end of a timed-out
\* handler nor the next start-up changes it (job-runner.ts:23-26, 126-127).
RecordedOutcomeStays ==
    [][\A i \in DOMAIN runs :
          runs[i].status # "running" => runs'[i] = runs[i]]_vars

\* A slot that has succeeded, or one before it, is not run any more: not by the
\* second emission of a minute, not by a catch-up planned before, not after a
\* restart (daemon.ts:480-486, jobs.ts:484-489).
NoRerunAfterOk ==
    [][\A h \in handlers' :
          h.run \notin {g.run : g \in handlers} =>
             \A i \in DOMAIN runs :
                runs[i].job = h.job /\ runs[i].status = "ok" => runs[i].slot < h.slot]_vars

\* Every planned catch-up is looked at, although one before it may hang.
CatchupsGetTheirTurn == plan # <<>> ~> plan = <<>>

\* A stop ends, whatever hangs.
StopEnds == phase \in Stopping ~> phase = "down"
=============================================================================
