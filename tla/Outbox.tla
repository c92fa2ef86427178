------------------------------- MODULE Outbox -------------------------------
(***************************************************************************)
(* The notification outbox of the daemon: src/core/notify.ts, with the     *)
(* tool actions of src/modules/notify/index.ts that write to it.           *)
(*                                                                         *)
(* A notification and its (only) delivery row are written in one           *)
(* transaction; a single drain at a time scans the due rows, claims them   *)
(* in batches and waits for the channel.  JavaScript runs one callback at  *)
(* a time, so an action of this module is what the code does between two   *)
(* awaits; Yielded says that the drain is at an await (or not running), so *)
(* that a tool handler may run.                                            *)
(*                                                                         *)
(* Time is relative: `next' and `expire' count the ticks to go, `started'  *)
(* the ticks since the request was first sent, all saturating, so that the *)
(* state space is finite without a bound on the clock.                     *)
(***************************************************************************)
EXTENDS Integers, FiniteSets, Sequences

CONSTANTS
    Deliveries,             \* delivery rows (one per notification), ordered like their ids
    Profiles,               \* the people the daemon serves
    Owner,                  \* the profile of each delivery
    Channels,               \* channel kinds a route may select, out of ChannelKinds
    RouteNames,             \* names a route may be given
    Expiries,               \* ticks a notification may live; NULL: it does not expire
    CredentialSets,         \* the credentials the configuration may hold at a start
    LADDER_SECONDS,         \* back-off steps, in ticks
    MAX_CONFIRMED_FAILURES,
    MAX_TRANSPORT_FAILURES,
    IDEMPOTENCY_WINDOW,     \* ticks
    CREDENTIAL_DEFER,       \* ticks (OPENCLAW_CREDENTIAL_DEFER_MS)
    QuietLength,            \* ticks a quiet window lasts
    BATCH_LIMIT,            \* rows of a scan window
    CONCURRENCY,            \* requests of a batch
    RefusesSeen,            \* may the gateway answer 408/429/5xx to an id it has accepted?
    NULL,
    \* bounds of the model
    RoutesAtStart,          \* routes a profile may have set already; NULL: none
    MaxOverdue,             \* ticks a due row is told apart by how late it is
    MaxEvents,              \* route, quiet-hours and retry calls, and crashes
    MaxShown                \* pushes of one notification that are counted

ChannelKinds == {"webhook", "log", "bark", "openclaw"}

ASSUME OutboxAssumption ==
    /\ Deliveries \subseteq Nat
    /\ IsFiniteSet(Deliveries)
    /\ Owner \in [Deliveries -> Profiles]
    /\ Channels \subseteq ChannelKinds
    /\ Expiries \subseteq Nat \cup {NULL}
    /\ RouteNames # {}
    /\ CredentialSets \subseteq SUBSET Channels
    /\ LADDER_SECONDS \in Seq(Nat) /\ Len(LADDER_SECONDS) >= 2
    /\ MAX_CONFIRMED_FAILURES \in Nat \ {0}
    /\ MAX_TRANSPORT_FAILURES \in Nat \ {0}
    /\ IDEMPOTENCY_WINDOW \in Nat
    /\ CREDENTIAL_DEFER \in Nat \ {0}
    /\ QuietLength \in Nat \ {0}
    /\ BATCH_LIMIT \in Nat \ {0}
    /\ CONCURRENCY \in Nat \ {0}
    /\ RefusesSeen \in BOOLEAN
    /\ MaxOverdue \in Nat /\ MaxEvents \in Nat /\ MaxShown \in Nat \ {0}
    /\ RoutesAtStart \subseteq [chan : Channels, name : RouteNames, enabled : BOOLEAN] \cup {NULL}
    /\ NULL \notin Int
    /\ NULL \notin RouteNames \X Nat
    /\ NULL \notin [id : RouteNames \X Nat, chan : Channels, conf : Nat, trans : Nat,
                    accepted : BOOLEAN]

VARIABLES
    row,        \* table deliveries
    note,       \* table notifications: "absent", "unread" or "read"
    route,      \* settings push_route, per profile
    quiet,      \* ticks left of the quiet window a profile is in, 0 outside one
    creds,      \* channels the running configuration has credentials for
    up,         \* is the daemon running?
    drain,      \* the drain in progress: draining, its cursor and its window
    inflight,   \* the request awaited for a delivery
    accepted,   \* external: the request ids the gateway has accepted
    shown,      \* external: how many times the user was shown the push
    \* history, read by the properties only
    refused,    \* ids the channel answered 408/429/5xx to
    held,       \* rejected (3xx/4xx), or left in flight on a non-idempotent channel by a crash
    reach,      \* "no", "pulled" (read or cancelled by the user) or "retried" after that
    events      \* how many of those that MaxEvents bounds have happened

dbVars   == <<row, note, route, quiet>>
peerVars == <<accepted, shown>>
histVars == <<refused, held, reach>>
vars     == <<dbVars, creds, up, drain, inflight, peerVars, histVars, events>>

-----------------------------------------------------------------------------
(* Rows, routes and requests.                                              *)

IDEMPOTENT_CHANNELS  == {"webhook"}
requiresSecret(ch)   == ch = "webhook"
NeedsCredential(ch)  == ch \in {"webhook", "openclaw"}

Ids      == RouteNames \X Nat
Ages     == 0 .. IDEMPOTENCY_WINDOW + 1
Statuses == {"none", "queued", "sending", "sent", "failed", "fallback", "cancelled"}
Pending  == {"queued", "failed"}
Terminal == {"none", "sent", "cancelled"}   \* no row yet, or one that is over

Row == [status  : Statuses,
        gen     : Nat,
        id      : Ids \cup {NULL},
        started : Ages \cup {NULL},
        next    : Int,
        expire  : Nat \cup {NULL},
        conf    : Nat,
        trans   : Nat,
        reject  : BOOLEAN,
        name    : RouteNames]

PushRoute == [chan : Channels, name : RouteNames, enabled : BOOLEAN]

\* What a scanned row looks like to deliverOne; pos is its place in the window.
Snapshot == [pos : Nat, gen : Nat, conf : Nat, trans : Nat, name : RouteNames]

Request == [id : Ids, chan : Channels, conf : Nat, trans : Nat, accepted : BOOLEAN]

QueuedRow(nm, exp) ==
    [status |-> "queued", gen |-> 0, id |-> NULL, started |-> NULL, next |-> 0,
     expire |-> exp, conf |-> 0, trans |-> 0, reject |-> FALSE, name |-> nm]

routableRoute(p) == route[p] # NULL /\ route[p].enabled
HasCredential(p) == NeedsCredential(route[p].chan) => route[p].chan \in creds

Idle == [phase |-> "idle", passed |-> {}, todo |-> [d \in Deliveries |-> NULL], more |-> FALSE]

Yielded == up /\ drain.phase # "running"
Todo    == {d \in Deliveries : drain.todo[d] # NULL}

Due(d) == row[d].status \in Pending /\ row[d].next <= 0

-----------------------------------------------------------------------------
(* The user's tools.                                                       *)

\* publishProfile: the queueable decision (route, credential, preference of
\* the kind) is taken before the transaction that writes both rows.
publishProfile(d) ==
    /\ Yielded
    /\ note[d] = "absent"
    /\ note' = [note EXCEPT ![d] = "unread"]
    /\ \E exp \in Expiries, push \in BOOLEAN :
          IF push /\ routableRoute(Owner[d]) /\ HasCredential(Owner[d])
          THEN row' = [row EXCEPT ![d] = QueuedRow(route[Owner[d]].name, exp)]
          ELSE UNCHANGED row
    /\ UNCHANGED <<route, quiet, creds, up, drain, inflight, peerVars, histVars, events>>

\* Mutants: the guard on the status is wider, or missing.
cancelSendingToo(S) ==
    row' = [d \in Deliveries |->
              IF d \in S /\ row[d].status \in Pending \cup {"sending"}
              THEN [row[d] EXCEPT !.status = "cancelled"] ELSE row[d]]
cancelWhatever(S) ==
    row' = [d \in Deliveries |->
              IF d \in S /\ row[d].status # "none"
              THEN [row[d] EXCEPT !.status = "cancelled"] ELSE row[d]]

\* cancelPendingDeliveries, on the rows of the notifications in S
cancelPendingDeliveries(S) ==
    row' = [d \in Deliveries |->
              IF d \in S /\ row[d].status \in Pending
              THEN [row[d] EXCEPT !.status = "cancelled"] ELSE row[d]]

\* pull and cancel: cancel what is pending, then mark as read.
ReadByUser(S) ==
    /\ Yielded
    /\ cancelPendingDeliveries(S)
    /\ note'  = [d \in Deliveries |-> IF d \in S THEN "read" ELSE note[d]]
    /\ reach' = [d \in Deliveries |-> IF d \in S THEN "pulled" ELSE reach[d]]
    /\ UNCHANGED <<route, quiet, creds, up, drain, inflight, peerVars, refused, held, events>>

\* pullAction takes up to `limit' unread notifications of the caller.
pullAction(p) ==
    \E S \in SUBSET {d \in Deliveries : Owner[d] = p /\ note[d] = "unread"} :
       S # {} /\ ReadByUser(S)

\* cancelAction takes any notification, read or not.
cancelAction(d) == note[d] # "absent" /\ ReadByUser({d})

\* A row whose next_attempt_at is set to now lies ahead of the drain's cursor.
AheadOfCursor(S) == drain' = [drain EXCEPT !.passed = @ \ S]

\* retryDeliveries: failed and fallback rows start over, with their request id.
retryAction(p) ==
    /\ Yielded /\ events < MaxEvents
    /\ \E S \in SUBSET {d \in Deliveries : Owner[d] = p /\ row[d].status \in {"failed", "fallback"}} :
          /\ S # {}
          /\ row' = [d \in Deliveries |->
                       IF d \in S
                       THEN [QueuedRow(row[d].name, NULL) EXCEPT !.gen = row[d].gen + 1,
                                                                 !.id  = row[d].id]
                       ELSE row[d]]
          /\ AheadOfCursor(S)
          /\ held'    = [d \in Deliveries |-> held[d] /\ d \notin S]
          /\ reach'   = [d \in Deliveries |->
                           IF d \in S /\ reach[d] = "pulled" THEN "retried" ELSE reach[d]]
    /\ events' = events + 1
    /\ UNCHANGED <<note, route, quiet, creds, up, inflight, peerVars, refused>>

\* requeueRoute wakes the fallback rows that were neither sent nor rejected.
Woken(p) == {d \in Deliveries : /\ Owner[d] = p
                                /\ row[d].status = "fallback"
                                /\ row[d].started = NULL
                                /\ ~row[d].reject}

requeueRoute(p) ==
    /\ row' = [d \in Deliveries |->
                 IF d \in Woken(p)
                 THEN [row[d] EXCEPT !.status = "queued", !.gen = @ + 1, !.next = 0]
                 ELSE row[d]]
    /\ AheadOfCursor(Woken(p))

\* routeAction with a channel: the credential is checked, then setPushRoute.
setPushRoute(p) ==
    /\ Yielded /\ events < MaxEvents
    /\ \E ch \in Channels, nm \in RouteNames, en \in BOOLEAN :
          /\ NeedsCredential(ch) => ch \in creds
          /\ route' = [route EXCEPT ![p] = [chan |-> ch, name |-> nm, enabled |-> en]]
    /\ requeueRoute(p)
    /\ events' = events + 1
    /\ UNCHANGED <<note, quiet, creds, up, inflight, peerVars, histVars>>

\* routeAction with `enabled' only: rows are woken when the route is enabled.
setPushRouteEnabled(p, en) ==
    /\ Yielded /\ events < MaxEvents
    /\ route[p] # NULL
    /\ route' = [route EXCEPT ![p].enabled = en]
    /\ IF en THEN requeueRoute(p) ELSE UNCHANGED <<row, drain>>
    /\ events' = events + 1
    /\ UNCHANGED <<note, quiet, creds, up, inflight, peerVars, histVars>>

\* A quiet window begins: the clock enters it, or quietHoursAction sets one.
QuietBegins(p) ==
    /\ Yielded /\ events < MaxEvents
    /\ quiet[p] = 0
    /\ quiet' = [quiet EXCEPT ![p] = QuietLength]
    /\ events' = events + 1
    /\ UNCHANGED <<row, note, route, creds, up, drain, inflight, peerVars, histVars>>

\* quietHoursAction with clear.
QuietCleared(p) ==
    /\ Yielded
    /\ quiet[p] > 0
    /\ quiet' = [quiet EXCEPT ![p] = 0]
    /\ UNCHANGED <<row, note, route, creds, up, drain, inflight, peerVars, histVars, events>>

-----------------------------------------------------------------------------
(* The drain.                                                              *)

\* Mutants: recovery forgets the rows, or forgets to look at the channel.
RecoversNone(d) == row[d]
RecoversAll(d)  == IF row[d].status # "sending" THEN row[d]
                   ELSE [row[d] EXCEPT !.status = "queued", !.started = NULL]

\* recoverStaleSending: what a previous process left in `sending'.  The
\* channel is looked up in the profile's current route.
Recovered(d) ==
    LET r == route[Owner[d]] IN
    IF row[d].status # "sending" THEN row[d]
    ELSE IF \/ r = NULL
            \/ r.chan \notin IDEMPOTENT_CHANNELS
            \/ row[d].started # NULL /\ row[d].started > IDEMPOTENCY_WINDOW
         THEN [row[d] EXCEPT !.status = "fallback"]
         ELSE [row[d] EXCEPT !.status = "queued", !.started = NULL]

\* drainDue begins, from the 20 s timer or from drainSoon; a drain that finds
\* nothing to do changes nothing and is left out.
DrainStart ==
    /\ up /\ drain.phase = "idle"
    /\ \E d \in Deliveries : row[d].status = "sending" \/ Due(d)
    /\ row' = [d \in Deliveries |-> Recovered(d)]
    /\ drain' = [Idle EXCEPT !.phase = "running", !.more = TRUE]
    /\ UNCHANGED <<note, route, quiet, creds, up, inflight, peerVars, histVars, events>>

Before(e, d) == row[e].next < row[d].next \/ (row[e].next = row[d].next /\ e < d)

\* The rows ahead of the keyset cursor; `passed' is what lies behind it.
Ahead  == {d \in Deliveries \ drain.passed : Due(d)}
Pos(d) == Cardinality({e \in Ahead : Before(e, d)})
Window == {d \in Ahead : Pos(d) < BATCH_LIMIT}

\* skipReason, in the order of its checks
skipReason(d) ==
    LET p == Owner[d] IN
    IF quiet[p] > 0 THEN "quiet-hours"
    ELSE IF ~routableRoute(p) THEN "route removed"
    ELSE IF route[p].name # row[d].name THEN "route drift"
    ELSE IF HasCredential(p) THEN "none"
    ELSE IF requiresSecret(route[p].chan) THEN "secret missing"
    ELSE "openclaw credentials missing"

isExpiredAt(d) == row[d].expire = 0

\* What the scan makes of a row, and whether it is kept to be delivered.
Examined(d) ==
    IF isExpiredAt(d) THEN [row[d] EXCEPT !.status = "cancelled"]
    ELSE CASE skipReason(d) = "none"        -> row[d]
           [] skipReason(d) = "route drift" -> [row[d] EXCEPT !.name = route[Owner[d]].name]
           [] skipReason(d) = "quiet-hours" -> [row[d] EXCEPT !.next = quiet[Owner[d]]]
           [] skipReason(d) = "openclaw credentials missing"
                                            -> [row[d] EXCEPT !.next = CREDENTIAL_DEFER]
           [] OTHER                         -> [row[d] EXCEPT !.status = "fallback"]

Deliverable(d) == ~isExpiredAt(d) /\ skipReason(d) \in {"none", "route drift"}

\* One window of the scan.  Every reason but "none" moves the row (advanced),
\* and the loop goes on after a full window or after one that moved something.
DrainScan ==
    /\ drain.phase = "running" /\ Todo = {} /\ drain.more
    /\ Window # {}
    /\ row' = [d \in Deliveries |-> IF d \in Window THEN Examined(d) ELSE row[d]]
    /\ drain' = [drain EXCEPT
          !.passed = @ \cup {d \in Window : row'[d].next = row[d].next},
          !.todo   = [d \in Deliveries |->
                        IF d \in Window /\ Deliverable(d)
                        THEN [pos |-> Pos(d), gen |-> row[d].gen, conf |-> row[d].conf,
                              trans |-> row[d].trans, name |-> Examined(d).name]
                        ELSE NULL],
          !.more   = \/ Cardinality(Window) = BATCH_LIMIT
                     \/ \E d \in Window : isExpiredAt(d) \/ skipReason(d) # "none"]
    /\ UNCHANGED <<note, route, quiet, creds, up, inflight, peerVars, histVars, events>>

DrainEnd ==
    /\ drain.phase = "running" /\ Todo = {}
    /\ ~drain.more \/ Window = {}
    /\ drain' = Idle
    /\ UNCHANGED <<dbVars, creds, up, inflight, peerVars, histVars, events>>

Batch == {d \in Todo :
            Cardinality({e \in Todo : drain.todo[e].pos < drain.todo[d].pos}) < CONCURRENCY}

\* deliverOne up to its await: the route and the credential are read again
\* (`enabled' is not), the row is claimed unless it has left the pending states.
Claimable(d) ==
    /\ route[Owner[d]] # NULL
    /\ HasCredential(Owner[d])
    /\ row[d].status \in Pending

RequestId(d) == IF row[d].id # NULL THEN row[d].id
                ELSE <<drain.todo[d].name, drain.todo[d].gen>>

Claimed(d) == [row[d] EXCEPT !.status  = "sending",
                             !.id      = RequestId(d),
                             !.started = IF @ # NULL THEN @ ELSE 0]

DrainBatch ==
    /\ drain.phase = "running" /\ Todo # {}
    /\ LET claimed == {d \in Batch : Claimable(d)} IN
       /\ row' = [d \in Deliveries |-> IF d \in claimed THEN Claimed(d) ELSE row[d]]
       /\ inflight' = [d \in Deliveries |->
             IF d \in claimed
             THEN [id |-> RequestId(d), chan |-> route[Owner[d]].chan,
                   conf |-> drain.todo[d].conf, trans |-> drain.todo[d].trans,
                   accepted |-> FALSE]
             ELSE inflight[d]]
       /\ drain' = [drain EXCEPT
             !.phase = IF claimed = {} THEN "running" ELSE "awaiting",
             !.todo  = [d \in Deliveries |-> IF d \in Batch THEN NULL ELSE @[d]],
             !.more  = @ \/ claimed # {}]
    /\ UNCHANGED <<note, route, quiet, creds, up, peerVars, histVars, events>>

-----------------------------------------------------------------------------
(* The channel and its answers.                                            *)

\* External: the far end takes the request.  A webhook gateway that has
\* accepted the id before does not show it again.
PeerAccepts(d) ==
    /\ inflight[d] # NULL /\ ~inflight[d].accepted
    /\ inflight' = [inflight EXCEPT ![d].accepted = TRUE]
    /\ LET dedup == inflight[d].chan \in IDEMPOTENT_CHANNELS /\ inflight[d].id \in accepted[d] IN
       shown' = [shown EXCEPT ![d] = IF dedup \/ @ = MaxShown THEN @ ELSE @ + 1]
    /\ accepted' = [accepted EXCEPT ![d] = @ \cup {inflight[d].id}]
    /\ UNCHANGED <<dbVars, creds, up, drain, histVars, events>>

\* Once the last request of the batch is settled the drain goes on, or returns
\* because its budget of 45 s is spent.
Settled(d) ==
    /\ inflight' = [inflight EXCEPT ![d] = NULL]
    /\ \/ /\ \E e \in Deliveries \ {d} : inflight[e] # NULL
          /\ UNCHANGED drain
       \/ /\ \A e \in Deliveries \ {d} : inflight[e] = NULL
          /\ drain' \in {[drain EXCEPT !.phase = "running"], Idle}
    /\ UNCHANGED <<route, quiet, creds, up, peerVars, reach, events>>

Backoff(n) ==
    LADDER_SECONDS[IF n < Len(LADDER_SECONDS) THEN n ELSE Len(LADDER_SECONDS)]

\* The mark functions write by id, whatever the status is by then; the counters
\* are those of the snapshot the scan took.
markSent(d) ==
    /\ inflight[d] # NULL /\ inflight[d].accepted
    /\ row' = [row EXCEPT ![d].status = "sent", ![d].trans = 0]
    /\ note' = [note EXCEPT ![d] = "read"]
    /\ UNCHANGED <<refused, held>>
    /\ Settled(d)

\* Mutant: a rejected push is closed like one that was sent.
rejectedIsRead(d) ==
    /\ inflight[d] # NULL /\ ~inflight[d].accepted
    /\ inflight[d].chan # "log"
    /\ row' = [row EXCEPT ![d].status = "fallback", ![d].started = NULL, ![d].reject = TRUE]
    /\ note' = [note EXCEPT ![d] = "read"]
    /\ held' = [held EXCEPT ![d] = TRUE]
    /\ UNCHANGED refused
    /\ Settled(d)

markTerminalFallback(d) ==
    /\ inflight[d] # NULL /\ ~inflight[d].accepted
    /\ inflight[d].chan # "log"
    /\ row' = [row EXCEPT ![d].status = "fallback", ![d].started = NULL, ![d].reject = TRUE]
    /\ held' = [held EXCEPT ![d] = TRUE]
    /\ UNCHANGED <<note, refused>>
    /\ Settled(d)

\* Mutant: the refused id is kept.
refusedKeepsId(d) ==
    /\ inflight[d] # NULL /\ ~inflight[d].accepted
    /\ inflight[d].chan # "log"
    /\ RefusesSeen \/ inflight[d].id \notin accepted[d]
    /\ LET confirmed == inflight[d].conf + 1 IN
       row' = [row EXCEPT ![d].status  = IF confirmed >= MAX_CONFIRMED_FAILURES
                                         THEN "fallback" ELSE "failed",
                          ![d].conf    = confirmed,
                          ![d].next    = Backoff(confirmed)]
    /\ refused' = [refused EXCEPT ![d] = @ \cup {inflight[d].id}]
    /\ UNCHANGED <<note, held>>
    /\ Settled(d)

markConfirmedFailure(d) ==
    /\ inflight[d] # NULL /\ ~inflight[d].accepted
    /\ inflight[d].chan # "log"
    /\ RefusesSeen \/ inflight[d].id \notin accepted[d]
    /\ LET confirmed == inflight[d].conf + 1 IN
       row' = [row EXCEPT ![d].status  = IF confirmed >= MAX_CONFIRMED_FAILURES
                                         THEN "fallback" ELSE "failed",
                          ![d].conf    = confirmed,
                          ![d].trans   = 0,
                          ![d].gen     = @ + 1,
                          ![d].id      = NULL,
                          ![d].started = NULL,
                          ![d].next    = Backoff(confirmed)]
    /\ refused' = [refused EXCEPT ![d] = @ \cup {inflight[d].id}]
    /\ UNCHANGED <<note, held>>
    /\ Settled(d)

\* Mutant: a time-out is taken for a refusal, and the id dropped.
timeoutDropsId(d) ==
    /\ inflight[d] # NULL
    /\ inflight[d].chan # "log"
    /\ LET transport == inflight[d].trans + 1 IN
       row' = [row EXCEPT ![d].status = IF transport >= MAX_TRANSPORT_FAILURES
                                        THEN "fallback" ELSE "failed",
                          ![d].gen    = @ + 1,
                          ![d].id     = NULL,
                          ![d].trans  = transport,
                          ![d].next   = LADDER_SECONDS[IF transport = 1 THEN 1 ELSE 2]]
    /\ UNCHANGED <<note, refused, held>>
    /\ Settled(d)

\* A time-out or a network error: the request may have been accepted.
markTransportFailure(d) ==
    /\ inflight[d] # NULL
    /\ inflight[d].chan # "log"
    /\ LET transport == inflight[d].trans + 1 IN
       row' = [row EXCEPT ![d].status = IF transport >= MAX_TRANSPORT_FAILURES
                                        THEN "fallback" ELSE "failed",
                          ![d].trans  = transport,
                          ![d].next   = LADDER_SECONDS[IF transport = 1 THEN 1 ELSE 2]]
    /\ UNCHANGED <<note, refused, held>>
    /\ Settled(d)

deliverOne(d) == \/ markSent(d) \/ markTerminalFallback(d)
                 \/ markConfirmedFailure(d) \/ markTransportFailure(d)

-----------------------------------------------------------------------------
(* The process and the clock.                                              *)

\* The process dies, or closes the database before the drain has ended: the
\* rows it was sending stay in `sending'.
Crash ==
    /\ up /\ events < MaxEvents
    /\ up' = FALSE
    /\ drain' = Idle
    /\ inflight' = [d \in Deliveries |-> NULL]
    /\ held' = [d \in Deliveries |->
          held[d] \/ (inflight[d] # NULL /\ inflight[d].chan \notin IDEMPOTENT_CHANNELS)]
    /\ events' = events + 1
    /\ UNCHANGED <<dbVars, creds, peerVars, refused, reach>>

\* The daemon starts, with the credentials its configuration now holds.
Start ==
    /\ ~up
    /\ up' = TRUE
    /\ creds' \in CredentialSets
    /\ UNCHANGED <<dbVars, drain, inflight, peerVars, histVars, events>>

Countdown(n) == IF n = NULL \/ n = 0 THEN n ELSE n - 1
Age(n)       == IF n = NULL \/ n = IDEMPOTENCY_WINDOW + 1 THEN n ELSE n + 1

Tick ==
    /\ drain.phase # "running"
    /\ row' = [d \in Deliveries |->
         IF row[d].status \in Terminal THEN row[d]
         ELSE [row[d] EXCEPT !.next    = IF @ > -MaxOverdue THEN @ - 1 ELSE @,
                             !.expire  = Countdown(@),
                             !.started = Age(@)]]
    /\ quiet' = [p \in Profiles |-> Countdown(quiet[p])]
    /\ UNCHANGED <<note, route, creds, up, drain, inflight, peerVars, histVars, events>>

-----------------------------------------------------------------------------
Init ==
    /\ row = [d \in Deliveries |->
                [QueuedRow(CHOOSE nm \in RouteNames : TRUE, NULL) EXCEPT !.status = "none"]]
    /\ note = [d \in Deliveries |-> "absent"]
    /\ route \in [Profiles -> RoutesAtStart]
    /\ quiet = [p \in Profiles |-> 0]
    /\ creds \in CredentialSets
    /\ up = TRUE
    /\ drain = Idle
    /\ inflight = [d \in Deliveries |-> NULL]
    /\ accepted = [d \in Deliveries |-> {}]
    /\ shown = [d \in Deliveries |-> 0]
    /\ refused = [d \in Deliveries |-> {}]
    /\ held = [d \in Deliveries |-> FALSE]
    /\ reach = [d \in Deliveries |-> "no"]
    /\ events = 0

Tools == \/ \E d \in Deliveries : publishProfile(d) \/ cancelAction(d)
         \/ \E p \in Profiles : \/ pullAction(p) \/ retryAction(p)
                                \/ setPushRoute(p)
                                \/ \E en \in BOOLEAN : setPushRouteEnabled(p, en)
                                \/ QuietBegins(p) \/ QuietCleared(p)

drainDue == DrainStart \/ DrainScan \/ DrainBatch \/ DrainEnd

Next == \/ Tools
        \/ drainDue
        \/ \E d \in Deliveries : deliverOne(d) \/ PeerAccepts(d)
        \/ Crash \/ Start \/ Tick

Spec == Init /\ [][Next]_vars

\* The scheduler calls drainDue every 20 s, a request is answered or times out
\* after 10 s (30 s on openclaw), the supervisor restarts the daemon, the clock
\* runs.  The user is free to do nothing.
Fairness ==
    /\ WF_vars(drainDue) /\ WF_vars(Start) /\ WF_vars(Tick)
    /\ \A d \in Deliveries :
          /\ WF_vars(deliverOne(d))
          /\ WF_vars(inflight[d] # NULL /\ inflight[d].chan = "log" /\ PeerAccepts(d))

FairSpec == Spec /\ Fairness

-----------------------------------------------------------------------------
(* Invariants.                                                             *)

\* Every variable keeps its type: in particular the columns of a row, and the
\* snapshots a drain carries across its awaits.
TypeOK ==
    /\ row \in [Deliveries -> Row]
    /\ note \in [Deliveries -> {"absent", "unread", "read"}]
    /\ route \in [Profiles -> PushRoute \cup {NULL}]
    /\ quiet \in [Profiles -> Nat]
    /\ creds \subseteq Channels
    /\ up \in BOOLEAN
    /\ drain \in [phase : {"idle", "running", "awaiting"}, passed : SUBSET Deliveries,
                  todo : [Deliveries -> Snapshot \cup {NULL}], more : BOOLEAN]
    /\ inflight \in [Deliveries -> Request \cup {NULL}]
    /\ accepted \in [Deliveries -> SUBSET Ids]
    /\ shown \in [Deliveries -> Nat]
    /\ refused \in [Deliveries -> SUBSET Ids]
    /\ held \in [Deliveries -> BOOLEAN]
    /\ reach \in [Deliveries -> {"no", "pulled", "retried"}]
    /\ events \in Nat

\* The mark functions of deliverOne write by id without looking at the status.
\* That is safe only because, as long as a request is awaited, its row stays
\* claimed under the same request id, whatever tools run meanwhile; and because
\* no drain finds a row in `sending' that the drain itself is not awaiting.
AwaitedRowStaysClaimed ==
    \A d \in Deliveries :
       /\ inflight[d] # NULL =>
             /\ drain.phase = "awaiting"
             /\ row[d].status = "sending"
             /\ row[d].id = inflight[d].id
             /\ row[d].started # NULL
       /\ row[d].status = "sending" /\ drain.phase # "idle" => inflight[d] # NULL

\* After an answer 408/429/5xx (markConfirmedFailure) the row is sent again under
\* an id the channel has never refused, although the generation in the id comes
\* from a snapshot that tools may have outdated.
FreshIdAfterRefusal ==
    \A d \in Deliveries : inflight[d] # NULL => inflight[d].id \notin refused[d]

\* A notification is marked read only when its owner has read or cancelled it or
\* the channel has shown it (markSent): no push is lost by being deduplicated
\* under an id that was never shown, nor marked read by a failed request.
ReadMeansReached ==
    \A d \in Deliveries : note[d] = "read" => reach[d] # "no" \/ shown[d] > 0

\* The idempotent channel: "requests carry a unique request_id, the far end
\* deduplicates by id, a resend does not show the user a second push"
\* (notify.ts:354), over crashes, time-outs, route changes and manual retries.
NoSecondPush == \A d \in Deliveries : shown[d] <= 1

\* A delivery that was rejected (3xx/4xx), or whose request was in flight on a
\* channel that does not deduplicate when the process died, is not sent again
\* before the user asks for it (recoverStaleSending, requeueRoute).
HeldUntilRetry == \A d \in Deliveries : held[d] => inflight[d] = NULL

-----------------------------------------------------------------------------
(* What the outbox promises of a delivery.                                 *)

Stage(status) == CASE status \in Pending    -> "waiting"
                   [] status = "sending"    -> "inflight"
                   [] status = "fallback"   -> "parked"
                   [] OTHER                 -> status

Lifecycle == INSTANCE DeliveryLifecycle WITH
                Tokens <- Ids,
                st     <- [d \in Deliveries |-> Stage(row[d].status)],
                token  <- [d \in Deliveries |-> row[d].id],
                spent  <- refused

\* Every drain, tool call, late answer and restart moves each delivery along its
\* life cycle: no late answer, recovery, retry or route change brings back a row
\* that is sent or cancelled, none sends a parked row without waking it, and an
\* attempt repeats the unrefused id of the attempt before (deliverOne,
\* recoverStaleSending, retryDeliveries, requeueRoute).
LifecycleSpec == Lifecycle!Spec

-----------------------------------------------------------------------------
(* Action properties.                                                      *)

Claims(d) == inflight[d] = NULL /\ inflight'[d] # NULL

\* Once the user has pulled or cancelled a notification no request is begun for
\* it (pullAction: "marked as read, the pending push was cancelled").
NoPushAfterPull == [][\A d \in Deliveries : Claims(d) => reach[d] # "pulled"]_vars

-----------------------------------------------------------------------------
(* Liveness.                                                               *)

\* A pending delivery comes to an end, or to fallback, where the user finds it:
\* through back-off, quiet hours of its owner or of others, spent budgets,
\* full windows and restarts.
PendingSettles ==
    \A d \in Deliveries :
       (row[d].status \in Pending \cup {"sending"})
          ~> (row[d].status \in {"sent", "fallback", "cancelled"})
=============================================================================
