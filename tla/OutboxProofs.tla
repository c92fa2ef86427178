---------------------------- MODULE OutboxProofs ----------------------------
(* Proofs about Outbox, for every set of deliveries, profiles and channels   *)
(* and every value of the limits.                                            *)
EXTENDS Outbox, FiniteSetTheorems, TLAPS

-----------------------------------------------------------------------------
(* Rows.                                                                     *)

\* Writing columns of a row leaves it a row.
LEMMA RowWrites ==
  /\ \A r \in Row, s \in Statuses :
        [r EXCEPT !.status = s] \in Row
  /\ \A r \in Row, s \in Statuses, a \in Ages \cup {NULL} :
        [r EXCEPT !.status = s, !.started = a] \in Row
  /\ \A r \in Row, n \in Int :
        [r EXCEPT !.next = n] \in Row
  /\ \A r \in Row, nm \in RouteNames :
        [r EXCEPT !.name = nm] \in Row
  /\ \A r \in Row, g \in Nat, i \in Ids \cup {NULL} :
        [r EXCEPT !.gen = g, !.id = i] \in Row
  /\ \A r \in Row, s \in Statuses, g \in Nat, n \in Int :
        [r EXCEPT !.status = s, !.gen = g, !.next = n] \in Row
  /\ \A r \in Row, s \in Statuses, i \in Ids \cup {NULL}, a \in Ages \cup {NULL} :
        [r EXCEPT !.status = s, !.id = i, !.started = a] \in Row
  /\ \A r \in Row, s \in Statuses, t \in Nat :
        [r EXCEPT !.status = s, !.trans = t] \in Row
  /\ \A r \in Row, s \in Statuses, a \in Ages \cup {NULL}, b \in BOOLEAN :
        [r EXCEPT !.status = s, !.started = a, !.reject = b] \in Row
  /\ \A r \in Row, s \in Statuses, t \in Nat, n \in Int :
        [r EXCEPT !.status = s, !.trans = t, !.next = n] \in Row
  /\ \A r \in Row, n \in Int, e \in Nat \cup {NULL}, a \in Ages \cup {NULL} :
        [r EXCEPT !.next = n, !.expire = e, !.started = a] \in Row
  /\ \A r \in Row, s \in Statuses, c \in Nat, t \in Nat, g \in Nat, i \in Ids \cup {NULL},
                 a \in Ages \cup {NULL}, n \in Int :
        [r EXCEPT !.status = s, !.conf = c, !.trans = t, !.gen = g, !.id = i,
                         !.started = a, !.next = n] \in Row
  <1> DEFINE S == Statuses  N == Nat  I == Ids \cup {NULL}  A == Ages \cup {NULL}
             Z == Int  E == Nat \cup {NULL}  B == BOOLEAN  M == RouteNames
             R == [status : S, gen : N, id : I, started : A, next : Z, expire : E,
                   conf : N, trans : N, reject : B, name : M]
  <1>0. Row = R
    BY DEF Row
  <1> HIDE DEF S, N, I, A, Z, E, B, M
  <1>1. /\ \A r \in R, s \in S :
             [r EXCEPT !.status = s] \in R
        /\ \A r \in R, s \in S, a \in A :
             [r EXCEPT !.status = s, !.started = a] \in R
        /\ \A r \in R, n \in Z :
             [r EXCEPT !.next = n] \in R
        /\ \A r \in R, nm \in M :
             [r EXCEPT !.name = nm] \in R
    OBVIOUS
  <1>2. /\ \A r \in R, g \in N, i \in I :
             [r EXCEPT !.gen = g, !.id = i] \in R
        /\ \A r \in R, s \in S, g \in N, n \in Z :
             [r EXCEPT !.status = s, !.gen = g, !.next = n] \in R
        /\ \A r \in R, s \in S, i \in I, a \in A :
             [r EXCEPT !.status = s, !.id = i, !.started = a] \in R
        /\ \A r \in R, s \in S, t \in N :
             [r EXCEPT !.status = s, !.trans = t] \in R
    OBVIOUS
  <1>3. /\ \A r \in R, s \in S, a \in A, b \in B :
             [r EXCEPT !.status = s, !.started = a, !.reject = b] \in R
        /\ \A r \in R, s \in S, t \in N, n \in Z :
             [r EXCEPT !.status = s, !.trans = t, !.next = n] \in R
        /\ \A r \in R, n \in Z, e \in E, a \in A :
             [r EXCEPT !.next = n, !.expire = e, !.started = a] \in R
    OBVIOUS
  <1>4. \A r \in R, s \in S, c \in N, t \in N, g \in N, i \in I, a \in A, n \in Z :
           [r EXCEPT !.status = s, !.conf = c, !.trans = t, !.gen = g, !.id = i,
                     !.started = a, !.next = n] \in R
    <2> TAKE r \in R, s \in S, c \in N, t \in N, g \in N, i \in I, a \in A, n \in Z
    <2> QED
      OBVIOUS
  <1>5. /\ \A r \in Row, s \in Statuses :
              [r EXCEPT !.status = s] \in Row
        /\ \A r \in Row, s \in Statuses, a \in Ages \cup {NULL} :
              [r EXCEPT !.status = s, !.started = a] \in Row
        /\ \A r \in Row, n \in Int :
              [r EXCEPT !.next = n] \in Row
        /\ \A r \in Row, nm \in RouteNames :
              [r EXCEPT !.name = nm] \in Row
    BY <1>1, Zenon DEF Row, S, N, I, A, Z, E, B, M
  <1>6. /\ \A r \in Row, g \in Nat, i \in Ids \cup {NULL} :
              [r EXCEPT !.gen = g, !.id = i] \in Row
        /\ \A r \in Row, s \in Statuses, g \in Nat, n \in Int :
              [r EXCEPT !.status = s, !.gen = g, !.next = n] \in Row
        /\ \A r \in Row, s \in Statuses, i \in Ids \cup {NULL}, a \in Ages \cup {NULL} :
              [r EXCEPT !.status = s, !.id = i, !.started = a] \in Row
        /\ \A r \in Row, s \in Statuses, t \in Nat :
              [r EXCEPT !.status = s, !.trans = t] \in Row
    BY <1>2, Zenon DEF Row, S, N, I, A, Z, E, B, M
  <1>7. /\ \A r \in Row, s \in Statuses, a \in Ages \cup {NULL}, b \in BOOLEAN :
              [r EXCEPT !.status = s, !.started = a, !.reject = b] \in Row
        /\ \A r \in Row, s \in Statuses, t \in Nat, n \in Int :
              [r EXCEPT !.status = s, !.trans = t, !.next = n] \in Row
        /\ \A r \in Row, n \in Int, e \in Nat \cup {NULL}, a \in Ages \cup {NULL} :
              [r EXCEPT !.next = n, !.expire = e, !.started = a] \in Row
    BY <1>3, Zenon DEF Row, S, N, I, A, Z, E, B, M
  <1>8. \A r \in Row, s \in Statuses, c \in Nat, t \in Nat, g \in Nat, i \in Ids \cup {NULL},
                 a \in Ages \cup {NULL}, n \in Int :
              [r EXCEPT !.status = s, !.conf = c, !.trans = t, !.gen = g, !.id = i,
                         !.started = a, !.next = n] \in Row
    BY <1>4, Zenon DEF Row, S, N, I, A, Z, E, B, M
  <1> QED
    BY <1>5, <1>6, <1>7, <1>8

LEMMA QueuedRowIsRow ==
  \A nm \in RouteNames, e \in Nat \cup {NULL} : QueuedRow(nm, e) \in Row
  BY DEF QueuedRow, Row, Statuses

LEMMA ColumnTypes ==
  ASSUME TypeOK, NEW d \in Deliveries
  PROVE  /\ row[d] \in Row
         /\ row[d].status \in Statuses /\ row[d].gen \in Nat /\ row[d].id \in Ids \cup {NULL}
         /\ row[d].started \in Ages \cup {NULL} /\ row[d].next \in Int
         /\ row[d].expire \in Nat \cup {NULL} /\ row[d].name \in RouteNames
         /\ row[d].gen + 1 \in Nat
  <1>1. row[d] \in Row
    BY DEF TypeOK
  <1> QED
    BY <1>1 DEF Row

LEMMA WokenIsRow ==
  ASSUME NEW r \in Row, NEW g \in Nat
  PROVE  [r EXCEPT !.status = "queued", !.gen = g, !.next = 0] \in Row
  <1>1. \A q \in Row, s \in Statuses, h \in Nat, n \in Int :
           [q EXCEPT !.status = s, !.gen = h, !.next = n] \in Row
    BY RowWrites
  <1>2. "queued" \in Statuses /\ 0 \in Int
    BY DEF Statuses
  <1> QED
    BY <1>1, <1>2

\* What recovery and a window of the scan make of a row is a row.
LEMMA RecoveredIsRow ==
  ASSUME TypeOK, NEW d \in Deliveries
  PROVE  Recovered(d) \in Row
  <1>1. row[d] \in Row
    BY DEF TypeOK
  <1>2. {"fallback", "queued"} \subseteq Statuses /\ NULL \in Ages \cup {NULL}
    BY DEF Statuses
  <1> QED
    BY <1>1, <1>2, RowWrites DEF Recovered

LEMMA ExaminedIsRow ==
  ASSUME TypeOK, NEW d \in Deliveries
  PROVE  Examined(d) \in Row
  <1>1. row[d] \in Row /\ Owner[d] \in Profiles /\ quiet[Owner[d]] \in Int /\ CREDENTIAL_DEFER \in Int
    BY OutboxAssumption DEF TypeOK
  <1>2. {"cancelled", "fallback"} \subseteq Statuses
    BY DEF Statuses
  <1>3. skipReason(d) = "route drift" => route[Owner[d]].name \in RouteNames
    BY <1>1 DEF TypeOK, skipReason, routableRoute, PushRoute
  <1> QED
    BY <1>1, <1>2, <1>3, RowWrites DEF Examined

\* The place of a row in the scan window (the keyset query of drainDue) is a number.
LEMMA PosIsNat == \A d \in Deliveries : Pos(d) \in Nat
  BY FS_Subset, FS_CardinalityType, OutboxAssumption DEF Pos, Ahead

\* The back-off of a failure is a step of the ladder.
LEMMA BackoffIsNat == \A n \in Nat \ {0} : Backoff(n) \in Nat
  BY OutboxAssumption DEF Backoff

LEMMA IdleType ==
  Idle \in [phase : {"idle", "running", "awaiting"}, passed : SUBSET Deliveries,
            todo : [Deliveries -> Snapshot \cup {NULL}], more : BOOLEAN]
  BY DEF Idle

-----------------------------------------------------------------------------
(* Type correctness.                                                         *)

LEMMA TypeInit == Init => TypeOK
  <1> SUFFICES ASSUME Init PROVE TypeOK
    OBVIOUS
  <1>1. QueuedRow(CHOOSE nm \in RouteNames : TRUE, NULL) \in Row
    BY QueuedRowIsRow, OutboxAssumption
  <1>2. row \in [Deliveries -> Row]
    BY <1>1, RowWrites DEF Init, Statuses
  <1>3. /\ route \in [Profiles -> PushRoute \cup {NULL}]
        /\ creds \subseteq Channels
    BY OutboxAssumption DEF Init, PushRoute
  <1> QED
    BY <1>2, <1>3, IdleType DEF Init, TypeOK

\* The user's tools keep the types.
LEMMA TypeTools ==
  ASSUME TypeOK, Tools
  PROVE  TypeOK'
  <1>1. ASSUME NEW d \in Deliveries, publishProfile(d)
        PROVE  TypeOK'
    <2>1. row' \in [Deliveries -> Row]
      <3>1. ASSUME NEW exp \in Expiries, routableRoute(Owner[d])
            PROVE  QueuedRow(route[Owner[d]].name, exp) \in Row
        BY <3>1, OutboxAssumption, QueuedRowIsRow DEF TypeOK, routableRoute, PushRoute
      <3> QED
        BY <1>1, <3>1 DEF TypeOK, publishProfile
    <2> QED
      BY <1>1, <2>1 DEF TypeOK, publishProfile, peerVars, histVars
  <1>2. ASSUME NEW S \in SUBSET Deliveries, ReadByUser(S)
        PROVE  TypeOK'
    <2>1. row' \in [Deliveries -> Row]
      BY <1>2, RowWrites DEF TypeOK, ReadByUser, cancelPendingDeliveries, Statuses
    <2> QED
      BY <1>2, <2>1 DEF TypeOK, ReadByUser, peerVars, histVars
  <1>3. ASSUME NEW p \in Profiles, retryAction(p)
        PROVE  TypeOK'
    <2>1. PICK S \in SUBSET {d \in Deliveries : Owner[d] = p /\ row[d].status \in {"failed", "fallback"}} :
             /\ row' = [d \in Deliveries |->
                          IF d \in S
                          THEN [QueuedRow(row[d].name, NULL) EXCEPT !.gen = row[d].gen + 1,
                                                                    !.id  = row[d].id]
                          ELSE row[d]]
             /\ AheadOfCursor(S)
             /\ held'  = [d \in Deliveries |-> held[d] /\ d \notin S]
             /\ reach' = [d \in Deliveries |->
                            IF d \in S /\ reach[d] = "pulled" THEN "retried" ELSE reach[d]]
      BY <1>3 DEF retryAction
    <2>2. ASSUME NEW d \in Deliveries
          PROVE  [QueuedRow(row[d].name, NULL) EXCEPT !.gen = row[d].gen + 1,
                                                      !.id  = row[d].id] \in Row
      <3>1. /\ QueuedRow(row[d].name, NULL) \in Row
            /\ row[d].gen + 1 \in Nat
            /\ row[d].id \in Ids \cup {NULL}
        BY QueuedRowIsRow, ColumnTypes
      <3>2. \A r \in Row, g \in Nat, i \in Ids \cup {NULL} : [r EXCEPT !.gen = g, !.id = i] \in Row
        BY RowWrites
      <3> QED
        BY <3>1, <3>2
    <2>3. row' \in [Deliveries -> Row]
      BY <2>1, <2>2 DEF TypeOK
    <2>4. held' \in [Deliveries -> BOOLEAN] /\ reach' \in [Deliveries -> {"no", "pulled", "retried"}]
      BY <2>1 DEF TypeOK
    <2>5. drain' \in [phase : {"idle", "running", "awaiting"}, passed : SUBSET Deliveries,
                      todo : [Deliveries -> Snapshot \cup {NULL}], more : BOOLEAN]
      BY <2>1 DEF TypeOK, AheadOfCursor
    <2>6. /\ UNCHANGED <<note, route, quiet, creds, up, inflight, peerVars, refused>>
          /\ events' = events + 1
      BY <1>3 DEF retryAction
    <2> QED
      BY <2>3, <2>4, <2>5, <2>6 DEF TypeOK, peerVars
  <1>4. ASSUME NEW p \in Profiles, requeueRoute(p)
        PROVE  /\ row' \in [Deliveries -> Row]
               /\ drain' \in [phase : {"idle", "running", "awaiting"}, passed : SUBSET Deliveries,
                              todo : [Deliveries -> Snapshot \cup {NULL}], more : BOOLEAN]
    <2>1. ASSUME NEW d \in Deliveries
          PROVE  [row[d] EXCEPT !.status = "queued", !.gen = row[d].gen + 1, !.next = 0] \in Row
      <3>1. row[d] \in Row /\ row[d].gen + 1 \in Nat
        BY ColumnTypes
      <3> QED
        BY <3>1, WokenIsRow
    <2>2. row' \in [Deliveries -> Row]
      BY <1>4, <2>1 DEF TypeOK, requeueRoute
    <2> QED
      BY <1>4, <2>2 DEF TypeOK, requeueRoute, AheadOfCursor
  <1>5. ASSUME NEW p \in Profiles, setPushRoute(p)
        PROVE  TypeOK'
    <2>1. route' \in [Profiles -> PushRoute \cup {NULL}]
      BY <1>5 DEF TypeOK, setPushRoute, PushRoute
    <2> QED
      BY <1>4, <1>5, <2>1 DEF TypeOK, setPushRoute, peerVars, histVars
  <1>6. ASSUME NEW p \in Profiles, NEW en \in BOOLEAN, setPushRouteEnabled(p, en)
        PROVE  TypeOK'
    <2>1. route' \in [Profiles -> PushRoute \cup {NULL}]
      BY <1>6 DEF TypeOK, setPushRouteEnabled, PushRoute
    <2> QED
      BY <1>4, <1>6, <2>1 DEF TypeOK, setPushRouteEnabled, peerVars, histVars
  <1>7. ASSUME NEW p \in Profiles, QuietBegins(p) \/ QuietCleared(p)
        PROVE  TypeOK'
    <2>1. QuietLength \in Nat
      BY OutboxAssumption
    <2>2. quiet' \in [Profiles -> Nat] /\ events' \in Nat
      BY <1>7, <2>1 DEF TypeOK, QuietBegins, QuietCleared
    <2> QED
      BY <1>7, <2>2 DEF TypeOK, QuietBegins, QuietCleared, peerVars, histVars
  <1>8. ASSUME NEW p \in Profiles, pullAction(p)
        PROVE  TypeOK'
    BY <1>2, <1>8 DEF pullAction
  <1>9. ASSUME NEW d \in Deliveries, cancelAction(d)
        PROVE  TypeOK'
    BY <1>2, <1>9 DEF cancelAction
  <1>a. CASE \E d \in Deliveries : publishProfile(d) \/ cancelAction(d)
    BY <1>a, <1>1, <1>9
  <1>b. CASE \E p \in Profiles : \/ pullAction(p) \/ retryAction(p) \/ setPushRoute(p)
                               \/ \E en \in BOOLEAN : setPushRouteEnabled(p, en)
                               \/ QuietBegins(p) \/ QuietCleared(p)
    BY <1>b, <1>3, <1>5, <1>6, <1>7, <1>8
  <1> QED
    BY <1>a, <1>b DEF Tools

\* The drain keeps the types.
LEMMA TypeDrain ==
  ASSUME TypeOK, drainDue
  PROVE  TypeOK'
  <1> DEFINE Cursor == [phase : {"idle", "running", "awaiting"}, passed : SUBSET Deliveries,
                        todo : [Deliveries -> Snapshot \cup {NULL}], more : BOOLEAN]
  <1>1. CASE DrainStart
    <2>1. row' \in [Deliveries -> Row]
      BY <1>1, RecoveredIsRow DEF DrainStart
    <2>2. drain' \in Cursor
      BY <1>1 DEF DrainStart, Idle
    <2> QED
      BY <1>1, <2>1, <2>2 DEF TypeOK, DrainStart, peerVars, histVars
  <1>2. CASE DrainScan
    <2>1. row' \in [Deliveries -> Row]
      BY <1>2, ExaminedIsRow DEF TypeOK, DrainScan
    <2>2. ASSUME NEW d \in Deliveries
          PROVE  [pos |-> Pos(d), gen |-> row[d].gen, conf |-> row[d].conf,
                  trans |-> row[d].trans, name |-> Examined(d).name] \in Snapshot
      <3>1. row[d] \in Row /\ Examined(d) \in Row /\ Pos(d) \in Nat
        BY ColumnTypes, ExaminedIsRow, PosIsNat
      <3> QED
        BY <3>1 DEF Row, Snapshot
    <2>3. drain' \in Cursor
      <3> DEFINE kept == [d \in Deliveries |->
                            IF d \in Window /\ Deliverable(d)
                            THEN [pos |-> Pos(d), gen |-> row[d].gen, conf |-> row[d].conf,
                                  trans |-> row[d].trans, name |-> Examined(d).name]
                            ELSE NULL]
                 on   == \/ Cardinality(Window) = BATCH_LIMIT
                         \/ \E d \in Window : isExpiredAt(d) \/ skipReason(d) # "none"
                 past == drain.passed \cup {d \in Window : row'[d].next = row[d].next}
      <3>1. kept \in [Deliveries -> Snapshot \cup {NULL}]
        BY <2>2
      <3>2. past \in SUBSET Deliveries
        BY DEF TypeOK, Window, Ahead
      <3>3. on \in BOOLEAN
        OBVIOUS
      <3>4. drain' = [drain EXCEPT !.passed = past, !.todo = kept, !.more = on]
        BY <1>2 DEF DrainScan
      <3> HIDE DEF kept, on, past
      <3> QED
        BY <3>1, <3>2, <3>3, <3>4 DEF TypeOK
    <2> QED
      BY <1>2, <2>1, <2>3 DEF TypeOK, DrainScan, peerVars, histVars
  <1>3. CASE DrainBatch
    <2>1. ASSUME NEW d \in Batch, Claimable(d)
          PROVE  RequestId(d) \in Ids /\ Claimed(d) \in Row
      <3>1. d \in Deliveries /\ drain.todo[d] \in Snapshot
        BY <2>1 DEF TypeOK, Batch, Todo
      <3>2. RequestId(d) \in Ids
        BY <3>1, ColumnTypes DEF RequestId, Snapshot, Ids
      <3>3. 0 \in Ages \cup {NULL} /\ "sending" \in Statuses
        BY OutboxAssumption DEF Ages, Statuses
      <3>4. \A r \in Row, s \in Statuses, i \in Ids \cup {NULL}, a \in Ages \cup {NULL} :
               [r EXCEPT !.status = s, !.id = i, !.started = a] \in Row
        BY RowWrites
      <3>5. Claimed(d) \in Row
        BY <3>1, <3>2, <3>3, <3>4, ColumnTypes DEF Claimed
      <3> QED
        BY <3>2, <3>5
    <2>2. ASSUME NEW d \in Batch, Claimable(d)
          PROVE  [id |-> RequestId(d), chan |-> route[Owner[d]].chan,
                  conf |-> drain.todo[d].conf, trans |-> drain.todo[d].trans,
                  accepted |-> FALSE] \in Request
      <3>1. d \in Deliveries /\ drain.todo[d] \in Snapshot /\ Owner[d] \in Profiles
        BY <2>2, OutboxAssumption DEF TypeOK, Batch, Todo
      <3>2. route[Owner[d]] \in PushRoute
        BY <2>2, <3>1 DEF TypeOK, Claimable
      <3> QED
        BY <2>1, <2>2, <3>1, <3>2 DEF Request, Snapshot, PushRoute
    <2>3. row' \in [Deliveries -> Row]
      BY <1>3, <2>1 DEF TypeOK, DrainBatch
    <2>4. inflight' \in [Deliveries -> Request \cup {NULL}]
      BY <1>3, <2>2 DEF TypeOK, DrainBatch
    <2>5. drain' \in Cursor
      BY <1>3 DEF TypeOK, DrainBatch
    <2> QED
      BY <1>3, <2>3, <2>4, <2>5 DEF TypeOK, DrainBatch, peerVars, histVars
  <1>4. CASE DrainEnd
    BY <1>4, IdleType DEF TypeOK, DrainEnd, dbVars, peerVars, histVars
  <1> QED
    BY <1>1, <1>2, <1>3, <1>4 DEF drainDue

\* The answers of the channel keep the types.
LEMMA TypeDeliver ==
  ASSUME TypeOK, NEW d \in Deliveries, deliverOne(d)
  PROVE  TypeOK'
  <1>1. inflight[d] \in Request
    BY DEF TypeOK, deliverOne, markSent, markTerminalFallback, markConfirmedFailure,
           markTransportFailure
  <1>2. inflight[d].conf \in Nat /\ inflight[d].trans \in Nat /\ inflight[d].id \in Ids
    BY <1>1 DEF Request
  <1>3. ASSUME Settled(d)
        PROVE  /\ inflight' \in [Deliveries -> Request \cup {NULL}]
               /\ drain' \in [phase : {"idle", "running", "awaiting"}, passed : SUBSET Deliveries,
                              todo : [Deliveries -> Snapshot \cup {NULL}], more : BOOLEAN]
               /\ UNCHANGED <<route, quiet, creds, up, accepted, shown, reach, events>>
    BY <1>3, IdleType DEF TypeOK, Settled, peerVars
  <1>4. CASE markSent(d)
    <2>1. row' \in [Deliveries -> Row]
      <3>1. [row[d] EXCEPT !.status = "sent", !.trans = 0] \in Row
        BY ColumnTypes, RowWrites DEF Statuses
      <3> QED
        BY <1>4, <3>1 DEF TypeOK, markSent
    <2> QED
      BY <1>3, <1>4, <2>1 DEF TypeOK, markSent
  <1>5. CASE markTerminalFallback(d)
    <2>1. row' \in [Deliveries -> Row]
      <3>1. [row[d] EXCEPT !.status = "fallback", !.started = NULL, !.reject = TRUE] \in Row
        BY ColumnTypes, RowWrites DEF Statuses
      <3> QED
        BY <1>5, <3>1 DEF TypeOK, markTerminalFallback
    <2> QED
      BY <1>3, <1>5, <2>1 DEF TypeOK, markTerminalFallback
  <1>6. CASE markConfirmedFailure(d)
    <2> DEFINE confirmed == inflight[d].conf + 1
               s == IF confirmed >= MAX_CONFIRMED_FAILURES THEN "fallback" ELSE "failed"
    <2>1. row' \in [Deliveries -> Row]
      <3>1. /\ row[d] \in Row /\ s \in Statuses /\ confirmed \in Nat /\ row[d].gen + 1 \in Nat
            /\ NULL \in Ids \cup {NULL} /\ NULL \in Ages \cup {NULL} /\ Backoff(confirmed) \in Int
        BY <1>2, ColumnTypes, BackoffIsNat DEF Statuses
      <3>2. \A r \in Row, v \in Statuses, c \in Nat, t \in Nat, g \in Nat, i \in Ids \cup {NULL},
               a \in Ages \cup {NULL}, n \in Int :
               [r EXCEPT !.status = v, !.conf = c, !.trans = t, !.gen = g, !.id = i,
                         !.started = a, !.next = n] \in Row
        BY RowWrites
      <3>3. [row[d] EXCEPT !.status = s, !.conf = confirmed, !.trans = 0, !.gen = row[d].gen + 1,
                           !.id = NULL, !.started = NULL, !.next = Backoff(confirmed)] \in Row
        <4> HIDE DEF s, confirmed
        <4> DEFINE g == row[d].gen + 1  n == Backoff(confirmed)
        <4>1. g \in Nat /\ n \in Int /\ 0 \in Nat
          BY <3>1
        <4> HIDE DEF g, n
        <4>2. [row[d] EXCEPT !.status = s, !.conf = confirmed, !.trans = 0, !.gen = g,
                             !.id = NULL, !.started = NULL, !.next = n] \in Row
          BY <3>1, <3>2, <4>1
        <4> QED
          BY <4>2 DEF g, n
      <3> QED
        BY <1>6, <3>3 DEF TypeOK, markConfirmedFailure
    <2>2. refused' \in [Deliveries -> SUBSET Ids]
      BY <1>2, <1>6 DEF TypeOK, markConfirmedFailure
    <2> QED
      BY <1>3, <1>6, <2>1, <2>2 DEF TypeOK, markConfirmedFailure
  <1>7. CASE markTransportFailure(d)
    <2> DEFINE transport == inflight[d].trans + 1
               s == IF transport >= MAX_TRANSPORT_FAILURES THEN "fallback" ELSE "failed"
               n == LADDER_SECONDS[IF transport = 1 THEN 1 ELSE 2]
    <2>1. row' \in [Deliveries -> Row]
      <3>1. row[d] \in Row /\ s \in Statuses /\ transport \in Nat /\ n \in Int
        BY <1>2, ColumnTypes, OutboxAssumption DEF Statuses
      <3>2. \A r \in Row, v \in Statuses, t \in Nat, m \in Int :
               [r EXCEPT !.status = v, !.trans = t, !.next = m] \in Row
        BY RowWrites
      <3>3. [row[d] EXCEPT !.status = s, !.trans = transport, !.next = n] \in Row
        BY <3>1, <3>2
      <3> QED
        BY <1>7, <3>3 DEF TypeOK, markTransportFailure
    <2> QED
      BY <1>3, <1>7, <2>1 DEF TypeOK, markTransportFailure
  <1> QED
    BY <1>4, <1>5, <1>6, <1>7 DEF deliverOne

\* The gateway, the death and the start of the process and the clock keep the types.
LEMMA TypeWorld ==
  ASSUME TypeOK, (\E d \in Deliveries : PeerAccepts(d)) \/ Crash \/ Start \/ Tick
  PROVE  TypeOK'
  <1>1. ASSUME NEW d \in Deliveries, PeerAccepts(d)
        PROVE  TypeOK'
    <2>1. inflight[d] \in Request
      BY <1>1 DEF TypeOK, PeerAccepts
    <2>2. inflight[d].id \in Ids /\ [inflight[d] EXCEPT !.accepted = TRUE] \in Request
      BY <2>1 DEF Request
    <2>3. inflight' \in [Deliveries -> Request \cup {NULL}]
      BY <1>1, <2>2 DEF TypeOK, PeerAccepts
    <2>4. accepted' \in [Deliveries -> SUBSET Ids] /\ shown' \in [Deliveries -> Nat]
      BY <1>1, <2>2 DEF TypeOK, PeerAccepts
    <2> QED
      BY <1>1, <2>3, <2>4 DEF TypeOK, PeerAccepts, dbVars, histVars
  <1>2. CASE Crash
    <2>1. inflight' \in [Deliveries -> Request \cup {NULL}]
      BY <1>2 DEF Crash
    <2>2. held' \in [Deliveries -> BOOLEAN]
      BY <1>2 DEF TypeOK, Crash
    <2>3. events' \in Nat
      BY <1>2 DEF TypeOK, Crash
    <2> QED
      BY <1>2, <2>1, <2>2, <2>3, IdleType DEF TypeOK, Crash, dbVars, peerVars
  <1>3. CASE Start
    <2>1. creds' \subseteq Channels
      BY <1>3, OutboxAssumption DEF Start
    <2> QED
      BY <1>3, <2>1 DEF TypeOK, Start, dbVars, peerVars, histVars
  <1>4. CASE Tick
    <2>1. ASSUME NEW d \in Deliveries
          PROVE  [row[d] EXCEPT !.next = IF @ > -MaxOverdue THEN @ - 1 ELSE @,
                                !.expire = Countdown(@), !.started = Age(@)] \in Row
      <3>1. (IF row[d].next > -MaxOverdue THEN row[d].next - 1 ELSE row[d].next) \in Int
        BY ColumnTypes, OutboxAssumption
      <3>2. Countdown(row[d].expire) \in Nat \cup {NULL}
        BY ColumnTypes, OutboxAssumption DEF Countdown
      <3>3. Age(row[d].started) \in Ages \cup {NULL}
        BY ColumnTypes, OutboxAssumption DEF Age, Ages
      <3>4. \A r \in Row, n \in Int, e \in Nat \cup {NULL}, a \in Ages \cup {NULL} :
               [r EXCEPT !.next = n, !.expire = e, !.started = a] \in Row
        BY RowWrites
      <3> QED
        BY <3>1, <3>2, <3>3, <3>4, ColumnTypes
    <2>2. row' \in [Deliveries -> Row]
      BY <1>4, <2>1 DEF TypeOK, Tick
    <2>3. quiet' \in [Profiles -> Nat]
      <3>1. \A p \in Profiles : quiet[p] \in Nat
        BY DEF TypeOK
      <3>2. \A n \in Nat : Countdown(n) \in Nat
        BY DEF Countdown
      <3> QED
        BY <1>4, <3>1, <3>2 DEF Tick
    <2> QED
      BY <1>4, <2>2, <2>3 DEF TypeOK, Tick, peerVars, histVars
  <1> QED
    BY <1>1, <1>2, <1>3, <1>4

\* Every variable keeps its type: the columns of a row, and the snapshots a drain
\* carries across its awaits (drainDue, deliverOne).
THEOREM TypeCorrect == Spec => []TypeOK
  <1>1. TypeOK /\ [Next]_vars => TypeOK'
    <2>1. CASE UNCHANGED vars
      BY <2>1 DEF vars, dbVars, peerVars, histVars, TypeOK
    <2> QED
      BY <2>1, TypeTools, TypeDrain, TypeDeliver, TypeWorld DEF Next
  <1> QED
    BY <1>1, TypeInit, PTL DEF Spec

-----------------------------------------------------------------------------
(* Request ids.  The strengthening of the safety invariants:                 *)
(* - the generation of a row is above that of every id refused for it, and   *)
(*   so is the generation in the snapshot a drain holds of it, which a retry *)
(*   may have left behind;                                                   *)
(* - the id a row keeps has not been refused;                                *)
(* - no request is awaited for a row that is still to be claimed;            *)
(* - a notification nobody published yet has an empty row.                   *)

Numbered(d) ==
  /\ \A i \in refused[d] : i[2] < row[d].gen
  /\ drain.todo[d] # NULL => /\ drain.todo[d].gen <= row[d].gen
                             /\ \A i \in refused[d] : i[2] < drain.todo[d].gen
                             /\ inflight[d] = NULL
                             /\ row[d].status # "none"
  /\ row[d].id # NULL => row[d].id \notin refused[d] /\ row[d].id[2] <= row[d].gen
  /\ row[d].status = "none" => row[d].id = NULL /\ refused[d] = {}
  /\ note[d] = "absent" => row[d].status = "none"

IInv == TypeOK /\ AwaitedRowStaysClaimed /\ \A d \in Deliveries : Numbered(d)

LEMMA StatusWrites ==
  ASSUME NEW r \in Row, NEW s, NEW n, NEW a, NEW b, NEW t, NEW e
  PROVE  /\ LET q == [r EXCEPT !.status = s]
            IN  q.status = s /\ q.gen = r.gen /\ q.id = r.id /\ q.started = r.started
         /\ LET q == [r EXCEPT !.status = s, !.gen = r.gen + 1, !.next = n]
            IN  q.status = s /\ q.gen = r.gen + 1 /\ q.id = r.id
         /\ LET q == [r EXCEPT !.status = s, !.started = a]
            IN  q.status = s /\ q.gen = r.gen /\ q.id = r.id
         /\ LET q == [r EXCEPT !.next = n]
            IN  q.status = r.status /\ q.gen = r.gen /\ q.id = r.id
         /\ LET q == [r EXCEPT !.name = n]
            IN  q.status = r.status /\ q.gen = r.gen /\ q.id = r.id
         /\ LET q == [r EXCEPT !.status = s, !.trans = t]
            IN  q.status = s /\ q.gen = r.gen /\ q.id = r.id
         /\ LET q == [r EXCEPT !.status = s, !.started = a, !.reject = b]
            IN  q.status = s /\ q.gen = r.gen /\ q.id = r.id
         /\ LET q == [r EXCEPT !.status = s, !.trans = t, !.next = n]
            IN  q.status = s /\ q.gen = r.gen /\ q.id = r.id
         /\ LET q == [r EXCEPT !.next = n, !.expire = e, !.started = a]
            IN  q.status = r.status /\ q.gen = r.gen /\ q.id = r.id /\ q.started = a
  BY DEF Row

LEMMA IdWrites ==
  ASSUME NEW r \in Row, NEW s, NEW c, NEW t, NEW g, NEW i, NEW a, NEW n
  PROVE  /\ LET q == [r EXCEPT !.status = s, !.conf = c, !.trans = t, !.gen = g, !.id = i,
                               !.started = a, !.next = n]
            IN  q.status = s /\ q.gen = g /\ q.id = i
         /\ LET q == [r EXCEPT !.status = s, !.id = i, !.started = a]
            IN  q.status = s /\ q.gen = r.gen /\ q.id = i /\ q.started = a
  BY DEF Row

LEMMA RestartWrites ==
  ASSUME NEW nm, NEW g, NEW i
  PROVE  LET q == [QueuedRow(nm, NULL) EXCEPT !.gen = g, !.id = i]
         IN  q.status = "queued" /\ q.gen = g /\ q.id = i
  BY DEF QueuedRow

\* What a tool does to a row: nothing; cancel it; start it over; or publish it.  It
\* never touches a row that is being sent.
LEMMA ToolSteps ==
  ASSUME TypeOK, Tools, NEW d \in Deliveries
  PROVE  /\ inflight' = inflight /\ refused' = refused
         /\ drain'.phase = drain.phase /\ drain'.todo = drain.todo
         /\ note'[d] = "absent" => note[d] = "absent"
         /\ \/ row'[d] = row[d]
            \/ /\ row[d].status \in Pending /\ row'[d].status = "cancelled"
               /\ row'[d].gen = row[d].gen /\ row'[d].id = row[d].id
            \/ /\ row[d].status \in {"failed", "fallback"} /\ row'[d].status = "queued"
               /\ row'[d].gen = row[d].gen + 1 /\ row'[d].id = row[d].id
            \/ /\ note[d] = "absent" /\ note'[d] # "absent"
               /\ row'[d].status = "queued" /\ row'[d].gen = 0 /\ row'[d].id = NULL
  <1> DEFINE Goal == /\ inflight' = inflight /\ refused' = refused
                     /\ drain'.phase = drain.phase /\ drain'.todo = drain.todo
                     /\ note'[d] = "absent" => note[d] = "absent"
                     /\ \/ row'[d] = row[d]
                        \/ /\ row[d].status \in Pending /\ row'[d].status = "cancelled"
                           /\ row'[d].gen = row[d].gen /\ row'[d].id = row[d].id
                        \/ /\ row[d].status \in {"failed", "fallback"} /\ row'[d].status = "queued"
                           /\ row'[d].gen = row[d].gen + 1 /\ row'[d].id = row[d].id
                        \/ /\ note[d] = "absent" /\ note'[d] # "absent"
                           /\ row'[d].status = "queued" /\ row'[d].gen = 0 /\ row'[d].id = NULL
  <1> SUFFICES Goal
    OBVIOUS
  <1>0. row[d] \in Row
    BY DEF TypeOK
  <1>1. ASSUME NEW e \in Deliveries, publishProfile(e)
        PROVE  Goal
    <2>1. /\ inflight' = inflight /\ refused' = refused /\ drain' = drain
          /\ note' = [note EXCEPT ![e] = "unread"] /\ note[e] = "absent"
          /\ \/ row' = row
             \/ \E exp \in Expiries : row' = [row EXCEPT ![e] = QueuedRow(route[Owner[e]].name, exp)]
      BY <1>1 DEF publishProfile, histVars
    <2> QED
      BY <2>1 DEF TypeOK, QueuedRow
  <1>2. ASSUME NEW S \in SUBSET Deliveries, ReadByUser(S)
        PROVE  Goal
    <2>1. /\ inflight' = inflight /\ refused' = refused /\ drain' = drain
          /\ note'[d] = "absent" => note[d] = "absent"
          /\ row'[d] = IF d \in S /\ row[d].status \in Pending
                       THEN [row[d] EXCEPT !.status = "cancelled"] ELSE row[d]
      BY <1>2 DEF ReadByUser, cancelPendingDeliveries
    <2> QED
      BY <1>0, <2>1, StatusWrites
  <1>3. ASSUME NEW p \in Profiles, retryAction(p)
        PROVE  Goal
    <2>1. /\ inflight' = inflight /\ refused' = refused /\ note' = note
          /\ drain'.phase = drain.phase /\ drain'.todo = drain.todo
      BY <1>3 DEF retryAction, AheadOfCursor, TypeOK
    <2>2. \/ row'[d] = row[d]
          \/ /\ row[d].status \in {"failed", "fallback"}
             /\ row'[d] = [QueuedRow(row[d].name, NULL) EXCEPT !.gen = row[d].gen + 1,
                                                               !.id  = row[d].id]
      BY <1>3 DEF retryAction
    <2>3. LET q == [QueuedRow(row[d].name, NULL) EXCEPT !.gen = row[d].gen + 1, !.id = row[d].id]
          IN  q.status = "queued" /\ q.gen = row[d].gen + 1 /\ q.id = row[d].id
      BY RestartWrites
    <2> QED
      BY <2>1, <2>2, <2>3
  <1>4. ASSUME NEW p \in Profiles, requeueRoute(p)
        PROVE  /\ drain'.phase = drain.phase /\ drain'.todo = drain.todo
               /\ \/ row'[d] = row[d]
                  \/ /\ row[d].status = "fallback" /\ row'[d].status = "queued"
                     /\ row'[d].gen = row[d].gen + 1 /\ row'[d].id = row[d].id
    <2>1. drain'.phase = drain.phase /\ drain'.todo = drain.todo
      <3>1. drain' = [drain EXCEPT !.passed = @ \ Woken(p)]
        BY <1>4 DEF requeueRoute, AheadOfCursor
      <3> QED
        BY <3>1 DEF TypeOK
    <2>2. \/ row'[d] = row[d]
          \/ /\ row[d].status = "fallback"
             /\ row'[d] = [row[d] EXCEPT !.status = "queued", !.gen = row[d].gen + 1, !.next = 0]
      BY <1>4 DEF requeueRoute, Woken
    <2>3. LET q == [row[d] EXCEPT !.status = "queued", !.gen = row[d].gen + 1, !.next = 0]
          IN  q.status = "queued" /\ q.gen = row[d].gen + 1 /\ q.id = row[d].id
      BY <1>0 DEF Row
    <2> QED
      BY <2>1, <2>2, <2>3
  <1>5. ASSUME NEW p \in Profiles, setPushRoute(p)
        PROVE  Goal
    <2>1. inflight' = inflight /\ refused' = refused /\ note' = note /\ requeueRoute(p)
      BY <1>5 DEF setPushRoute, histVars
    <2> QED
      BY <1>4, <2>1
  <1>6. ASSUME NEW p \in Profiles, NEW en \in BOOLEAN, setPushRouteEnabled(p, en)
        PROVE  Goal
    <2>1. /\ inflight' = inflight /\ refused' = refused /\ note' = note
          /\ requeueRoute(p) \/ UNCHANGED <<row, drain>>
      BY <1>6 DEF setPushRouteEnabled, histVars
    <2> QED
      BY <1>4, <2>1
  <1>7. ASSUME NEW p \in Profiles, QuietBegins(p) \/ QuietCleared(p)
        PROVE  Goal
    <2>1. inflight' = inflight /\ refused' = refused /\ note' = note /\ row' = row /\ drain' = drain
      BY <1>7 DEF QuietBegins, QuietCleared, histVars
    <2> QED
      BY <2>1
  <1>8. ASSUME NEW p \in Profiles, pullAction(p)
        PROVE  Goal
    BY <1>2, <1>8 DEF pullAction
  <1>9. ASSUME NEW e \in Deliveries, cancelAction(e)
        PROVE  Goal
    BY <1>2, <1>9 DEF cancelAction
  <1> HIDE DEF Goal
  <1>a. CASE \E e \in Deliveries : publishProfile(e) \/ cancelAction(e)
    BY <1>a, <1>1, <1>9
  <1>b. CASE \E p \in Profiles : \/ pullAction(p) \/ retryAction(p) \/ setPushRoute(p)
                               \/ \E en \in BOOLEAN : setPushRouteEnabled(p, en)
                               \/ QuietBegins(p) \/ QuietCleared(p)
    BY <1>b, <1>3, <1>5, <1>6, <1>7, <1>8
  <1> QED
    BY <1>a, <1>b DEF Tools

\* What the drain does to a row.
LEMMA StartSteps ==
  ASSUME TypeOK, DrainStart, NEW d \in Deliveries
  PROVE  /\ inflight' = inflight /\ refused' = refused /\ note' = note
         /\ drain.phase = "idle" /\ drain'.phase = "running" /\ drain'.todo[d] = NULL
         /\ row'[d].gen = row[d].gen /\ row'[d].id = row[d].id
         /\ \/ row[d].status = "sending" /\ row'[d].status \in {"fallback", "queued"}
            \/ row[d].status # "sending" /\ row'[d].status = row[d].status
  <1>1. row[d] \in Row
    BY DEF TypeOK
  <1>2. /\ inflight' = inflight /\ refused' = refused /\ note' = note
        /\ drain.phase = "idle" /\ drain'.phase = "running" /\ drain'.todo[d] = NULL
        /\ row'[d] = Recovered(d)
    BY DEF DrainStart, Idle, histVars
  <1>3. LET f == [row[d] EXCEPT !.status = "fallback"]
            q == [row[d] EXCEPT !.status = "queued", !.started = NULL]
        IN  /\ f.status = "fallback" /\ f.gen = row[d].gen /\ f.id = row[d].id
            /\ q.status = "queued" /\ q.gen = row[d].gen /\ q.id = row[d].id
    BY <1>1 DEF Row
  <1> QED
    BY <1>2, <1>3 DEF Recovered

LEMMA ScanSteps ==
  ASSUME TypeOK, DrainScan, NEW d \in Deliveries
  PROVE  /\ inflight' = inflight /\ refused' = refused /\ note' = note
         /\ drain.phase = "running" /\ drain'.phase = "running"
         /\ row'[d].gen = row[d].gen /\ row'[d].id = row[d].id
         /\ \/ row'[d].status = row[d].status
            \/ row[d].status \in Pending /\ row'[d].status \in {"cancelled", "fallback"}
         /\ drain'.todo[d] # NULL => /\ drain'.todo[d].gen = row[d].gen
                                     /\ row[d].status \in Pending
                                     /\ row'[d].status = row[d].status
  <1>1. row[d] \in Row
    BY DEF TypeOK
  <1>2. /\ inflight' = inflight /\ refused' = refused /\ note' = note
        /\ drain.phase = "running" /\ drain'.phase = "running"
        /\ row'[d] = IF d \in Window THEN Examined(d) ELSE row[d]
        /\ drain'.todo[d] = IF d \in Window /\ Deliverable(d)
                            THEN [pos |-> Pos(d), gen |-> row[d].gen, conf |-> row[d].conf,
                                  trans |-> row[d].trans, name |-> Examined(d).name]
                            ELSE NULL
    BY DEF DrainScan, TypeOK, histVars
  <1>3. d \in Window => row[d].status \in Pending
    BY DEF Window, Ahead, Due
  <1>4. \A s \in {"cancelled", "fallback"} :
           LET q == [row[d] EXCEPT !.status = s]
           IN  q.status = s /\ q.gen = row[d].gen /\ q.id = row[d].id
    BY <1>1 DEF Row
  <1>5. \A n : LET q == [row[d] EXCEPT !.name = n]
               IN  q.status = row[d].status /\ q.gen = row[d].gen /\ q.id = row[d].id
    BY <1>1 DEF Row
  <1>6. \A n : LET q == [row[d] EXCEPT !.next = n]
               IN  q.status = row[d].status /\ q.gen = row[d].gen /\ q.id = row[d].id
    BY <1>1 DEF Row
  <1>7. /\ Examined(d).gen = row[d].gen /\ Examined(d).id = row[d].id
        /\ Examined(d).status \in {row[d].status, "cancelled", "fallback"}
        /\ Deliverable(d) => Examined(d).status = row[d].status
    BY <1>4, <1>5, <1>6 DEF Examined, Deliverable
  <1> QED
    BY <1>2, <1>3, <1>7

LEMMA NullIsNoValue == NULL \notin Request /\ NULL \notin Ids /\ 0 # NULL
  <1>1. NULL \notin Int
    BY OutboxAssumption
  <1>2. NULL \notin Request /\ NULL \notin Ids
    BY OutboxAssumption DEF Request, Ids
  <1> QED
    BY <1>1, <1>2

LEMMA BatchSteps ==
  ASSUME TypeOK, DrainBatch, NEW d \in Deliveries
  PROVE  /\ refused' = refused /\ note' = note
         /\ drain.phase = "running" /\ drain'.phase \in {"running", "awaiting"}
         /\ row'[d].gen = row[d].gen
         /\ \/ /\ row'[d] = row[d] /\ inflight'[d] = inflight[d]
               /\ drain'.todo[d] \in {drain.todo[d], NULL}
            \/ /\ drain.todo[d] # NULL /\ row[d].status \in Pending
               /\ row'[d].status = "sending" /\ row'[d].started # NULL
               /\ row'[d].id = RequestId(d) /\ row'[d].id # NULL
               /\ inflight'[d] # NULL /\ inflight'[d].id = RequestId(d)
               /\ drain'.phase = "awaiting" /\ drain'.todo[d] = NULL
  <1>1. row[d] \in Row
    BY DEF TypeOK
  <1> DEFINE claimed == {e \in Batch : Claimable(e)}
             request == [id |-> RequestId(d), chan |-> route[Owner[d]].chan,
                         conf |-> drain.todo[d].conf, trans |-> drain.todo[d].trans,
                         accepted |-> FALSE]
  <1>2. /\ refused' = refused /\ note' = note /\ drain.phase = "running"
        /\ row'[d] = IF d \in claimed THEN Claimed(d) ELSE row[d]
        /\ inflight'[d] = IF d \in claimed THEN request ELSE inflight[d]
        /\ drain'.phase = IF claimed = {} THEN "running" ELSE "awaiting"
        /\ drain'.todo[d] = IF d \in Batch THEN NULL ELSE drain.todo[d]
    BY DEF DrainBatch, TypeOK, histVars
  <1>3. CASE d \notin claimed
    BY <1>2, <1>3
  <1>4. CASE d \in claimed
    <2>1. /\ d \in Batch /\ Claimable(d) /\ drain.todo[d] # NULL /\ row[d].status \in Pending
          /\ claimed # {}
      BY <1>4 DEF Batch, Todo, Claimable
    <2>2. RequestId(d) \in Ids
      <3>1. drain.todo[d] \in Snapshot
        BY <2>1 DEF TypeOK
      <3> QED
        BY <3>1, ColumnTypes DEF RequestId, Snapshot, Ids
    <2>3. request \in Request
      <3>1. drain.todo[d] \in Snapshot /\ Owner[d] \in Profiles
        BY <2>1, OutboxAssumption DEF TypeOK
      <3>2. route[Owner[d]] \in PushRoute
        BY <2>1, <3>1 DEF TypeOK, Claimable
      <3> QED
        BY <2>2, <3>1, <3>2 DEF Request, Snapshot, PushRoute
    <2>4. request # NULL /\ RequestId(d) # NULL /\ 0 # NULL
      <3> HIDE DEF request
      <3> QED
        BY <2>2, <2>3, NullIsNoValue
    <2>5. /\ Claimed(d).status = "sending" /\ Claimed(d).gen = row[d].gen
          /\ Claimed(d).id = RequestId(d) /\ Claimed(d).started # NULL
      BY <1>1, <2>4 DEF Claimed, Row
    <2> QED
      BY <1>2, <1>4, <2>1, <2>4, <2>5
  <1> QED
    BY <1>3, <1>4

LEMMA EndSteps ==
  ASSUME TypeOK, DrainEnd, NEW d \in Deliveries
  PROVE  /\ inflight' = inflight /\ refused' = refused /\ note' = note /\ row' = row
         /\ drain'.phase = "idle" /\ drain'.todo[d] = NULL
  BY DEF DrainEnd, Idle, dbVars, histVars

\* What an answer does to the row it is about, and that it does nothing to others.
LEMMA DeliverSteps ==
  ASSUME TypeOK, NEW e \in Deliveries, deliverOne(e), NEW d \in Deliveries
  PROVE  /\ inflight[e] # NULL
         /\ d # e => row'[d] = row[d] /\ refused'[d] = refused[d] /\ inflight'[d] = inflight[d]
         /\ note'[d] = "absent" => note[d] = "absent"
         /\ inflight'[e] = NULL
         /\ \/ row'[e].status \in {"sent", "failed", "fallback"} /\ row'[e].gen = row[e].gen
               /\ row'[e].id = row[e].id /\ refused'[e] = refused[e]
            \/ row'[e].status \in {"failed", "fallback"} /\ row'[e].gen = row[e].gen + 1
               /\ row'[e].id = NULL /\ refused'[e] = refused[e] \cup {inflight[e].id}
         /\ \/ (\E f \in Deliveries \ {e} : inflight[f] # NULL) /\ drain' = drain
            \/ /\ \A f \in Deliveries \ {e} : inflight[f] = NULL
               /\ drain'.phase # "awaiting"
               /\ drain'.todo[d] \in {drain.todo[d], NULL}
  <1>1. row[e] \in Row
    BY DEF TypeOK
  <1>2. /\ inflight[e] # NULL /\ Settled(e)
        /\ note'[d] \in {note[d], "read"}
    BY DEF deliverOne, markSent, markTerminalFallback, markConfirmedFailure,
           markTransportFailure, TypeOK
  <1>3. /\ d # e => inflight'[d] = inflight[d]
        /\ inflight'[e] = NULL
    BY <1>2 DEF Settled, TypeOK
  <1>4. \/ (\E f \in Deliveries \ {e} : inflight[f] # NULL) /\ drain' = drain
        \/ /\ \A f \in Deliveries \ {e} : inflight[f] = NULL
           /\ drain'.phase # "awaiting"
           /\ drain'.todo[d] \in {drain.todo[d], NULL}
    BY <1>2 DEF Settled, Idle, TypeOK
  <1>5. /\ d # e => row'[d] = row[d] /\ refused'[d] = refused[d]
        /\ \/ row'[e].status \in {"sent", "failed", "fallback"} /\ row'[e].gen = row[e].gen
              /\ row'[e].id = row[e].id /\ refused'[e] = refused[e]
           \/ row'[e].status \in {"failed", "fallback"} /\ row'[e].gen = row[e].gen + 1
              /\ row'[e].id = NULL /\ refused'[e] = refused[e] \cup {inflight[e].id}
    <2>1. CASE markSent(e)
      <3>1. LET q == [row[e] EXCEPT !.status = "sent", !.trans = 0]
            IN  q.status = "sent" /\ q.gen = row[e].gen /\ q.id = row[e].id
        BY <1>1 DEF Row
      <3>2. row' = [row EXCEPT ![e] = [row[e] EXCEPT !.status = "sent", !.trans = 0]]
            /\ refused' = refused
        BY <2>1 DEF markSent
      <3> QED
        BY <3>1, <3>2 DEF TypeOK
    <2>2. CASE markTerminalFallback(e)
      <3>1. LET q == [row[e] EXCEPT !.status = "fallback", !.started = NULL, !.reject = TRUE]
            IN  q.status = "fallback" /\ q.gen = row[e].gen /\ q.id = row[e].id
        BY <1>1 DEF Row
      <3>2. row' = [row EXCEPT ![e] = [row[e] EXCEPT !.status = "fallback", !.started = NULL,
                                                     !.reject = TRUE]]
            /\ refused' = refused
        BY <2>2 DEF markTerminalFallback
      <3> QED
        BY <3>1, <3>2 DEF TypeOK
    <2>3. CASE markConfirmedFailure(e)
      <3> DEFINE confirmed == inflight[e].conf + 1
                 s == IF confirmed >= MAX_CONFIRMED_FAILURES THEN "fallback" ELSE "failed"
                 q == [row[e] EXCEPT !.status = s, !.conf = confirmed, !.trans = 0,
                                     !.gen = row[e].gen + 1, !.id = NULL, !.started = NULL,
                                     !.next = Backoff(confirmed)]
      <3>1. q.status \in {"failed", "fallback"} /\ q.gen = row[e].gen + 1 /\ q.id = NULL
        BY <1>1, IdWrites DEF Row
      <3>2. row' = [row EXCEPT ![e] = q] /\ refused' = [refused EXCEPT ![e] = @ \cup {inflight[e].id}]
        BY <2>3 DEF markConfirmedFailure
      <3> HIDE DEF q
      <3> QED
        BY <3>1, <3>2 DEF TypeOK
    <2>4. CASE markTransportFailure(e)
      <3> DEFINE transport == inflight[e].trans + 1
                 s == IF transport >= MAX_TRANSPORT_FAILURES THEN "fallback" ELSE "failed"
                 q == [row[e] EXCEPT !.status = s, !.trans = transport,
                                     !.next = LADDER_SECONDS[IF transport = 1 THEN 1 ELSE 2]]
      <3>1. q.status \in {"failed", "fallback"} /\ q.gen = row[e].gen /\ q.id = row[e].id
        BY <1>1 DEF Row
      <3>2. row' = [row EXCEPT ![e] = q] /\ refused' = refused
        BY <2>4 DEF markTransportFailure
      <3> HIDE DEF q
      <3> QED
        BY <3>1, <3>2 DEF TypeOK
    <2> QED
      BY <2>1, <2>2, <2>3, <2>4 DEF deliverOne
  <1> QED
    BY <1>2, <1>3, <1>4, <1>5

\* The gateway, the death and the start of the process and the clock.
LEMMA WorldSteps ==
  ASSUME TypeOK, (\E e \in Deliveries : PeerAccepts(e)) \/ Crash \/ Start \/ Tick,
         NEW d \in Deliveries
  PROVE  /\ refused' = refused /\ note' = note
         /\ row'[d].status = row[d].status /\ row'[d].gen = row[d].gen /\ row'[d].id = row[d].id
         /\ row[d].started # NULL => row'[d].started # NULL
         /\ \/ /\ inflight'[d] = NULL /\ inflight[d] = NULL
            \/ /\ inflight'[d] = NULL /\ drain'.phase = "idle"
            \/ /\ inflight'[d] # NULL /\ inflight[d] # NULL /\ inflight'[d].id = inflight[d].id
         /\ \/ drain' = drain
            \/ drain'.phase = "idle" /\ drain'.todo[d] = NULL
  <1>0. row[d] \in Row
    BY DEF TypeOK
  <1>1. ASSUME NEW e \in Deliveries, PeerAccepts(e)
        PROVE  /\ refused' = refused /\ note' = note /\ drain' = drain /\ row' = row
               /\ \/ inflight'[d] = inflight[d]
                  \/ /\ inflight'[d] # NULL /\ inflight[d] # NULL
                     /\ inflight'[d].id = inflight[d].id
    <2>1. inflight[e] \in Request /\ inflight' = [inflight EXCEPT ![e].accepted = TRUE]
          /\ inflight[e] # NULL
      BY <1>1 DEF TypeOK, PeerAccepts
    <2>2. [inflight[e] EXCEPT !.accepted = TRUE].id = inflight[e].id
          /\ [inflight[e] EXCEPT !.accepted = TRUE] \in Request
      BY <2>1 DEF Request
    <2>3. inflight'[d] = inflight[d] \/ (d = e /\ inflight'[d] = [inflight[e] EXCEPT !.accepted = TRUE])
      BY <2>1 DEF TypeOK
    <2>4. /\ refused' = refused /\ note' = note /\ drain' = drain /\ row' = row
      BY <1>1 DEF PeerAccepts, dbVars, histVars
    <2> QED
      BY <2>1, <2>2, <2>3, <2>4, NullIsNoValue
  <1>2. CASE Crash
    BY <1>2 DEF Crash, Idle, dbVars
  <1>3. CASE Start
    BY <1>3 DEF Start, dbVars, histVars
  <1>4. CASE Tick
    <2>1. /\ refused' = refused /\ note' = note /\ drain' = drain /\ inflight' = inflight
          /\ row'[d] = IF row[d].status \in Terminal THEN row[d]
                       ELSE [row[d] EXCEPT !.next    = IF @ > -MaxOverdue THEN @ - 1 ELSE @,
                                           !.expire  = Countdown(@),
                                           !.started = Age(@)]
      BY <1>4 DEF Tick, histVars
    <2>2. \A n, x, a : LET q == [row[d] EXCEPT !.next = n, !.expire = x, !.started = a]
                       IN  /\ q.status = row[d].status /\ q.gen = row[d].gen
                           /\ q.id = row[d].id /\ q.started = a
      BY <1>0 DEF Row
    <2>3. row[d].started # NULL => Age(row[d].started) # NULL
      <3>1. NULL \notin Int
        BY OutboxAssumption
      <3>2. row[d].started # NULL => row[d].started \in Int
        BY ColumnTypes DEF Ages
      <3>3. row[d].started # NULL => row[d].started + 1 \in Int
        BY <3>2
      <3> QED
        BY <3>1, <3>3 DEF Age
    <2> QED
      BY <2>1, <2>2, <2>3
  <1> QED
    BY <1>1, <1>2, <1>3, <1>4

Awaited(d) ==
  /\ inflight[d] # NULL => /\ drain.phase = "awaiting" /\ row[d].status = "sending"
                           /\ row[d].id = inflight[d].id /\ row[d].started # NULL
  /\ row[d].status = "sending" /\ drain.phase # "idle" => inflight[d] # NULL

LEMMA AwaitedIsThat == AwaitedRowStaysClaimed <=> \A d \in Deliveries : Awaited(d)
  BY DEF AwaitedRowStaysClaimed, Awaited

LEMMA IInvInit == Init => IInv
  <1> SUFFICES ASSUME Init PROVE IInv
    OBVIOUS
  <1>1. ASSUME NEW d \in Deliveries
        PROVE  /\ row[d].status = "none" /\ row[d].id = NULL /\ refused[d] = {}
               /\ inflight[d] = NULL /\ drain.todo[d] = NULL
    <2>1. LET q == [QueuedRow(CHOOSE nm \in RouteNames : TRUE, NULL) EXCEPT !.status = "none"]
          IN  q.status = "none" /\ q.id = NULL
      BY DEF QueuedRow
    <2> QED
      BY <2>1 DEF Init, Idle
  <1>2. ASSUME NEW d \in Deliveries
        PROVE  Awaited(d) /\ Numbered(d)
    BY <1>1 DEF Awaited, Numbered
  <1> QED
    BY <1>2, AwaitedIsThat, TypeInit DEF IInv

\* Generations and ids, typed.
LEMMA IdTypes ==
  ASSUME TypeOK, NEW d \in Deliveries
  PROVE  /\ row[d].gen \in Nat
         /\ row[d].id # NULL => row[d].id \in Ids /\ row[d].id[2] \in Nat
         /\ \A i \in refused[d] : i \in Ids /\ i[2] \in Nat
         /\ drain.todo[d] # NULL => /\ drain.todo[d] \in Snapshot
                                    /\ drain.todo[d].gen \in Nat /\ drain.todo[d].name \in RouteNames
         /\ inflight[d] # NULL => inflight[d].id \in Ids /\ inflight[d].id # NULL
  <1>1. row[d].gen \in Nat /\ row[d].id \in Ids \cup {NULL}
    BY ColumnTypes
  <1>2. \A i \in Ids : i[2] \in Nat
    BY DEF Ids
  <1>3. refused[d] \subseteq Ids
    BY DEF TypeOK
  <1>4. drain.todo[d] # NULL => drain.todo[d] \in Snapshot
    BY DEF TypeOK
  <1>5. inflight[d] # NULL => inflight[d] \in Request
    BY DEF TypeOK
  <1> QED
    BY <1>1, <1>2, <1>3, <1>4, <1>5, NullIsNoValue DEF Snapshot, Request

LEMMA IInvTools ==
  ASSUME IInv, Tools, NEW d \in Deliveries
  PROVE  Awaited(d)' /\ Numbered(d)'
  <1>1. TypeOK /\ Awaited(d) /\ Numbered(d)
    BY AwaitedIsThat DEF IInv
  <1>2. Awaited(d)'
    <2>1. inflight' = inflight /\ drain'.phase = drain.phase
      BY <1>1, ToolSteps
    <2>2. row[d].status = "sending" \/ row'[d].status = "sending" => row'[d] = row[d]
      <3>1. \A s \in Pending \cup {"failed", "fallback", "none"} : s # "sending"
        BY DEF Pending
      <3> QED
        BY <1>1, <3>1, ToolSteps DEF Numbered
    <2> QED
      BY <1>1, <2>1, <2>2 DEF Awaited
  <1>3. Numbered(d)'
    BY <1>1, ToolSteps, IdTypes DEF Numbered, Pending
  <1> QED
    BY <1>2, <1>3

LEMMA IInvDrain ==
  ASSUME IInv, drainDue, NEW d \in Deliveries
  PROVE  Awaited(d)' /\ Numbered(d)'
  <1>1. TypeOK /\ Awaited(d) /\ Numbered(d)
    BY AwaitedIsThat DEF IInv
  <1>2. CASE DrainStart
    BY <1>1, <1>2, StartSteps, IdTypes DEF Awaited, Numbered
  <1>3. CASE DrainScan
    <2>1. inflight[d] = NULL
      BY <1>1, <1>3, ScanSteps DEF Awaited
    <2> QED
      BY <1>1, <1>3, <2>1, ScanSteps, IdTypes DEF Awaited, Numbered, Pending
  <1>4. CASE DrainBatch
    <2>1. inflight[d] = NULL /\ drain.phase = "running"
      BY <1>1, <1>4, BatchSteps DEF Awaited
    <2>2. CASE row'[d] = row[d] /\ inflight'[d] = inflight[d] /\ drain'.todo[d] \in {drain.todo[d], NULL}
      BY <1>1, <1>4, <2>1, <2>2, BatchSteps, IdTypes DEF Awaited, Numbered
    <2>3. CASE /\ drain.todo[d] # NULL /\ row[d].status \in Pending
               /\ row'[d].status = "sending" /\ row'[d].started # NULL
               /\ row'[d].id = RequestId(d) /\ row'[d].id # NULL
               /\ inflight'[d] # NULL /\ inflight'[d].id = RequestId(d)
               /\ drain'.phase = "awaiting" /\ drain'.todo[d] = NULL
      <3>1. Awaited(d)'
        BY <2>3 DEF Awaited
      <3>2. RequestId(d) \notin refused[d] /\ RequestId(d)[2] <= row[d].gen
        BY <1>1, <2>3, IdTypes DEF RequestId, Numbered
      <3>3. row'[d].gen = row[d].gen /\ refused' = refused /\ note' = note
        BY <1>1, <1>4, BatchSteps
      <3>4. Numbered(d)'
        BY <1>1, <2>3, <3>2, <3>3 DEF Numbered, Pending
      <3> QED
        BY <3>1, <3>4
    <2> QED
      BY <1>1, <1>4, <2>2, <2>3, BatchSteps
  <1>5. CASE DrainEnd
    <2>1. drain.phase = "running"
      BY <1>5 DEF DrainEnd
    <2> QED
      BY <1>1, <1>5, <2>1, EndSteps DEF Awaited, Numbered
  <1> QED
    BY <1>2, <1>3, <1>4, <1>5 DEF drainDue

LEMMA IInvDeliver ==
  ASSUME IInv, NEW e \in Deliveries, deliverOne(e), NEW d \in Deliveries
  PROVE  Awaited(d)' /\ Numbered(d)'
  <1>1. /\ TypeOK /\ Awaited(d) /\ Numbered(d) /\ Awaited(e) /\ Numbered(e)
    BY AwaitedIsThat DEF IInv
  <1>2. CASE d = e
    <2>1. Awaited(d)'
      BY <1>1, <1>2, DeliverSteps DEF Awaited
    <2>2. inflight[d] # NULL /\ row[d].id = inflight[d].id /\ inflight[d].id \in Ids
          /\ drain.todo[d] = NULL /\ row[d].status = "sending"
      BY <1>1, <1>2, DeliverSteps, IdTypes DEF Awaited, Numbered
    <2>3. drain'.todo[d] = NULL
      BY <1>1, <1>2, <2>2, DeliverSteps
    <2>4. note[d] # "absent" /\ note'[d] # "absent"
      BY <1>1, <1>2, <2>2, DeliverSteps DEF Numbered
    <2>5. CASE /\ row'[d].status \in {"sent", "failed", "fallback"} /\ row'[d].gen = row[d].gen
               /\ row'[d].id = row[d].id /\ refused'[d] = refused[d]
      BY <1>1, <2>1, <2>3, <2>4, <2>5 DEF Numbered
    <2>6. CASE /\ row'[d].status \in {"failed", "fallback"} /\ row'[d].gen = row[d].gen + 1
               /\ row'[d].id = NULL /\ refused'[d] = refused[d] \cup {inflight[d].id}
      <3>1. \A i \in refused[d] \cup {inflight[d].id} : i[2] < row[d].gen + 1
        BY <1>1, <2>2, IdTypes, NullIsNoValue DEF Numbered
      <3> QED
        BY <2>1, <2>3, <2>4, <2>6, <3>1 DEF Numbered
    <2> QED
      BY <1>1, <1>2, <2>1, <2>5, <2>6, DeliverSteps
  <1>3. CASE d # e
    <2>1. /\ row'[d] = row[d] /\ refused'[d] = refused[d] /\ inflight'[d] = inflight[d]
          /\ drain'.todo[d] \in {drain.todo[d], NULL}
          /\ note'[d] = "absent" => note[d] = "absent"
      BY <1>1, <1>3, DeliverSteps
    <2>2. Numbered(d)'
      BY <1>1, <2>1 DEF Numbered
    <2>3. /\ inflight[e] # NULL /\ drain.phase = "awaiting"
          /\ inflight[d] # NULL => drain' = drain
      BY <1>1, <1>3, DeliverSteps DEF Awaited
    <2>4. Awaited(d)'
      BY <1>1, <2>1, <2>3 DEF Awaited
    <2> QED
      BY <2>2, <2>4
  <1> QED
    BY <1>2, <1>3

LEMMA IInvWorld ==
  ASSUME IInv, (\E e \in Deliveries : PeerAccepts(e)) \/ Crash \/ Start \/ Tick,
         NEW d \in Deliveries
  PROVE  Awaited(d)' /\ Numbered(d)'
  <1>1. TypeOK /\ Awaited(d) /\ Numbered(d)
    BY AwaitedIsThat DEF IInv
  <1>2. /\ refused' = refused /\ note' = note
        /\ row'[d].status = row[d].status /\ row'[d].gen = row[d].gen /\ row'[d].id = row[d].id
        /\ row[d].started # NULL => row'[d].started # NULL
        /\ \/ inflight'[d] = NULL /\ inflight[d] = NULL
           \/ inflight'[d] = NULL /\ drain'.phase = "idle"
           \/ inflight'[d] # NULL /\ inflight[d] # NULL /\ inflight'[d].id = inflight[d].id
        /\ drain' = drain \/ (drain'.phase = "idle" /\ drain'.todo[d] = NULL)
    BY <1>1, WorldSteps
  <1>3. inflight'[d] # NULL => drain' = drain
    <2>1. Crash => inflight'[d] = NULL
      BY DEF Crash
    <2>2. ~Crash => drain' = drain
      BY DEF PeerAccepts, Start, Tick
    <2> QED
      BY <2>1, <2>2
  <1> QED
    BY <1>1, <1>2, <1>3 DEF Awaited, Numbered

LEMMA IInvStep == IInv /\ [Next]_vars => IInv'
  <1> SUFFICES ASSUME IInv, [Next]_vars PROVE IInv'
    OBVIOUS
  <1>1. TypeOK'
    <2>1. CASE UNCHANGED vars
      BY <2>1 DEF IInv, vars, dbVars, peerVars, histVars, TypeOK
    <2> QED
      BY <2>1, TypeTools, TypeDrain, TypeDeliver, TypeWorld DEF IInv, Next
  <1>2. ASSUME NEW d \in Deliveries
        PROVE  Awaited(d)' /\ Numbered(d)'
    <2>1. CASE UNCHANGED vars
      <3>1. /\ inflight' = inflight /\ drain' = drain /\ row' = row /\ note' = note
            /\ refused' = refused
        BY <2>1 DEF vars, dbVars, histVars
      <3>2. Awaited(d) /\ Numbered(d)
        BY AwaitedIsThat DEF IInv
      <3> QED
        BY <3>1, <3>2 DEF Awaited, Numbered
    <2>2. CASE Tools
      BY <2>2, IInvTools
    <2>3. CASE drainDue
      BY <2>3, IInvDrain
    <2>4. CASE \E e \in Deliveries : deliverOne(e)
      BY <2>4, IInvDeliver
    <2>5. CASE (\E e \in Deliveries : PeerAccepts(e)) \/ Crash \/ Start \/ Tick
      BY <2>5, IInvWorld
    <2> QED
      BY <2>1, <2>2, <2>3, <2>4, <2>5 DEF Next
  <1>3. AwaitedRowStaysClaimed'
    BY <1>2 DEF AwaitedRowStaysClaimed, Awaited
  <1> QED
    BY <1>1, <1>2, <1>3 DEF IInv

LEMMA IInvAlways == Spec => []IInv
  BY IInvInit, IInvStep, PTL DEF Spec

\* The mark functions of deliverOne write by id and look at nothing else.  They may:
\* while a request is awaited its row stays claimed under the same id.
THEOREM AwaitedClaim == Spec => []AwaitedRowStaysClaimed
  <1>1. IInv => AwaitedRowStaysClaimed
    BY DEF IInv
  <1> QED
    BY <1>1, IInvAlways, PTL

\* A request is never sent under an id the channel has answered 408/429/5xx to, in
\* spite of the generation that drainDue reads before its awaits.
THEOREM FreshIds == Spec => []FreshIdAfterRefusal
  <1>1. IInv => FreshIdAfterRefusal
    <2> SUFFICES ASSUME IInv, NEW d \in Deliveries, inflight[d] # NULL
                 PROVE  inflight[d].id \notin refused[d]
      BY DEF FreshIdAfterRefusal
    <2>1. TypeOK /\ Awaited(d) /\ Numbered(d)
      BY AwaitedIsThat DEF IInv
    <2> QED
      BY <2>1, IdTypes DEF Awaited, Numbered
  <1> QED
    BY <1>1, IInvAlways, PTL

-----------------------------------------------------------------------------
(* The outbox implements the life cycle of DeliveryLifecycle.                *)

LEMMA StageValues ==
  /\ Stage("none") = "none" /\ Stage("sent") = "sent" /\ Stage("cancelled") = "cancelled"
  /\ Stage("sending") = "inflight" /\ Stage("fallback") = "parked"
  /\ \A s \in Pending : Stage(s) = "waiting"
  BY DEF Stage, Pending

\* A row's step is a step of the life cycle when it is one of these.
LEMMA StepsMap ==
  ASSUME NEW d \in Deliveries,
         \/ /\ row'[d].id = row[d].id /\ refused'[d] = refused[d]
            /\ \/ Stage(row'[d].status) = Stage(row[d].status)
               \/ Stage(row[d].status) = "none" /\ Stage(row'[d].status) = "waiting"
               \/ Stage(row[d].status) = "inflight" /\ Stage(row'[d].status) \in {"sent", "waiting", "parked"}
               \/ Stage(row[d].status) = "waiting" /\ Stage(row'[d].status) \in {"parked", "cancelled"}
               \/ Stage(row[d].status) = "parked" /\ Stage(row'[d].status) = "waiting"
         \/ /\ Stage(row[d].status) = "waiting" /\ Stage(row'[d].status) = "inflight"
            /\ refused'[d] = refused[d]
            /\ row'[d].id # NULL /\ row'[d].id \notin refused[d]
            /\ row[d].id # NULL => row'[d].id = row[d].id
         \/ /\ Stage(row[d].status) = "inflight" /\ Stage(row'[d].status) \in {"waiting", "parked"}
            /\ refused'[d] = refused[d] \cup {row[d].id} /\ row'[d].id = NULL
  PROVE  Lifecycle!Step(d)
  BY DEF Lifecycle!Step, Lifecycle!Stay, Lifecycle!Queue, Lifecycle!Attempt, Lifecycle!Sent,
         Lifecycle!Lost, Lifecycle!Refuse, Lifecycle!Park, Lifecycle!Wake, Lifecycle!Cancel,
         Lifecycle!Moves, Lifecycle!Same

LEMMA LifecycleStep ==
  ASSUME IInv, Next, NEW d \in Deliveries
  PROVE  Lifecycle!Step(d)
  <1>1. /\ TypeOK /\ Awaited(d) /\ Numbered(d)
    BY AwaitedIsThat DEF IInv
  <1>2. CASE Tools
    <2>1. refused'[d] = refused[d] /\ row'[d].id = row[d].id
      BY <1>1, <1>2, ToolSteps DEF Numbered
    <2>2. \/ row'[d] = row[d]
          \/ row[d].status \in Pending /\ row'[d].status = "cancelled"
          \/ row[d].status \in {"failed", "fallback"} /\ row'[d].status = "queued"
          \/ row[d].status = "none" /\ row'[d].status = "queued"
      BY <1>1, <1>2, ToolSteps DEF Numbered
    <2>3. "queued" \in Pending /\ "failed" \in Pending
      BY DEF Pending
    <2> QED
      BY <2>1, <2>2, <2>3, StageValues, StepsMap
  <1>3. CASE drainDue
    <2>1. "queued" \in Pending
      BY DEF Pending
    <2>2. CASE DrainStart
      BY <1>1, <2>1, <2>2, StartSteps, StageValues, StepsMap
    <2>3. CASE DrainScan
      BY <1>1, <2>3, ScanSteps, StageValues, StepsMap
    <2>4. CASE DrainBatch
      <3>1. CASE row'[d] = row[d]
        BY <1>1, <2>4, <3>1, BatchSteps, StepsMap
      <3>2. CASE row'[d] # row[d]
        <4>1. /\ drain.todo[d] # NULL /\ row[d].status \in Pending /\ row'[d].status = "sending"
              /\ row'[d].id = RequestId(d) /\ row'[d].id # NULL /\ refused' = refused
          BY <1>1, <2>4, <3>2, BatchSteps
        <4>2. RequestId(d) \notin refused[d] /\ (row[d].id # NULL => RequestId(d) = row[d].id)
          BY <1>1, <4>1, IdTypes DEF RequestId, Numbered
        <4> QED
          BY <4>1, <4>2, StageValues, StepsMap
      <3> QED
        BY <3>1, <3>2
    <2>5. CASE DrainEnd
      BY <1>1, <2>5, EndSteps, StepsMap
    <2> QED
      BY <1>3, <2>2, <2>3, <2>4, <2>5 DEF drainDue
  <1>4. ASSUME NEW e \in Deliveries, deliverOne(e)
        PROVE  Lifecycle!Step(d)
    <2>1. CASE d # e
      BY <1>1, <1>4, <2>1, DeliverSteps, StepsMap
    <2>2. CASE d = e
      <3>1. row[d].status = "sending" /\ row[d].id = inflight[d].id
        BY <1>1, <1>4, <2>2, DeliverSteps DEF Awaited
      <3>2. "failed" \in Pending
        BY DEF Pending
      <3>3. CASE /\ row'[d].status \in {"sent", "failed", "fallback"}
                 /\ row'[d].id = row[d].id /\ refused'[d] = refused[d]
        BY <3>1, <3>2, <3>3, StageValues, StepsMap
      <3>4. CASE /\ row'[d].status \in {"failed", "fallback"}
                 /\ row'[d].id = NULL /\ refused'[d] = refused[d] \cup {inflight[d].id}
        BY <3>1, <3>2, <3>4, StageValues, StepsMap
      <3> QED
        BY <1>1, <1>4, <2>2, <3>3, <3>4, DeliverSteps
    <2> QED
      BY <2>1, <2>2
  <1>5. CASE (\E e \in Deliveries : PeerAccepts(e)) \/ Crash \/ Start \/ Tick
    BY <1>1, <1>5, WorldSteps, StepsMap
  <1> QED
    BY <1>2, <1>3, <1>4, <1>5 DEF Next

\* Every drain, tool call, late answer and restart moves each delivery along its life
\* cycle: a sent or cancelled row is over, a parked one is woken before it is sent, and
\* an attempt repeats the unrefused id of the one before (notify.ts, the whole outbox).
THEOREM Implements == Spec => LifecycleSpec
  <1>1. Init => Lifecycle!Init
    <2> SUFFICES ASSUME Init PROVE Lifecycle!Init
      OBVIOUS
    <2>1. ASSUME NEW d \in Deliveries
          PROVE  row[d].status = "none" /\ row[d].id = NULL /\ refused[d] = {}
      <3>1. LET q == [QueuedRow(CHOOSE nm \in RouteNames : TRUE, NULL) EXCEPT !.status = "none"]
            IN  q.status = "none" /\ q.id = NULL
        BY DEF QueuedRow
      <3> QED
        BY <3>1 DEF Init
    <2>2. refused = [d \in Deliveries |-> {}]
      BY DEF Init
    <2> QED
      BY <2>1, <2>2, StageValues DEF Lifecycle!Init
  <1>2. IInv /\ [Next]_vars => [Lifecycle!Next]_(Lifecycle!vars)
    <2> SUFFICES ASSUME IInv, [Next]_vars
                 PROVE  [Lifecycle!Next]_(Lifecycle!vars)
      OBVIOUS
    <2>1. CASE Next
      BY <2>1, LifecycleStep DEF Lifecycle!Next
    <2>2. CASE UNCHANGED vars
      <3>1. row' = row /\ refused' = refused
        BY <2>2 DEF vars, dbVars, histVars
      <3> QED
        BY <3>1 DEF Lifecycle!vars
    <2> QED
      BY <2>1, <2>2
  <1> QED
    BY <1>1, <1>2, IInvAlways, PTL DEF Spec, LifecycleSpec, Lifecycle!Spec
=============================================================================
