----------------------------- MODULE PushProofs -----------------------------
(* What the outbox promises its user of a push: proofs over the invariant of *)
(* OutboxProofs, for every value of the constants.                           *)
EXTENDS OutboxProofs

-----------------------------------------------------------------------------
(* What is marked read was read, or shown.                                   *)

\* The chain from the push the user saw to the mark: shown, accepted by the far end,
\* the request known to be accepted, the notification read.
Reached(d) ==
  /\ accepted[d] # {} => shown[d] > 0
  /\ inflight[d] # NULL /\ inflight[d].accepted => accepted[d] # {}
  /\ note[d] = "read" => reach[d] # "no" \/ shown[d] > 0

\* No action but the far end's touches what the far end keeps.
LEMMA PeerKeeps ==
  ASSUME [Next]_vars
  PROVE  (\E e \in Deliveries : PeerAccepts(e)) \/ (accepted' = accepted /\ shown' = shown)
  <1>1. CASE Tools
    BY <1>1 DEF Tools, publishProfile, pullAction, cancelAction, ReadByUser, retryAction,
       setPushRoute, setPushRouteEnabled, QuietBegins, QuietCleared, peerVars
  <1>2. CASE drainDue
    BY <1>2 DEF drainDue, DrainStart, DrainScan, DrainBatch, DrainEnd, peerVars
  <1>3. ASSUME NEW e \in Deliveries, deliverOne(e)
        PROVE  accepted' = accepted /\ shown' = shown
    <2>1. Settled(e)
      BY <1>3, Zenon DEF deliverOne, markSent, markTerminalFallback, markConfirmedFailure,
         markTransportFailure
    <2> QED
      BY <2>1 DEF Settled, peerVars
  <1>4. CASE Crash \/ Start \/ Tick
    BY <1>4 DEF Crash, Start, Tick, peerVars
  <1>5. CASE UNCHANGED vars
    BY <1>5 DEF vars, peerVars
  <1> QED
    BY <1>1, <1>2, <1>3, <1>4, <1>5 DEF Next

\* What PeerAccepts does to the far end's memory and to the request.
LEMMA PeerSteps ==
  ASSUME TypeOK, NEW e \in Deliveries, PeerAccepts(e), NEW d \in Deliveries
  PROVE  /\ row' = row /\ note' = note /\ reach' = reach /\ drain' = drain
         /\ d # e => inflight'[d] = inflight[d] /\ accepted'[d] = accepted[d] /\ shown'[d] = shown[d]
         /\ inflight[e] # NULL /\ inflight'[e] # NULL
         /\ inflight'[e].id = inflight[e].id /\ inflight'[e].chan = inflight[e].chan
         /\ accepted'[e] = accepted[e] \cup {inflight[e].id}
         /\ shown'[e] = IF \/ inflight[e].chan \in IDEMPOTENT_CHANNELS /\ inflight[e].id \in accepted[e]
                           \/ shown[e] = MaxShown
                        THEN shown[e] ELSE shown[e] + 1
  <1>1. inflight[e] \in Request /\ shown[e] \in Nat
    BY NullIsNoValue DEF TypeOK, PeerAccepts
  <1>2. /\ inflight' = [inflight EXCEPT ![e].accepted = TRUE]
        /\ inflight'[e] = [inflight[e] EXCEPT !.accepted = TRUE]
    BY DEF TypeOK, PeerAccepts
  <1>3. /\ [inflight[e] EXCEPT !.accepted = TRUE] \in Request
        /\ [inflight[e] EXCEPT !.accepted = TRUE].id = inflight[e].id
        /\ [inflight[e] EXCEPT !.accepted = TRUE].chan = inflight[e].chan
    BY <1>1 DEF Request
  <1>4. inflight[e] # NULL /\ inflight'[e] # NULL
    BY <1>1, <1>2, <1>3, NullIsNoValue
  <1>5. d # e => inflight'[d] = inflight[d]
    BY <1>2 DEF TypeOK
  <1>6. /\ accepted' = [accepted EXCEPT ![e] = @ \cup {inflight[e].id}]
        /\ shown' = [shown EXCEPT ![e] = IF \/ inflight[e].chan \in IDEMPOTENT_CHANNELS
                                               /\ inflight[e].id \in accepted[e]
                                            \/ @ = MaxShown
                                         THEN @ ELSE @ + 1]
    BY DEF PeerAccepts
  <1>7. row' = row /\ note' = note /\ reach' = reach /\ drain' = drain
    BY DEF PeerAccepts, dbVars, histVars
  <1> QED
    BY <1>2, <1>3, <1>4, <1>5, <1>6, <1>7 DEF TypeOK

\* A request comes into being not accepted, and only the far end makes it so.
LEMMA AcceptedByPeer ==
  ASSUME TypeOK, [Next]_vars, ~\E e \in Deliveries : PeerAccepts(e), NEW d \in Deliveries,
         inflight'[d] # NULL
  PROVE  inflight'[d] = inflight[d] \/ ~inflight'[d].accepted
  <1>1. CASE Tools
    BY <1>1, ToolSteps
  <1>2. CASE drainDue
    <2>1. CASE DrainBatch
      BY <2>1 DEF DrainBatch
    <2> QED
      BY <1>2, <2>1 DEF drainDue, DrainStart, DrainScan, DrainEnd
  <1>3. CASE \E e \in Deliveries : deliverOne(e)
    BY <1>3, DeliverSteps
  <1>4. CASE Crash \/ Start \/ Tick
    BY <1>4 DEF Crash, Start, Tick
  <1>5. CASE UNCHANGED vars
    BY <1>5 DEF vars
  <1> QED
    BY <1>1, <1>2, <1>3, <1>4, <1>5 DEF Next

\* A notification becomes read by the user's hand or by a push that was accepted.
LEMMA BecomesRead ==
  ASSUME TypeOK, [Next]_vars, NEW d \in Deliveries
  PROVE  /\ reach[d] # "no" => reach'[d] # "no"
         /\ note'[d] = "read" => \/ note[d] = "read"
                                 \/ reach'[d] # "no"
                                 \/ inflight[d] # NULL /\ inflight[d].accepted
  <1> DEFINE Goal == /\ reach[d] # "no" => reach'[d] # "no"
                     /\ note'[d] = "read" => \/ note[d] = "read"
                                             \/ reach'[d] # "no"
                                             \/ inflight[d] # NULL /\ inflight[d].accepted
  <1>1. CASE Tools
    <2>1. ASSUME NEW e \in Deliveries, publishProfile(e) PROVE Goal
      BY <2>1 DEF publishProfile, histVars, TypeOK
    <2>2. ASSUME NEW S \in SUBSET Deliveries, ReadByUser(S) PROVE Goal
      BY <2>2 DEF ReadByUser
    <2>3. ASSUME NEW p \in Profiles, retryAction(p) PROVE Goal
      BY <2>3 DEF retryAction
    <2>4. ASSUME NEW p \in Profiles,
                 setPushRoute(p) \/ (\E en \in BOOLEAN : setPushRouteEnabled(p, en))
                    \/ QuietBegins(p) \/ QuietCleared(p)
          PROVE  Goal
      BY <2>4 DEF setPushRoute, setPushRouteEnabled, QuietBegins, QuietCleared, histVars
    <2>5. CASE \E e \in Deliveries : publishProfile(e) \/ cancelAction(e)
      BY <2>1, <2>2, <2>5 DEF cancelAction
    <2>6. CASE \E p \in Profiles : \/ pullAction(p) \/ retryAction(p) \/ setPushRoute(p)
                                 \/ \E en \in BOOLEAN : setPushRouteEnabled(p, en)
                                 \/ QuietBegins(p) \/ QuietCleared(p)
      BY <2>2, <2>3, <2>4, <2>6 DEF pullAction
    <2> QED
      BY <1>1, <2>5, <2>6 DEF Tools
  <1>2. CASE drainDue
    BY <1>2 DEF drainDue, DrainStart, DrainScan, DrainBatch, DrainEnd, histVars, dbVars
  <1>3. ASSUME NEW e \in Deliveries, deliverOne(e)
        PROVE  Goal
    BY <1>3 DEF deliverOne, markSent, markTerminalFallback, markConfirmedFailure,
       markTransportFailure, Settled, TypeOK
  <1>4. CASE (\E e \in Deliveries : PeerAccepts(e)) \/ Crash \/ Start \/ Tick
    BY <1>4 DEF PeerAccepts, Crash, Start, Tick, dbVars, histVars
  <1>5. CASE UNCHANGED vars
    BY <1>5 DEF vars, dbVars, histVars
  <1> QED
    BY <1>1, <1>2, <1>3, <1>4, <1>5 DEF Next

LEMMA ReachedStep ==
  ASSUME TypeOK, [Next]_vars, \A d \in Deliveries : Reached(d)
  PROVE  \A d \in Deliveries : Reached(d)'
  <1> SUFFICES ASSUME NEW d \in Deliveries PROVE Reached(d)'
    OBVIOUS
  <1>1. Reached(d) /\ shown[d] \in Nat /\ MaxShown \in Nat \ {0}
    BY OutboxAssumption DEF TypeOK
  <1>2. CASE \E e \in Deliveries : PeerAccepts(e)
    <2>1. PICK e \in Deliveries : PeerAccepts(e)
      BY <1>2
    <2>2. CASE d # e
      BY <1>1, <2>1, <2>2, PeerSteps DEF Reached
    <2>3. CASE d = e
      <3>1. shown'[d] > 0
        BY <1>1, <2>1, <2>3, PeerSteps DEF Reached
      <3>2. accepted'[d] # {}
        BY <2>1, <2>3, PeerSteps
      <3> QED
        BY <3>1, <3>2 DEF Reached
    <2> QED
      BY <2>2, <2>3
  <1>3. CASE ~\E e \in Deliveries : PeerAccepts(e)
    <2>1. accepted' = accepted /\ shown' = shown
      BY <1>3, PeerKeeps
    <2>2. inflight'[d] # NULL /\ inflight'[d].accepted => accepted'[d] # {}
      BY <1>1, <1>3, <2>1, AcceptedByPeer DEF Reached
    <2>3. note'[d] = "read" => reach'[d] # "no" \/ shown'[d] > 0
      BY <1>1, <2>1, BecomesRead DEF Reached
    <2> QED
      BY <1>1, <2>1, <2>2, <2>3 DEF Reached
  <1> QED
    BY <1>2, <1>3

\* A notification is marked read only when its owner has read or cancelled it or the
\* channel has shown it (pullAction, cancelAction, markSent): a deduplicated push was
\* shown before, and no failed request closes what it did not deliver.
THEOREM ReadReached == Spec => []ReadMeansReached
  <1>1. Init => \A d \in Deliveries : Reached(d)
    BY DEF Init, Reached
  <1>2. TypeOK /\ [Next]_vars /\ (\A d \in Deliveries : Reached(d))
           => (\A d \in Deliveries : Reached(d))'
    BY ReachedStep
  <1>3. (\A d \in Deliveries : Reached(d)) => ReadMeansReached
    BY DEF Reached, ReadMeansReached
  <1> QED
    BY <1>1, <1>2, <1>3, TypeCorrect, PTL DEF Spec

-----------------------------------------------------------------------------
(* One push per notification.                                                *)

\* The far end knows a delivery by one id at most, the one its row carries, and has
\* shown it once if it knows it.
Once(d) ==
  /\ accepted[d] \subseteq {row[d].id}
  /\ accepted[d] = {} => shown[d] = 0
  /\ shown[d] <= 1

\* A row changes its id only when it has none, or when the one it has was refused; and
\* a gateway that never refuses what it has accepted does not know that one.
LEMMA IdSteps ==
  ASSUME IInv, ~RefusesSeen, [Next]_vars, NEW d \in Deliveries
  PROVE  \/ row'[d].id = row[d].id
         \/ row[d].id = NULL
         \/ inflight[d] # NULL /\ inflight[d].id \notin accepted[d]
  <1>1. TypeOK /\ Awaited(d) /\ Numbered(d) /\ row[d] \in Row
    BY AwaitedIsThat DEF IInv, TypeOK
  <1>2. CASE Tools
    BY <1>1, <1>2, ToolSteps DEF Numbered
  <1>3. CASE drainDue
    <2>1. CASE DrainBatch
      BY <1>1, <2>1, BatchSteps DEF RequestId
    <2> QED
      BY <1>1, <1>3, <2>1, StartSteps, ScanSteps, EndSteps DEF drainDue
  <1>4. ASSUME NEW e \in Deliveries, deliverOne(e)
        PROVE  \/ row'[d].id = row[d].id
               \/ inflight[d] # NULL /\ inflight[d].id \notin accepted[d]
    <2>1. CASE d # e
      BY <1>1, <1>4, <2>1, DeliverSteps
    <2>2. CASE d = e
      <3>1. CASE markConfirmedFailure(d)
        BY <3>1 DEF markConfirmedFailure
      <3>2. CASE markSent(d)
        BY <1>1, <3>2 DEF markSent, TypeOK, Row
      <3>3. CASE markTerminalFallback(d)
        BY <1>1, <3>3 DEF markTerminalFallback, TypeOK, Row
      <3>4. CASE markTransportFailure(d)
        BY <1>1, <3>4 DEF markTransportFailure, TypeOK, Row
      <3> QED
        BY <1>4, <2>2, <3>1, <3>2, <3>3, <3>4 DEF deliverOne
    <2> QED
      BY <2>1, <2>2
  <1>5. CASE (\E e \in Deliveries : PeerAccepts(e)) \/ Crash \/ Start \/ Tick
    BY <1>1, <1>5, WorldSteps
  <1>6. CASE UNCHANGED vars
    BY <1>6 DEF vars, dbVars
  <1> QED
    BY <1>2, <1>3, <1>4, <1>5, <1>6 DEF Next

LEMMA OnceStep ==
  ASSUME IInv, Channels \subseteq IDEMPOTENT_CHANNELS, ~RefusesSeen, [Next]_vars,
         \A d \in Deliveries : Once(d)
  PROVE  \A d \in Deliveries : Once(d)'
  <1> SUFFICES ASSUME NEW d \in Deliveries PROVE Once(d)'
    OBVIOUS
  <1>1. /\ TypeOK /\ Awaited(d) /\ Once(d)
        /\ shown[d] \in Nat /\ accepted[d] \subseteq Ids
    BY AwaitedIsThat DEF IInv, TypeOK
  <1>2. CASE \E e \in Deliveries : PeerAccepts(e)
    <2>1. PICK e \in Deliveries : PeerAccepts(e)
      BY <1>2
    <2>2. CASE d # e
      BY <1>1, <2>1, <2>2, PeerSteps DEF Once
    <2>3. CASE d = e
      <3>1. /\ row' = row /\ accepted'[d] = accepted[d] \cup {inflight[d].id}
            /\ inflight[d] # NULL /\ row[d].id = inflight[d].id
        BY <1>1, <2>1, <2>3, PeerSteps DEF Awaited
      <3>2. inflight[d].chan \in IDEMPOTENT_CHANNELS
        BY <1>1, <3>1 DEF TypeOK, Request
      <3>3. inflight[d].id \notin accepted[d] => accepted[d] = {}
        BY <1>1, <3>1 DEF Once
      <3>4. shown'[d] <= 1
        BY <1>1, <2>1, <2>3, <3>2, <3>3, PeerSteps DEF Once
      <3> QED
        BY <1>1, <3>1, <3>4 DEF Once
    <2> QED
      BY <2>2, <2>3
  <1>3. CASE ~\E e \in Deliveries : PeerAccepts(e)
    <2>1. accepted' = accepted /\ shown' = shown
      BY <1>3, PeerKeeps
    <2>2. CASE row'[d].id = row[d].id
      BY <1>1, <2>1, <2>2 DEF Once
    <2>3. CASE row[d].id = NULL \/ (inflight[d] # NULL /\ inflight[d].id \notin accepted[d])
      <3>1. accepted[d] = {}
        BY <1>1, <2>3, NullIsNoValue DEF Once, Awaited
      <3> QED
        BY <1>1, <2>1, <3>1 DEF Once
    <2> QED
      BY <2>2, <2>3, IdSteps
  <1> QED
    BY <1>2, <1>3

\* On a channel that deduplicates by id, and whose far end never refuses an id it has
\* accepted, the user is shown at most one push per notification, over crashes,
\* time-outs, route changes and manual retries (deliverOne, recoverStaleSending).
THEOREM ShownOnce ==
  ASSUME Channels \subseteq IDEMPOTENT_CHANNELS, ~RefusesSeen
  PROVE  Spec => []NoSecondPush
  <1>1. Init => \A d \in Deliveries : Once(d)
    BY DEF Init, Once
  <1>2. IInv /\ [Next]_vars /\ (\A d \in Deliveries : Once(d))
           => (\A d \in Deliveries : Once(d))'
    BY OnceStep
  <1>3. (\A d \in Deliveries : Once(d)) => NoSecondPush
    BY DEF Once, NoSecondPush
  <1> QED
    BY <1>1, <1>2, <1>3, IInvAlways, PTL DEF Spec

-----------------------------------------------------------------------------
(* What is held waits for the user.                                          *)

\* A row that no drain and no new route may pick up: it was rejected, or its request
\* was sent by a process that is gone.
Parked(r) == /\ r.status \in {"fallback", "sending"}
             /\ r.started # NULL \/ r.reject

Held(d) == held[d] => inflight[d] = NULL /\ Parked(row[d])

\* The tools leave a parked row alone, except for the retry the user asks for.
LEMMA ToolsKeepParked ==
  ASSUME IInv, Tools, NEW d \in Deliveries, Parked(row[d])
  PROVE  /\ held'[d] => held[d]
         /\ row'[d] = row[d] \/ ~held'[d]
  <1> DEFINE Goal == (held'[d] => held[d]) /\ (row'[d] = row[d] \/ ~held'[d])
  <1>0. /\ TypeOK /\ Numbered(d)
        /\ row[d].status \notin Pending /\ row[d].status # "none"
    BY DEF IInv, Parked, Pending
  <1>1. ASSUME NEW e \in Deliveries, publishProfile(e) PROVE Goal
    <2>1. note[d] # "absent"
      BY <1>0 DEF Numbered
    <2> QED
      BY <1>0, <1>1, <2>1 DEF publishProfile, histVars, TypeOK
  <1>2. ASSUME NEW S \in SUBSET Deliveries, ReadByUser(S) PROVE Goal
    BY <1>0, <1>2 DEF ReadByUser, cancelPendingDeliveries
  <1>3. ASSUME NEW p \in Profiles, retryAction(p) PROVE Goal
    BY <1>3 DEF retryAction
  <1>4. ASSUME NEW p \in Profiles, requeueRoute(p) PROVE row'[d] = row[d]
    BY <1>4 DEF requeueRoute, Woken, Parked
  <1>5. ASSUME NEW p \in Profiles,
               setPushRoute(p) \/ (\E en \in BOOLEAN : setPushRouteEnabled(p, en))
                  \/ QuietBegins(p) \/ QuietCleared(p)
        PROVE  Goal
    BY <1>4, <1>5 DEF setPushRoute, setPushRouteEnabled, QuietBegins, QuietCleared, histVars
  <1>6. CASE \E e \in Deliveries : publishProfile(e) \/ cancelAction(e)
    BY <1>1, <1>2, <1>6 DEF cancelAction
  <1>7. CASE \E p \in Profiles : \/ pullAction(p) \/ retryAction(p) \/ setPushRoute(p)
                               \/ \E en \in BOOLEAN : setPushRouteEnabled(p, en)
                               \/ QuietBegins(p) \/ QuietCleared(p)
    BY <1>2, <1>3, <1>5, <1>7 DEF pullAction
  <1> QED
    BY <1>6, <1>7 DEF Tools

\* Recovery parks what it finds in `sending': no route leads to a channel that
\* deduplicates.  The rest of the drain takes pending rows only.
LEMMA DrainKeepsParked ==
  ASSUME IInv, Channels \cap IDEMPOTENT_CHANNELS = {}, drainDue, NEW d \in Deliveries,
         inflight[d] = NULL, Parked(row[d])
  PROVE  held' = held /\ inflight'[d] = NULL /\ Parked(row'[d])
  <1>0. /\ TypeOK /\ row[d] \in Row /\ Owner[d] \in Profiles
        /\ row[d].status \notin Pending
    BY OutboxAssumption DEF IInv, TypeOK, Parked, Pending
  <1>1. CASE DrainStart
    <2>1. route[Owner[d]] = NULL \/ route[Owner[d]].chan \notin IDEMPOTENT_CHANNELS
      BY <1>0 DEF TypeOK, PushRoute
    <2>2. row'[d] = IF row[d].status # "sending" THEN row[d]
                    ELSE [row[d] EXCEPT !.status = "fallback"]
      BY <1>1, <2>1 DEF DrainStart, Recovered
    <2>3. LET q == [row[d] EXCEPT !.status = "fallback"]
          IN  q.status = "fallback" /\ q.started = row[d].started /\ q.reject = row[d].reject
      BY <1>0 DEF Row
    <2> QED
      BY <1>1, <2>2, <2>3 DEF DrainStart, histVars, Parked
  <1>2. CASE DrainScan
    <2>1. d \notin Window
      BY <1>0 DEF Window, Ahead, Due
    <2> QED
      BY <1>2, <2>1 DEF DrainScan, histVars
  <1>3. CASE DrainBatch
    <2>1. ~Claimable(d)
      BY <1>0 DEF Claimable
    <2> QED
      BY <1>3, <2>1 DEF DrainBatch, histVars
  <1>4. CASE DrainEnd
    BY <1>4 DEF DrainEnd, dbVars, histVars
  <1> QED
    BY <1>1, <1>2, <1>3, <1>4 DEF drainDue

\* An answer holds its own row when it rejects it, and touches no other.
LEMMA AnswersHold ==
  ASSUME IInv, NEW e \in Deliveries, deliverOne(e), NEW d \in Deliveries, Held(d)
  PROVE  Held(d)'
  <1>0. TypeOK /\ inflight[e] # NULL /\ row[e] \in Row
    BY DeliverSteps DEF IInv, TypeOK
  <1>1. CASE d # e
    <2>1. held' = held \/ held' = [held EXCEPT ![e] = TRUE]
      BY Zenon DEF deliverOne, markSent, markTerminalFallback, markConfirmedFailure,
         markTransportFailure
    <2>2. held'[d] = held[d]
      BY <1>0, <1>1, <2>1 DEF TypeOK
    <2> QED
      BY <1>0, <1>1, <2>2, DeliverSteps DEF Held
  <1>2. CASE d = e
    <2>1. ~held[d] /\ inflight'[d] = NULL
      BY <1>0, <1>2, DeliverSteps DEF Held
    <2>2. CASE markTerminalFallback(d)
      <3>1. LET q == [row[d] EXCEPT !.status = "fallback", !.started = NULL, !.reject = TRUE]
            IN  q.status = "fallback" /\ q.reject
        BY <1>0, <1>2 DEF Row
      <3>2. row'[d] = [row[d] EXCEPT !.status = "fallback", !.started = NULL, !.reject = TRUE]
        BY <1>0, <2>2 DEF markTerminalFallback, TypeOK
      <3> QED
        BY <2>1, <3>1, <3>2 DEF Held, Parked
    <2>3. CASE markSent(d) \/ markConfirmedFailure(d) \/ markTransportFailure(d)
      BY <2>1, <2>3 DEF Held, markSent, markConfirmedFailure, markTransportFailure
    <2> QED
      BY <1>2, <2>2, <2>3 DEF deliverOne
  <1> QED
    BY <1>1, <1>2

LEMMA HeldStep ==
  ASSUME IInv, Channels \cap IDEMPOTENT_CHANNELS = {}, [Next]_vars,
         \A d \in Deliveries : Held(d)
  PROVE  \A d \in Deliveries : Held(d)'
  <1> SUFFICES ASSUME NEW d \in Deliveries PROVE Held(d)'
    OBVIOUS
  <1>0. TypeOK /\ Awaited(d) /\ Held(d) /\ row[d] \in Row /\ held[d] \in BOOLEAN
    BY AwaitedIsThat DEF IInv, TypeOK
  <1>1. CASE Tools
    <2>1. inflight' = inflight
      BY <1>0, <1>1, ToolSteps
    <2>2. held'[d] => held[d]
      BY <1>1 DEF Tools, publishProfile, pullAction, cancelAction, ReadByUser, retryAction,
         setPushRoute, setPushRouteEnabled, QuietBegins, QuietCleared, histVars
    <2> QED
      BY <1>0, <1>1, <2>1, <2>2, ToolsKeepParked DEF Held
  <1>2. CASE drainDue
    <2>1. held' = held
      BY <1>2 DEF drainDue, DrainStart, DrainScan, DrainBatch, DrainEnd, histVars
    <2> QED
      BY <1>0, <1>2, <2>1, DrainKeepsParked DEF Held
  <1>3. CASE \E e \in Deliveries : deliverOne(e)
    BY <1>0, <1>3, AnswersHold
  <1>4. CASE Crash
    <2>1. row' = row /\ inflight'[d] = NULL /\ (held'[d] => held[d] \/ inflight[d] # NULL)
      BY <1>4 DEF Crash, dbVars
    <2> QED
      BY <1>0, <2>1 DEF Held, Awaited, Parked
  <1>5. CASE \E e \in Deliveries : PeerAccepts(e)
    <2>1. held' = held /\ row' = row
      BY <1>5 DEF PeerAccepts, dbVars, histVars
    <2>2. inflight[d] = NULL => inflight'[d] = NULL
      BY <1>0, <1>5, PeerSteps
    <2> QED
      BY <1>0, <2>1, <2>2 DEF Held
  <1>6. CASE Start
    BY <1>0, <1>6 DEF Start, dbVars, histVars, Held
  <1>7. CASE Tick
    <2>1. inflight' = inflight /\ held' = held
      BY <1>7 DEF Tick, histVars
    <2>2. Parked(row[d]) => Parked(row'[d])
      <3>1. ASSUME NEW n, NEW x, NEW a
            PROVE  LET q == [row[d] EXCEPT !.next = n, !.expire = x, !.started = a]
                   IN  /\ q.status = row[d].status /\ q.reject = row[d].reject
                       /\ q.started = a
        BY <1>0 DEF Row
      <3>2. \/ row'[d] = row[d]
            \/ /\ row'[d].status = row[d].status /\ row'[d].reject = row[d].reject
               /\ row'[d].started = Age(row[d].started)
        <4> DEFINE n == IF row[d].next > -MaxOverdue THEN row[d].next - 1 ELSE row[d].next
                   x == Countdown(row[d].expire)
                   a == Age(row[d].started)
        <4>1. row'[d] = row[d] \/ row'[d] = [row[d] EXCEPT !.next = n, !.expire = x, !.started = a]
          BY <1>7 DEF Tick
        <4>2. LET q == [row[d] EXCEPT !.next = n, !.expire = x, !.started = a]
              IN  q.status = row[d].status /\ q.reject = row[d].reject /\ q.started = a
          <5> HIDE DEF n, x, a
          <5> QED
            BY <3>1
        <4> HIDE DEF n, x
        <4> QED
          BY <4>1, <4>2
      <3>3. row[d].started # NULL => Age(row[d].started) # NULL
        <4>1. row[d].started \in Ages \cup {NULL}
          BY <1>0, ColumnTypes
        <4>2. NULL \notin Int /\ IDEMPOTENCY_WINDOW \in Nat
          BY OutboxAssumption
        <4> QED
          BY <4>1, <4>2 DEF Age, Ages
      <3> QED
        BY <3>2, <3>3 DEF Parked
    <2> QED
      BY <1>0, <2>1, <2>2 DEF Held
  <1>8. CASE UNCHANGED vars
    BY <1>0, <1>8 DEF vars, dbVars, histVars, Held
  <1> QED
    BY <1>1, <1>2, <1>3, <1>4, <1>5, <1>6, <1>7, <1>8 DEF Next

\* On channels that do not deduplicate (bark, log, openclaw), a delivery that was
\* rejected, or that was in flight when the process died, is not sent again before the
\* user asks for it, whatever routes are set and however often the daemon restarts
\* (recoverStaleSending, requeueRoute, retryDeliveries).
THEOREM HeldWaits ==
  ASSUME Channels \cap IDEMPOTENT_CHANNELS = {}
  PROVE  Spec => []HeldUntilRetry
  <1>1. Init => \A d \in Deliveries : Held(d)
    BY DEF Init, Held
  <1>2. IInv /\ [Next]_vars /\ (\A d \in Deliveries : Held(d))
           => (\A d \in Deliveries : Held(d))'
    BY HeldStep
  <1>3. (\A d \in Deliveries : Held(d)) => HeldUntilRetry
    BY DEF Held, HeldUntilRetry
  <1> QED
    BY <1>1, <1>2, <1>3, IInvAlways, PTL DEF Spec
=============================================================================
