---------------------------- MODULE DaemonProofs ----------------------------
(* Theorems about what the daemon keeps going: the HTTP service, the data directory
   and the reports of the ledgers.  They share no variable; each property is proved
   from an invariant of its own. *)
EXTENDS Data, Service, Reports, FiniteSetTheorems, TLAPS

-----------------------------------------------------------------------------
(* The HTTP service.  For any people, links, limits and number of requests, the
   database closes on no handler that was promised a wait, a tool writes for the one
   its caller may speak for, and a link moves its reminder once but for uses whose
   record was lost. *)

ReqTypeOK == DOMAIN req = Requests

-----------------------------------------------------------------------------
(* What a step may do to the requests being handled.                        *)

Same(i) == req'[i] = req[i]

\* A new request takes the place of none.
LEMMA BeginTakesAFreePlace ==
  ASSUME NEW kind, NEW who, NEW session, NEW profile, NEW pc, ReqTypeOK,
         begin(kind, who, session, profile, pc)
  PROVE  \E i \in Requests \ Running :
           /\ req' = [req EXCEPT ![i] = [pc |-> pc, kind |-> kind, as |-> who,
                        session |-> session, profile |-> profile, tracked |-> TRUE]]
           /\ phase = "up"
  <1>1. Requests \ Running # {}
    BY DEF begin, Running
  <1>2. (CHOOSE i \in Requests \ Running : TRUE) \in Requests \ Running
    BY <1>1
  <1> QED
    BY <1>2 DEF begin, accepts

LEMMA ReqTypePreserved ==
  ASSUME ReqTypeOK, [ServiceNext]_serviceVars
  PROVE  ReqTypeOK'
  <1> USE DEF ReqTypeOK
  <1>1. CASE \E who \in Identities : Asked(who)
    BY <1>1, BeginTakesAFreePlace DEF Asked, initialize, call, deleteSession, begin
  <1>2. CASE \E t \in Links \cup {DONE} : linkPost(t)
    BY <1>2 DEF linkPost, begin
  <1>3. CASE \E i \in Requests : Handled(i)
    BY <1>3 DEF Handled, established, callEnds, pageEnds, clientGone, linkAudit, over
  <1>4. CASE page
    BY <1>4 DEF page, begin
  <1>5. CASE sweep \/ stop \/ waitForIdle \/ closeDatabase \/ start \/ timePasses
    BY <1>5 DEF sweep, stop, waitForIdle, closeDatabase, start, timePasses
  <1>6. CASE exit
    BY <1>6 DEF exit
  <1>7. CASE UNCHANGED serviceVars
    BY <1>7 DEF serviceVars
  <1> QED
    BY <1>1, <1>2, <1>3, <1>4, <1>5, <1>6, <1>7 DEF ServiceNext

-----------------------------------------------------------------------------
(* The database closes on nobody.  From the end of the wait on the tracker is
   shut, so the requests counted are among those that had used up the wait. *)

WaitedFor == phase \in {"draining", "closed"} => inFlight \subseteq left

LEMMA EndsOnlyLeave ==
  ASSUME ReqTypeOK, NEW i \in Requests, Handled(i)
  PROVE  inFlight' \subseteq inFlight /\ UNCHANGED processVars
  <1>1. CASE established(i) \/ callEnds(i) \/ pageEnds(i) \/ linkAudit(i)
    <2>1. req' = [req EXCEPT ![i] = Free] /\ UNCHANGED processVars
      BY <1>1 DEF established, callEnds, pageEnds, linkAudit, over
    <2> QED
      BY <2>1 DEF ReqTypeOK, inFlight, Running, Free
  <1>2. CASE clientGone(i)
    BY <1>2 DEF clientGone, ReqTypeOK, inFlight, Running
  <1> QED
    BY <1>1, <1>2 DEF Handled

LEMMA WaitedForPreserved ==
  ASSUME ReqTypeOK, WaitedFor, [ServiceNext]_serviceVars
  PROVE  WaitedFor'
  <1>1. CASE \E who \in Identities : Asked(who)
    BY <1>1 DEF Asked, initialize, call, deleteSession, begin, accepts, processVars, WaitedFor
  <1>2. CASE \E t \in Links \cup {DONE} : linkPost(t)
    BY <1>2 DEF linkPost, begin, accepts, processVars, WaitedFor
  <1>3. CASE \E i \in Requests : Handled(i)
    BY <1>3, EndsOnlyLeave DEF WaitedFor, processVars
  <1>4. CASE page
    BY <1>4 DEF page, begin, accepts, processVars, WaitedFor
  <1>5. CASE waitForIdle
    BY <1>5 DEF waitForIdle, WaitedFor, inFlight, Running
  <1>6. CASE closeDatabase
    BY <1>6 DEF closeDatabase, WaitedFor, inFlight, Running
  <1>7. CASE stop \/ start \/ exit
    BY <1>7 DEF stop, start, exit, WaitedFor
  <1>8. CASE sweep \/ timePasses \/ UNCHANGED serviceVars
    BY <1>8 DEF sweep, timePasses, serviceVars, processVars, WaitedFor, inFlight, Running
  <1> QED
    BY <1>1, <1>2, <1>3, <1>4, <1>5, <1>6, <1>7, <1>8 DEF ServiceNext

\* Once the database is closed no handler runs on that had been promised a wait
\* (stop() of daemon.ts, core/inflight.ts).
THEOREM ClosesOnNobody == ServiceSpec => []ClosedIsQuiet
  <1>1. ServiceInit => ReqTypeOK /\ WaitedFor
    BY DEF ServiceInit, ReqTypeOK, WaitedFor
  <1>2. ReqTypeOK /\ WaitedFor /\ [ServiceNext]_serviceVars => ReqTypeOK' /\ WaitedFor'
    BY ReqTypePreserved, WaitedForPreserved
  <1>3. WaitedFor => ClosedIsQuiet
    BY DEF WaitedFor, ClosedIsQuiet
  <1> QED
    BY <1>1, <1>2, <1>3, PTL DEF ServiceSpec

-----------------------------------------------------------------------------
(* A call is admitted by the token it brings and carries the profile of its
   session with it, whatever becomes of the session.                        *)

CallsSpeakFor ==
    \A i \in Requests : req[i].kind = "call" => MaySpeakFor(req[i].as, req[i].profile)

LEMMA BegunCallsSpeakFor ==
  ASSUME NEW kind, NEW who, NEW session, NEW profile, NEW pc, ReqTypeOK, CallsSpeakFor,
         begin(kind, who, session, profile, pc),
         kind = "call" => MaySpeakFor(who, profile)
  PROVE  CallsSpeakFor'
  <1>1. PICK i \in Requests \ Running :
           req' = [req EXCEPT ![i] = [pc |-> pc, kind |-> kind, as |-> who,
                     session |-> session, profile |-> profile, tracked |-> TRUE]]
    BY BeginTakesAFreePlace
  <1>2. SUFFICES ASSUME NEW j \in Requests, req'[j].kind = "call"
                 PROVE  MaySpeakFor(req'[j].as, req'[j].profile)
    BY DEF CallsSpeakFor, MaySpeakFor
  <1>3. CASE j = i
    BY <1>1, <1>2, <1>3 DEF ReqTypeOK
  <1>4. CASE j # i
    BY <1>1, <1>2, <1>4 DEF ReqTypeOK, CallsSpeakFor
  <1> QED
    BY <1>3, <1>4

LEMMA EndedCallsSpeakFor ==
  ASSUME ReqTypeOK, CallsSpeakFor, NEW i \in Requests, Handled(i)
  PROVE  CallsSpeakFor'
  <1>1. CASE req' = [req EXCEPT ![i] = Free]
    BY <1>1 DEF ReqTypeOK, CallsSpeakFor, Free, MaySpeakFor
  <1>2. CASE req' = [req EXCEPT ![i].tracked = FALSE]
    <2>1. \A j \in Requests : /\ req'[j].kind = req[j].kind
                              /\ req'[j].as = req[j].as
                              /\ req'[j].profile = req[j].profile
      BY <1>2 DEF ReqTypeOK
    <2> QED
      BY <2>1 DEF CallsSpeakFor, MaySpeakFor
  <1> QED
    BY <1>1, <1>2 DEF Handled, established, callEnds, pageEnds, clientGone, linkAudit, over

LEMMA CallsSpeakForPreserved ==
  ASSUME ReqTypeOK, CallsSpeakFor, [ServiceNext]_serviceVars
  PROVE  CallsSpeakFor'
  <1>1. CASE \E who \in Identities : Asked(who)
    <2> PICK who \in Identities : Asked(who)
      BY <1>1
    <2>1. CASE \E p \in Members : initialize(who, p)
      BY <2>1, BegunCallsSpeakFor DEF initialize
    <2>2. CASE \E id \in DOMAIN sessions : call(who, id)
      BY <2>2, BegunCallsSpeakFor DEF call, admitted
    <2>3. CASE \E id \in DOMAIN sessions : deleteSession(who, id)
      BY <2>3 DEF deleteSession, CallsSpeakFor, MaySpeakFor
    <2> QED
      BY <2>1, <2>2, <2>3 DEF Asked
  <1>2. CASE \E t \in Links \cup {DONE} : linkPost(t)
    BY <1>2, BegunCallsSpeakFor DEF linkPost
  <1>3. CASE \E i \in Requests : Handled(i)
    BY <1>3, EndedCallsSpeakFor
  <1>4. CASE page
    BY <1>4, BegunCallsSpeakFor DEF page
  <1>5. CASE exit
    BY <1>5 DEF exit, CallsSpeakFor, Free, MaySpeakFor
  <1>6. CASE sweep \/ stop \/ waitForIdle \/ closeDatabase \/ start \/ timePasses
             \/ UNCHANGED serviceVars
    BY <1>6 DEF sweep, stop, waitForIdle, closeDatabase, start, timePasses, serviceVars,
                CallsSpeakFor, MaySpeakFor
  <1> QED
    BY <1>1, <1>2, <1>3, <1>4, <1>5, <1>6 DEF ServiceNext

LEMMA WritesSpeakFor ==
  ASSUME CallsSpeakFor, ActsForItsCaller, [ServiceNext]_serviceVars
  PROVE  ActsForItsCaller'
  <1>1. CASE UNCHANGED wrote
    BY <1>1 DEF ActsForItsCaller, MaySpeakFor
  <1>2. CASE \E i \in Requests : callEnds(i)
    BY <1>2 DEF callEnds, CallsSpeakFor, ActsForItsCaller, MaySpeakFor
  <1> QED
    BY <1>1, <1>2 DEF ServiceNext, Asked, initialize, call, deleteSession, linkPost, Handled,
       established, pageEnds, clientGone, linkAudit, page, sweep, stop, waitForIdle,
       closeDatabase, exit, start, timePasses, serviceVars

\* What a tool wrote it wrote for the profile its caller's token speaks for, whatever
\* sessions were closed, swept or lost in a restart meanwhile (daemon.ts, core/auth.ts).
THEOREM CallersAreActedFor == ServiceSpec => []ActsForItsCaller
  <1>1. ServiceInit => ReqTypeOK /\ CallsSpeakFor /\ ActsForItsCaller
    BY DEF ServiceInit, ReqTypeOK, CallsSpeakFor, ActsForItsCaller, Free, MaySpeakFor
  <1>2. ReqTypeOK /\ CallsSpeakFor /\ ActsForItsCaller /\ [ServiceNext]_serviceVars
          => ReqTypeOK' /\ CallsSpeakFor' /\ ActsForItsCaller'
    BY ReqTypePreserved, CallsSpeakForPreserved, WritesSpeakFor
  <1> QED
    BY <1>1, <1>2, PTL DEF ServiceSpec

-----------------------------------------------------------------------------
(* A use of a link is under way, on record, or counted as lost: each move of the
   reminder is one of these, and only one use can be the first or the second.  *)

UnderWay(t) == {i \in Requests : req[i].pc = "audit" /\ req[i].session = t}

LinkTypeOK == snoozed \in [Links -> Nat] /\ unaudited \in [Links -> Nat]

UseIsKnown(t) ==
    /\ \A i, j \in UnderWay(t) : i = j
    /\ t \in audit => UnderWay(t) = {}
    /\ snoozed[t] <= 1 + unaudited[t]
    /\ snoozed[t] > unaudited[t] => t \in audit \/ UnderWay(t) # {}

UsesAreKnown == ReqTypeOK /\ LinkTypeOK /\ \A t \in Links : UseIsKnown(t)

\* Steps that do not touch the links.
LEMMA OtherSteps ==
  ASSUME UsesAreKnown, ReqTypeOK', UNCHANGED <<audit, snoozed, unaudited>>,
         \A t \in Links : UnderWay(t)' = UnderWay(t)
  PROVE  UsesAreKnown'
  BY DEF UsesAreKnown, LinkTypeOK, UseIsKnown

LEMMA OtherRequests ==
  ASSUME UsesAreKnown, NEW kind, NEW who, NEW session, NEW profile,
         begin(kind, who, session, profile, "running"), UNCHANGED <<audit, snoozed, unaudited>>
  PROVE  UsesAreKnown'
  <1>1. PICK i \in Requests \ Running :
           req' = [req EXCEPT ![i] = [pc |-> "running", kind |-> kind, as |-> who,
                     session |-> session, profile |-> profile, tracked |-> TRUE]]
    BY BeginTakesAFreePlace DEF UsesAreKnown
  <1>2. \A t \in Links : UnderWay(t)' = UnderWay(t)
    BY <1>1 DEF UnderWay, Running, ReqTypeOK, UsesAreKnown
  <1>3. ReqTypeOK'
    BY <1>1 DEF ReqTypeOK, UsesAreKnown
  <1> QED
    BY <1>2, <1>3, OtherSteps

\* A link is let through when no use of it is under way or on record.
LEMMA LinkPosted ==
  ASSUME UsesAreKnown, NEW t \in Links \cup {DONE}, linkPost(t)
  PROVE  UsesAreKnown'
  <1>1. PICK i \in Requests \ Running :
           req' = [req EXCEPT ![i] = [pc |-> "audit", kind |-> "link", as |-> MASTER,
                     session |-> t, profile |-> MASTER, tracked |-> TRUE]]
    BY BeginTakesAFreePlace DEF linkPost, UsesAreKnown
  <1>2. ReqTypeOK'
    BY <1>1 DEF ReqTypeOK, UsesAreKnown
  <1>3. UnderWay(t) = {} /\ UnderWay(t)' = {i}
    <2>1. UnderWay(t) = {}
      BY DEF linkPost, linkFresh, inFlightLinks, UnderWay, Running
    <2> QED
      BY <1>1, <2>1 DEF UnderWay, ReqTypeOK, UsesAreKnown
  <1>4. \A u \in Links \ {t} : UnderWay(u)' = UnderWay(u)
    BY <1>1 DEF UnderWay, Running, ReqTypeOK, UsesAreKnown
  <1>5. UNCHANGED <<audit, unaudited>> /\ t \notin audit
    BY DEF linkPost, linkFresh
  <1>6. CASE t = DONE
    <2>1. UNCHANGED snoozed /\ t \notin Links
      BY <1>6, ServiceAssumption DEF linkPost
    <2> QED
      BY <1>2, <1>4, <1>5, <2>1, OtherSteps
  <1>7. CASE t # DONE
    <2>1. t \in Links /\ snoozed' = [snoozed EXCEPT ![t] = @ + 1]
      BY <1>7 DEF linkPost
    <2>2. LinkTypeOK'
      BY <1>5, <2>1 DEF LinkTypeOK, UsesAreKnown
    <2>3. UseIsKnown(t)'
      <3>1. snoozed[t] \in Nat /\ unaudited[t] \in Nat /\ snoozed[t] <= unaudited[t]
        BY <1>3, <1>5, <2>1 DEF UsesAreKnown, LinkTypeOK, UseIsKnown
      <3>2. snoozed'[t] = snoozed[t] + 1
        BY <2>1 DEF UsesAreKnown, LinkTypeOK
      <3> QED
        BY <1>3, <1>5, <3>1, <3>2 DEF UseIsKnown
    <2>4. ASSUME NEW u \in Links \ {t} PROVE UseIsKnown(u)'
      <3>1. snoozed'[u] = snoozed[u] /\ UseIsKnown(u)
        BY <2>1 DEF UsesAreKnown, LinkTypeOK
      <3> QED
        BY <1>4, <1>5, <3>1 DEF UseIsKnown
    <2> QED
      BY <1>2, <2>2, <2>3, <2>4 DEF UsesAreKnown
  <1> QED
    BY <1>6, <1>7

\* The use goes on record, or is counted as lost.
LEMMA LinkAudited ==
  ASSUME UsesAreKnown, NEW i \in Requests, linkAudit(i)
  PROVE  UsesAreKnown'
  <1>0. PICK t : t = req[i].session
    OBVIOUS
  <1>1. req' = [req EXCEPT ![i] = Free] /\ UNCHANGED snoozed /\ req[i].pc = "audit"
    BY DEF linkAudit, over
  <1>2. ReqTypeOK'
    BY <1>1 DEF ReqTypeOK, UsesAreKnown
  <1>3. \A u \in Links : UnderWay(u)' = UnderWay(u) \ {i}
    BY <1>1 DEF UnderWay, Free, ReqTypeOK, UsesAreKnown
  <1>4. i \in UnderWay(t) /\ \A u \in Links \ {t} : i \notin UnderWay(u)
    BY <1>0, <1>1 DEF UnderWay
  <1>5. t \in Links => UnderWay(t)' = {} /\ t \notin audit
    BY <1>3, <1>4 DEF UsesAreKnown, UseIsKnown
  <1>6. CASE audit' = audit \cup {t} /\ UNCHANGED unaudited
    <2>1. ASSUME NEW u \in Links PROVE UseIsKnown(u)'
      <3>1. UseIsKnown(u)
        BY DEF UsesAreKnown
      <3>2. CASE u = t
        BY <1>1, <1>5, <1>6, <3>1, <3>2 DEF UseIsKnown
      <3>3. CASE u # t
        BY <1>1, <1>3, <1>4, <1>6, <3>1, <3>3 DEF UseIsKnown
      <3> QED
        BY <3>2, <3>3
    <2> QED
      BY <1>1, <1>2, <1>6, <2>1 DEF UsesAreKnown, LinkTypeOK
  <1>7. CASE /\ unaudited' = (IF t = DONE THEN unaudited ELSE [unaudited EXCEPT ![t] = @ + 1])
             /\ UNCHANGED audit
    <2>1. LinkTypeOK'
      <3>1. snoozed' \in [Links -> Nat] /\ unaudited \in [Links -> Nat]
        BY <1>1 DEF UsesAreKnown, LinkTypeOK
      <3>2. unaudited' \in [Links -> Nat]
        <4>1. CASE t = DONE \/ t \notin Links
          BY <1>7, <3>1, <4>1
        <4>2. CASE t # DONE /\ t \in Links
          BY <1>7, <3>1, <4>2
        <4> QED
          BY <4>1, <4>2
      <3> QED
        BY <3>1, <3>2 DEF LinkTypeOK
    <2>2. ASSUME NEW u \in Links PROVE UseIsKnown(u)'
      <3>1. UseIsKnown(u) /\ snoozed[u] \in Nat /\ unaudited[u] \in Nat
        BY DEF UsesAreKnown, LinkTypeOK
      <3>2. CASE u = t
        <4>1. unaudited'[u] = unaudited[u] + 1
          BY <1>7, <3>2, ServiceAssumption DEF UsesAreKnown, LinkTypeOK
        <4> QED
          BY <1>1, <1>5, <1>7, <3>1, <3>2, <4>1 DEF UseIsKnown
      <3>3. CASE u # t
        <4>1. unaudited'[u] = unaudited[u]
          BY <1>7, <3>3 DEF UsesAreKnown, LinkTypeOK
        <4> QED
          BY <1>1, <1>3, <1>4, <1>7, <3>1, <3>3, <4>1 DEF UseIsKnown
      <3> QED
        BY <3>2, <3>3
    <2> QED
      BY <1>2, <2>1, <2>2 DEF UsesAreKnown
  <1> QED
    BY <1>0, <1>6, <1>7 DEF linkAudit

\* What was under way when the process ended is lost.
LEMMA ProcessEnded ==
  ASSUME UsesAreKnown, exit
  PROVE  UsesAreKnown'
  <1>1. /\ req' = [i \in Requests |-> Free] /\ UNCHANGED <<audit, snoozed>>
        /\ unaudited' = [t \in Links |-> unaudited[t] +
              Cardinality({i \in Running : req[i].pc = "audit" /\ req[i].session = t})]
    BY DEF exit
  <1>2. ReqTypeOK' /\ \A t \in Links : UnderWay(t)' = {}
    BY <1>1 DEF ReqTypeOK, UnderWay, Free
  <1>3. ASSUME NEW t \in Links
        PROVE  /\ unaudited'[t] \in Nat
               /\ unaudited'[t] = IF UnderWay(t) = {} THEN unaudited[t] ELSE unaudited[t] + 1
    <2>1. {i \in Running : req[i].pc = "audit" /\ req[i].session = t} = UnderWay(t)
      BY DEF Running, UnderWay
    <2>2. unaudited'[t] = unaudited[t] + Cardinality(UnderWay(t)) /\ unaudited[t] \in Nat
      BY <1>1, <2>1 DEF UsesAreKnown, LinkTypeOK
    <2>3. CASE UnderWay(t) = {}
      <3>1. Cardinality(UnderWay(t)) = 0
        BY <2>3, FS_EmptySet
      <3> QED
        BY <2>2, <2>3, <3>1
    <2>4. CASE UnderWay(t) # {}
      <3>1. PICK i : UnderWay(t) = {i}
        BY <2>4 DEF UsesAreKnown, UseIsKnown
      <3>2. Cardinality(UnderWay(t)) = 1
        BY <3>1, FS_Singleton
      <3> QED
        BY <2>2, <2>4, <3>2
    <2> QED
      BY <2>3, <2>4
  <1>4. LinkTypeOK'
    BY <1>1, <1>3 DEF UsesAreKnown, LinkTypeOK
  <1>5. ASSUME NEW t \in Links PROVE UseIsKnown(t)'
    <2>1. UseIsKnown(t) /\ snoozed[t] \in Nat /\ unaudited[t] \in Nat
      BY DEF UsesAreKnown, LinkTypeOK
    <2> QED
      BY <1>1, <1>2, <1>3, <2>1 DEF UseIsKnown
  <1> QED
    BY <1>2, <1>4, <1>5 DEF UsesAreKnown

LEMMA UsesStayKnown ==
  ASSUME UsesAreKnown, [ServiceNext]_serviceVars
  PROVE  UsesAreKnown'
  <1>1. CASE \E who \in Identities : Asked(who)
    <2>1. CASE UNCHANGED req
      <3>1. UNCHANGED <<audit, snoozed, unaudited>>
        BY <1>1 DEF Asked, initialize, call, deleteSession, linkVars
      <3> QED
        BY <2>1, <3>1, OtherSteps DEF UsesAreKnown, ReqTypeOK, UnderWay
    <2>2. CASE \E kind, who, session, profile : begin(kind, who, session, profile, "running")
      <3>1. UNCHANGED <<audit, snoozed, unaudited>>
        BY <1>1 DEF Asked, initialize, call, deleteSession, linkVars
      <3> QED
        BY <2>2, <3>1, OtherRequests
    <2> QED
      BY <1>1, <2>1, <2>2 DEF Asked, initialize, call, deleteSession
  <1>2. CASE \E t \in Links \cup {DONE} : linkPost(t)
    BY <1>2, LinkPosted
  <1>3. CASE \E i \in Requests : Handled(i)
    <2> PICK i \in Requests : Handled(i)
      BY <1>3
    <2>1. CASE linkAudit(i)
      BY <2>1, LinkAudited
    <2>2. CASE established(i) \/ callEnds(i) \/ pageEnds(i)
      <3>1. /\ req[i].pc = "running" /\ req' = [req EXCEPT ![i] = Free]
            /\ UNCHANGED <<audit, snoozed, unaudited>>
        BY <2>2 DEF established, callEnds, pageEnds, over, linkVars
      <3>2. ReqTypeOK' /\ \A t \in Links : UnderWay(t)' = UnderWay(t)
        BY <3>1 DEF UsesAreKnown, ReqTypeOK, UnderWay, Free
      <3> QED
        BY <3>1, <3>2, OtherSteps
    <2>3. CASE clientGone(i)
      <3>1. /\ req' = [req EXCEPT ![i].tracked = FALSE]
            /\ UNCHANGED <<audit, snoozed, unaudited>>
        BY <2>3 DEF clientGone, linkVars
      <3>2. \A j \in Requests : req'[j].pc = req[j].pc /\ req'[j].session = req[j].session
        BY <3>1 DEF UsesAreKnown, ReqTypeOK
      <3>3. ReqTypeOK'
        BY <3>1 DEF UsesAreKnown, ReqTypeOK
      <3>4. \A t \in Links : UnderWay(t)' = UnderWay(t)
        BY <3>2 DEF UnderWay
      <3> QED
        BY <3>1, <3>3, <3>4, OtherSteps
    <2> QED
      BY <2>1, <2>2, <2>3 DEF Handled
  <1>4. CASE page
    BY <1>4, OtherRequests DEF page, linkVars
  <1>5. CASE exit
    BY <1>5, ProcessEnded
  <1>6. CASE sweep \/ stop \/ waitForIdle \/ closeDatabase \/ start \/ timePasses
             \/ UNCHANGED serviceVars
    <2>1. UNCHANGED <<req, audit, snoozed, unaudited>>
      BY <1>6 DEF sweep, stop, waitForIdle, closeDatabase, start, timePasses, serviceVars, linkVars
    <2> QED
      BY <2>1, OtherSteps DEF UsesAreKnown, ReqTypeOK, UnderWay
  <1> QED
    BY <1>1, <1>2, <1>3, <1>4, <1>5, <1>6 DEF ServiceNext

\* A link moves its reminder once, but for uses whose record was lost with the process
\* or by a failing write (server/action.ts: handleActionPost).
THEOREM LinksActOnce == ServiceSpec => []LinkActsOnce
  <1>1. ServiceInit => UsesAreKnown
    BY DEF ServiceInit, UsesAreKnown, ReqTypeOK, LinkTypeOK, UseIsKnown, UnderWay, Free
  <1>2. UsesAreKnown /\ [ServiceNext]_serviceVars => UsesAreKnown'
    BY UsesStayKnown
  <1>3. UsesAreKnown => LinkActsOnce
    BY DEF UsesAreKnown, UseIsKnown, LinkActsOnce
  <1> QED
    BY <1>1, <1>2, <1>3, PTL DEF ServiceSpec

-----------------------------------------------------------------------------
(* Published backups are whole.                                             *)

IsBackup(b) ==
    /\ b = [pc |-> b.pc, at |-> b.at, rows |-> b.rows, schema |-> b.schema, whole |-> b.whole]
    /\ b.whole \in BOOLEAN

BackupRecords == DOMAIN backup = Backups /\ \A p \in Backups : IsBackup(backup[p])

\* What is about to be linked under a canonical name passed its check, and nothing
\* can spoil it any more: only copies still being written are spoilt by a restore.
CheckedIsWhole == \A p \in Backups : backup[p].pc = "publish" => backup[p].whole = TRUE

PublishedInv ==
    /\ BackupRecords
    /\ CheckedIsWhole
    /\ \A f \in Canonical : f.whole = TRUE

\* The snapshots that are taken aside have names of their own.
LEMMA AsideIsNotCanonical ==
  ASSUME NEW kind \in {"pre-v", "pre-restore"}, NEW at, NEW rows, NEW schema, NEW whole
  PROVE  /\ Snapshot(uniqueFilePath(kind, at), rows, schema, whole).kind = kind
         /\ Snapshot(uniqueFilePath(kind, at), rows, schema, whole).rows = rows
         /\ Snapshot(uniqueFilePath(kind, at), rows, schema, whole).whole = whole
  BY DEF Snapshot, uniqueFilePath

\* A process goes on to another step of its backup, or begins or ends one.
LEMMA BackupGoesOn ==
  ASSUME BackupRecords, NEW p \in Backups, NEW step, backup' = [backup EXCEPT ![p].pc = step]
  PROVE  /\ BackupRecords'
         /\ backup'[p].pc = step /\ backup'[p].whole = backup[p].whole
         /\ backup'[p].rows = backup[p].rows
         /\ \A q \in Backups \ {p} : backup'[q] = backup[q]
  <1>1. backup[p] = [pc |-> backup[p].pc, at |-> backup[p].at, rows |-> backup[p].rows,
                     schema |-> backup[p].schema, whole |-> backup[p].whole]
    BY DEF BackupRecords, IsBackup
  <1>2. [backup[p] EXCEPT !.pc = step] =
           [pc |-> step, at |-> backup[p].at, rows |-> backup[p].rows,
            schema |-> backup[p].schema, whole |-> backup[p].whole]
    BY <1>1
  <1>3. backup'[p] = [backup[p] EXCEPT !.pc = step]
    BY DEF BackupRecords
  <1>4. DOMAIN backup' = Backups /\ \A q \in Backups \ {p} : backup'[q] = backup[q]
    BY DEF BackupRecords
  <1>5. backup'[p].pc = step /\ backup'[p].whole = backup[p].whole
        /\ backup'[p].rows = backup[p].rows /\ IsBackup(backup'[p])
    BY <1>2, <1>3 DEF BackupRecords, IsBackup
  <1> QED
    BY <1>4, <1>5 DEF BackupRecords

LEMMA BackupSet ==
  ASSUME BackupRecords, NEW p \in Backups, NEW b, IsBackup(b), backup' = [backup EXCEPT ![p] = b]
  PROVE  /\ BackupRecords' /\ backup'[p] = b
         /\ \A q \in Backups \ {p} : backup'[q] = backup[q]
  BY DEF BackupRecords

LEMMA RecordsStay == BackupRecords /\ UNCHANGED backup => BackupRecords'
  BY DEF BackupRecords, IsBackup

LEMMA IdleIsBackup == IsBackup(IdleBackup) /\ IdleBackup.pc = "idle"
  BY DEF IsBackup, IdleBackup

\* Copies being written may be spoilt; nothing else of a backup changes then.
LEMMA Spoiled ==
  ASSUME BackupRecords, backup' = ReadersSpoiled
  PROVE  /\ BackupRecords'
         /\ \A q \in Backups : /\ backup'[q].pc = backup[q].pc
                               /\ backup[q].pc # "vacuum" => backup'[q] = backup[q]
                               /\ backup'[q].rows = backup[q].rows
  <1>1. ASSUME NEW q \in Backups
        PROVE  /\ IsBackup(backup'[q]) /\ backup'[q].pc = backup[q].pc
               /\ backup[q].pc # "vacuum" => backup'[q] = backup[q]
               /\ backup'[q].rows = backup[q].rows
    <2>1. backup'[q] = IF q \in Readers THEN [backup[q] EXCEPT !.whole = FALSE] ELSE backup[q]
      BY DEF ReadersSpoiled
    <2>2. PICK no : no = FALSE
      OBVIOUS
    <2>3. [backup[q] EXCEPT !.whole = no] =
             [pc |-> backup[q].pc, at |-> backup[q].at, rows |-> backup[q].rows,
              schema |-> backup[q].schema, whole |-> no]
      BY DEF BackupRecords, IsBackup
    <2>4. CASE q \in Readers
      BY <2>1, <2>2, <2>3, <2>4 DEF IsBackup, Readers
    <2>5. CASE q \notin Readers
      BY <2>1, <2>5 DEF BackupRecords
    <2> QED
      BY <2>4, <2>5
  <1>2. DOMAIN backup' = Backups
    BY DEF ReadersSpoiled
  <1> QED
    BY <1>1, <1>2 DEF BackupRecords

LEMMA PublishedStep == PublishedInv /\ [DataNext]_dataVars => PublishedInv'
  <1> SUFFICES ASSUME PublishedInv, [DataNext]_dataVars PROVE PublishedInv'
    OBVIOUS
  <1> USE IdleIsBackup DEF PublishedInv, CheckedIsWhole, Canonical, BackupRecords
  <1>1. CASE DaemonStep
    <2>1. CASE preMigrationSnapshot
      <3>1. PICK f : f.kind = "pre-v" /\ files' \subseteq files \cup {f}
        BY <2>1, AsideIsNotCanonical DEF preMigrationSnapshot, Snapshot, uniqueFilePath
      <3> QED
        BY <2>1, <3>1 DEF preMigrationSnapshot
    <2>2. CASE daemonKilled
      BY <2>2, BackupSet DEF daemonKilled, Backups
    <2>3. CASE daemonStart \/ openDatabase \/ migrate \/ daemonStop \/ autoCheckpoint \/ deploy
      BY <2>3 DEF daemonStart, openDatabase, migrate, daemonStop, autoCheckpoint, deploy
    <2>4. CASE \E w \in Writes : withTransaction(w)
      BY <2>4 DEF withTransaction
    <2> QED
      BY <1>1, <2>1, <2>2, <2>3, <2>4 DEF DaemonStep
  <1>2. CASE BackupStep
    <2>1. ASSUME NEW p \in Backups, runBackup(p) PROVE PublishedInv'
      <3>1. IsBackup([pc |-> "vacuum", at |-> clock, rows |-> db.rows \cup wal, schema |-> db.schema,
                      whole |-> db.state = "whole" /\ ~(alien /\ wal # {})])
        BY DEF IsBackup
      <3>2. BackupRecords' /\ CheckedIsWhole'
        BY <2>1, <3>1, BackupSet DEF runBackup
      <3> QED
        BY <2>1, <3>2 DEF runBackup
    <2>2. ASSUME NEW p \in Backups, verifyPartial(p) PROVE PublishedInv'
      <3>1. CASE wholeCopy(p) /\ backup' = [backup EXCEPT ![p].pc = "publish"]
        <4>1. backup[p].whole = TRUE
          BY <3>1 DEF wholeCopy, BackupRecords, IsBackup
        <4>2. BackupRecords' /\ CheckedIsWhole'
          BY <3>1, <4>1, BackupGoesOn
        <4> QED
          BY <2>2, <4>2 DEF verifyPartial
      <3>2. CASE fails(p)
        <4>1. BackupRecords' /\ CheckedIsWhole'
          BY <3>2, BackupSet DEF fails
        <4> QED
          BY <2>2, <4>1 DEF verifyPartial
      <3> QED
        BY <2>2, <3>1, <3>2 DEF verifyPartial
    <2>3. ASSUME NEW p \in Backups, publishBackupFile(p) PROVE PublishedInv'
      <3>1. CheckedIsWhole' /\ BackupRecords'
        <4>1. CASE backup' = [backup EXCEPT ![p].pc = "prune"]
          <5>1. /\ BackupRecords'
                /\ backup'[p].pc = "prune"
                /\ \A q \in Backups \ {p} : backup'[q] = backup[q]
            BY <4>1, BackupGoesOn
          <5>2. CheckedIsWhole'
            BY <5>1
          <5> QED
            BY <5>1, <5>2
        <4>2. CASE fails(p)
          BY <4>2, BackupSet DEF fails
        <4> QED
          BY <2>3, <4>1, <4>2 DEF publishBackupFile
      <3>2. \/ UNCHANGED files
            \/ \E at : files' = files \cup
                   {Snapshot([kind |-> "backup", at |-> at, n |-> 0],
                             backup[p].rows, backup[p].schema, backup[p].whole)}
        BY <2>3 DEF publishBackupFile
      <3>3. backup[p].whole = TRUE
        BY <2>3 DEF publishBackupFile
      <3>4. (\A f \in Canonical : f.whole = TRUE)'
        BY <3>2, <3>3 DEF Snapshot
      <3> QED
        BY <3>1, <3>4
    <2>4. ASSUME NEW p \in Backups, prune(p) PROVE PublishedInv'
      BY <2>4, BackupSet DEF prune
    <2>5. CASE commandKilled
      BY <2>5, BackupSet DEF commandKilled, Backups
    <2> QED
      BY <1>2, <2>1, <2>2, <2>3, <2>4, <2>5 DEF BackupStep
  <1>3. CASE RestoreStep
    <2>1. CASE copyAside
      <3>1. (\A f \in Canonical : f.whole = TRUE)'
        BY <2>1, AsideIsNotCanonical DEF copyAside
      <3> QED
        BY <2>1, <3>1 DEF copyAside
    <2>2. CASE replace
      <3>1. BackupRecords' /\ CheckedIsWhole'
        <4>1. CASE backup' = ReadersSpoiled
          <5>1. /\ BackupRecords'
                /\ \A q \in Backups : /\ backup'[q].pc = backup[q].pc
                                      /\ backup[q].pc # "vacuum" => backup'[q] = backup[q]
            BY <4>1, Spoiled
          <5> QED
            BY <5>1
        <4> QED
          BY <2>2, <4>1 DEF replace
      <3> QED
        BY <2>2, <3>1 DEF replace
    <2>3. CASE restoreBegin \/ restoreLock \/ checkpointCurrentDatabase \/ replaced
      BY <2>3 DEF restoreBegin, restoreLock, checkpointCurrentDatabase, replaced
    <2>4. CASE dropLog \/ verifyRestored \/ rollback \/ restoreKilled
      BY <2>4 DEF dropLog, verifyRestored, rollback, restoreKilled
    <2> QED
      BY <1>3, <2>1, <2>2, <2>3, <2>4 DEF RestoreStep
  <1>4. CASE secondPasses
    BY <1>4 DEF secondPasses
  <1>5. CASE UNCHANGED dataVars
    BY <1>5 DEF dataVars
  <1> QED
    BY <1>1, <1>2, <1>3, <1>4, <1>5 DEF DataNext

\* A file under the name of a published backup is whole, for any number of backups,
\* restores, kills and full disks: runBackup publishes what verifyDatabaseFile passed.
THEOREM PublishedIsWhole == DataSpec => []CanonicalIsWhole
  <1>1. DataInit => PublishedInv
    BY IdleIsBackup DEF DataInit, PublishedInv, CheckedIsWhole, Canonical, BackupRecords
  <1>2. PublishedInv => CanonicalIsWhole
    BY DEF PublishedInv, CanonicalIsWhole
  <1> QED
    BY <1>1, <1>2, PublishedStep, PTL DEF DataSpec

-----------------------------------------------------------------------------
(* What was answered is kept.                                               *)

\* Copies put aside are never pruned.
Aside == UNION {f.rows : f \in {g \in files : g.whole = TRUE /\ g.kind # "backup"}}

\* Where db:restore works on the database; from "replace" on it has been given up.
Working == {"checkpoint", "copy", "replace", "replacing", "dropLog", "verify"}
Replacing == {"replace", "replacing", "dropLog", "verify"}

DataRecords ==
    /\ db = [state |-> db.state, rows |-> db.rows, schema |-> db.schema]
    /\ restore = [pc |-> restore.pc, target |-> restore.target, pre |-> restore.pre,
                  told |-> restore.told]

\* The daemon and a restore do not work on the database at one time.
OneAtWork ==
    /\ daemon # "off" => lock = "daemon"
    /\ restore.pc \in Working => lock = "restore"

\* A daemon past the opening has a database, and the log is the database's own.
OpenedInv == daemon \in {"snapshot", "migrating", "up"} => ~alien /\ db.state # "none"

\* Behind the checkpoint of a restore nothing is left in the log but what it warned of.
LogIsWarned == restore.pc \in Working \ {"checkpoint"} \/ db.state = "none" => wal \subseteq warned

\* What was answered lies in the database and its log, and where these may be lost, in
\* a whole copy that was put aside.
KeptInv ==
    /\ acked \ warned \subseteq Aside \cup db.rows \cup wal
    /\ alien \/ db.state # "whole" \/ restore.pc \in Replacing => acked \ warned \subseteq Aside

KeepingInv == DataRecords /\ OneAtWork /\ OpenedInv /\ LogIsWarned /\ KeptInv

LEMMA AsideStays == [DataNext]_dataVars => Aside \subseteq Aside'
  <1> SUFFICES ASSUME [DataNext]_dataVars PROVE Aside \subseteq Aside'
    OBVIOUS
  <1>1. \A g \in files : g.kind # "backup" => g \in files'
    <2>1. CASE DaemonStep
      BY <2>1 DEF DaemonStep, preMigrationSnapshot, daemonStart, openDatabase, migrate,
                  daemonStop, autoCheckpoint, deploy, daemonKilled, withTransaction
    <2>2. CASE BackupStep
      BY <2>2 DEF BackupStep, runBackup, verifyPartial, publishBackupFile, prune, commandKilled,
                  Canonical
    <2>3. CASE RestoreStep
      BY <2>3 DEF RestoreStep, restoreBegin, restoreLock, checkpointCurrentDatabase, copyAside,
                  replace, replaced, dropLog, verifyRestored, rollback, restoreKilled
    <2> QED
      BY <2>1, <2>2, <2>3 DEF DataNext, secondPasses, dataVars
  <1> QED
    BY <1>1 DEF Aside

LEMMA KeepingUntouched ==
  KeepingInv /\ Aside \subseteq Aside' /\ UNCHANGED <<db, wal, alien, lock, daemon, restore, acked, warned>>
     => KeepingInv'
  BY DEF KeepingInv, DataRecords, OneAtWork, OpenedInv, LogIsWarned, KeptInv

LEMMA DaemonKeeps ==
  ASSUME KeepingInv, DaemonStep, Aside \subseteq Aside'
  PROVE  KeepingInv'
  <1> USE DEF KeepingInv, DataRecords, OneAtWork, OpenedInv, LogIsWarned, KeptInv, Working, Replacing
  <1>1. CASE daemonStart
    BY <1>1 DEF daemonStart, LockFree
  <1>2. CASE openDatabase
    <2>1. restore.pc \notin Working
      BY <1>2 DEF openDatabase
    <2>2. alien' = FALSE /\ UNCHANGED <<restore, acked, warned>>
      BY <1>2 DEF openDatabase
    <2>3. OneAtWork' /\ DataRecords'
      BY <1>2, <2>1, <2>2 DEF openDatabase, refuse
    <2>7. OpenedInv'
      BY <1>2, <2>1, <2>2 DEF openDatabase, refuse
    <2>4. CASE db.state = "none" /\ ~(alien /\ wal # {})
      BY <1>2, <2>1, <2>2, <2>3, <2>4 DEF openDatabase
    <2>5. CASE db.state = "half" \/ (alien /\ wal # {})
      BY <1>2, <2>1, <2>2, <2>3, <2>5 DEF openDatabase
    <2>6. CASE db.state = "whole" /\ ~(alien /\ wal # {})
      BY <1>2, <2>1, <2>2, <2>3, <2>6 DEF openDatabase
    <2> QED
      BY <1>2, <2>4, <2>5, <2>6 DEF openDatabase
  <1>3. CASE preMigrationSnapshot
    BY <1>3 DEF preMigrationSnapshot, refuse
  <1>4. CASE migrate
    BY <1>4 DEF migrate, refuse
  <1>5. CASE \E w \in Writes : withTransaction(w)
    BY <1>5 DEF withTransaction, DaemonFree
  <1>6. CASE daemonStop
    BY <1>6 DEF daemonStop, DaemonFree, refuse, Backfilled
  <1>7. CASE daemonKilled
    BY <1>7 DEF daemonKilled
  <1>8. CASE autoCheckpoint
    BY <1>8 DEF autoCheckpoint, DaemonFree, Backfilled
  <1>9. CASE deploy
    BY <1>9 DEF deploy
  <1> QED
    BY <1>1, <1>2, <1>3, <1>4, <1>5, <1>6, <1>7, <1>8, <1>9 DEF DaemonStep

LEMMA BackupsKeep ==
  ASSUME KeepingInv, BackupStep, Aside \subseteq Aside'
  PROVE  KeepingInv'
  <1>1. UNCHANGED <<db, wal, alien, lock, daemon, restore, acked, warned>>
    BY DEF BackupStep, runBackup, verifyPartial, publishBackupFile, prune, commandKilled
  <1> QED
    BY <1>1, KeepingUntouched

\* The restore, when no VACUUM outlasts the busy timeout: its checkpoint empties the log
\* or says what it leaves.
LEMMA RestoreKeeps ==
  ASSUME VacuumOutlastsBusy = FALSE, KeepingInv, RestoreStep, Aside \subseteq Aside'
  PROVE  KeepingInv'
  <1> USE DEF KeepingInv, DataRecords, OneAtWork, OpenedInv, LogIsWarned, KeptInv, Working, Replacing
  <1>1. CASE restoreBegin
    BY <1>1 DEF restoreBegin, IdleRestore
  <1>2. CASE restoreLock
    BY <1>2 DEF restoreLock, LockFree, IdleRestore
  <1>3. CASE checkpointCurrentDatabase
    BY <1>3 DEF checkpointCurrentDatabase, Backfilled
  <1>4. CASE copyAside
    <2>1. CASE restoreEnds
      BY <1>4, <2>1 DEF copyAside, restoreEnds, IdleRestore
    <2>2. CASE db.state = "whole" /\ ~restoreEnds
      <3>1. PICK f : f.kind = "pre-restore" /\ f.rows = db.rows /\ f.whole = TRUE /\ f \in files'
        BY <1>4, <2>2, AsideIsNotCanonical DEF copyAside, Snapshot, uniqueFilePath
      <3>2. db.rows \subseteq Aside'
        BY <3>1 DEF Aside
      <3> QED
        BY <1>4, <2>2, <3>2 DEF copyAside
    <2>3. CASE db.state # "whole" /\ ~restoreEnds
      BY <1>4, <2>3 DEF copyAside
    <2> QED
      BY <2>1, <2>2, <2>3
  <1>5. CASE replace
    BY <1>5 DEF replace, restoreEnds, IdleRestore, Emptied
  <1>6. CASE replaced
    <2>1. PICK f \in restore.target :
             \/ /\ db' = [state |-> IF f.whole THEN "whole" ELSE "half",
                          rows |-> f.rows, schema |-> f.schema]
                /\ restore' = [restore EXCEPT !.pc = "dropLog"] /\ UNCHANGED lock
             \/ /\ db' = [state |-> "half", rows |-> f.rows, schema |-> f.schema]
                /\ restore' = [restore EXCEPT !.pc = "dropLog"] /\ UNCHANGED lock
             \/ db' = [Emptied EXCEPT !.state = "none"] /\ restoreEnds
      BY <1>6 DEF replaced
    <2>5. PICK none : none = "none"
      OBVIOUS
    <2>6. [Emptied EXCEPT !.state = none] =
             [state |-> none, rows |-> Emptied.rows, schema |-> Emptied.schema]
      BY DEF Emptied
    <2>2. \/ db'.state \in {"half", "whole"} /\ restore'.pc = "dropLog" /\ UNCHANGED lock
          \/ db'.state = "none" /\ restore' = IdleRestore
      BY <2>1, <2>5, <2>6 DEF restoreEnds
    <2>3. DataRecords'
      BY <2>1, <2>5, <2>6 DEF restoreEnds, IdleRestore
    <2>4. restore.pc = "replacing" /\ UNCHANGED <<wal, alien, daemon, acked, warned>>
      BY <1>6 DEF replaced
    <2> QED
      BY <2>2, <2>3, <2>4 DEF IdleRestore
  <1>7. CASE dropLog
    BY <1>7 DEF dropLog
  <1>8. CASE verifyRestored
    BY <1>8 DEF verifyRestored, restoreVerified, IdleRestore
  <1>9. CASE rollback
    BY <1>9 DEF rollback, restoreEnds, IdleRestore
  <1>10. CASE restoreKilled
    BY <1>10 DEF restoreKilled, IdleRestore
  <1> QED
    BY <1>1, <1>2, <1>3, <1>4, <1>5, <1>6, <1>7, <1>8, <1>9, <1>10 DEF RestoreStep

\* A write that was answered is never lost: it is in the database, or in a whole file
\* beside it, through any number of kills, upgrades, backups and restores, but for those
\* a restore warned of (runRestore puts the database aside before it is replaced).
THEOREM AnsweredIsKept ==
  ASSUME VacuumOutlastsBusy = FALSE
  PROVE  DataSpec => []AcknowledgedIsKept
  <1>1. DataInit => KeepingInv
    BY DEF DataInit, KeepingInv, DataRecords, OneAtWork, OpenedInv, LogIsWarned, KeptInv, Working,
           Replacing, IdleRestore
  <1>2. KeepingInv /\ [DataNext]_dataVars => KeepingInv'
    <2> SUFFICES ASSUME KeepingInv, [DataNext]_dataVars PROVE KeepingInv'
      OBVIOUS
    <2>1. Aside \subseteq Aside'
      BY AsideStays
    <2>2. CASE secondPasses \/ UNCHANGED dataVars
      BY <2>1, <2>2, KeepingUntouched DEF secondPasses, dataVars
    <2> QED
      BY <2>1, <2>2, DaemonKeeps, BackupsKeep, RestoreKeeps DEF DataNext
  <1>3. KeepingInv => AcknowledgedIsKept
    BY DEF KeepingInv, KeptInv, AcknowledgedIsKept, Aside
  <1> QED
    BY <1>1, <1>2, <1>3, PTL DEF DataSpec

-----------------------------------------------------------------------------
(* A month report, made in full, leaves nothing of the window unreported.     *)

\* What a job publishes is among the notifications afterwards.
LEMMA Told ==
  ASSUME NEW notes, Tell(notes)
  PROVE  DOMAIN told' = DOMAIN told \cup notes
  BY DEF Tell

\* What monthly_report publishes covers every unreported month of the window.
LEMMA WindowIsPushed ==
  ASSUME NEW at, NEW m \in Months, monthRange(Today) - m \in 1..LOOKBACK_MONTHS,
         NEW l \in Exists, Count(l, MonthDays(m)), ~monthlyReportPublished(l, m),
         NEW p \in Audience(l), monthRange(Today) \in Int
  PROVE  Note(p, "monthly", l, m) \in Published("monthly_report", at)
  <1>1. l \in listLedgers(TRUE)
    BY DEF listLedgers
  <1>2. m \in inWindow
    BY ReportsAssumption DEF inWindow, Months
  <1>3. <<l, m>> \in Unreported(inWindow)
    BY <1>1, <1>2 DEF Unreported
  <1>4. m \in MonthsToPush
    BY <1>3 DEF MonthsToPush
  <1>5. Note(p, "monthly", l, m) \in pushMonthlyReports(m)
    <2>1. Note(p, "monthly", l, m) \in {Note(x, "monthly", l, m) : x \in Audience(l)}
      OBVIOUS
    <2>2. l \in {k \in listLedgers(TRUE) : Count(k, MonthDays(m))}
      BY <1>1
    <2> QED
      BY <2>1, <2>2 DEF pushMonthlyReports
  <1> QED
    BY <1>4, <1>5 DEF Published

ReportsTypeOK == now \in Nat /\ DOMAIN owed = Jobs

LEMMA ReportsTypePreserved == ReportsTypeOK /\ [ReportsNext]_reportVars => ReportsTypeOK'
  BY DEF ReportsTypeOK, ReportsNext, reportVars, ownVars, ledgerVars, LedgerTool, expenseAdd,
         expenseDelete, expenseUpdate, Record, RunJob, JobCutShort, Stop, Start, Tick, runRetention

\* Once the month report was made in full, no month of the look-back window has expenses
\* in a ledger, someone to be told of them and no report: pushMonthlyReports after
\* findMissingMonthlyReports, whatever was missed before.
THEOREM MonthReportCatchesUp == ReportsSpec => CaughtUp
  <1> DEFINE Caught ==
        /\ up /\ up'
        /\ owed["monthly_report"] # NULL /\ owed'["monthly_report"] = NULL
        => \A m \in {k \in Months : monthRange(Today) - k \in 1..LOOKBACK_MONTHS}, l \in Exists :
              Count(l, MonthDays(m)) /\ Audience(l) # {} => monthlyReportPublished(l, m)'
  <1>1. ReportsInit => ReportsTypeOK
    BY DEF ReportsInit, ReportsTypeOK
  <1>2. ReportsTypeOK /\ [ReportsNext]_reportVars => Caught
    <2> SUFFICES ASSUME ReportsTypeOK, [ReportsNext]_reportVars, up, up',
                        owed["monthly_report"] # NULL, owed'["monthly_report"] = NULL,
                        NEW m \in Months, monthRange(Today) - m \in 1..LOOKBACK_MONTHS,
                        NEW l \in Exists, Count(l, MonthDays(m)), Audience(l) # {}
                 PROVE  monthlyReportPublished(l, m)'
      OBVIOUS
    <2>1. RunJob("monthly_report")
      <3>1. CASE UNCHANGED owed
        BY <3>1
      <3>2. ASSUME NEW j \in Jobs, RunJob(j) PROVE RunJob("monthly_report")
        BY <3>2 DEF RunJob, ReportsTypeOK, Jobs
      <3>3. ASSUME NEW j \in Jobs, JobCutShort(j) PROVE FALSE
        BY <3>3 DEF JobCutShort
      <3>4. CASE Stop \/ Start
        BY <3>4 DEF Stop, Start
      <3>5. CASE Tick
        BY <3>5 DEF Tick, Jobs
      <3>6. CASE LedgerTool \/ runRetention \/ \E p \in Profiles : expenseAdd(p) \/ expenseDelete(p) \/ expenseUpdate(p)
        BY <3>1, <3>6 DEF LedgerTool, runRetention, expenseAdd, expenseDelete, expenseUpdate, Record
      <3> QED
        BY <3>1, <3>2, <3>3, <3>4, <3>5, <3>6 DEF ReportsNext, reportVars, ownVars
    <2>2. DOMAIN told' = DOMAIN told \cup Published("monthly_report", owed["monthly_report"])
      BY <2>1, Told DEF RunJob
    <2>3. monthRange(Today) \in Int
      BY ReportsAssumption DEF monthRange, Today, ReportsTypeOK
    <2>4. CASE monthlyReportPublished(l, m)
      BY <2>2, <2>4 DEF monthlyReportPublished
    <2>5. CASE ~monthlyReportPublished(l, m)
      <3>1. PICK p \in Audience(l) : TRUE
        OBVIOUS
      <3>2. Note(p, "monthly", l, m) \in DOMAIN told'
        BY <2>2, <2>3, <2>5, WindowIsPushed
      <3> QED
        BY <3>2 DEF monthlyReportPublished, Note
    <2> QED
      BY <2>4, <2>5
  <1>4. ReportsSpec => []ReportsTypeOK
    BY <1>1, ReportsTypePreserved, PTL DEF ReportsSpec
  <1> QED
    BY <1>2, <1>4, PTL DEF ReportsSpec, CaughtUp

-----------------------------------------------------------------------------
(* A report is created once.                                                  *)

Kinds == {"digest", "weekly", "monthly"}
IsWeekly(n, day) == weekRange(day) = n.period /\ day % WEEK = WEEK - 1

\* The slot a digest or a weekly report was due at lies no later than that day.
DueBy(n, day) ==
    /\ n.kind = "digest" => n.period \in Nat /\ n.period <= day
    /\ n.kind = "weekly" => \A d \in Nat : IsWeekly(n, d) => d <= day

OwedInv ==
    /\ now \in Nat /\ DOMAIN owed = Jobs
    /\ \A j \in Jobs : owed[j] # NULL =>
          /\ owed[j] \in Nat /\ owed[j] <= now
          /\ up => now - owed[j] <= CATCHUP_POLICY(j)
          /\ j # "monthly_report" => owed[j] % 2 = 1
          /\ j = "weekly_report" => DayOf(owed[j]) % WEEK = WEEK - 1

\* What is kept was created when it was due or later; what was cleaned up was due
\* more than RETENTION_DAYS ago, and is no month report.
ToldInv ==
    /\ \A n \in DOMAIN told :
          told[n] \in Nat /\ told[n] <= Today /\ DueBy(n, told[n]) /\ n.kind \in Kinds
    /\ \A n \in sent \ DOMAIN told :
          n.kind \in {"digest", "weekly"} /\ \E c \in Nat : DueBy(n, c) /\ c + RETENTION_DAYS < Today

OnceInv == OwedInv /\ ToldInv

\* Case by case, for the provers that know no CASE.
LEMMA JobByJob ==
  /\ CATCHUP_POLICY("ledger_digest") = DIGEST_WINDOW
  /\ CATCHUP_POLICY("weekly_report") = WEEKLY_WINDOW
  /\ CATCHUP_POLICY("monthly_report") = 0
  /\ \A at : /\ Published("ledger_digest", at) = pushDailyDigests(DayOf(at))
             /\ Published("weekly_report", at) = pushWeeklyReports(DayOf(at))
             /\ Published("monthly_report", at) = UNION {pushMonthlyReports(m) : m \in MonthsToPush}
  BY DEF CATCHUP_POLICY, Published

\* The last day of a week is one day.
LEMMA WeekEndsOnce ==
  ASSUME NEW a \in Nat, NEW b \in Nat, weekRange(a) = weekRange(b), a % WEEK = b % WEEK
  PROVE  a = b
  BY ReportsAssumption DEF weekRange

\* What a job publishes for its slot is due then.
LEMMA PublishedIsDue ==
  ASSUME OwedInv, NEW j \in Jobs, owed[j] # NULL, NEW n \in Published(j, owed[j])
  PROVE  \/ n.kind = "monthly"
         \/ n.kind = "digest" /\ j = "ledger_digest" /\ n.period = DayOf(owed[j])
         \/ n.kind = "weekly" /\ j = "weekly_report" /\ IsWeekly(n, DayOf(owed[j]))
  <1>1. CASE j = "ledger_digest"
    BY <1>1, JobByJob DEF pushDailyDigests, Note
  <1>2. CASE j = "weekly_report"
    <2>1. n \in pushWeeklyReports(DayOf(owed[j]))
      BY <1>2, JobByJob
    <2>2. n.kind = "weekly" /\ n.period = weekRange(DayOf(owed[j]))
      <3>1. PICK l : n \in {Note(p, "weekly", l, weekRange(DayOf(owed[j]))) : p \in Audience(l)}
        BY <2>1 DEF pushWeeklyReports
      <3> QED
        BY <3>1 DEF Note
    <2> QED
      BY <1>2, <2>2 DEF OwedInv, IsWeekly, Jobs
  <1>3. CASE j = "monthly_report"
    <2>1. PICK m : n \in pushMonthlyReports(m)
      BY <1>3, JobByJob
    <2>2. PICK l : n \in {Note(p, "monthly", l, m) : p \in Audience(l)}
      BY <2>1 DEF pushMonthlyReports
    <2> QED
      BY <2>2 DEF Note
  <1> QED
    BY <1>1, <1>2, <1>3 DEF Jobs

\* What was cleaned up is published no more: its slot is made up for no more.
LEMMA CleanedUpIsPast ==
  ASSUME DIGEST_WINDOW <= 2 * RETENTION_DAYS, WEEKLY_WINDOW <= 2 * RETENTION_DAYS,
         OnceInv, up, NEW j \in Jobs, owed[j] # NULL,
         NEW n \in Published(j, owed[j]), n \notin DOMAIN told
  PROVE  n \notin sent
  <1> SUFFICES ASSUME n \in sent PROVE FALSE
    OBVIOUS
  <1>1. PICK c \in Nat : DueBy(n, c) /\ c + RETENTION_DAYS < Today
    BY DEF OnceInv, ToldInv
  <1>2. n.kind \in {"digest", "weekly"}
    BY DEF OnceInv, ToldInv
  <1>3. j # "monthly_report" /\ DayOf(owed[j]) \in Nat /\ DayOf(owed[j]) <= c
    BY <1>1, <1>2, PublishedIsDue DEF OnceInv, OwedInv, DueBy, DayOf
  <1>4. now - owed[j] <= 2 * RETENTION_DAYS /\ owed[j] % 2 = 1 /\ owed[j] \in Nat /\ now \in Nat
    BY <1>3, JobByJob, ReportsAssumption DEF OnceInv, OwedInv, Jobs
  <1>5. Today <= DayOf(owed[j]) + RETENTION_DAYS
    BY <1>4, ReportsAssumption DEF Today, DayOf
  <1> QED
    BY <1>1, <1>3, <1>5, ReportsAssumption DEF Today, OnceInv, OwedInv

\* What a job publishes of new notifications keeps the invariant.
LEMMA TellKeeps ==
  ASSUME OnceInv, up, NEW j \in Jobs, owed[j] # NULL,
         NEW notes \in SUBSET Published(j, owed[j]), Tell(notes), UNCHANGED now
  PROVE  ToldInv'
  <1>1. ASSUME NEW n \in notes PROVE DueBy(n, Today)
    <2>1. DayOf(owed[j]) \in Nat /\ DayOf(owed[j]) <= Today
      BY DEF OnceInv, OwedInv, DayOf, Today
    <2>2. CASE n.kind = "weekly"
      <3>1. j = "weekly_report" /\ IsWeekly(n, DayOf(owed[j]))
        BY <2>2, PublishedIsDue DEF OnceInv
      <3>2. ASSUME NEW d \in Nat, IsWeekly(n, d) PROVE d <= Today
        BY <2>1, <3>1, <3>2, WeekEndsOnce DEF IsWeekly
      <3> QED
        BY <2>2, <3>2 DEF DueBy
    <2>3. CASE n.kind = "digest"
      BY <2>1, <2>3, PublishedIsDue DEF OnceInv, DueBy
    <2> QED
      BY <2>2, <2>3 DEF DueBy
  <1>2. Today \in Nat /\ Today' = Today
    BY DEF OnceInv, OwedInv, Today
  <1>3. DOMAIN told' = DOMAIN told \cup notes
    BY DEF Tell
  <1>4. \A n \in DOMAIN told' : \/ told'[n] = told[n] /\ n \in DOMAIN told
                                \/ told'[n] = Today /\ n \in notes
    <2>1. told' = [n \in DOMAIN told \cup (notes \ DOMAIN told) |->
                     IF n \in notes \ DOMAIN told THEN Today ELSE told[n]]
      BY DEF Tell
    <2> QED
      BY <2>1
  <1>7. \A n \in notes : n.kind \in Kinds
    BY PublishedIsDue DEF OnceInv, Kinds
  <1>5. \A n \in DOMAIN told' :
           told'[n] \in Nat /\ told'[n] <= Today' /\ DueBy(n, told'[n]) /\ n.kind \in Kinds
    BY <1>1, <1>2, <1>4, <1>7 DEF OnceInv, ToldInv
  <1>6. sent' \ DOMAIN told' \subseteq sent \ DOMAIN told
    BY <1>3 DEF Tell
  <1> QED
    BY <1>2, <1>5, <1>6 DEF OnceInv, ToldInv

LEMMA OnceStep == OnceInv /\ [ReportsNext]_reportVars => OnceInv'
  <1> SUFFICES ASSUME OnceInv, [ReportsNext]_reportVars PROVE OnceInv'
    OBVIOUS
  <1>1. ASSUME UNCHANGED <<now, up, owed, told, sent>> PROVE OnceInv'
    BY <1>1 DEF OnceInv, OwedInv, ToldInv, Today
  <1>2. ASSUME NEW j \in Jobs, RunJob(j) PROVE OnceInv'
    <2>1. ToldInv'
      BY <1>2, TellKeeps DEF RunJob
    <2>2. OwedInv'
      BY <1>2 DEF RunJob, OnceInv, OwedInv
    <2> QED
      BY <2>1, <2>2 DEF OnceInv
  <1>3. ASSUME NEW j \in Jobs, JobCutShort(j) PROVE OnceInv'
    <2>1. PICK cut : Tell({n \in Published(j, owed[j]) : Before(n, cut)})
      BY <1>3 DEF JobCutShort
    <2>2. ToldInv'
      BY <1>3, <2>1, TellKeeps DEF JobCutShort
    <2>3. OwedInv'
      BY <1>3 DEF JobCutShort, OnceInv, OwedInv
    <2> QED
      BY <2>2, <2>3 DEF OnceInv
  <1>4. CASE Stop
    BY <1>4 DEF Stop, OnceInv, OwedInv, ToldInv, Today
  <1>5. CASE Start
    <2>1. ToldInv'
      BY <1>5 DEF Start, OnceInv, ToldInv, Today
    <2>2. OwedInv'
      BY <1>5 DEF Start, OnceInv, OwedInv
    <2> QED
      BY <2>1, <2>2 DEF OnceInv
  <1>6. CASE Tick
    <2>1. Today \in Nat /\ Today' \in Nat /\ Today <= Today'
      BY <1>6 DEF Tick, OnceInv, OwedInv, Today
    <2>2. ToldInv'
      BY <1>6, <2>1, ReportsAssumption DEF Tick, OnceInv, ToldInv
    <2>3. ASSUME NEW j \in Jobs, owed'[j] # NULL
          PROVE  /\ owed'[j] \in Nat /\ owed'[j] <= now'
                 /\ up' => now' - owed'[j] <= CATCHUP_POLICY(j)
                 /\ j # "monthly_report" => owed'[j] % 2 = 1
                 /\ j = "weekly_report" => DayOf(owed'[j]) % WEEK = WEEK - 1
      <3>1. CASE j \in Slots(now + 1)
        <4>1. owed'[j] = now + 1 /\ now' = now + 1 /\ now \in Nat
          BY <1>6, <3>1 DEF Tick, OnceInv, OwedInv
        <4>2. CATCHUP_POLICY(j) >= 0 /\ CATCHUP_POLICY(j) \in Int
          BY JobByJob, ReportsAssumption DEF Jobs
        <4>3. j # "monthly_report" => (now + 1) % 2 = 1
          BY <3>1 DEF Slots
        <4>4. j = "weekly_report" => DayOf(now + 1) % WEEK = WEEK - 1
          BY <3>1 DEF Slots
        <4> QED
          BY <4>1, <4>2, <4>3, <4>4
      <3>2. CASE j \notin Slots(now + 1)
        BY <1>6, <2>3, <3>2 DEF Tick, OnceInv, OwedInv
      <3> QED
        BY <3>1, <3>2
    <2>4. OwedInv'
      BY <1>6, <2>3 DEF Tick, OnceInv, OwedInv
    <2> QED
      BY <2>2, <2>4 DEF OnceInv
  <1>7. CASE runRetention
    <2>1. PICK kept \in SUBSET DOMAIN told : told' = Restrict(told, kept) /\ DOMAIN told \ kept \subseteq notificationCleanupWhere
      BY <1>7 DEF runRetention
    <2>2. DOMAIN told' = kept /\ \A n \in kept : told'[n] = told[n]
      BY <2>1 DEF Restrict
    <2>3. Today' = Today /\ UNCHANGED <<now, up, owed, sent>> /\ Today \in Nat
      BY <1>7 DEF runRetention, Today, OnceInv, OwedInv
    <2>4. ASSUME NEW n \in sent, n \in DOMAIN told \ kept
          PROVE  n.kind \in {"digest", "weekly"} /\ \E c \in Nat : DueBy(n, c) /\ c + RETENTION_DAYS < Today
      BY <2>1, <2>3, <2>4, ReportsAssumption DEF notificationCleanupWhere, Kinds, OnceInv, ToldInv
    <2>5. ToldInv'
      BY <2>2, <2>3, <2>4 DEF OnceInv, ToldInv
    <2> QED
      BY <2>3, <2>5 DEF OnceInv, OwedInv
  <1>8. CASE LedgerTool \/ \E p \in Profiles : expenseAdd(p) \/ expenseDelete(p) \/ expenseUpdate(p)
    BY <1>1, <1>8 DEF LedgerTool, expenseAdd, expenseDelete, expenseUpdate, Record
  <1> QED
    BY <1>1, <1>2, <1>3, <1>4, <1>5, <1>6, <1>7, <1>8 DEF ReportsNext, reportVars, ownVars

\* A report, a digest and a month report are created once, over job runs repeated by
\* catch-ups and crashes and after retention cleaned their notification up, when a job is
\* made up for no longer than notifications are kept (CATCHUP_POLICY: a day at most,
\* NOTIFICATION_RETENTION_DAYS: 180).
THEOREM CreatedOnce ==
  ASSUME DIGEST_WINDOW <= 2 * RETENTION_DAYS, WEEKLY_WINDOW <= 2 * RETENTION_DAYS
  PROVE  ReportsSpec => ReportedOnce
  <1>1. ReportsInit => OnceInv
    BY DEF ReportsInit, OnceInv, OwedInv, ToldInv
  <1>2. OnceInv /\ [ReportsNext]_reportVars =>
           (told' # told => DOMAIN told' \ DOMAIN told \subseteq sent' \ sent)
    <2> SUFFICES ASSUME OnceInv, [ReportsNext]_reportVars, told' # told
                 PROVE  DOMAIN told' \ DOMAIN told \subseteq sent' \ sent
      OBVIOUS
    <2>1. ASSUME NEW j \in Jobs, up, owed[j] # NULL,
                 NEW notes \in SUBSET Published(j, owed[j]), Tell(notes)
          PROVE  DOMAIN told' \ DOMAIN told \subseteq sent' \ sent
      BY <2>1, CleanedUpIsPast DEF Tell
    <2>2. ASSUME NEW j \in Jobs, RunJob(j) PROVE DOMAIN told' \ DOMAIN told \subseteq sent' \ sent
      BY <2>1, <2>2 DEF RunJob
    <2>3. ASSUME NEW j \in Jobs, JobCutShort(j) PROVE DOMAIN told' \ DOMAIN told \subseteq sent' \ sent
      BY <2>1, <2>3 DEF JobCutShort
    <2>4. CASE runRetention
      BY <2>4 DEF runRetention, Restrict
    <2>5. CASE Stop \/ Start \/ Tick \/ LedgerTool \/ \E p \in Profiles : expenseAdd(p) \/ expenseDelete(p) \/ expenseUpdate(p)
      BY <2>5 DEF Stop, Start, Tick, LedgerTool, expenseAdd, expenseDelete, expenseUpdate, Record
    <2> QED
      BY <2>2, <2>3, <2>4, <2>5 DEF ReportsNext, reportVars, ownVars
  <1> QED
    BY <1>1, <1>2, OnceStep, PTL DEF ReportsSpec, ReportedOnce
=============================================================================
