------------------------------ MODULE Service ------------------------------
(* The HTTP service of the daemon: MCP sessions and their calls, the other  *)
(* pages, the links in reminders (server/action.ts), and how a stop waits   *)
(* for what is in flight before it closes the database.                     *)
(*                                                                          *)
(* Handlers of one process interleave at their awaits.  The MCP library is  *)
(* taken to answer a call when its tool has ended.  A link is handled in    *)
(* two steps, between which only the process can die or another request of  *)
(* the same connection run: the tool, then the audit row that remembers it. *)
EXTENDS Naturals, FiniteSets, FiniteSetsExt, Functions, TLC

CONSTANTS
    Members, MASTER,    \* identities of tokens
    Links,              \* links "30 minutes later" sent with one reminder
    DONE,               \* the link "done" of the same reminder
    MAX_SESSIONS, SESSION_IDLE, HTTP_SHUTDOWN_WAIT,
    NoSession,
    MaxConcurrent, MaxRequests, MaxServiceNow, MaxServiceFaults \* bounds

ASSUME ServiceAssumption ==
    /\ MASTER \notin Members /\ DONE \notin Links
    /\ MAX_SESSIONS \in Nat \ {0} /\ SESSION_IDLE \in Nat /\ HTTP_SHUTDOWN_WAIT \in Nat
    /\ MaxRequests \in Nat /\ NoSession \notin Nat

VARIABLES
    phase,      \* down | up | stopping | draining | closed
    stopAt,     \* when the stop began
    left,       \* requests the stop no longer waited for
    sessions,   \* id -> [profile, lastSeen]
    opened,     \* sessions ever opened; ids grow
    req,        \* requests being handled: [pc, kind, as, session, profile, tracked]
    arrived,    \* requests so far
    profiles,   \* profiles on record
    wrote,      \* effects of tools: [as, profile]
    reminder,   \* the occurrence the links are about: notified | done
    audit,      \* links whose use is on record
    snoozed,    \* link -> how often it moved the reminder
    unaudited,  \* link -> how often its use was not put on record
    time, faults

serviceVars == <<phase, stopAt, left, sessions, opened, req, arrived, profiles, wrote,
                 reminder, audit, snoozed, unaudited, time, faults>>

Requests == 1..MaxConcurrent
Identities == Members \cup {MASTER}
Free == [pc |-> "free", kind |-> "page", as |-> MASTER, session |-> NoSession,
         profile |-> MASTER, tracked |-> FALSE]

Running == {i \in Requests : req[i].pc \in {"running", "audit"}}
inFlight == {i \in Running : req[i].tracked}
inFlightLinks == {req[i].session : i \in {j \in Running : req[j].pc = "audit"}}

\* A token of a profile speaks for it alone, the master token for whom it says.
MaySpeakFor(who, p) == who \in {MASTER, p}

ServiceInit ==
    /\ phase = "up" /\ stopAt = 0 /\ left = {}
    /\ sessions = << >> /\ opened = 0
    /\ req = [i \in Requests |-> Free] /\ arrived = 0
    /\ profiles = {} /\ wrote = {}
    /\ reminder = "notified" /\ audit = {}
    /\ snoozed = [t \in Links |-> 0] /\ unaudited = [t \in Links |-> 0]
    /\ time = 0 /\ faults = 0

linkVars == <<reminder, audit, snoozed, unaudited>>
processVars == <<phase, stopAt, left>>
sessionVars == <<sessions, opened>>
boundVars == <<time, faults>>

ServiceFault == faults < MaxServiceFaults /\ faults' = faults + 1

-----------------------------------------------------------------------------
\* Mutant: a stop only stops accepting connections; the open ones go on asking.
openConnections == phase \in {"up", "stopping", "draining"}

\* Once the tracker is closed a request on an open connection is answered 503.
accepts == phase = "up"

begin(kind, who, session, profile, pc) ==
    /\ accepts /\ arrived < MaxRequests
    /\ arrived' = arrived + 1
    /\ Running # Requests
    /\ req' = [req EXCEPT ![CHOOSE i \in Requests \ Running : TRUE] =
          [pc |-> pc, kind |-> kind, as |-> who, session |-> session,
           profile |-> profile, tracked |-> TRUE]]

over(i) == req' = [req EXCEPT ![i] = Free]

-----------------------------------------------------------------------------
(* MCP. *)

\* Idle sessions go, then the longest unused ones above the limit.
sweepSessions(s) ==
    LET live == {id \in DOMAIN s : time - s[id].lastSeen <= SESSION_IDLE}
        newer(id) == {o \in live : \/ s[o].lastSeen > s[id].lastSeen
                                   \/ s[o].lastSeen = s[id].lastSeen /\ o > id}
    IN Restrict(s, {id \in live : Cardinality(newer(id)) < MAX_SESSIONS})

\* A request without a session: a server for the profile is made and connected...
initialize(who, p) ==
    /\ MaySpeakFor(who, p)
    /\ begin("initialize", who, NoSession, p, "running")
    /\ profiles' = profiles \cup {p}
    /\ UNCHANGED <<processVars, sessionVars, wrote, linkVars, boundVars>>

\* ...and remembered when the library has answered.
established(i) ==
    /\ req[i].pc = "running" /\ req[i].kind = "initialize"
    /\ over(i)
    /\ \/ /\ opened' = opened + 1
          /\ sessions' = sweepSessions(sessions @@
                ((opened + 1) :> [profile |-> req[i].profile, lastSeen |-> time]))
       \/ UNCHANGED sessionVars       \* not an initialize: nothing is kept
    /\ UNCHANGED <<processVars, arrived, profiles, wrote, linkVars, boundVars>>

\* 404 for an unknown session, 403 for the session of somebody else.
admitted(who, id) == id \in DOMAIN sessions /\ MaySpeakFor(who, sessions[id].profile)

call(who, id) ==
    /\ admitted(who, id)
    /\ begin("call", who, id, sessions[id].profile, "running")
    /\ sessions' = [sessions EXCEPT ![id].lastSeen = time]
    /\ UNCHANGED <<processVars, opened, profiles, wrote, linkVars, boundVars>>

\* The tool writes for the profile of its session, also when that is gone by now.
callEnds(i) ==
    /\ req[i].pc = "running" /\ req[i].kind = "call"
    /\ over(i)
    /\ wrote' = IF phase = "closed" THEN wrote
                ELSE wrote \cup {[as |-> req[i].as, profile |-> req[i].profile]}
    /\ UNCHANGED <<processVars, sessionVars, arrived, profiles, linkVars, boundVars>>

deleteSession(who, id) ==
    /\ accepts /\ admitted(who, id)
    /\ sessions' = Restrict(sessions, DOMAIN sessions \ {id})
    /\ UNCHANGED <<processVars, opened, req, arrived, profiles, wrote, linkVars, boundVars>>

\* Every 20 seconds, while the timers run.
sweep ==
    /\ phase = "up" /\ sweepSessions(sessions) # sessions
    /\ sessions' = sweepSessions(sessions)
    /\ UNCHANGED <<processVars, opened, req, arrived, profiles, wrote, linkVars, boundVars>>

-----------------------------------------------------------------------------
(* Other requests: counted until their connection is closed. *)

page ==
    /\ begin("page", MASTER, NoSession, MASTER, "running")
    /\ UNCHANGED <<processVars, sessionVars, profiles, wrote, linkVars, boundVars>>

pageEnds(i) ==
    /\ req[i].pc = "running" /\ req[i].kind = "page"
    /\ over(i)
    /\ UNCHANGED <<processVars, sessionVars, arrived, profiles, wrote, linkVars, boundVars>>

clientGone(i) ==
    /\ i \in inFlight /\ req[i].kind \in {"page", "link"}
    /\ req' = [req EXCEPT ![i].tracked = FALSE]
    /\ UNCHANGED <<processVars, sessionVars, arrived, profiles, wrote, linkVars, boundVars>>

-----------------------------------------------------------------------------
(* POST /a/:token *)

\* Mutant: a link that is being handled may be handled once more.
notUsedBefore(t) == t \notin audit

\* Neither being handled, nor on record, nor about an event that is settled.
linkFresh(t) == t \notin inFlightLinks /\ t \notin audit /\ reminder = "notified"

linkPost(t) ==
    /\ linkFresh(t)
    /\ begin("link", MASTER, t, MASTER, "audit")
    /\ IF t = DONE THEN reminder' = "done" /\ UNCHANGED snoozed
                   ELSE snoozed' = [snoozed EXCEPT ![t] = @ + 1] /\ UNCHANGED reminder
    /\ UNCHANGED <<processVars, sessionVars, profiles, wrote, audit, unaudited, boundVars>>

\* recordAudit swallows its errors: the page says that it is done all the same.
linkAudit(i) ==
    /\ req[i].pc = "audit" /\ over(i)
    /\ LET t == req[i].session IN
       \/ phase # "closed" /\ audit' = audit \cup {t} /\ UNCHANGED <<unaudited, faults>>
       \/ /\ (phase = "closed" /\ UNCHANGED faults) \/ ServiceFault
          /\ unaudited' = (IF t = DONE THEN unaudited ELSE [unaudited EXCEPT ![t] = @ + 1])
          /\ UNCHANGED audit
    /\ UNCHANGED <<processVars, sessionVars, arrived, profiles, wrote, reminder, snoozed, time>>

-----------------------------------------------------------------------------
(* The process. *)

\* stop(): refuse what comes, then wait for what is in flight, but not for ever.
stop ==
    /\ phase = "up"
    /\ phase' = "stopping" /\ stopAt' = time
    /\ UNCHANGED <<left, sessionVars, req, arrived, profiles, wrote, linkVars, boundVars>>

waitForIdle ==
    /\ phase = "stopping"
    /\ inFlight = {} \/ time - stopAt >= HTTP_SHUTDOWN_WAIT
    /\ phase' = "draining" /\ left' = inFlight
    /\ UNCHANGED <<stopAt, sessionVars, req, arrived, profiles, wrote, linkVars, boundVars>>

\* After the wait for the outbox, which is part of Jobs.
closeDatabase ==
    /\ phase = "draining"
    /\ phase' = "closed" /\ sessions' = << >>
    /\ UNCHANGED <<stopAt, left, opened, req, arrived, profiles, wrote, linkVars, boundVars>>

\* The process ends: after a stop, at a second signal (stop() returns at once), or killed.
exit ==
    /\ phase # "down"
    /\ \/ phase \in {"stopping", "draining", "closed"} /\ UNCHANGED faults
       \/ ServiceFault
    /\ phase' = "down" /\ left' = {} /\ sessions' = << >>
    /\ unaudited' = [t \in Links |->
          unaudited[t] + Cardinality({i \in Running : req[i].pc = "audit" /\ req[i].session = t})]
    /\ req' = [i \in Requests |-> Free]
    /\ UNCHANGED <<stopAt, opened, arrived, profiles, wrote, reminder, audit, snoozed, time>>

start ==
    /\ phase = "down" /\ phase' = "up"
    /\ UNCHANGED <<stopAt, left, sessionVars, req, arrived, profiles, wrote, linkVars, boundVars>>

timePasses ==
    /\ time < MaxServiceNow /\ time' = time + 1
    /\ UNCHANGED <<processVars, sessionVars, req, arrived, profiles, wrote, linkVars, faults>>

-----------------------------------------------------------------------------
Handled(i) == established(i) \/ callEnds(i) \/ pageEnds(i) \/ clientGone(i) \/ linkAudit(i)

Asked(who) ==
    \/ \E p \in Members : initialize(who, p)
    \/ \E id \in DOMAIN sessions : call(who, id) \/ deleteSession(who, id)

ServiceNext ==
    \/ \E who \in Identities : Asked(who)
    \/ \E t \in Links \cup {DONE} : linkPost(t)
    \/ \E i \in Requests : Handled(i)
    \/ page \/ sweep \/ stop \/ waitForIdle \/ closeDatabase \/ exit \/ start \/ timePasses

ServiceSpec == ServiceInit /\ [][ServiceNext]_serviceVars

-----------------------------------------------------------------------------
\* Once stop() has closed the database no handler that it had promised to wait for
\* runs on: what is left had used up the wait or lost its client (core/inflight.ts:4).
ClosedIsQuiet == phase = "closed" => inFlight \subseteq left

\* What a tool wrote it wrote for the profile its caller's token speaks for, whatever
\* sessions were closed, swept or lost in a restart meanwhile.
ActsForItsCaller == \A e \in wrote : MaySpeakFor(e.as, e.profile)

\* A link moves its reminder once, however often it is pressed and across restarts,
\* but for uses whose record was lost with the process or by a failing write.
LinkActsOnce == \A t \in Links : snoozed[t] <= 1 + unaudited[t]
=============================================================================
