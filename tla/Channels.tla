------------------------------ MODULE Channels ------------------------------
(* One delivery by one of the seven channels of src/core/channels.ts, from the call
   of deliver to the verdict the outbox acts on.  Every channel but log and smtp
   asks one HTTP server; what the server does with the request, and whether its
   answer arrives, is the environment's choice. *)
EXTENDS Mail

CONSTANTS
    Urls,          \* route URLs of the openclaw channel as they may stand in the database
    Targets,       \* targets the configuration may register for the profile
    NoTarget

VARIABLES
    request,   \* the HTTP request under way, or the last one
    far,       \* what the server has made of it
    cut        \* did the answer come without a completion that can be read?

channelVars == <<sessionVars, verdict, request, far, cut>>

NoRequest == [channel |-> "none", waits |-> FALSE]

ChannelsInit ==
    /\ MailInit
    /\ verdict = "none"
    /\ request = NoRequest
    /\ far = "untouched"
    /\ cut = FALSE

-----------------------------------------------------------------------------
(* The route, the target and the credential of the openclaw channel. *)

\* A direct route names the chat, a mapped one the hook.
direct(u) == u.hook = "agent"

\* openclawChannel.validateRoute: a hook of the gateway on this machine, and
\* nothing in the URL that the gateway could read in two ways.
openclawUrlFits(u) ==
    /\ u.flaws = {}
    /\ u.hook # ""
    /\ direct(u) => u.channel \notin {"", "last"} /\ u.to # ""

\* assertOpenclawRouteMatchesTarget
matchesTarget(u, t) ==
    /\ u.origin = t.origin
    /\ u.flaws = {}
    /\ IF t.mode = "mapping" THEN u.hook = t.hook
       ELSE direct(u) /\ u.channel = t.channel /\ u.to = t.to

resolveOpenclawCredentialSource(secret, token, t) ==
    LET own    == IF secret THEN "profile" ELSE "missing"
        shared == IF token THEN "global" ELSE "missing" IN
    IF t # NoTarget THEN IF t.auth = "profile" THEN own ELSE shared
    ELSE IF secret THEN own ELSE shared

\* deliverOne: only a direct route waits, as its target says or else the daemon's setting.
waitsForCompletion(t, setting) ==
    IF t = NoTarget THEN setting ELSE t.mode = "direct" /\ t.waits

-----------------------------------------------------------------------------
(* The verdicts. *)

\* 408, 429 and 5xx may pass; 409 too, where the gateway reloads its settings.
outcomeFromStatus(status, extra) ==
    IF status \in 200 .. 299 THEN "sent"
    ELSE IF status \in {408, 429} \cup (500 .. 599) \cup extra THEN "confirmed_failure"
    ELSE "terminal_failure"

OPENCLAW_RETRYABLE_STATUSES == {409}

extraRetryable == IF request.channel = "openclaw" THEN OPENCLAW_RETRYABLE_STATUSES ELSE {}

openclawCompletionOutcome(c) ==
    IF c.delivered THEN "sent"
    ELSE IF c.suppressed THEN "terminal_failure"
    ELSE IF c.error \/ c.status \notin {"", "ok"} THEN "confirmed_failure"
    ELSE "terminal_failure"

\* Mutant: the 200 is taken for the delivery.
acceptedIsDelivered(completion) == "sent"

\* finishOpenclawDelivery: a 200 says that the agent has run, the completion what
\* became of the message.
finishOpenclawDelivery(completion) ==
    IF ~request.waits THEN "sent"
    ELSE IF completion = {} THEN "terminal_failure"
    ELSE openclawCompletionOutcome(CHOOSE c \in completion : TRUE)

-----------------------------------------------------------------------------
(* deliver, by channel. *)

Unstarted == verdict = "none" /\ request = NoRequest /\ stage = "none"

report(v) ==
    /\ verdict' = v
    /\ UNCHANGED <<sessionVars, far>>

post(channel, waits) ==
    /\ request' = [channel |-> channel, waits |-> waits]
    /\ UNCHANGED <<sessionVars, verdict, far, cut>>

DeliverLog ==
    /\ Unstarted
    /\ report("sent")
    /\ UNCHANGED <<request, cut>>

\* webhook, bark and ntfy post to the URL as it stands.
DeliverPlain ==
    /\ Unstarted
    /\ \E channel \in {"webhook", "bark", "ntfy"} : post(channel, FALSE)

\* telegram reads the chat out of the URL, which may have been spoilt since.
DeliverTelegram ==
    /\ Unstarted
    /\ \/ post("telegram", FALSE)
       \/ report("terminal_failure") /\ UNCHANGED <<request, cut>>

\* The route, the target and the credential are looked at again for each delivery.
DeliverOpenclaw ==
    /\ Unstarted
    /\ \E u \in Urls, t \in Targets \cup {NoTarget}, secret, token, setting \in BOOLEAN :
         LET spoilt == \/ ~openclawUrlFits(u)
                       \/ t # NoTarget /\ ~matchesTarget(u, t)
                       \/ resolveOpenclawCredentialSource(secret, token, t) = "missing" IN
         \/ spoilt /\ report("terminal_failure") /\ UNCHANGED <<request, cut>>
         \/ ~spoilt /\ post("openclaw", direct(u) /\ waitsForCompletion(t, setting))

DeliverMail ==
    /\ Unstarted
    /\ \E u \in MailUrls :
         \/ ~mailUrlFits(u) /\ report("terminal_failure")
         \/ mailUrlFits(u) /\ openMail(u) /\ UNCHANGED far
    /\ UNCHANGED <<request, cut>>

-----------------------------------------------------------------------------
(* The HTTP exchange. *)

Asked == request # NoRequest /\ verdict = "none"

\* External: the server takes the message or refuses it; a gateway the client waits
\* for also runs its agent, which may stay silent or fail to get it through.
ServerActs ==
    /\ Asked
    /\ far = "untouched"
    /\ far' \in {"taken", "refused"} \cup (IF request.waits THEN {"silent", "failed"} ELSE {})
    /\ UNCHANGED <<sessionVars, verdict, request, cut>>

StatusOf(f) ==
    IF f = "refused" THEN {302, 404, 408, 409, 429, 500} ELSE {200}

\* External: what a completion may say.
CompletionOf(f) ==
    CASE f = "taken"  -> {[delivered |-> TRUE, suppressed |-> FALSE, error |-> FALSE, status |-> "ok"]}
      [] f = "silent" -> {[delivered |-> FALSE, suppressed |-> s, error |-> FALSE, status |-> "ok"]
                            : s \in BOOLEAN}
      [] f = "failed" -> {[delivered |-> FALSE, suppressed |-> FALSE, error |-> e, status |-> "error"]
                            : e \in BOOLEAN}

\* postDelivery, postOpenclawDelivery and the webhook's own fetch: the answer arrives.
\* The body is read for the completion only, and one that stops short is empty.
AnswerArrives ==
    /\ Asked
    /\ far # "untouched"
    /\ \E status \in StatusOf(far) :
         IF status \in 200 .. 299
           THEN \/ /\ \E c \in CompletionOf(far) : report(finishOpenclawDelivery({c}))
                   /\ UNCHANGED cut
                \/ /\ report(finishOpenclawDelivery({}))
                   /\ cut' = TRUE
           ELSE report(outcomeFromStatus(status, extraRetryable)) /\ UNCHANGED cut
    /\ UNCHANGED request

\* transportOutcome: no connection, a connection that breaks, or 10 s (30 s for a
\* completion) without a status.
NoAnswer ==
    /\ Asked
    /\ report("transport_failure")
    /\ UNCHANGED <<request, cut>>

ChannelsNext ==
    \/ DeliverLog
    \/ DeliverPlain
    \/ DeliverTelegram
    \/ DeliverOpenclaw
    \/ DeliverMail
    \/ ServerActs
    \/ AnswerArrives
    \/ NoAnswer
    \/ MailNext /\ UNCHANGED <<request, far, cut>>

ChannelsSpec == ChannelsInit /\ [][ChannelsNext]_channelVars

-----------------------------------------------------------------------------
\* The verdict is what the outbox acts on: `sent' marks the notification read and
\* is never tried again, the two refusals say that trying again shows nothing twice.
\* So a mail that is `sent' was taken for every recipient and a message that is
\* `sent' was taken by its server; one that was refused was not taken by anybody,
\* except that a completion cut short is reported as a refusal whatever became of
\* the message.
VerdictMatchesFarEnd ==
    /\ verdict = "sent" =>
         /\ mailUrl # NoUrl => taken = ToSet(mailUrl.to)
         /\ request # NoRequest => far = "taken"
    /\ verdict \in {"confirmed_failure", "terminal_failure"} =>
         /\ taken = {}
         /\ far = "taken" => cut
=============================================================================
