-------------------------------- MODULE Mail --------------------------------
(* One mail by the SMTP client of src/core/smtp.ts: a dialogue of commands and
   replies with a server that may refuse, fall silent, say goodbye at any moment,
   or take the mail and lose the line before its answer arrives.

   The client writes a command only after it has read the answer to the last one,
   so at most one command is owed an answer; a reply nobody asked for stays in the
   buffer and is read in the place of the next answer.  A reply that has not come
   whole is one that has not come. *)
EXTENDS Integers, Sequences, FiniteSets, SequencesExt

CONSTANTS
    MailUrls,        \* route URLs as they may stand in the database
    MAX_RECIPIENTS,
    Malformed,       \* an address the pattern refuses
    NoUrl,
    \* bounds of the model
    MaxReplies       \* replies under way or unread at one time

ASSUME MailAssumption ==
    /\ NoUrl \notin MailUrls
    /\ \A u \in MailUrls : u.to \in Seq(ToSet(u.to))

VARIABLES
    mailUrl,    \* the route of the mail, NoUrl while none is sent
    stage,      \* what the client waits for
    secured,    \* is the connection encrypted?
    nth,        \* the recipient it names
    coming,     \* replies under way, and those in the buffer
    owed,       \* has the server still to answer what was sent last?
    gone,       \* has the server closed its side?
    rcpts,      \* recipients the server has agreed to
    taken,      \* recipients the server has taken the mail for
    verdict     \* what the channel reports to the outbox

sessionVars == <<mailUrl, stage, secured, nth, coming, owed, gone, rcpts, taken>>

TlsModes == {"plain", "starttls", "implicit"}
Mechanisms == {"LOGIN", "PLAIN"}

MailInit ==
    /\ mailUrl = NoUrl
    /\ stage = "none"
    /\ secured = FALSE
    /\ nth = 0
    /\ coming = <<>>
    /\ owed = FALSE
    /\ gone = FALSE
    /\ rcpts = {}
    /\ taken = {}

-----------------------------------------------------------------------------
(* The route. *)

\* The port decides, unless ?tls= does.
resolveSmtpTls(port, scheme, override) ==
    IF override # "" THEN override
    ELSE IF scheme = "smtps" \/ port = 465 THEN "implicit"
    ELSE IF port = 587 THEN "starttls"
    ELSE "plain"

Ports == 0 .. 65535     \* 0 when the URL names none

\* What parseSmtpRouteUrl accepts.
mailUrlFits(u) ==
    /\ u.scheme \in {"smtp", "smtps"}
    /\ u.port \in Ports
    /\ u.override \in {""} \cup TlsModes
    /\ u.user = u.pass
    /\ u.from # Malformed
    /\ u.to # <<>> /\ Len(u.to) <= MAX_RECIPIENTS
    /\ Malformed \notin ToSet(u.to)

parseSmtpRouteUrl(u) ==
    LET port == IF u.port # 0 THEN u.port ELSE IF u.scheme = "smtps" THEN 465 ELSE 25 IN
    [tls  |-> resolveSmtpTls(port, u.scheme, u.override), auth |-> u.user, to |-> u.to]

\* Read only while a mail is sent.
mail == parseSmtpRouteUrl(mailUrl)

-----------------------------------------------------------------------------
(* The dialogue. *)

Awaiting == {"greeting", "ehlo", "starttls", "login", "user", "password", "plain",
             "from", "rcpt", "data", "body", "quit"}
Open == Awaiting \cup {"connect", "upgrade"}

\* The codes a stage takes for a yes; 503 answers a password that is not needed any
\* more, 251 a recipient the server will forward to.
Yes == [greeting |-> {220}, ehlo |-> {250}, starttls |-> {220},
        login |-> {334}, user |-> {334}, password |-> {235, 503}, plain |-> {235},
        from |-> {250}, rcpt |-> {250, 251}, data |-> {354}, body |-> {250}, quit |-> {221}]

expect(s) == Yes[s]

\* A code that is neither 4xx nor 5xx says nothing certain.
classifyReply(code) ==
    IF code \in 500 .. 599 THEN "terminal_failure"
    ELSE IF code \in 400 .. 499 THEN "confirmed_failure"
    ELSE "transport_failure"

\* Where the dialogue goes after the EHLO that counts: the password goes to a server
\* that has declared a way to receive it, and to no other.
authenticate(mechanisms) ==
    IF ~mail.auth THEN "from"
    ELSE IF "LOGIN" \in mechanisms THEN "login"
    ELSE IF "PLAIN" \in mechanisms THEN "plain"
    ELSE "config error"

following(reply) ==
    CASE stage = "greeting"           -> "ehlo"
      [] stage = "ehlo"               -> IF mail.tls = "starttls" /\ ~secured
                                           THEN "starttls" ELSE authenticate(reply.mechanisms)
      [] stage = "starttls"           -> "upgrade"
      [] stage = "login"              -> "user"
      [] stage = "user"               -> "password"
      [] stage \in {"password", "plain"} -> "from"
      [] stage = "from"               -> "rcpt"
      [] stage = "rcpt"               -> IF nth < Len(mail.to) THEN "rcpt" ELSE "data"
      [] stage = "data"               -> "body"
      [] stage = "body"               -> "quit"
      [] stage = "quit"               -> "done"

\* close(): the session is over, whatever is still under way.
closed(v) ==
    /\ stage' = "done"
    /\ verdict' = v
    /\ owed' = FALSE
    /\ coming' = <<>>
    /\ UNCHANGED <<mailUrl, secured, nth, gone, rcpts, taken>>

\* fail(): once the server has said yes to the body nothing changes the result,
\* QUIT is a courtesy.
fail == closed(IF stage = "quit" THEN verdict ELSE "transport_failure")

\* SmtpConnection.open
openMail(u) ==
    /\ stage = "none"
    /\ mailUrl' = u
    /\ stage' = "connect"
    /\ UNCHANGED <<secured, nth, coming, owed, gone, rcpts, taken, verdict>>

\* With implicit TLS the connection counts from its handshake on.
Connected ==
    /\ stage = "connect"
    /\ stage' = "greeting"
    /\ secured' = (mail.tls = "implicit")
    /\ owed' = TRUE
    /\ UNCHANGED <<mailUrl, nth, coming, gone, rcpts, taken, verdict>>

\* upgrade: TLS on the same connection; what the buffer held is dropped, and
\* the EHLO is said again.
Upgraded ==
    /\ stage = "upgrade"
    /\ ~gone
    /\ secured' = TRUE
    /\ coming' = <<>>
    /\ stage' = "ehlo"
    /\ owed' = TRUE
    /\ UNCHANGED <<mailUrl, nth, gone, rcpts, taken, verdict>>

\* readReply, expect and command: one reply is read and the next command sent.
ReadReply ==
    /\ stage \in Awaiting
    /\ coming # <<>>
    /\ LET reply == Head(coming)
           next  == following(reply) IN
       \/ /\ reply.code \notin expect(stage)
          /\ closed(IF stage = "quit" THEN verdict ELSE classifyReply(reply.code))
       \/ /\ reply.code \in expect(stage)
          /\ next = "config error"
          /\ closed("terminal_failure")
       \/ /\ reply.code \in expect(stage)
          /\ next = "done"
          /\ closed(verdict)
       \/ /\ reply.code \in expect(stage)
          /\ next \notin {"config error", "done"}
          /\ stage' = next
          /\ nth' = IF next = "rcpt" THEN nth + 1 ELSE nth
          /\ coming' = Tail(coming)
          /\ owed' = (next # "upgrade")
          /\ verdict' = IF next = "quit" THEN "sent" ELSE verdict
          /\ UNCHANGED <<mailUrl, secured, gone, rcpts, taken>>

\* The connection is refused, reset or closed, or a handshake fails.
Broken ==
    /\ stage \in Open
    /\ fail

\* The one timer of the session runs out, at whatever it waits for.
DeadlinePasses ==
    /\ stage \in Open
    /\ fail

-----------------------------------------------------------------------------
(* External: the server. *)

Refusals == {199, 421, 550}

\* It answers what it was sent, and does what the answer says.
ServerAnswers ==
    /\ owed /\ ~gone
    /\ Len(coming) < MaxReplies
    /\ \E code \in expect(stage) \cup Refusals, m \in SUBSET Mechanisms :
         /\ stage # "ehlo" => m = {}
         /\ coming' = Append(coming, [code |-> code, mechanisms |-> m])
         /\ rcpts' = IF stage = "rcpt" /\ code \in {250, 251} THEN rcpts \cup {mail.to[nth]} ELSE rcpts
         /\ taken' = IF stage = "body" /\ code = 250 THEN rcpts ELSE taken
    /\ owed' = FALSE
    /\ UNCHANGED <<mailUrl, stage, secured, nth, gone, verdict>>

\* It goes down, with a 421 nobody asked for, and answers nothing more.
ServerLeaves ==
    /\ stage \in Awaiting
    /\ ~gone
    /\ Len(coming) < MaxReplies
    /\ coming' = Append(coming, [code |-> 421, mechanisms |-> {}])
    /\ gone' = TRUE
    /\ owed' = FALSE
    /\ UNCHANGED <<mailUrl, stage, secured, nth, rcpts, taken, verdict>>

MailNext ==
    \/ Connected
    \/ Upgraded
    \/ ReadReply
    \/ Broken
    \/ DeadlinePasses
    \/ ServerAnswers
    \/ ServerLeaves
=============================================================================
