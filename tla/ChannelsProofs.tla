--------------------------- MODULE ChannelsProofs ---------------------------
(* The verdict of a channel agrees with what became of the message, for any routes,
   any recipients, any server.

   The case that takes work is mail: the client reads the reply at the head of its
   buffer as the answer to its last command, although a server that leaves puts a
   reply there that answers nothing. *)
EXTENDS Channels, SequenceTheorems, TLAPS

Reply == [code : Nat, mechanisms : SUBSET Mechanisms]

\* Before the first recipient is named.
Preliminary == {"connect", "greeting", "ehlo", "starttls", "upgrade", "login", "user",
                "password", "plain", "from"}

to == mailUrl.to
Accepted(codes) == coming # <<>> /\ coming[1].code \in codes

\* Behind the head of the buffer there is at most the goodbye, and a command that is
\* still to be answered finds the buffer empty or the server gone.
BufferInOrder ==
    /\ coming \in Seq(Reply)
    /\ \A k \in 2 .. Len(coming) : coming[k].code = 421
    /\ Len(coming) >= 2 => gone
    /\ owed /\ coming # <<>> => gone
    /\ owed => stage \in Awaiting
    /\ stage \in {"none", "connect"} => coming = <<>>

MailTyped ==
    /\ stage \in {"none", "done"} \cup Open
    /\ stage = "none" => mailUrl = NoUrl
    /\ stage # "none" => mailUrl \in MailUrls /\ to # <<>>
    /\ stage \in Open => verdict = IF stage = "quit" THEN "sent" ELSE "none"

\* How far the recipients are agreed upon, and for whom the mail is taken.
RecipientsInOrder ==
    /\ stage \in Preliminary \cup {"none"} => nth = 0 /\ rcpts = {} /\ taken = {}
    /\ stage = "rcpt" =>
         /\ nth \in 1 .. Len(to)
         /\ taken = {}
         /\ rcpts \subseteq ToSet(to)
         /\ \A k \in 1 .. nth - 1 : to[k] \in rcpts
         /\ Accepted({250, 251}) => to[nth] \in rcpts
    /\ stage \in {"data", "body", "quit"} => rcpts = ToSet(to)
    /\ stage = "data" => taken = {}
    /\ stage = "body" => taken = IF Accepted({250}) THEN rcpts ELSE {}
    /\ stage = "quit" => taken = rcpts

MailEnds ==
    stage = "done" =>
        /\ verdict = "sent" => taken = ToSet(to)
        /\ verdict \in {"confirmed_failure", "terminal_failure"} => taken = {}

MailInv == BufferInOrder /\ MailTyped /\ RecipientsInOrder /\ MailEnds

\* The session ends at a moment when the mail is taken for nobody, or with a verdict
\* that is no refusal and no success.
LEMMA SessionClosed ==
  ASSUME MailInv, stage \in Open, NEW v, closed(v),
         \/ stage # "quit" /\ v # "sent" /\ taken = {}
         \/ stage # "quit" /\ v = "transport_failure"
         \/ stage = "quit" /\ v = verdict
  PROVE  MailInv'
  <1>1. BufferInOrder'
    BY DEF closed, BufferInOrder, Open
  <1>2. MailTyped'
    BY DEF closed, MailInv, MailTyped, Open, Awaiting, to
  <1>3. RecipientsInOrder'
    BY DEF closed, RecipientsInOrder, Preliminary
  <1>4. MailEnds'
    <2>1. verdict' = v /\ UNCHANGED <<mailUrl, taken>>
      BY DEF closed
    <2>2. CASE stage # "quit"
      BY <2>1, <2>2 DEF MailEnds
    <2>3. CASE stage = "quit"
      <3>1. taken = ToSet(to) /\ verdict' = "sent"
        BY <2>1, <2>3 DEF MailInv, MailTyped, RecipientsInOrder
      <3>2. taken' = ToSet(to)'
        BY <2>1, <3>1 DEF to
      <3> QED
        BY <3>1, <3>2 DEF MailEnds
    <2> QED
      BY <2>2, <2>3
  <1> QED
    BY <1>1, <1>2, <1>3, <1>4 DEF MailInv

LEMMA SessionFails ==
  ASSUME MailInv, stage \in Open, fail
  PROVE  MailInv'
  BY SessionClosed DEF fail

\* What is left in the buffer after a reply is read answers nothing.
LEMMA RestOfTheBuffer ==
  ASSUME BufferInOrder, coming # <<>>
  PROVE  /\ Tail(coming) \in Seq(Reply)
         /\ Len(Tail(coming)) = Len(coming) - 1
         /\ Tail(coming) # <<>> => gone
         /\ \A k \in 1 .. Len(Tail(coming)) : Tail(coming)[k].code = 421
         /\ Head(coming) = coming[1] /\ coming[1] \in Reply
  <1>1. coming \in Seq(Reply) /\ Len(coming) \in Nat \ {0}
    BY EmptySeq, LenProperties DEF BufferInOrder
  <1>2. Tail(coming) \in Seq(Reply) /\ Len(Tail(coming)) = Len(coming) - 1
    BY <1>1
  <1>3. ASSUME NEW k \in 1 .. Len(Tail(coming)) PROVE Tail(coming)[k].code = 421
    BY <1>1, <1>2 DEF BufferInOrder
  <1>4. Tail(coming) # <<>> => gone
    BY <1>1, <1>2 DEF BufferInOrder
  <1>5. Head(coming) = coming[1] /\ coming[1] \in Reply
    BY <1>1
  <1> QED
    BY <1>2, <1>3, <1>4, <1>5

LEMMA ConnectionMade ==
  ASSUME MailInv, Connected \/ Upgraded
  PROVE  MailInv'
  <1>1. /\ stage \in {"connect", "upgrade"} /\ stage' \in {"greeting", "ehlo"} /\ owed'
        /\ coming' = <<>> /\ UNCHANGED <<mailUrl, nth, rcpts, taken, verdict>>
    BY DEF Connected, Upgraded, MailInv, BufferInOrder
  <1>2. BufferInOrder'
    BY <1>1 DEF BufferInOrder, Awaiting
  <1>3. MailTyped'
    BY <1>1 DEF MailInv, MailTyped, Open, Awaiting, to
  <1>4. RecipientsInOrder' /\ MailEnds'
    BY <1>1 DEF MailInv, RecipientsInOrder, MailEnds, Preliminary
  <1> QED
    BY <1>2, <1>3, <1>4 DEF MailInv

\* A reply that is read as a yes is the answer to the command of the stage.
LEMMA RepliesAreRead ==
  ASSUME MailInv, ReadReply
  PROVE  MailInv'
  <1> DEFINE reply == Head(coming)
             next  == following(reply)
  <1>1. stage \in Awaiting /\ stage \in Open /\ coming # <<>> /\ reply = coming[1]
    BY RestOfTheBuffer DEF ReadReply, Open, MailInv
  <1>2. CASE /\ reply.code \notin expect(stage)
             /\ closed(IF stage = "quit" THEN verdict ELSE classifyReply(reply.code))
    <2>1. stage \in {"rcpt", "data", "body", "quit"} \cup Preliminary
      BY <1>1 DEF Awaiting, Preliminary
    <2>2. CASE stage = "quit"
      BY <1>1, <1>2, <2>2, SessionClosed
    <2>3. CASE stage = "body"
      <3>1. reply.code # 250
        BY <1>2, <2>3 DEF expect, Yes
      <3>2. taken = {}
        BY <1>1, <2>3, <3>1 DEF MailInv, RecipientsInOrder, Accepted
      <3> QED
        BY <1>1, <1>2, <2>3, <3>2, SessionClosed DEF classifyReply
    <2>4. CASE stage \notin {"body", "quit"}
      <3>1. taken = {}
        BY <2>1, <2>4 DEF MailInv, RecipientsInOrder
      <3> QED
        BY <1>1, <1>2, <2>4, <3>1, SessionClosed DEF classifyReply
    <2> QED
      BY <2>2, <2>3, <2>4
  <1>3. CASE reply.code \in expect(stage) /\ next = "config error" /\ closed("terminal_failure")
    <2>1. stage = "ehlo"
      BY <1>1, <1>3 DEF following, Awaiting
    <2>2. taken = {}
      BY <2>1 DEF MailInv, RecipientsInOrder, Preliminary
    <2> QED
      BY <1>1, <1>3, <2>1, <2>2, SessionClosed
  <1>4. CASE reply.code \in expect(stage) /\ next = "done" /\ closed(verdict)
    <2>1. stage = "quit"
      BY <1>1, <1>4 DEF following, authenticate, Awaiting
    <2> QED
      BY <1>1, <1>4, <2>1, SessionClosed
  <1>5. CASE /\ reply.code \in expect(stage)
             /\ next \notin {"config error", "done"}
             /\ stage' = next
             /\ nth' = (IF next = "rcpt" THEN nth + 1 ELSE nth)
             /\ coming' = Tail(coming)
             /\ owed' = (next # "upgrade")
             /\ verdict' = (IF next = "quit" THEN "sent" ELSE verdict)
             /\ UNCHANGED <<mailUrl, secured, gone, rcpts, taken>>
    <2>1. /\ coming' \in Seq(Reply) /\ (coming' # <<>> => gone)
          /\ \A k \in 1 .. Len(coming') : coming'[k].code = 421
      BY <1>1, <1>5, RestOfTheBuffer DEF MailInv
    <2>2. ~Accepted({250, 251})' /\ ~Accepted({250})'
      <3>1. coming' # <<>> => 1 \in 1 .. Len(coming')
        BY <2>1, EmptySeq, LenProperties
      <3> QED
        BY <2>1, <3>1 DEF Accepted
    <2>3. \/ stage \in Preliminary /\ next \in (Preliminary \ {"connect"}) \cup {"rcpt"}
          \/ stage = "rcpt" /\ next = (IF nth < Len(to) THEN "rcpt" ELSE "data")
          \/ stage = "data" /\ next = "body"
          \/ stage = "body" /\ next = "quit"
      <3>1. CASE stage \in {"greeting", "ehlo", "starttls", "login", "user", "password", "plain",
                           "from"}
        <4>1. next \in {"config error", "ehlo", "starttls", "upgrade", "login", "user", "password",
                        "plain", "from", "rcpt"}
          BY <3>1 DEF following, authenticate
        <4> QED
          BY <1>5, <3>1, <4>1 DEF Preliminary
      <3>2. CASE stage = "rcpt"
        BY <3>2 DEF following, mail, parseSmtpRouteUrl, to
      <3>3. CASE stage \in {"data", "body"}
        BY <3>3 DEF following
      <3>4. CASE stage = "quit"
        BY <1>5, <3>4 DEF following
      <3> QED
        BY <1>1, <3>1, <3>2, <3>3, <3>4 DEF Awaiting
    <2>4. BufferInOrder'
      <3>1. next \notin {"none", "connect"} /\ (next # "upgrade" => next \in Awaiting)
        BY <2>3 DEF Preliminary, Awaiting
      <3>2. UNCHANGED gone /\ stage' = next /\ (owed' => next # "upgrade")
        BY <1>5
      <3>3. \A k \in 2 .. Len(coming') : k \in 1 .. Len(coming')
        BY <2>1
      <3>4. Len(coming') >= 2 => coming' # <<>>
        BY <2>1
      <3> HIDE DEF next
      <3> QED
        BY <2>1, <3>1, <3>2, <3>3, <3>4 DEF BufferInOrder
    <2>5. MailTyped'
      <3>1. next \in Open /\ (stage = "quit" <=> FALSE)
        BY <2>3 DEF Preliminary, Awaiting, Open
      <3> QED
        BY <1>1, <1>5, <3>1 DEF MailInv, MailTyped, to, Open, Awaiting
    <2>6. RecipientsInOrder'
      <3> HIDE DEF next, reply
      <3>1. CASE stage \in Preliminary
        <4>1. nth = 0 /\ rcpts = {} /\ taken = {}
          BY <3>1 DEF MailInv, RecipientsInOrder
        <4>2. CASE next = "rcpt"
          <5>1. Len(to) \in Nat \ {0}
            BY <1>1, EmptySeq, LenProperties, MailAssumption DEF MailInv, MailTyped, to, Open, Awaiting
          <5>2. nth' = 1 /\ rcpts' = {} /\ taken' = {} /\ stage' = "rcpt" /\ to' = to
            BY <1>5, <4>1, <4>2 DEF to
          <5> QED
            BY <2>2, <5>1, <5>2 DEF RecipientsInOrder, Preliminary
        <4>3. CASE next # "rcpt"
          BY <1>5, <2>3, <3>1, <4>1, <4>3 DEF RecipientsInOrder, Preliminary
        <4> QED
          BY <4>2, <4>3
      <3>2. CASE stage = "rcpt"
        <4>1. /\ nth \in 1 .. Len(to) /\ taken = {} /\ rcpts \subseteq ToSet(to)
              /\ \A k \in 1 .. nth : to[k] \in rcpts
          <5>1. Accepted({250, 251})
            BY <1>1, <1>5, <3>2 DEF Accepted, expect, Yes, reply
          <5> QED
            BY <3>2, <5>1 DEF MailInv, RecipientsInOrder
        <4>2. Len(to) \in Nat
          BY <1>1, LenProperties, MailAssumption DEF MailInv, MailTyped, to, Open, Awaiting
        <4>3. to' = to /\ rcpts' = rcpts /\ taken' = taken /\ stage' = next
          BY <1>5 DEF to
        <4>4. CASE nth < Len(to)
          <5>1. next = "rcpt" /\ nth' = nth + 1
            BY <1>5, <2>3, <3>2, <4>4 DEF Preliminary
          <5>2. nth' \in 1 .. Len(to) /\ \A k \in 1 .. nth' - 1 : k \in 1 .. nth
            BY <4>1, <4>2, <4>4, <5>1
          <5> QED
            BY <2>2, <4>1, <4>3, <5>1, <5>2 DEF RecipientsInOrder, Preliminary
        <4>5. CASE ~(nth < Len(to))
          <5>1. next = "data" /\ nth = Len(to)
            BY <2>3, <3>2, <4>1, <4>2, <4>5 DEF Preliminary
          <5>2. ToSet(to) \subseteq rcpts
            BY <4>1, <5>1, MailAssumption DEF ToSet, MailInv, MailTyped, to
          <5> QED
            BY <4>1, <4>3, <5>1, <5>2 DEF RecipientsInOrder, Preliminary
        <4> QED
          BY <4>4, <4>5
      <3>3. CASE stage \in {"data", "body"}
        <4>1. rcpts = ToSet(to) /\ to' = to /\ rcpts' = rcpts /\ taken' = taken /\ stage' = next
          BY <1>5, <3>3 DEF MailInv, RecipientsInOrder, to
        <4>2. CASE stage = "data"
          <5>1. taken = {} /\ next = "body"
            BY <2>3, <4>2 DEF MailInv, RecipientsInOrder, Preliminary
          <5> QED
            BY <2>2, <4>1, <5>1 DEF RecipientsInOrder, Preliminary
        <4>3. CASE stage = "body"
          <5>1. Accepted({250})
            BY <1>1, <1>5, <4>3 DEF Accepted, expect, Yes, reply
          <5>2. taken = rcpts /\ next = "quit"
            BY <2>3, <4>3, <5>1 DEF MailInv, RecipientsInOrder, Preliminary
          <5> QED
            BY <4>1, <5>2 DEF RecipientsInOrder, Preliminary
        <4> QED
          BY <3>3, <4>2, <4>3
      <3> QED
        BY <2>3, <3>1, <3>2, <3>3
    <2>7. MailEnds'
      BY <1>5 DEF MailEnds
    <2> QED
      BY <2>4, <2>5, <2>6, <2>7 DEF MailInv
  <1> QED
    BY <1>2, <1>3, <1>4, <1>5 DEF ReadReply

\* The server does what its answer says, and the answer is alone in the buffer.
LEMMA AnswersAreMeant ==
  ASSUME MailInv, ServerAnswers
  PROVE  MailInv'
  <1>1. coming = <<>> /\ stage \in Awaiting
    BY DEF ServerAnswers, MailInv, BufferInOrder
  <1>2. PICK code \in expect(stage) \cup Refusals, m \in SUBSET Mechanisms :
          /\ coming' = Append(coming, [code |-> code, mechanisms |-> m])
          /\ rcpts' = (IF stage = "rcpt" /\ code \in {250, 251} THEN rcpts \cup {mail.to[nth]} ELSE rcpts)
          /\ taken' = (IF stage = "body" /\ code = 250 THEN rcpts ELSE taken)
    BY DEF ServerAnswers
  <1>3. ~owed' /\ UNCHANGED <<mailUrl, stage, nth, gone, verdict, to>>
    BY DEF ServerAnswers, to
  <1>4. code \in Nat
    BY <1>1 DEF expect, Yes, Refusals, Awaiting
  <1>5. coming' = <<[code |-> code, mechanisms |-> m]>>
    BY <1>1, <1>2
  <1>6. coming' \in Seq(Reply) /\ Len(coming') = 1 /\ coming' # <<>> /\ coming'[1].code = code
    BY <1>4, <1>5 DEF Reply
  <1>7. BufferInOrder'
    BY <1>1, <1>3, <1>6 DEF BufferInOrder, Awaiting
  <1>8. MailTyped' /\ MailEnds'
    BY <1>1, <1>3 DEF MailInv, MailTyped, MailEnds, Awaiting
  <1>9. RecipientsInOrder'
    <2>1. CASE stage = "rcpt"
      <3>1. nth \in 1 .. Len(to) /\ to \in Seq(ToSet(to)) /\ mail.to[nth] = to[nth]
        BY <2>1, MailAssumption DEF MailInv, RecipientsInOrder, MailTyped, to, mail, parseSmtpRouteUrl
      <3>2. to[nth] \in ToSet(to)
        BY <3>1 DEF ToSet
      <3>3. taken' = taken
        BY <1>2, <2>1
      <3>4. IF code \in {250, 251} THEN rcpts' = rcpts \cup {to[nth]} ELSE rcpts' = rcpts
        BY <1>2, <2>1, <3>1
      <3>5. Accepted({250, 251})' => code \in {250, 251}
        BY <1>6 DEF Accepted
      <3> QED
        BY <1>3, <2>1, <3>1, <3>2, <3>3, <3>4, <3>5 DEF MailInv, RecipientsInOrder, Preliminary
    <2>2. CASE stage = "body"
      <3>1. rcpts' = rcpts /\ (Accepted({250})' <=> code = 250)
        BY <1>2, <1>6, <2>2 DEF Accepted
      <3>2. taken = {}
        BY <1>1, <2>2 DEF MailInv, RecipientsInOrder, Accepted
      <3> QED
        BY <1>2, <1>3, <2>2, <3>1, <3>2 DEF MailInv, RecipientsInOrder, Preliminary
    <2>3. CASE stage \notin {"rcpt", "body"}
      BY <1>1, <1>2, <1>3, <2>3 DEF MailInv, RecipientsInOrder, Awaiting
    <2> QED
      BY <2>1, <2>2, <2>3
  <1> QED
    BY <1>7, <1>8, <1>9 DEF MailInv

\* A goodbye is a yes to nothing.
LEMMA GoodbyesAreRefusals ==
  ASSUME MailInv, ServerLeaves
  PROVE  MailInv'
  <1> DEFINE bye == [code |-> 421, mechanisms |-> {}]
  <1>1. /\ stage \in Awaiting /\ ~gone /\ coming' = Append(coming, bye) /\ gone' /\ ~owed'
        /\ UNCHANGED <<mailUrl, stage, nth, rcpts, taken, verdict>>
    BY DEF ServerLeaves
  <1>2. coming \in Seq(Reply) /\ bye \in Reply /\ Len(coming) \in Nat /\ Len(coming) < 2
    BY <1>1 DEF MailInv, BufferInOrder, Reply
  <1>3. /\ coming' \in Seq(Reply) /\ Len(coming') = Len(coming) + 1
        /\ coming'[Len(coming) + 1].code = 421
        /\ coming # <<>> => coming'[1] = coming[1]
    BY <1>1, <1>2
  <1>4. coming = <<>> <=> Len(coming) = 0
    BY <1>2
  <1>5. BufferInOrder'
    BY <1>1, <1>2, <1>3, <1>4 DEF BufferInOrder, Awaiting
  <1>6. MailTyped' /\ MailEnds'
    BY <1>1 DEF MailInv, MailTyped, MailEnds, Awaiting, to
  <1>7. \A codes : 421 \notin codes => (Accepted(codes)' <=> Accepted(codes))
    BY <1>2, <1>3, <1>4 DEF Accepted
  <1>8. (Accepted({250})' <=> Accepted({250})) /\ (Accepted({250, 251})' <=> Accepted({250, 251}))
    BY <1>7
  <1>9. RecipientsInOrder'
    BY <1>1, <1>8 DEF MailInv, RecipientsInOrder, to
  <1> QED
    BY <1>5, <1>6, <1>9 DEF MailInv

LEMMA MailOpened ==
  ASSUME MailInv, NEW u \in MailUrls, mailUrlFits(u), openMail(u), verdict = "none"
  PROVE  MailInv'
  <1>1. /\ stage = "none" /\ stage' = "connect" /\ to' = u.to /\ mailUrl' = u
        /\ UNCHANGED <<nth, coming, owed, gone, rcpts, taken, verdict>>
    BY DEF openMail, to
  <1>2. BufferInOrder' /\ RecipientsInOrder' /\ MailEnds'
    BY <1>1 DEF MailInv, BufferInOrder, RecipientsInOrder, MailEnds, Preliminary, Awaiting
  <1>3. MailTyped'
    <2>1. u.to # <<>>
      BY DEF mailUrlFits
    <2> QED
      BY <1>1, <2>1 DEF MailTyped, Open, to
  <1> QED
    BY <1>2, <1>3 DEF MailInv

LEMMA MailKept ==
  ASSUME MailInv, MailNext
  PROVE  MailInv'
  <1>1. CASE Broken \/ DeadlinePasses
    BY <1>1, SessionFails DEF Broken, DeadlinePasses
  <1> QED
    BY <1>1, ConnectionMade, RepliesAreRead, AnswersAreMeant, GoodbyesAreRefusals DEF MailNext

-----------------------------------------------------------------------------
(* A delivery is a mail or an exchange with an HTTP server, never both. *)

Refused == verdict \in {"confirmed_failure", "terminal_failure"}

ExchangeInOrder ==
    /\ far \in {"untouched", "taken", "refused", "silent", "failed"}
    /\ request = NoRequest => far = "untouched"
    /\ request # NoRequest => stage = "none"
    /\ far \in {"silent", "failed"} => request.waits
    /\ verdict = "sent" /\ request # NoRequest => far = "taken"
    /\ Refused /\ far = "taken" => cut

ChannelInv == MailInv /\ ExchangeInOrder

LEMMA MailAtRest ==
  ASSUME MailInv, stage = "none", UNCHANGED sessionVars
  PROVE  MailInv'
  BY DEF sessionVars, MailInv, BufferInOrder, MailTyped, RecipientsInOrder, MailEnds, Preliminary,
         Open, Awaiting, Accepted, to

\* A completion says what became of the message.
LEMMA CompletionsAreMeant ==
  ASSUME NEW f \in {"taken", "silent", "failed"}, NEW c \in CompletionOf(f)
  PROVE  openclawCompletionOutcome(c) = "sent" <=> f = "taken"
  BY DEF CompletionOf, openclawCompletionOutcome

LEMMA AnswerKeeps ==
  ASSUME ChannelInv, AnswerArrives
  PROVE  ChannelInv'
  <1>1. request # NoRequest /\ verdict = "none" /\ far # "untouched" /\ stage = "none"
    BY DEF AnswerArrives, Asked, ChannelInv, ExchangeInOrder
  <1>2. PICK status \in StatusOf(far) :
          IF status \in 200 .. 299
            THEN \/ /\ \E c \in CompletionOf(far) : report(finishOpenclawDelivery({c}))
                    /\ UNCHANGED cut
                 \/ /\ report(finishOpenclawDelivery({}))
                    /\ cut' = TRUE
            ELSE report(outcomeFromStatus(status, extraRetryable)) /\ UNCHANGED cut
    BY DEF AnswerArrives
  <1>3. UNCHANGED <<sessionVars, far, request, stage>>
    BY <1>2 DEF AnswerArrives, report, sessionVars
  <1>4. MailInv'
    BY <1>1, <1>3, MailAtRest DEF ChannelInv
  <1>5. CASE far = "refused"
    <2>1. status \notin 200 .. 299
      BY <1>2, <1>5 DEF StatusOf
    <2>2. verdict' # "sent"
      BY <1>2, <2>1 DEF report, outcomeFromStatus
    <2> QED
      BY <1>1, <1>3, <1>4, <1>5, <2>2 DEF ChannelInv, ExchangeInOrder, Refused
  <1>6. CASE far \in {"taken", "silent", "failed"}
    <2>1. status \in 200 .. 299
      BY <1>2, <1>6 DEF StatusOf
    <2>2. CASE cut' = TRUE /\ report(finishOpenclawDelivery({}))
      <3>1. verdict' = IF ~request.waits THEN "sent" ELSE "terminal_failure"
        BY <2>2 DEF report, finishOpenclawDelivery
      <3> QED
        BY <1>1, <1>3, <1>4, <1>6, <2>2, <3>1 DEF ChannelInv, ExchangeInOrder, Refused
    <2>3. ASSUME NEW c \in CompletionOf(far), report(finishOpenclawDelivery({c}))
          PROVE  ChannelInv'
      <3>1. (CHOOSE d \in {c} : TRUE) = c
        OBVIOUS
      <3>2. verdict' = IF ~request.waits THEN "sent" ELSE openclawCompletionOutcome(c)
        BY <2>3, <3>1 DEF report, finishOpenclawDelivery
      <3>3. openclawCompletionOutcome(c) = "sent" <=> far = "taken"
        BY <1>6, CompletionsAreMeant
      <3>4. verdict' = "sent" <=> far = "taken"
        BY <1>6, <3>2, <3>3 DEF ChannelInv, ExchangeInOrder
      <3> QED
        BY <1>1, <1>3, <1>4, <1>6, <3>4 DEF ChannelInv, ExchangeInOrder, Refused
    <2> QED
      BY <1>2, <2>1, <2>2, <2>3
  <1> QED
    BY <1>1, <1>5, <1>6 DEF ChannelInv, ExchangeInOrder

LEMMA DeliveryKeeps ==
  ASSUME ChannelInv,
         DeliverLog \/ DeliverPlain \/ DeliverTelegram \/ DeliverOpenclaw
  PROVE  ChannelInv'
  <1>1. verdict = "none" /\ request = NoRequest /\ stage = "none" /\ far = "untouched"
    BY DEF DeliverLog, DeliverPlain, DeliverTelegram, DeliverOpenclaw, Unstarted, ChannelInv,
           ExchangeInOrder
  <1>2. CASE (\E v : report(v)) /\ UNCHANGED <<request, cut>>
    <2>1. UNCHANGED <<sessionVars, far, request, stage>>
      BY <1>2 DEF report, sessionVars
    <2>2. MailInv'
      BY <1>1, <2>1, MailAtRest DEF ChannelInv
    <2> QED
      BY <1>1, <2>1, <2>2 DEF ChannelInv, ExchangeInOrder, Refused
  <1>3. CASE \E channel, waits : post(channel, waits)
    <2>1. UNCHANGED <<sessionVars, far, verdict, stage>>
      BY <1>3 DEF post, sessionVars
    <2>2. MailInv'
      BY <1>1, <2>1, MailAtRest DEF ChannelInv
    <2> QED
      BY <1>1, <2>1, <2>2 DEF ChannelInv, ExchangeInOrder, Refused
  <1> QED
    BY <1>2, <1>3 DEF DeliverLog, DeliverPlain, DeliverTelegram, DeliverOpenclaw

LEMMA ChannelsKeep ==
  ASSUME ChannelInv, [ChannelsNext]_channelVars
  PROVE  ChannelInv'
  <1>1. CASE DeliverMail
    <2>1. /\ verdict = "none" /\ request = NoRequest /\ stage = "none" /\ far = "untouched"
          /\ UNCHANGED <<request, far>>
      BY <1>1 DEF DeliverMail, Unstarted, ChannelInv, ExchangeInOrder, report
    <2>2. PICK u \in MailUrls :
             \/ ~mailUrlFits(u) /\ report("terminal_failure")
             \/ mailUrlFits(u) /\ openMail(u) /\ UNCHANGED far
      BY <1>1 DEF DeliverMail
    <2>3. MailInv'
      BY <2>1, <2>2, MailAtRest, MailOpened DEF ChannelInv, report
    <2> QED
      BY <2>1, <2>3 DEF ChannelInv, ExchangeInOrder, Refused
  <1>2. CASE ServerActs
    <2>1. request # NoRequest /\ verdict = "none" /\ stage = "none"
      BY <1>2 DEF ServerActs, Asked, ChannelInv, ExchangeInOrder
    <2>2. UNCHANGED <<sessionVars, stage, verdict, request, cut>>
      BY <1>2 DEF ServerActs, sessionVars
    <2>3. far' \in {"taken", "refused"} \/ (request.waits /\ far' \in {"silent", "failed"})
      BY <1>2 DEF ServerActs
    <2>4. MailInv'
      BY <2>1, <2>2, MailAtRest DEF ChannelInv
    <2> QED
      BY <2>1, <2>2, <2>3, <2>4 DEF ChannelInv, ExchangeInOrder, Refused
  <1>3. CASE NoAnswer
    <2>1. request # NoRequest /\ stage = "none"
      BY <1>3 DEF NoAnswer, Asked, ChannelInv, ExchangeInOrder
    <2>2. verdict' = "transport_failure" /\ UNCHANGED <<sessionVars, stage, far, request, cut>>
      BY <1>3 DEF NoAnswer, report, sessionVars
    <2>3. MailInv'
      BY <2>1, <2>2, MailAtRest DEF ChannelInv
    <2> QED
      BY <2>1, <2>2, <2>3 DEF ChannelInv, ExchangeInOrder, Refused
  <1>4. CASE MailNext /\ UNCHANGED <<request, far, cut>>
    <2>1. MailInv' /\ stage # "none"
      BY <1>4, MailKept DEF ChannelInv, MailNext, Connected, Upgraded, ReadReply, Broken,
                            DeadlinePasses, ServerAnswers, ServerLeaves, Awaiting, Open, MailInv,
                            BufferInOrder
    <2>2. request = NoRequest /\ far = "untouched"
      BY <2>1 DEF ChannelInv, ExchangeInOrder
    <2> QED
      BY <1>4, <2>1, <2>2 DEF ChannelInv, ExchangeInOrder, Refused
  <1>5. CASE UNCHANGED channelVars
    <2>1. UNCHANGED <<sessionVars, mailUrl, stage, nth, coming, owed, gone, rcpts, taken,
                      verdict, request, far, cut>>
      BY <1>5 DEF channelVars, sessionVars
    <2>2. MailInv'
      BY <2>1 DEF ChannelInv, MailInv, BufferInOrder, MailTyped, RecipientsInOrder, MailEnds,
                  Accepted, to
    <2> QED
      BY <2>1, <2>2 DEF ChannelInv, ExchangeInOrder, Refused
  <1> QED
    BY <1>1, <1>2, <1>3, <1>4, <1>5, AnswerKeeps, DeliveryKeeps DEF ChannelsNext

\* What a channel reports is what happened: `sent' says that the message was taken, for
\* every recipient of a mail; a refusal says that it was not, so that the retry of the
\* outbox shows nothing twice.  The exception is a completion cut short (channels.ts:684).
THEOREM VerdictsAreTrue == ChannelsSpec => []VerdictMatchesFarEnd
  <1>1. ChannelsInit => ChannelInv
    BY DEF ChannelsInit, MailInit, ChannelInv, ExchangeInOrder, Refused, MailInv, BufferInOrder,
           MailTyped, RecipientsInOrder, MailEnds, Preliminary, Awaiting, Open, Reply
  <1>2. ChannelInv /\ [ChannelsNext]_channelVars => ChannelInv'
    BY ChannelsKeep
  <1>3. ChannelInv => VerdictMatchesFarEnd
    <2> SUFFICES ASSUME ChannelInv PROVE VerdictMatchesFarEnd
      OBVIOUS
    <2>1. mailUrl # NoUrl => stage # "none"
      BY DEF ChannelInv, MailInv, MailTyped
    <2>2. verdict = "sent" /\ stage # "none" => taken = ToSet(to)
      BY DEF ChannelInv, MailInv, MailTyped, RecipientsInOrder, MailEnds
    <2>3. Refused => taken = {}
      BY DEF Refused, ChannelInv, MailInv, MailTyped, RecipientsInOrder, MailEnds
    <2> QED
      BY <2>1, <2>2, <2>3 DEF VerdictMatchesFarEnd, Refused, ChannelInv, ExchangeInOrder, to
  <1> QED
    BY <1>1, <1>2, <1>3, PTL DEF ChannelsSpec
=============================================================================
