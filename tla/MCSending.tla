----------------------------- MODULE MCSending ------------------------------
(* What leaves the daemon, for the model checker: the outbox on the channels that
   do not deduplicate, the channels themselves, the client of the weather service,
   the alert watch and the briefs.
   They share no variable, so their steps commute and every safety property that
   speaks of one of them holds in their composition if it holds of it alone: a
   behaviour here is one of a single component, the others at rest. *)
EXTENDS MCOutbox, Channels, Upstream, AlertWatch, Briefs

VARIABLE component

\* The alerts are alike.
AnyAlert == Permutations(Alerts)

MCRank == [l \in {"blue", "red"} |-> IF l = "blue" THEN 1 ELSE 4]

MCMailUrl(scheme, port, override, user, pass, to) ==
    [scheme |-> scheme, port |-> port, override |-> override, user |-> user, pass |-> pass,
     from |-> "ada", to |-> to]

\* The three ways to encrypt, with and without a password, one and two recipients;
\* and two routes that are refused.
MCMailUrls ==
    {MCMailUrl("smtp", 587, "", TRUE, TRUE, <<"bob", "cyd">>),
     MCMailUrl("smtps", 0, "", TRUE, TRUE, <<"bob">>),
     MCMailUrl("smtp", 0, "", FALSE, FALSE, <<"bob", "cyd">>),
     MCMailUrl("smtp", 2525, "starttls", FALSE, FALSE, <<"bob">>),
     MCMailUrl("smtp", 25, "", TRUE, FALSE, <<"bob">>),
     MCMailUrl("smtp", 25, "", FALSE, FALSE, <<"bob", Malformed>>)}

MCUrl(hook, channel, flaws) ==
    [origin |-> "gateway", flaws |-> flaws, hook |-> hook, channel |-> channel, to |-> "ada"]

\* A direct route, a mapped one, one of another chat, and two that are refused.
MCUrls ==
    {MCUrl("agent", "qq", {}), MCUrl("agent", "wechat", {}), MCUrl("life", "", {}),
     MCUrl("agent", "last", {}), MCUrl("life", "", {"token"})}

MCTargets ==
    {[origin |-> "gateway", mode |-> "direct", auth |-> "global", hook |-> "", channel |-> "qq",
      to |-> "ada", waits |-> TRUE],
     [origin |-> "gateway", mode |-> "mapping", auth |-> "profile", hook |-> "life", channel |-> "",
      to |-> "", waits |-> FALSE]}

UnionInit ==
    /\ component \in {"outbox", "channels", "upstream", "alerts", "briefs"}
    /\ Init
    /\ ChannelsInit
    /\ UpstreamInit
    /\ AlertInit
    /\ BriefsInit
    \* The credentials differ for the outbox only.
    /\ component # "outbox" => creds = CHOOSE c \in CredentialSets : TRUE

UnionNext ==
    \/ component = "outbox" /\ Next
       /\ UNCHANGED <<component, channelVars, upstreamVars, alertVars, briefVars>>
    \/ component = "channels" /\ ChannelsNext
       /\ UNCHANGED <<component, vars, upstreamVars, alertVars, briefVars>>
    \/ component = "upstream" /\ UpstreamNext
       /\ UNCHANGED <<component, vars, channelVars, alertVars, briefVars>>
    \/ component = "alerts" /\ AlertNext
       /\ UNCHANGED <<component, vars, channelVars, upstreamVars, briefVars>>
    \/ component = "briefs" /\ BriefsNext
       /\ UNCHANGED <<component, vars, channelVars, upstreamVars, alertVars>>

UnionSpec ==
    UnionInit /\ [][UnionNext]_<<component, vars, channelVars, upstreamVars, alertVars, briefVars>>
=============================================================================
