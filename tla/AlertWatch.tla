----------------------------- MODULE AlertWatch -----------------------------
(* The watch for weather alerts (modules/weather/briefs.ts): who is told of     *)
(* which alert at which level, from lists that are cached between rounds.    *)
(*                                                                           *)
(* The weather service raises, changes and lifts alerts as it likes.  A      *)
(* round visits the profiles one after the other and can be cut short by a   *)
(* crash between any two notifications; rounds do not overlap (Jobs).  A     *)
(* notification may throw; that is caught for each alert by itself.  All     *)
(* profiles are at one place (Briefs has the choice of the place).           *)
EXTENDS Naturals, FiniteSets, FiniteSetsExt, Sequences, TLC

CONSTANTS
    Alerts,              \* alerts by what identifies them
    Levels,              \* the levels in use
    Rank,                \* ALERT_LEVEL_RANK: level -> rank, on the levels it knows
    minRank,
    NoLevel,             \* of an alert none was given for: the empty string
    Watchers,            \* profiles at the one place modelled
    AlertTtl,            \* alertCacheTtlMs
    ToolTtl,             \* CACHE_TTL_MS.alerts
    HistoryWindow,       \* how far back notifiedAlertRanks looks
    NoEnd, NoList,
    MaxAlertTick, MaxChanges   \* bounds

UNKNOWN_LEVEL_RANK == 5

ASSUME AlertAssumption ==
    /\ NoLevel \in Levels
    /\ DOMAIN Rank \subseteq Levels \ {NoLevel} /\ \A l \in DOMAIN Rank : Rank[l] \in 1 .. 4
    /\ minRank \in 1 .. 4 /\ HistoryWindow \in Nat /\ NoEnd \notin Nat
    /\ AlertTtl \in Nat \ {0} /\ ToolTtl \in Nat   \* alertCacheTtlMs: 90 s at least

VARIABLES
    alert,     \* alert -> [level, since, ends], level "none" when there is none
    lists,     \* the cached answer: [alerts, expires], or NoList
    round,     \* [at, left, who, list, ranks, failed]: left = {}: no round
    alerted,   \* profile -> its notifications in order: [alert, level, at]
    served,    \* profile -> start of the last round it was served in
    missed,    \* profile -> the alerts whose handling threw in that round
    alertTick, changes

alertVars == <<alert, lists, round, alerted, served, missed, alertTick, changes>>
outcomes == <<served, missed>>
bounds == <<alertTick, changes>>

NoAlert == [level |-> "none", since |-> 0, ends |-> NoEnd]
NoRound == [at |-> 0, left |-> {}, who |-> {}, list |-> {}, ranks |-> << >>,
            failed |-> {}]

AlertInit ==
    /\ alert = [a \in Alerts |-> NoAlert]
    /\ lists = NoList
    /\ round = NoRound /\ alerted = [w \in Watchers |-> << >>]
    /\ served = [w \in Watchers |-> 0] /\ missed = [w \in Watchers |-> {}]
    /\ alertTick = 0 /\ changes = 0

-----------------------------------------------------------------------------
(* The far end, and the cache                                               *)

AlertChanges ==
    /\ changes < MaxChanges /\ changes' = changes + 1
    /\ \E a \in Alerts :
          \/ alert[a].level # "none" /\ alert' = [alert EXCEPT ![a] = NoAlert]
          \/ \E l \in Levels \ {alert[a].level}, end \in {NoEnd, alertTick + 1} :
                alert' = [alert EXCEPT ![a] = [level |-> l, since |-> alertTick, ends |-> end]]
    /\ UNCHANGED <<lists, round, alerted, outcomes, alertTick>>

hasList == lists # NoList /\ lists.expires > alertTick

alertsNow ==
    {[id |-> a, level |-> alert[a].level, ends |-> alert[a].ends] :
        a \in {b \in Alerts : alert[b].level # "none"}}

\* The weather tool and the daily brief fill the same cache.
OthersAsk ==
    /\ ~hasList
    /\ \E ttl \in {ToolTtl, AlertTtl} :
          lists' = [alerts |-> alertsNow, expires |-> alertTick + ttl]
    /\ UNCHANGED <<alert, round, alerted, outcomes, bounds>>

-----------------------------------------------------------------------------
(* One round                                                                *)

levelRank(level) == IF level \in DOMAIN Rank THEN Rank[level] ELSE UNKNOWN_LEVEL_RANK

isExpiredAlert(entry, at) == entry.ends # NoEnd /\ entry.ends < at

\* A slip: nothing of what was told before counts.
noHistory(w) == [a \in {} |-> 0]

\* The highest level at which each alert was told lately; a level not given does not count.
notifiedAlertRanks(w) ==
    LET recent == {alerted[w][i] : i \in {j \in DOMAIN alerted[w] :
                      /\ alerted[w][j].level # NoLevel
                      /\ alertTick - alerted[w][j].at <= HistoryWindow}}
    IN [a \in {n.alert : n \in recent} |->
           Max({levelRank(n.level) : n \in {m \in recent : m.alert = a}})]

runAlertWatch ==
    /\ round = NoRound
    /\ round' = [NoRound EXCEPT !.at = alertTick, !.left = Watchers]
    /\ UNCHANGED <<alert, lists, alerted, outcomes, bounds>>

\* The list, from the cache or from the far end; the profile is
\* left out of this round when neither gives one.
VisitProfile(w) ==
    LET Visit(list) == round' = [round EXCEPT !.who = {w}, !.list = list,
                                              !.ranks = notifiedAlertRanks(w)]
    IN /\ w \in round.left /\ round.who = {}
       /\ \/ hasList /\ Visit(lists.alerts) /\ UNCHANGED lists
          \/ /\ ~hasList
             /\ \/ /\ Visit(alertsNow)
                   /\ lists' = [alerts |-> alertsNow, expires |-> alertTick + AlertTtl]
                \/ /\ round' = IF round.left = {w} THEN NoRound
                               ELSE [round EXCEPT !.left = @ \ {w}]
                   /\ UNCHANGED lists
       /\ UNCHANGED <<alert, alerted, outcomes, bounds>>

\* publishProfile tells of an alert once per level.
publishAlert(w, entry) ==
    IF \E i \in DOMAIN alerted[w] : alerted[w][i].alert = entry.id /\ alerted[w][i].level = entry.level
      THEN UNCHANGED alerted
      ELSE alerted' = [alerted EXCEPT ![w] =
              Append(@, [alert |-> entry.id, level |-> entry.level, at |-> alertTick])]

isDue(entry) ==
    /\ ~isExpiredAlert(entry, round.at)
    /\ levelRank(entry.level) >= minRank
    /\ entry.id \in DOMAIN round.ranks => round.ranks[entry.id] <= levelRank(entry.level)

\* The rank an alert was told at; a lower one was passed over, so it is the higher.
withRank(ranks, entry) ==
    [a \in {entry.id} \cup DOMAIN ranks |->
        IF a = entry.id THEN levelRank(entry.level) ELSE ranks[a]]

\* A slip: the alerts after one that fails are given up with it.
giveUpRest(entry) ==
    round' = [round EXCEPT !.list = {}, !.failed = @ \cup {entry.id}]

\* The catch around each alert: it is skipped, the loop goes on.
skipAlert(entry) ==
    round' = [round EXCEPT !.list = @ \ {entry}, !.failed = @ \cup {entry.id}]

\* One alert of the list: told, unless it is over, too low, or lower than before.
\* publishProfile may throw; the notification, its delivery and the rank are then
\* not recorded.
HandleAlert(w) ==
    /\ round.who = {w}
    /\ \E entry \in round.list :
          \/ /\ isDue(entry)
             /\ publishAlert(w, entry)
             /\ round' = [round EXCEPT !.list = @ \ {entry},
                            !.ranks = IF entry.level = NoLevel THEN @
                                      ELSE withRank(@, entry)]
          \/ /\ isDue(entry)
             /\ skipAlert(entry) /\ UNCHANGED alerted
          \/ /\ ~isDue(entry)
             /\ round' = [round EXCEPT !.list = @ \ {entry}] /\ UNCHANGED alerted
    /\ UNCHANGED <<alert, lists, outcomes, bounds>>

\* The loop is through; whether some of it failed makes no difference.
ProfileServed(w) ==
    /\ round.who = {w} /\ round.list = {}
    /\ served' = [served EXCEPT ![w] = round.at]
    /\ missed' = [missed EXCEPT ![w] = round.failed]
    /\ round' = IF round.left = {w} THEN NoRound
                ELSE [NoRound EXCEPT !.at = round.at, !.left = round.left \ {w}]
    /\ UNCHANGED <<alert, lists, alerted, bounds>>

RoundCrash ==
    /\ round # NoRound /\ round' = NoRound
    /\ UNCHANGED <<alert, lists, alerted, outcomes, bounds>>

AlertTime ==
    /\ alertTick < MaxAlertTick /\ alertTick' = alertTick + 1
    /\ UNCHANGED <<alert, lists, round, alerted, outcomes, changes>>

AlertNext ==
    \/ AlertChanges
    \/ OthersAsk
    \/ runAlertWatch
    \/ \E w \in Watchers : VisitProfile(w)
    \/ \E w \in Watchers : HandleAlert(w)
    \/ \E w \in Watchers : ProfileServed(w)
    \/ RoundCrash
    \/ AlertTime

AlertSpec == AlertInit /\ [][AlertNext]_alertVars

-----------------------------------------------------------------------------
(* Properties                                                               *)

\* A profile is told of an alert once per level, and within the time that is looked
\* back only at rising levels ("只有级别升级才再推", briefs.ts).
AlertsOnlyUpgrade ==
    \A w \in Watchers : \A i, j \in DOMAIN alerted[w] :
        LET m == alerted[w][i]
            n == alerted[w][j]
        IN (i < j /\ m.alert = n.alert) =>
              /\ m.level # n.level
              /\ (m.level # NoLevel /\ n.at - m.at <= HistoryWindow)
                    => levelRank(m.level) < levelRank(n.level)

\* The longest a list is used: a tool's lives on when the watch comes round sooner.
LongestTtl == IF AlertTtl > ToolTtl THEN AlertTtl ELSE ToolTtl

\* A profile that was served has been told of every alert that had been there for as
\* long as a list is cached, at a level not known to be too low and not over, unless a
\* higher level was told: neither the cache nor a crash of a round costs an alert.  A
\* failure costs the alert it was about and no other ("一条坏预警只损失它自己",
\* briefs.ts), and that one only if it failed in the very last round of the profile.
LastingAlertIsTold ==
    \A w \in Watchers, a \in Alerts :
        (/\ alert[a].level # "none"
         /\ alert[a].since + LongestTtl <= served[w]
         /\ ~isExpiredAlert(alert[a], served[w])
         /\ ~(alert[a].level \in DOMAIN Rank /\ Rank[alert[a].level] < minRank)
         /\ a \notin missed[w])
           => \E i \in DOMAIN alerted[w] :
                 /\ alerted[w][i].alert = a
                 /\ \/ alerted[w][i].level = alert[a].level
                    \/ alerted[w][i].level # NoLevel /\ levelRank(alerted[w][i].level) > levelRank(alert[a].level)
=============================================================================
