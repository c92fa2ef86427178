---------------------------- MODULE MCSchedules ----------------------------
EXTENDS Schedules

Daily == [recurring |-> TRUE, days |-> 1..6, count |-> 0, until |-> 0]
Single == [recurring |-> TRUE, days |-> 1..6, count |-> 1, until |-> 0]
Sparse == [recurring |-> TRUE, days |-> {1, 2, 5}, count |-> 0, until |-> 0]
Once == [recurring |-> FALSE, days |-> {2}, count |-> 0, until |-> 0]

OnlyDaily == {Daily}
DailyOrOnce == {Daily, Once}
CoreRules == {Single, Sparse}
TwoOffsets == {<<0, 1>>}
OneStep == {<< >>, <<0, 1>>}
CoreEscalations == {<< >>, <<0, 2, 3>>}
=============================================================================
