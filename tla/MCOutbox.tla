------------------------------ MODULE MCOutbox ------------------------------
(* Values of the constants of Outbox for the model checker.                *)
EXTENDS Outbox

CONSTANTS p1, p2

OneOwner  == [d \in Deliveries |-> p1]
TwoOwners == [d \in Deliveries |-> IF d = 1 THEN p1 ELSE p2]

ShortLadder == <<1, 2>>

NoExpiry   == {NULL}
SomeExpiry == {NULL, 1}

NoRoute      == {NULL}
WebhookRoute == {[chan |-> "webhook", name |-> "n1", enabled |-> TRUE]}

HasAll     == {Channels}
MayLoseAll == {Channels, {}}
=============================================================================
