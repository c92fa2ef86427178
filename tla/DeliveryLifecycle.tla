-------------------------- MODULE DeliveryLifecycle --------------------------
(***************************************************************************)
(* What the outbox promises of a delivery, whatever happens in between:    *)
(* a delivery is attempted under one token until the channel refuses that  *)
(* token; a refused token is never used again; a delivery that is sent or  *)
(* cancelled stays so; one that is parked is attempted again only after it *)
(* was woken.  Outbox implements it (LifecycleSpec there).                 *)
(*                                                                         *)
(* Deliveries move together: the drain claims a batch in one transaction,  *)
(* and a route change wakes all the rows of a profile.                     *)
(***************************************************************************)


CONSTANTS Deliveries,
          Tokens,       \* request ids
          NULL

VARIABLES st,       \* what has become of each delivery
          token,    \* the token it is, or will be, attempted under
          spent     \* the tokens the channel refused

vars == <<st, token, spent>>

Same(d) == token'[d] = token[d] /\ spent'[d] = spent[d]
Moves(d, from, to) == st[d] \in from /\ st'[d] \in to

Stay(d)   == st'[d] = st[d] /\ Same(d)
Queue(d)  == Moves(d, {"none"}, {"waiting"}) /\ Same(d)

Attempt(d) == /\ Moves(d, {"waiting"}, {"inflight"})
              /\ token'[d] # NULL
              /\ token'[d] \notin spent[d]
              /\ token[d] # NULL => token'[d] = token[d]
              /\ spent'[d] = spent[d]

Sent(d)   == Moves(d, {"inflight"}, {"sent"}) /\ Same(d)

\* The answer was lost, was a final rejection, or nobody is left to read it.
Lost(d)   == Moves(d, {"inflight"}, {"waiting", "parked"}) /\ Same(d)

\* "Confirmed not delivered": the next attempt is under another token.
Refuse(d) == /\ Moves(d, {"inflight"}, {"waiting", "parked"})
             /\ spent'[d] = spent[d] \cup {token[d]}
             /\ token'[d] = NULL

Park(d)   == Moves(d, {"waiting"}, {"parked"}) /\ Same(d)
Wake(d)   == Moves(d, {"parked"}, {"waiting"}) /\ Same(d)
Cancel(d) == Moves(d, {"waiting"}, {"cancelled"}) /\ Same(d)

Step(d) == \/ Stay(d) \/ Queue(d) \/ Attempt(d) \/ Sent(d) \/ Lost(d)
           \/ Refuse(d) \/ Park(d) \/ Wake(d) \/ Cancel(d)

Init == /\ st    = [d \in Deliveries |-> "none"]
        /\ token = [d \in Deliveries |-> NULL]
        /\ spent = [d \in Deliveries |-> {}]

Next == \A d \in Deliveries : Step(d)

Spec == Init /\ [][Next]_vars
=============================================================================
