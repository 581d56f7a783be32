------------------------------- MODULE Delivery -------------------------------
(***************************************************************************)
(* What the push server promises for one subscription: a channel from AMS  *)
(* to the destination that delivers in order and at least once, and that   *)
(* acknowledges what was delivered and nothing else.  Workers, push        *)
(* cycles, retries, the network and crashes do not appear.  PushWorker     *)
(* implements it.                                                          *)
(***************************************************************************)
EXTENDS Naturals

VARIABLES
  published,   \* number of messages published
  received,    \* messages that the destination has accepted
  acked,       \* messages up to this one are acknowledged
  exists       \* whether the subscription exists

vars == <<published, received, acked, exists>>

Init == published = 0 /\ received = {} /\ acked = 0 /\ exists = TRUE

Publish ==
  /\ exists
  /\ published' = published + 1
  /\ UNCHANGED <<received, acked, exists>>

(* Whenever the destination accepts a message it has all that precede it. *)
Receive ==
  /\ \E n \in 1 .. published : received' = received \cup 1 .. n
  /\ UNCHANGED <<published, acked, exists>>

Acknowledge ==
  /\ exists
  /\ \E n \in received : n > acked /\ 1 .. n \subseteq received /\ acked' = n
  /\ UNCHANGED <<published, received, exists>>

Delete ==
  /\ exists' = FALSE
  /\ UNCHANGED <<published, received, acked>>

Next == Publish \/ Receive \/ Acknowledge \/ Delete

Spec == Init /\ [][Next]_vars
==============================================================================
