------------------------------- MODULE Registry -------------------------------
(***************************************************************************)
(* What the service promises its callers: a registry in which every        *)
(* subscription is served by one worker or by none, with activation and    *)
(* deactivation as atomic operations.  PushService implements it as long   *)
(* as no operations conflict.                                              *)
(***************************************************************************)
CONSTANTS Subs, Workers

VARIABLE serving   \* the workers that serve each subscription

Init == serving = [s \in Subs |-> {}]

Activate(s) ==
  /\ serving[s] = {}
  /\ \E w \in Workers :
       /\ \A t \in Subs : w \notin serving[t]
       /\ serving' = [serving EXCEPT ![s] = {w}]

Deactivate(s) ==
  /\ serving[s] # {}
  /\ serving' = [serving EXCEPT ![s] = {}]

(* The process ends, and with it every worker. *)
Collapse == serving' = [s \in Subs |-> {}]

Next == Collapse \/ \E s \in Subs : Activate(s) \/ Deactivate(s)

Spec == Init /\ [][Next]_serving
==============================================================================
