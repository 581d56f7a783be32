---------------------------- MODULE WorkerLifecycle ----------------------------
(***************************************************************************)
(* What the push worker and the registry rely on from one another: the     *)
(* life of a worker instance, seen from outside.  It starts, may be        *)
(* stopped, may block on the deactivation channel until somebody takes its *)
(* report, and ends only if it was stopped and is not blocked, or with the *)
(* process.  PushWorker and PushService both implement it, each with its   *)
(* own detail, and PushSystem composes the two along it.                   *)
(***************************************************************************)
CONSTANT Workers

VARIABLES
  at,        \* "off", "loop" or "report" (blocked on the deactivation channel)
  stopped    \* whether Stop was called on the running instance

vars == <<at, stopped>>

Init ==
  /\ at = [w \in Workers |-> "off"]
  /\ stopped = [w \in Workers |-> FALSE]

Start(w) ==
  /\ at[w] = "off"
  /\ at' = [at EXCEPT ![w] = "loop"]
  /\ UNCHANGED stopped

Stop(w) ==
  /\ at[w] # "off"
  /\ stopped' = [stopped EXCEPT ![w] = TRUE]
  /\ UNCHANGED at

Block(w) ==
  /\ at[w] = "loop"
  /\ at' = [at EXCEPT ![w] = "report"]
  /\ UNCHANGED stopped

Unblock(w) ==
  /\ at[w] = "report"
  /\ at' = [at EXCEPT ![w] = "loop"]
  /\ UNCHANGED stopped

End(w) ==
  /\ at[w] = "loop" /\ stopped[w]
  /\ at' = [at EXCEPT ![w] = "off"]
  /\ stopped' = [stopped EXCEPT ![w] = FALSE]

(* The process dies, or starts. *)
Die ==
  /\ at' = [w \in Workers |-> "off"]
  /\ stopped' = [w \in Workers |-> FALSE]

Next ==
  \/ \E w \in Workers : Start(w) \/ Stop(w) \/ Block(w) \/ Unblock(w) \/ End(w)
  \/ Die

Spec == Init /\ [][Next]_vars
==============================================================================
