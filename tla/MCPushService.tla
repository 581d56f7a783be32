----------------------------- MODULE MCPushService -----------------------------
(***************************************************************************)
(* Instances of PushService for TLC.                                       *)
(***************************************************************************)
EXTENDS PushService, TLC

\* Subscriptions are interchangeable, and so are workers and calls, in runs without
\* liveness.
Symmetry ==
  Permutations(Subs) \cup Permutations(Workers) \cup Permutations(Calls)
==============================================================================
