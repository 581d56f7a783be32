----------------------------- MODULE MCPushSystem -----------------------------
(***************************************************************************)
(* An instance of PushSystem for TLC, with symmetry for the runs that      *)
(* check no liveness.                                                      *)
(***************************************************************************)
EXTENDS PushSystem, TLC

Symmetry == Permutations(Workers) \cup Permutations(Calls)
==============================================================================
