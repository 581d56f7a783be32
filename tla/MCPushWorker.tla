----------------------------- MODULE MCPushWorker -----------------------------
(***************************************************************************)
(* Instances of PushWorker for TLC.  Durations are the code's, in          *)
(* milliseconds.                                                           *)
(***************************************************************************)
EXTENDS PushWorker, TLC

\* Workers are interchangeable, in runs without a liveness property.
Symmetry == Permutations(Workers)

==============================================================================
