----------------------------- MODULE RetryPolicy -----------------------------
(***************************************************************************)
(* The retry policies of package retrypolicies: what interval a worker's   *)
(* timer is armed with after each push cycle.  Durations are milliseconds; *)
(* every duration the code computes is a whole number of them.             *)
(*                                                                         *)
(* A policy is a record: its registered type, the interval of the last     *)
(* Reset, and whether that Reset saw an error (the last two are the fields *)
(* of the Go type Slowstart; a linear policy never changes them).          *)
(***************************************************************************)
EXTENDS Integers

CONSTANTS
  Period,                     \* RetryPolicy.Period of a linear subscription
  SlowStartInitialInterval,
  SlowStartLowerTimeBound,
  SlowStartUpperTimeBound

ASSUME IntervalAssumption ==
  /\ Period \in Nat
  /\ SlowStartInitialInterval \in Nat
  /\ SlowStartLowerTimeBound \in Nat \ {0}
  /\ SlowStartUpperTimeBound \in Nat
  /\ SlowStartLowerTimeBound <= SlowStartInitialInterval
  /\ SlowStartInitialInterval <= SlowStartUpperTimeBound

RetryPolicyTypes == {"linear", "slowstart"}

Policies ==
  [type : RetryPolicyTypes, interval : Nat, previousError : BOOLEAN]

NewRetryPolicy(type) ==
  [type          |-> type,
   interval      |-> IF type = "linear" THEN Period ELSE SlowStartInitialInterval,
   previousError |-> FALSE]

\* Mutated form of Halved: the lower bound is tested before halving.
HalvedLate(interval) ==
  IF interval < SlowStartLowerTimeBound THEN SlowStartLowerTimeBound
                                        ELSE interval \div 2

Halved(interval) ==
  IF interval \div 2 < SlowStartLowerTimeBound THEN SlowStartLowerTimeBound
                                               ELSE interval \div 2

Doubled(interval) ==
  IF interval * 2 > SlowStartUpperTimeBound THEN SlowStartUpperTimeBound
                                            ELSE interval * 2

NextInterval(policy, err) ==
  IF err THEN Doubled(policy.interval)
  ELSE IF policy.previousError THEN SlowStartInitialInterval
  ELSE Halved(policy.interval)

SlowstartReset(policy, err) ==
  [type |-> policy.type, interval |-> NextInterval(policy, err), previousError |-> err]

Reset(policy, err) ==
  IF policy.type = "linear" THEN policy ELSE SlowstartReset(policy, err)
==============================================================================
