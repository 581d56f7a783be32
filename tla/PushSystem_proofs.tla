---------------------------- MODULE PushSystem_proofs ----------------------------
(***************************************************************************)
(* Proofs about the whole server, for any number of instances, calls,      *)
(* messages and faults.  Its registry implements PushService and its       *)
(* instances implement PushWorker, so that what was proved of each of them *)
(* holds in the server; what is said of both together is proved here.      *)
(* Operations overlap throughout; who sends is settled only as long as     *)
(* none of them conflict (ConflictFreeSystem).                             *)
(***************************************************************************)
EXTENDS PushSystem, Registry_proofs

(* PushWorker as W has it, with its theorems. *)
P == INSTANCE PushWorker_proofs
       WITH exists <- amsSub[TheSub] # "absent", BoundEnds <- FALSE

-----------------------------------------------------------------------------
(* W and P are the same specification.                                     *)

(* They have the same variables, *)
LEMMA SameVars == UNCHANGED W!vars <=> UNCHANGED P!vars
BY DEF
       W!vars, P!vars, W!amsVars, P!amsVars, W!workerVars, P!workerVars,
       W!lateVars, P!lateVars

(* begin in the same states, *)
LEMMA SameInit == W!Init <=> P!Init
BY DEF
       W!Init, P!Init, W!NewRetryPolicy, P!NewRetryPolicy,
       W!NoBatch, P!NoBatch

(* and take the same steps. *)
LEMMA SameNext == W!Next <=> P!Next
BY SMT DEF
       W!vars, P!vars, W!amsVars, P!amsVars, W!workerVars, P!workerVars,
       W!lateVars, P!lateVars, W!NoBatch, P!NoBatch,
       W!Messages, P!Messages, W!Running, P!Running,
       W!DetermineMessageFormat, P!DetermineMessageFormat,
       W!HttpSent, P!HttpSent, W!MattermostSent, P!MattermostSent,
       W!Sent, P!Sent, W!AckId, P!AckId, W!NewExchange, P!NewExchange,
       W!Waiting, P!Waiting, W!Abandon, P!Abandon, W!EndPush, P!EndPush,
       W!Blank, P!Blank, W!Vanish, P!Vanish, W!Disturb, P!Disturb,
       W!DisturbEnd, P!DisturbEnd,
       W!Activate, P!Activate, W!Stop, P!Stop,
       W!TimerFires, P!TimerFires, W!Tick, P!Tick, W!Done, P!Done,
       W!Drain, P!Drain, W!PullAnswers, P!PullAnswers,
       W!ConsumeMessages, P!ConsumeMessages,
       W!ConsumeEmpty, P!ConsumeEmpty, W!ConsumeGone, P!ConsumeGone,
       W!Report, P!Report, W!PushFails, P!PushFails,
       W!EndpointAccepts, P!EndpointAccepts,
       W!EndpointRefuses, P!EndpointRefuses, W!SendOk, P!SendOk,
       W!Acknowledged, P!Acknowledged,
       W!AmsReceivesAck, P!AmsReceivesAck, W!AckOk, P!AckOk,
       W!LatePost, P!LatePost, W!LateAck, P!LateAck,
       W!Publish, P!Publish, W!DeleteSubscription, P!DeleteSubscription,
       W!Die, P!Die, W!Crash, P!Crash, W!WorkerStep, P!WorkerStep,
       W!ServerStep, P!ServerStep, W!Next, P!Next,
       W!NewRetryPolicy, P!NewRetryPolicy, W!Halved, P!Halved,
       W!Doubled, P!Doubled, W!NextInterval, P!NextInterval,
       W!SlowstartReset, P!SlowstartReset, W!Reset, P!Reset

(* What the theorems of PushWorker_proofs say of P!Spec they say of W!Spec. *)
LEMMA SameWorker == W!Spec <=> P!Spec
<1>1. [W!Next]_(W!vars) <=> [P!Next]_(P!vars)
  BY SameNext, SameVars
<1> QED BY <1>1, SameInit, PTL DEF W!Spec, P!Spec

-----------------------------------------------------------------------------
(* The registry of the server.                                             *)

(* The server has one subscription. *)
LEMMA OneSub == TheSub \in Subs /\ \A s \in Subs : s = TheSub
BY SystemAssumption DEF TheSub

(* Every step of the server is one of the registry, or none of its business. *)
LEMMA RegistryOwnStep ==
  ASSUME [SystemNext]_systemVars
  PROVE  [Next]_vars
<1>1. ASSUME NEW c \in Calls, Called(c)
      PROVE  Next
  BY <1>1 DEF Called, Next
<1>2. ASSUME NEW p \in Procs, RegistryStep(p) \/ Starts(p) \/ Stops(p) \/ Panics(p)
      PROVE  Next
  BY <1>2 DEF RegistryStep, Starts, Stops, Panics, Next, FrameStep
<1>3. ASSUME NEW w \in Workers, MeetsGone(w) \/ Reports(w)
      PROVE  Next
  BY <1>3 DEF MeetsGone, Reports, Next, WorkerStep
<1>4. ASSUME NEW w \in Workers, Ends(w)
      PROVE  Next \/ UNCHANGED vars
  BY <1>4 DEF Ends, Next, WorkerStep, serviceVars
<1>5. ASSUME NEW w \in Workers, Fires(w) \/ Pushes(w) \/ Answers(w)
      PROVE  UNCHANGED vars
  BY <1>5 DEF Fires, Pushes, Answers, serviceVars
<1>6. CASE Loads \/ MissesUser \/ FindsUser
  BY <1>6, OneSub DEF Loads, MissesUser, FindsUser, Next, LoaderStep
<1>7. CASE Changes \/ Dies \/ Restarts
  BY <1>7, OneSub DEF Changes, Dies, Restarts, Next
<1>8. CASE Surroundings \/ UNCHANGED systemVars
  BY <1>8 DEF Surroundings, systemVars, serviceVars
<1> QED
  BY <1>1, <1>2, <1>3, <1>4, <1>5, <1>6, <1>7, <1>8 DEF SystemNext

(* The registry inside the server is the registry of PushService, *)
LEMMA SystemRegistry == SystemSpec => Spec
<1>1. SystemInit => Init
  BY DEF SystemInit
<1>2. [SystemNext]_systemVars => [Next]_vars
  BY RegistryOwnStep
<1> QED BY <1>1, <1>2, PTL DEF SystemSpec, Spec

(* and as long as no operations conflict, it is the one that is as good as atomic. *)
LEMMA ConflictFreeRegistry == ConflictFreeSystem => SystemSpec /\ ConflictFreeSpec
<1>1. SystemInit => Init
  BY DEF SystemInit
<1>2. [SystemNext /\ ConflictFree']_systemVars => [ConflictFreeNext]_vars
  <2>1. CASE SystemNext /\ ConflictFree'
    BY <2>1, RegistryOwnStep DEF ConflictFreeNext
  <2>2. CASE UNCHANGED systemVars
    BY <2>2 DEF systemVars, serviceVars
  <2> QED BY <2>1, <2>2
<1>3. [SystemNext /\ ConflictFree']_systemVars => [SystemNext]_systemVars
  OBVIOUS
<1> QED BY <1>1, <1>2, <1>3, PTL DEF ConflictFreeSystem, SystemSpec, ConflictFreeSpec

-----------------------------------------------------------------------------
(* The instances of the server.                                            *)

(* A step of the server that leaves alone what PushWorker has of its own, and the
   subscription, is none of its business. *)
LEMMA OutsideStep ==
  ASSUME UNCHANGED <<pushVars, amsSub>>
  PROVE  UNCHANGED W!vars
BY DEF pushVars, W!vars, W!amsVars, W!workerVars, W!lateVars

(* A deactivation that does not end the process has a worker to stop. *)
LEMMA StopsAWorker ==
  ASSUME frame \in [Procs -> Frames], NEW p \in Procs, Stops(p)
  PROVE  frame[p].worker \in Workers /\ frame[p].worker # NoWorker
<1>1. frame[p].worker # NoWorker
  BY DEF Stops, DeactivateStop, Reset, Alive
<1>2. frame[p].worker \in Workers \cup {NoWorker}
  BY HeldWorker
<1> QED BY <1>1, <1>2

(* Every step of the server is one of the instances and their surroundings, or
   none of their business. *)
LEMMA WorkerOwnStep ==
  ASSUME TypeOK, [SystemNext]_systemVars
  PROVE  [W!Next]_(W!vars)
<1>1. ASSUME NEW kind, Reset(kind)
      PROVE  UNCHANGED amsSub
  BY <1>1 DEF Reset
<1>2. ASSUME NEW c \in Calls, Called(c)
      PROVE  UNCHANGED W!vars
  BY <1>2, OutsideStep DEF Called, Receive
<1>3. ASSUME NEW p \in Procs, RegistryStep(p)
      PROVE  UNCHANGED W!vars
  <2>1. UNCHANGED amsSub
    BY <1>1, <1>3 DEF RegistryStep, ActivateCheck, DeactivateCheck, DeactivateRead,
                      DeactivateDelete, StatusCheck, StatusRead
  <2> QED BY <1>3, <2>1, OutsideStep DEF RegistryStep
<1>4. ASSUME NEW p \in Procs, Starts(p)
      PROVE  W!Next
  BY <1>4 DEF Starts, W!Next
<1>5. ASSUME NEW p \in Procs, Stops(p)
      PROVE  W!Next \/ UNCHANGED W!vars
  <2>1. UNCHANGED amsSub
    BY <1>1, <1>5 DEF Stops, DeactivateStop
  <2>2. frame[p].worker \in Workers
    BY <1>5, StopsAWorker DEF TypeOK
  <2> QED BY <1>5, <2>1, <2>2, OutsideStep DEF Stops, W!Next
<1>6. ASSUME NEW w \in Workers, MeetsGone(w) \/ Reports(w) \/ Ends(w)
      PROVE  W!Next
  BY <1>6 DEF MeetsGone, Reports, Ends, W!Next, W!WorkerStep
<1>7. ASSUME NEW w \in Workers, Fires(w) \/ Pushes(w) \/ Answers(w)
      PROVE  W!Next
  BY <1>7 DEF Fires, Pushes, Answers, W!Next, W!WorkerStep
<1>8. CASE Loads \/ MissesUser \/ FindsUser
  BY <1>8, OutsideStep DEF Loads, MissesUser, FindsUser, LoaderEnds, LoaderFetches,
                           LoaderMissesUser, LoaderFindsUser
<1>9. CASE Changes
  <2>1. CASE amsSub'[TheSub] = "absent"
    BY <1>9, <2>1 DEF Changes, pushVars, W!Next, W!DeleteSubscription, W!workerVars,
                      W!lateVars
  <2>2. CASE amsSub'[TheSub] # "absent"
    BY <1>9, <2>2 DEF Changes, pushVars, W!vars, W!amsVars, W!workerVars, W!lateVars
  <2> QED BY <2>1, <2>2
<1>10. ASSUME Dies \/ \E p \in Procs : Panics(p)
       PROVE  W!Next
  BY <1>10 DEF Dies, Panics, W!Next
<1>11. CASE Restarts
  BY <1>1, <1>11, OutsideStep DEF Restarts, Restart
<1>12. CASE Surroundings
  BY <1>12 DEF Surroundings, W!Next
<1>13. CASE UNCHANGED systemVars
  BY <1>13, OutsideStep DEF systemVars, serviceVars, vars
<1> QED
  BY <1>2, <1>3, <1>4, <1>5, <1>6, <1>7, <1>8, <1>9, <1>10, <1>11, <1>12, <1>13
     DEF SystemNext

(* The instances inside the server are those of PushWorker. *)
LEMMA SystemWorkers == SystemSpec => W!Spec
<1>1. SystemSpec => []TypeOK
  BY SystemRegistry, TypeCorrect, PTL
<1>2. SystemInit => W!Init
  BY DEF SystemInit
<1>3. TypeOK /\ [SystemNext]_systemVars => [W!Next]_(W!vars)
  BY WorkerOwnStep
<1> QED BY <1>1, <1>2, <1>3, PTL DEF SystemSpec, W!Spec

-----------------------------------------------------------------------------
(* What was proved of the instances holds in the server.                   *)

(* The constants of the server are good for its instances. *)
LEMMA InstanceAssumption == P!IntervalAssumption /\ P!WorkerAssumption
BY SystemAssumption
   DEF W!IntervalAssumption, P!IntervalAssumption, W!WorkerAssumption, P!WorkerAssumption,
       W!RetryPolicyTypes, P!RetryPolicyTypes

(* What holds of every behaviour of PushWorker holds in the server. *)
LEMMA SystemInstances == SystemSpec => P!Spec
BY SystemWorkers, SameWorker, PTL

(* The instances of the server have their types, and are idle between their
   cycles. *)
LEMMA InstanceInvariant ==
  SystemSpec => [](P!WorkerTypes /\ \A w \in Workers : P!IdleInv(w))
<1>1. P!Spec => []P!TypeOK
  BY P!TypeCorrect, InstanceAssumption
<1>2. P!Spec => []\A w \in Workers : P!IdleInv(w)
  BY P!IdleInvariant, InstanceAssumption
<1>3. P!TypeOK => P!WorkerTypes
  BY DEF P!TypeOK
<1> HIDE DEF P!WorkerTypes
<1> QED BY <1>1, <1>2, <1>3, SystemInstances, PTL

(* The server, through activations and deactivations that overlap and conflict,
   deletions, crashes and restarts, delivers in order and at least once, if Send
   posts the whole batch. *)
THEOREM SystemDelivers ==
  ASSUME P!SendsWholeBatch
  PROVE  SystemSpec => ServerDelivers
<1>1. P!Spec => P!ImplementsDelivery
  BY P!DeliveryRefinement, InstanceAssumption
<1>2. P!ImplementsDelivery => W!ImplementsDelivery
  <2>1. P!AtLeastOnce!Init <=> W!AtLeastOnce!Init
    BY DEF P!AtLeastOnce!Init, W!AtLeastOnce!Init
  <2>2. [P!AtLeastOnce!Next]_(P!AtLeastOnce!vars)
          <=> [W!AtLeastOnce!Next]_(W!AtLeastOnce!vars)
    BY DEF P!AtLeastOnce!Next, W!AtLeastOnce!Next, P!AtLeastOnce!vars, W!AtLeastOnce!vars,
           P!AtLeastOnce!Publish, W!AtLeastOnce!Publish,
           P!AtLeastOnce!Receive, W!AtLeastOnce!Receive,
           P!AtLeastOnce!Acknowledge, W!AtLeastOnce!Acknowledge,
           P!AtLeastOnce!Delete, W!AtLeastOnce!Delete
  <2> QED BY <2>1, <2>2, PTL
          DEF P!ImplementsDelivery, W!ImplementsDelivery, P!AtLeastOnce!Spec,
              W!AtLeastOnce!Spec
<1> QED BY <1>1, <1>2, SystemInstances, PTL DEF ServerDelivers

-----------------------------------------------------------------------------
(* What the registry and the instances say of each other.                  *)

(* The inductive invariant: a process that died has no instances. *)
CoupledInv == Coupled /\ (~Alive => \A w \in Workers : ~W!Running(w))

(* A step that moves no instance from one place to another, and stops none, keeps
   it. *)
LEMMA SteadyStep ==
  ASSUME CoupledInv, UNCHANGED <<worker, canceled, fatal>>,
         \A w \in Workers : W!Place(w)' = W!Place(w)
  PROVE  CoupledInv'
<1>1. \A w \in Workers : W!Running(w)' <=> W!Running(w)
  BY DEF W!Place, W!Running
<1> QED BY <1>1 DEF CoupledInv, Coupled, Alive

(* An instance that leaves its loop leaves the others as they are. *)
LEMMA VanishEffect ==
  ASSUME NEW ws \in SUBSET Workers, W!Vanish(ws)
  PROVE  \A v \in Workers :
           /\ v \in ws => pc'[v] = "off"
           /\ v \notin ws => pc'[v] = pc[v] /\ canceled'[v] = canceled[v]
BY DEF W!Vanish, W!Blank

(* The process dies, or starts, with every worker off. *)
LEMMA ResetEffect ==
  ASSUME NEW kind, Reset(kind)
  PROVE  fatal' = kind /\ \A w \in Workers : worker'[w].at = "off"
BY DEF Reset, NewWorkerRecord

(* Every step of the server keeps the registry and the instances in agreement. *)
LEMMA CoupledStep ==
  ASSUME TypeOK, P!WorkerTypes, \A w \in Workers : P!IdleInv(w),
         CoupledInv, [SystemNext]_systemVars
  PROVE  CoupledInv'
<1>1. /\ worker \in [Workers -> WorkerRecords] /\ frame \in [Procs -> Frames]
      /\ PushWorkers \in [Subs -> Workers \cup {NoWorker}]
      /\ DOMAIN pc = Workers /\ canceled \in [Workers -> BOOLEAN]
      /\ Coupled /\ (~Alive => \A w \in Workers : ~W!Running(w))
  BY DEF TypeOK, P!WorkerTypes, CoupledInv
<1>2. ASSUME UNCHANGED <<worker, fatal, pushVars>>
      PROVE  CoupledInv'
  BY <1>2, SteadyStep DEF pushVars, W!Place
<1>3. ASSUME NEW w \in Workers, Alive, UNCHANGED fatal,
             \A v \in Workers \ {w} :
               worker'[v] = worker[v] /\ pc'[v] = pc[v] /\ canceled'[v] = canceled[v],
             worker'[w].at = W!Place(w)',
             W!Running(w)' => canceled'[w] = worker'[w].canceled
      PROVE  CoupledInv'
  BY <1>1, <1>3 DEF CoupledInv, Coupled, Alive, W!Place, W!Running
<1>4. ASSUME NEW c \in Calls, Called(c)
      PROVE  CoupledInv'
  BY <1>2, <1>4 DEF Called, Receive
<1>5. ASSUME NEW p \in Procs, RegistryStep(p)
      PROVE  CoupledInv'
  <2>1. ASSUME NEW kind, kind # "none", Reset(kind)
        PROVE  FALSE
    BY <1>5, <2>1 DEF RegistryStep, Reset, Alive
  <2> QED BY <1>2, <1>5, <2>1 DEF RegistryStep, ActivateCheck, DeactivateCheck,
                                  DeactivateRead, DeactivateDelete, StatusCheck, StatusRead
<1>6. ASSUME NEW p \in Procs, Starts(p)
      PROVE  CoupledInv'
  <2>1. PICK w \in Workers :
          worker[w].at = "off" /\ worker'[w].at = "loop" /\ W!Activate(w)
    BY <1>6 DEF Starts
  <2>2. PICK v \in Workers :
          worker' = [worker EXCEPT ![v] =
            [at |-> "loop", sub |-> frame[p].sub,
             sender |-> frame[p].cfg # "unknownType", canceled |-> FALSE]]
    BY <1>6 DEF Starts, ActivateStore
  <2>3. v = w /\ worker'[w].at = "loop" /\ ~worker'[w].canceled
    BY <1>1, <2>1, <2>2
  <2>4. /\ pc[w] = "off" /\ pc'[w] = "select" /\ UNCHANGED canceled
        /\ \A u \in Workers \ {w} : pc'[u] = pc[u]
    BY <1>1, <2>1 DEF W!Activate
  <2>5. canceled'[w] = FALSE
    BY <1>1, <2>4 DEF P!IdleInv
  <2>6. Alive /\ UNCHANGED fatal
    BY <1>6 DEF Starts, ActivateStore, At
  <2> QED BY <1>1, <1>3, <2>2, <2>3, <2>4, <2>5, <2>6 DEF W!Place, WorkerRecords
<1>7. ASSUME NEW p \in Procs, Stops(p)
      PROVE  CoupledInv'
  <2>1. Alive /\ frame[p].worker \in Workers
    BY <1>1, <1>7, StopsAWorker DEF Stops, DeactivateStop, At
  <2> PICK w \in Workers : w = frame[p].worker
    BY <2>1
  <2>2. worker' = [worker EXCEPT ![w].canceled = TRUE] /\ UNCHANGED fatal
    BY <1>1, <1>7, StopsAWorker DEF Stops, DeactivateStop
  <2>3. /\ worker'[w].canceled = TRUE /\ worker'[w].at = worker[w].at
        /\ \A v \in Workers \ {w} : worker'[v] = worker[v]
    BY <1>1, <2>2 DEF WorkerRecords
  <2>4. CASE W!Running(w)
    <3>1. /\ pc' = pc /\ canceled'[w] = TRUE
          /\ \A v \in Workers \ {w} : canceled'[v] = canceled[v]
      BY <1>1, <1>7, <2>4 DEF Stops, W!Stop, pushVars
    <3>2. worker'[w].at = W!Place(w)' /\ canceled'[w] = worker'[w].canceled
      BY <1>1, <2>3, <3>1 DEF Coupled, W!Place
    <3> QED BY <1>3, <2>1, <2>2, <2>3, <3>1, <3>2
  <2>5. CASE ~W!Running(w)
    <3>1. pc' = pc /\ canceled' = canceled
      BY <1>7, <2>5 DEF Stops, pushVars
    <3>2. worker'[w].at = W!Place(w)' /\ ~W!Running(w)'
      BY <1>1, <2>3, <2>5, <3>1 DEF Coupled, W!Place, W!Running
    <3> QED BY <1>3, <2>1, <2>2, <2>3, <3>1, <3>2
  <2> QED BY <2>4, <2>5
<1>8. ASSUME NEW w \in Workers, MeetsGone(w) \/ Reports(w)
      PROVE  CoupledInv'
  <2>1. /\ Alive /\ UNCHANGED fatal /\ W!Running(w)
        /\ \/ /\ worker' = [worker EXCEPT ![w].at = "report"]
              /\ pc' = [pc EXCEPT ![w] = "report"]
           \/ /\ worker' = [worker EXCEPT ![w].at = "loop"]
              /\ pc' = [pc EXCEPT ![w] = "select"]
        /\ UNCHANGED canceled
    BY <1>8 DEF MeetsGone, WorkerMeetsGone, W!ConsumeGone, Reports, DeactivatorReceives,
                W!Report, W!EndPush, W!Running, At
  <2>2. /\ worker'[w].canceled = worker[w].canceled /\ worker'[w].at = W!Place(w)'
        /\ \A v \in Workers \ {w} : worker'[v] = worker[v] /\ pc'[v] = pc[v]
    BY <1>1, <2>1 DEF WorkerRecords, W!Place
  <2> QED BY <1>1, <1>3, <2>1, <2>2 DEF Coupled
<1>9. ASSUME NEW w \in Workers, Ends(w)
      PROVE  CoupledInv'
  <2>1. CASE UNCHANGED serviceVars /\ W!Done(w) /\ pc'[w] = "drain"
    <3>1. UNCHANGED <<worker, fatal>> /\ pc[w] = "select"
      BY <2>1 DEF serviceVars, vars, W!Done
    <3>2. ~W!Vanish({w})
      BY <2>1, VanishEffect
    <3>3. UNCHANGED canceled /\ pc' = [pc EXCEPT ![w] = "drain"]
      BY <2>1, <3>2 DEF W!Done
    <3> QED BY <1>1, <3>1, <3>3, SteadyStep DEF W!Place
  <2>2. CASE WorkerEnds(w) /\ (W!Drain(w) \/ (W!Done(w) /\ pc'[w] = "off"))
    <3>1. W!Vanish({w})
      BY <1>1, <2>2 DEF W!Drain, W!Done
    <3>2. /\ Alive /\ UNCHANGED fatal /\ worker'[w].at = "off"
          /\ \A v \in Workers \ {w} : worker'[v] = worker[v]
      BY <1>1, <2>2 DEF WorkerEnds, WorkerRecords
    <3> QED BY <1>3, <3>1, <3>2, VanishEffect DEF W!Place, W!Running
  <2> QED BY <1>9, <2>1, <2>2 DEF Ends
<1>10. ASSUME NEW w \in Workers, Fires(w) \/ Pushes(w) \/ Answers(w)
       PROVE  CoupledInv'
  <2>1. UNCHANGED <<worker, fatal, canceled>>
    BY <1>10 DEF Fires, Pushes, Answers, serviceVars, vars, W!TimerFires, W!Tick,
                 W!ConsumeMessages, W!ConsumeEmpty, W!PushFails, W!SendOk, W!AckOk,
                 W!EndPush, W!ServerStep, W!EndpointAccepts, W!EndpointRefuses,
                 W!AmsReceivesAck
  <2>2. \/ pc' = pc
        \/ /\ pc[w] \in {"select", "consume", "send", "ack"}
           /\ \E stage \in {"select", "consume", "send", "ack"} :
                pc' = [pc EXCEPT ![w] = stage]
    BY <1>10 DEF Fires, Pushes, Answers, W!TimerFires, W!Tick,
                 W!ConsumeMessages, W!ConsumeEmpty, W!PushFails, W!SendOk, W!AckOk,
                 W!EndPush, W!ServerStep, W!EndpointAccepts, W!EndpointRefuses,
                 W!AmsReceivesAck
  <2> QED BY <1>1, <2>1, <2>2, SteadyStep DEF W!Place
<1>11. CASE Loads \/ MissesUser \/ FindsUser \/ Changes
  BY <1>2, <1>11 DEF Loads, MissesUser, FindsUser, LoaderEnds, LoaderFetches,
                     LoaderMissesUser, LoaderFindsUser, Changes, AmsChanges
<1>12. ASSUME Dies \/ \E p \in Procs : Panics(p)
       PROVE  CoupledInv'
  <2>1. \E kind : Reset(kind)
    BY <1>12 DEF Dies, Crash, MapRace, Panics, StatusRead, DeactivateStop, At, Alive
  <2>2. W!Vanish(Workers)
    BY <1>12 DEF Dies, Panics, W!Crash, W!Die
  <2> QED BY <2>1, <2>2, ResetEffect, VanishEffect
          DEF CoupledInv, Coupled, W!Place, W!Running
<1>13. CASE Restarts
  <2>1. ~Alive /\ pc' = pc /\ \E kind : Reset(kind)
    BY <1>13 DEF Restarts, Restart, pushVars
  <2> QED BY <1>1, <2>1, ResetEffect DEF CoupledInv, Coupled, W!Place, W!Running
<1>14. CASE Surroundings
  BY <1>14, SteadyStep DEF Surroundings, serviceVars, vars, W!LatePost, W!LateAck,
                           W!Publish, W!workerVars, W!Place
<1>15. CASE UNCHANGED systemVars
  BY <1>2, <1>15 DEF systemVars, serviceVars, vars
<1> QED
  BY <1>4, <1>5, <1>6, <1>7, <1>8, <1>9, <1>10, <1>11, <1>12, <1>13, <1>14, <1>15
     DEF SystemNext

(* The invariant holds in every reachable state. *)
LEMMA CoupledInvariant == SystemSpec => []CoupledInv
<1>1. SystemInit => CoupledInv
  <2> SUFFICES ASSUME SystemInit PROVE CoupledInv
    OBVIOUS
  <2>1. W!Init /\ worker = [w \in Workers |-> NewWorkerRecord]
    BY DEF SystemInit, Init
  <2> QED BY <2>1 DEF W!Init, NewWorkerRecord, CoupledInv, Coupled, W!Place, W!Running
<1> DEFINE Idle == \A w \in Workers : P!IdleInv(w)
<1>2. TypeOK /\ P!WorkerTypes /\ Idle /\ CoupledInv /\ [SystemNext]_systemVars
      => CoupledInv'
  BY CoupledStep
<1> HIDE DEF Idle
<1>3. SystemSpec => []TypeOK
  BY SystemRegistry, TypeCorrect, PTL
<1>4. SystemSpec => []P!WorkerTypes /\ []Idle
  BY InstanceInvariant, PTL DEF Idle
<1> QED BY <1>1, <1>2, <1>3, <1>4, PTL DEF SystemSpec

(* However operations overlap and conflict, the registry and the instances agree on
   who runs, who is blocked on the deactivation channel and who was stopped. *)
THEOREM AlwaysCoupled == SystemSpec => []Coupled
<1>1. CoupledInv => Coupled
  BY DEF CoupledInv
<1> QED BY <1>1, CoupledInvariant, PTL

-----------------------------------------------------------------------------
(* Who sends.                                                              *)

(* An instance that runs and was not stopped is the registered one. *)
LEMMA RegisteredServes ==
  ASSUME TypeOK, NoOrphan, Coupled, NEW w \in Workers, W!Running(w), ~canceled[w]
  PROVE  PushWorkers[TheSub] = w
<1>1. worker[w].at # "off" /\ ~worker[w].canceled
  BY DEF Coupled, W!Place, W!Running
<1>2. worker[w].sub = TheSub
  BY <1>1, OneSub, BusyTypes DEF TypeOK
<1> QED BY <1>1, <1>2 DEF NoOrphan

(* An instance that starts an exchange runs, and was not stopped. *)
LEMMA ServesWhenItSends ==
  ASSUME P!WorkerTypes, NEW w \in Workers, P!IdleInv(w), [W!Next]_(W!vars),
         pc'[w] # pc[w], exchange'[w] = "pending"
  PROVE  W!Running(w) /\ ~canceled[w]
<1>1. /\ DOMAIN pc = Workers /\ DOMAIN exchange = Workers
      /\ canceled \in [Workers -> BOOLEAN]
      /\ pc[w] \in {"off", "select"} => exchange[w] = "none"
  BY DEF P!WorkerTypes, P!IdleInv
<1>2. ASSUME NEW v \in Workers, W!Activate(v)
      PROVE  FALSE
  BY <1>1, <1>2 DEF W!Activate
<1>3. ASSUME NEW v \in Workers, W!Tick(v) \/ W!ConsumeMessages(v) \/ W!SendOk(v)
      PROVE  W!Running(w) /\ ~canceled[w]
  BY <1>1, <1>3 DEF W!Tick, W!ConsumeMessages, W!SendOk, W!NewExchange, W!Running
<1>4. ASSUME NEW v \in Workers,
             \/ W!ConsumeEmpty(v) \/ W!ConsumeGone(v) \/ W!Report(v)
             \/ W!PushFails(v) \/ W!AckOk(v)
      PROVE  FALSE
  BY <1>1, <1>4 DEF W!ConsumeEmpty, W!ConsumeGone, W!Report, W!PushFails, W!AckOk, W!EndPush
<1>5. ASSUME NEW ws \in SUBSET Workers, W!Vanish(ws)
      PROVE  FALSE
  BY <1>5 DEF W!Vanish, W!Blank
<1>6. ASSUME NEW v \in Workers, W!Done(v) \/ W!Drain(v)
      PROVE  FALSE
  <2>1. CASE W!Vanish({v})
    BY <1>5, <2>1
  <2>2. CASE pc[v] = "select" /\ pc' = [pc EXCEPT ![v] = "drain"] /\ UNCHANGED exchange
    BY <1>1, <2>2
  <2> QED BY <1>6, <2>1, <2>2 DEF W!Done, W!Drain
<1>7. ASSUME NEW v \in Workers, W!Stop(v) \/ W!TimerFires(v) \/ W!ServerStep(v)
      PROVE  FALSE
  BY <1>7 DEF W!Stop, W!TimerFires, W!ServerStep, W!EndpointAccepts, W!EndpointRefuses,
              W!AmsReceivesAck
<1>8. CASE W!LatePost \/ W!LateAck \/ W!Publish \/ W!DeleteSubscription \/ UNCHANGED W!vars
  BY <1>8 DEF W!LatePost, W!LateAck, W!Publish, W!DeleteSubscription, W!vars, W!workerVars
<1>9. CASE W!Crash
  BY <1>5, <1>9 DEF W!Crash, W!Die
<1> QED
  BY <1>2, <1>3, <1>4, <1>6, <1>7, <1>8, <1>9 DEF W!Next, W!WorkerStep

(* As long as no operations conflict, requests leave from the registered instance
   only, in every state that calls, reports, crashes and restarts lead to. *)
THEOREM OnlyRegistered == ConflictFreeSystem => OnlyRegisteredPush
<1> DEFINE Idle == \A w \in Workers : P!IdleInv(w)
           Sends == \A w \in Workers :
             pc'[w] # pc[w] /\ exchange'[w] = "pending" => PushWorkers[TheSub] = w
<1>1. TypeOK /\ NoOrphan /\ P!WorkerTypes /\ Idle /\ Coupled /\ [SystemNext]_systemVars
        => Sends
  BY WorkerOwnStep, ServesWhenItSends, RegisteredServes
<1>2. Sends => [\A w \in Workers :
       pc'[w] # pc[w] /\ exchange'[w] = "pending" => PushWorkers[TheSub] = w]_systemVars
  OBVIOUS
<1> HIDE DEF Idle, Sends
<1>3. ConflictFreeSystem => []TypeOK /\ []NoOrphan
  BY ConflictFreeRegistry, SystemRegistry, TypeCorrect, NoOrphans, PTL
<1>4. SystemSpec => []P!WorkerTypes /\ []Idle
  BY InstanceInvariant, PTL DEF Idle
<1> QED
  BY <1>1, <1>2, <1>3, <1>4, AlwaysCoupled, ConflictFreeRegistry, PTL
     DEF SystemSpec, OnlyRegisteredPush

(* As long as no operations conflict, at most one instance runs that was not
   stopped: a new one may overlap the last cycle of one that was, and no other. *)
THEOREM OneInstanceServes ==
  ConflictFreeSystem => [](\A v, w \in Workers :
    W!Running(v) /\ ~canceled[v] /\ W!Running(w) /\ ~canceled[w] => v = w)
<1>1. TypeOK /\ NoOrphan /\ Coupled =>
        \A v, w \in Workers :
          W!Running(v) /\ ~canceled[v] /\ W!Running(w) /\ ~canceled[w] => v = w
  BY RegisteredServes
<1>2. ConflictFreeSystem => []TypeOK /\ []NoOrphan
  BY ConflictFreeRegistry, SystemRegistry, TypeCorrect, NoOrphans, PTL
<1> QED BY <1>1, <1>2, AlwaysCoupled, ConflictFreeRegistry, PTL

==============================================================================
