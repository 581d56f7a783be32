--------------------------- MODULE PushService_proofs ---------------------------
(***************************************************************************)
(* Proofs about PushService, with every interleaving of its goroutines and *)
(* for any sets of subscriptions, worker instances and concurrent calls.   *)
(***************************************************************************)
EXTENDS PushService, TLAPS

-----------------------------------------------------------------------------
(* What the constructors of the state return.                              *)

(* A goroutine that is about to run a statement is in an operation on a
   subscription, and a worker that runs was made for one. *)
LEMMA BusyTypes ==
  /\ \A f \in Frames : f.at # "idle" =>
       /\ f.sub \in Subs /\ f.cfg \in Configs
       /\ f.worker \in Workers \cup {NoWorker} /\ f.reporter \in Workers \cup {NoWorker}
  /\ \A r \in WorkerRecords : r.at # "off" => r.sub \in Subs
BY DEF Frames, IdleFrame, WorkerRecords, NewWorkerRecord

(* Goto keeps the type of frame for a goroutine that is in an operation. *)
LEMMA GotoType ==
  ASSUME frame \in [Procs -> Frames], NEW p \in Procs, frame[p].at # "idle",
         NEW statement \in {"activateStore", "deactivateRead", "deactivateDelete",
                            "statusRead"},
         Goto(p, statement)
  PROVE  frame' \in [Procs -> Frames]
<1>1. [frame[p] EXCEPT !.at = statement] \in Frames
  <2>1. frame[p] \in [at : {"activateCheck", "activateStore", "deactivateCheck",
           "deactivateRead", "deactivateStop", "deactivateDelete", "statusCheck",
           "statusRead"},
         sub : Subs, cfg : Configs,
         worker : Workers \cup {NoWorker}, reporter : Workers \cup {NoWorker}]
    BY DEF Frames, IdleFrame
  <2> QED BY <2>1 DEF Frames
<1> QED BY <1>1 DEF Goto

(* Return keeps the type of frame. *)
LEMMA ReturnType ==
  ASSUME frame \in [Procs -> Frames], NEW p \in Procs, Return(p)
  PROVE  frame' \in [Procs -> Frames]
BY DEF Return, Frames

(* Enter keeps the type of frame. *)
LEMMA EnterType ==
  ASSUME frame \in [Procs -> Frames], NEW p \in Procs,
         NEW statement \in {"activateCheck", "deactivateCheck", "statusCheck"},
         NEW s \in Subs, NEW cfg \in Configs, NEW reporter \in Workers \cup {NoWorker},
         Enter(p, statement, s, cfg, reporter)
  PROVE  frame' \in [Procs -> Frames]
<1>1. [at |-> statement, sub |-> s, cfg |-> cfg, worker |-> NoWorker,
       reporter |-> reporter] \in Frames
  BY DEF Frames
<1> QED BY <1>1 DEF Enter

(* A process that ends, or starts, is in a state of the right type. *)
LEMMA ResetType ==
  ASSUME TypeOK, NEW kind \in {"none", "nilWorker", "nilSender", "mapRace", "killed"},
         Reset(kind)
  PROVE  TypeOK'
<1>1. IdleFrame \in Frames /\ NewWorkerRecord \in WorkerRecords
  BY DEF Frames, WorkerRecords, NewWorkerRecord
<1> QED BY <1>1 DEF Reset, TypeOK

-----------------------------------------------------------------------------
(* Type correctness.                                                       *)

(* Every step keeps the types. *)
LEMMA TypeStep ==
  ASSUME TypeOK, [Next]_vars
  PROVE  TypeOK'
<1>1. frame \in [Procs -> Frames] /\ worker \in [Workers -> WorkerRecords]
  BY DEF TypeOK
<1>2. ASSUME frame' \in [Procs -> Frames],
             UNCHANGED <<amsSub, status, PushWorkers, worker, loader, todo, fatal>>
      PROVE  TypeOK'
  BY <1>2 DEF TypeOK
<1>3. ASSUME NEW c \in Calls, Receive(c)
      PROVE  TypeOK'
  <2>1. c \in Procs /\ "ok" \in Configs /\ CallConfigs \subseteq Configs
    BY ServiceAssumption DEF Procs, Configs
  <2>2. frame' \in [Procs -> Frames]
    BY <1>1, <1>3, <2>1, EnterType DEF Receive
  <2> QED BY <1>2, <1>3, <2>2 DEF Receive
<1>4. ASSUME NEW p \in Procs, ActivateCheck(p) \/ DeactivateCheck(p) \/ StatusCheck(p)
      PROVE  TypeOK'
  <2>1. frame[p].at # "idle"
    BY <1>4 DEF ActivateCheck, DeactivateCheck, StatusCheck, At
  <2>2. frame' \in [Procs -> Frames]
    BY <1>1, <1>4, <2>1, GotoType, ReturnType
       DEF ActivateCheck, DeactivateCheck, StatusCheck
  <2> QED BY <1>2, <1>4, <2>2 DEF ActivateCheck, DeactivateCheck, StatusCheck
<1>5. ASSUME NEW p \in Procs, ActivateStore(p)
      PROVE  TypeOK'
  <2>1. frame[p].sub \in Subs
    BY <1>1, <1>5, BusyTypes DEF ActivateStore, At
  <2>2. frame' \in [Procs -> Frames]
    BY <1>1, <1>5, ReturnType DEF ActivateStore
  <2>3. PICK w \in Workers :
          /\ PushWorkers' = [PushWorkers EXCEPT ![frame[p].sub] = w]
          /\ worker' = [worker EXCEPT ![w] =
               [at |-> "loop", sub |-> frame[p].sub,
                sender |-> frame[p].cfg # "unknownType", canceled |-> FALSE]]
    BY <1>5 DEF ActivateStore
  <2>4. [at |-> "loop", sub |-> frame[p].sub,
         sender |-> frame[p].cfg # "unknownType", canceled |-> FALSE] \in WorkerRecords
    BY <2>1 DEF WorkerRecords
  <2>5. worker' \in [Workers -> WorkerRecords]
    BY <1>1, <2>3, <2>4
  <2>6. PushWorkers' \in [Subs -> Workers \cup {NoWorker}]
    BY <2>3 DEF TypeOK
  <2> QED BY <1>5, <2>2, <2>5, <2>6 DEF ActivateStore, TypeOK
<1>6. ASSUME NEW p \in Procs, DeactivateRead(p)
      PROVE  TypeOK'
  <2>1. frame[p].sub \in Subs /\ frame[p].cfg \in Configs
        /\ frame[p].reporter \in Workers \cup {NoWorker}
    BY <1>1, <1>6, BusyTypes DEF DeactivateRead, At
  <2>2. PushWorkers[frame[p].sub] \in Workers \cup {NoWorker}
    BY <2>1 DEF TypeOK
  <2>3. [at |-> "deactivateStop", sub |-> frame[p].sub, cfg |-> frame[p].cfg,
         worker |-> PushWorkers[frame[p].sub], reporter |-> frame[p].reporter] \in Frames
    BY <2>1, <2>2 DEF Frames
  <2>4. frame' \in [Procs -> Frames]
    BY <1>1, <1>6, <2>3 DEF DeactivateRead
  <2> QED BY <1>2, <1>6, <2>4 DEF DeactivateRead
<1>7. ASSUME NEW p \in Procs, DeactivateStop(p)
      PROVE  TypeOK'
  <2>1. CASE frame[p].worker = NoWorker
    BY <1>7, <2>1, ResetType DEF DeactivateStop
  <2>2. CASE frame[p].worker # NoWorker
    <3>1. frame[p].at # "idle"
      BY <1>7 DEF DeactivateStop, At
    <3>2. frame' \in [Procs -> Frames]
      BY <1>1, <1>7, <2>2, <3>1, GotoType DEF DeactivateStop
    <3>3. frame[p].worker \in Workers
      BY <1>1, <2>2, <3>1, BusyTypes
    <3>4. [worker[frame[p].worker] EXCEPT !.canceled = TRUE] \in WorkerRecords
      BY <1>1, <3>3 DEF WorkerRecords
    <3>5. worker' \in [Workers -> WorkerRecords]
      BY <1>1, <1>7, <2>2, <3>3, <3>4 DEF DeactivateStop
    <3> QED BY <1>7, <2>2, <3>2, <3>5 DEF DeactivateStop, TypeOK
  <2> QED BY <2>1, <2>2
<1>8. ASSUME NEW p \in Procs, DeactivateDelete(p)
      PROVE  TypeOK'
  <2>1. frame' \in [Procs -> Frames]
    BY <1>1, <1>8, ReturnType DEF DeactivateDelete
  <2> QED BY <1>8, <2>1 DEF DeactivateDelete, TypeOK
<1>9. ASSUME NEW p \in Procs, StatusRead(p)
      PROVE  TypeOK'
  <2>1. CASE Active(frame[p].sub)
    BY <1>1, <1>2, <1>9, <2>1, ReturnType DEF StatusRead
  <2>2. CASE ~Active(frame[p].sub)
    BY <1>9, <2>2, ResetType DEF StatusRead
  <2> QED BY <2>1, <2>2
<1>10. ASSUME NEW w \in Workers, WorkerMeetsGone(w) \/ WorkerEnds(w)
       PROVE  TypeOK'
  <2>1. worker[w].at = "loop" /\ worker[w].sub \in Subs
    BY <1>1, <1>10, BusyTypes DEF WorkerMeetsGone, WorkerEnds
  <2>2. /\ [worker[w] EXCEPT !.at = "report"] \in WorkerRecords
        /\ [worker[w] EXCEPT !.at = "off"] \in WorkerRecords
    BY <1>1, <2>1 DEF WorkerRecords
  <2>3. worker' \in [Workers -> WorkerRecords]
    BY <1>1, <1>10, <2>2 DEF WorkerMeetsGone, WorkerEnds
  <2> QED BY <1>10, <2>3 DEF WorkerMeetsGone, WorkerEnds, TypeOK
<1>11. ASSUME NEW w \in Workers, WorkerHasNoSender(w)
       PROVE  TypeOK'
  BY <1>11, ResetType DEF WorkerHasNoSender
<1>12. ASSUME NEW w \in Workers, DeactivatorReceives(w)
       PROVE  TypeOK'
  <2>1. worker[w].sub \in Subs
    BY <1>1, <1>12, BusyTypes DEF DeactivatorReceives
  <2>2. "deactivator" \in Procs /\ "ok" \in Configs
    BY DEF Procs, Configs
  <2>3. frame' \in [Procs -> Frames]
    BY <1>1, <1>12, <2>1, <2>2, EnterType DEF DeactivatorReceives
  <2>4. [worker[w] EXCEPT !.at = "loop"] \in WorkerRecords
    BY <1>1, <2>1 DEF WorkerRecords
  <2>5. worker' \in [Workers -> WorkerRecords]
    BY <1>1, <1>12, <2>4 DEF DeactivatorReceives
  <2> QED BY <1>12, <2>3, <2>5 DEF DeactivatorReceives, TypeOK
<1>13. CASE LoaderMissesUser \/ LoaderFindsUser \/ LoaderEnds
  <2>1. Assigned \subseteq Subs
    BY DEF Assigned
  <2> QED BY <1>13, <2>1 DEF LoaderMissesUser, LoaderFindsUser, LoaderEnds, TypeOK
<1>14. ASSUME NEW s \in Subs, LoaderFetches(s)
       PROVE  TypeOK'
  <2>1. CASE UNCHANGED frame
    BY <1>14, <2>1 DEF LoaderFetches, TypeOK
  <2>2. ASSUME NEW answer, IsPushEnabled(answer),
               Enter("loader", "activateCheck", s, answer, NoWorker)
        PROVE  TypeOK'
    <3>1. answer \in Configs /\ "loader" \in Procs
      BY <2>2, ServiceAssumption DEF IsPushEnabled, Procs
    <3>2. frame' \in [Procs -> Frames]
      BY <1>1, <2>2, <3>1, EnterType
    <3> QED BY <1>14, <3>2 DEF LoaderFetches, TypeOK
  <2> QED BY <1>14, <2>1, <2>2 DEF LoaderFetches
<1>15. ASSUME NEW s \in Subs, AmsChanges(s)
       PROVE  TypeOK'
  BY <1>15 DEF AmsChanges, TypeOK
<1>16. CASE MapRace \/ Crash \/ Restart
  BY <1>16, ResetType DEF MapRace, Crash, Restart
<1>17. CASE UNCHANGED vars
  BY <1>17 DEF vars, TypeOK
<1> QED
  BY <1>3, <1>4, <1>5, <1>6, <1>7, <1>8, <1>9, <1>10, <1>11, <1>12, <1>13, <1>14,
     <1>15, <1>16, <1>17 DEF Next, FrameStep, WorkerStep, LoaderStep

(* Every reachable state has the types that TypeOK gives it. *)
THEOREM TypeCorrect == Spec => []TypeOK
<1>1. Init => TypeOK
  <2>1. IdleFrame \in Frames /\ NewWorkerRecord \in WorkerRecords
    BY DEF Frames, WorkerRecords, NewWorkerRecord
  <2> QED BY <2>1 DEF Init, TypeOK
<1>2. TypeOK /\ [Next]_vars => TypeOK'
  BY TypeStep
<1> QED BY <1>1, <1>2, PTL DEF Spec

-----------------------------------------------------------------------------
(* No zombie entries.                                                      *)

(* A process that ends, or starts, has no entries and no operations. *)
LEMMA ResetIsClean ==
  ASSUME NEW kind, Reset(kind)
  PROVE  WorkersMatch' /\ NoZombieEntry'
BY DEF Reset, WorkersMatch, NoZombieEntry, Active, IdleFrame

(* The worker that a goroutine holds is a worker or none. *)
LEMMA HeldWorker ==
  ASSUME frame \in [Procs -> Frames], NEW p \in Procs
  PROVE  frame[p].worker \in Workers \cup {NoWorker}
<1>1. CASE frame[p] = IdleFrame
  BY <1>1 DEF IdleFrame
<1>2. CASE frame[p] # IdleFrame
  BY <1>2 DEF Frames
<1> QED BY <1>1, <1>2

Deleting(p, s) == frame[p].at = "deactivateDelete" /\ frame[p].sub = s

(* A step that changes neither the map nor a worker's subscription or context
   keeps both invariants if it changes frames only of goroutines that are not
   about to delete, and gives them no worker but the one they had. *)
LEMMA HarmlessStep ==
  ASSUME TypeOK, WorkersMatch, NoZombieEntry, UNCHANGED PushWorkers,
         \A w \in Workers : worker'[w].sub = worker[w].sub
                              /\ worker'[w].canceled = worker[w].canceled,
         \A p \in Procs :
           \/ frame'[p] = frame[p]
           \/ /\ frame[p].at # "deactivateDelete"
              /\ \/ frame'[p].worker = NoWorker
                 \/ frame'[p].worker = frame[p].worker /\ frame'[p].sub = frame[p].sub
  PROVE  WorkersMatch' /\ NoZombieEntry'
<1>1. \A s \in Subs : PushWorkers[s] \in Workers \cup {NoWorker}
  BY DEF TypeOK
<1>2. \A p \in Procs : frame[p].worker \in Workers \cup {NoWorker}
  BY HeldWorker DEF TypeOK
<1>3. WorkersMatch'
  BY <1>1, <1>2 DEF WorkersMatch, Active
<1>4. NoZombieEntry'
  BY <1>1 DEF NoZombieEntry, Active
<1> QED BY <1>3, <1>4

(* Both invariants are inductive together, given the types. *)
LEMMA ZombieStep ==
  ASSUME TypeOK, WorkersMatch, NoZombieEntry, [Next]_vars
  PROVE  WorkersMatch' /\ NoZombieEntry'
<1>1. /\ frame \in [Procs -> Frames] /\ worker \in [Workers -> WorkerRecords]
      /\ PushWorkers \in [Subs -> Workers \cup {NoWorker}]
      /\ \A p \in Procs : frame[p].worker \in Workers \cup {NoWorker}
      /\ NoWorker \notin Workers
  BY ServiceAssumption, HeldWorker DEF TypeOK
<1>2. ASSUME NEW p \in Procs, UNCHANGED <<PushWorkers, worker>>,
             frame[p].at # "deactivateDelete",
             \/ Return(p)
             \/ \E statement : Goto(p, statement)
             \/ \E statement, s, cfg, reporter : Enter(p, statement, s, cfg, reporter)
      PROVE  WorkersMatch' /\ NoZombieEntry'
  <2>1. \A q \in Procs : q # p => frame'[q] = frame[q]
    BY <1>1, <1>2 DEF Return, Goto, Enter
  <2>2. \/ frame'[p].worker = NoWorker
        \/ frame'[p].worker = frame[p].worker /\ frame'[p].sub = frame[p].sub
    <3>1. CASE Return(p)
      BY <1>1, <3>1 DEF Return, IdleFrame
    <3>2. ASSUME NEW statement, Goto(p, statement)
          PROVE  frame'[p].worker = frame[p].worker /\ frame'[p].sub = frame[p].sub
      BY <1>1, <3>2 DEF Goto, Frames, IdleFrame
    <3>3. CASE \E statement, s, cfg, reporter : Enter(p, statement, s, cfg, reporter)
      BY <1>1, <3>3 DEF Enter
    <3> QED BY <1>2, <3>1, <3>2, <3>3
  <2> QED BY <1>2, <2>1, <2>2, HarmlessStep
<1>3. ASSUME NEW c \in Calls, Receive(c)
      PROVE  WorkersMatch' /\ NoZombieEntry'
  BY <1>2, <1>3 DEF Receive, At, Procs
<1>4. ASSUME NEW p \in Procs, ActivateCheck(p) \/ DeactivateCheck(p) \/ StatusCheck(p)
      PROVE  WorkersMatch' /\ NoZombieEntry'
  BY <1>2, <1>4 DEF ActivateCheck, DeactivateCheck, StatusCheck, At
<1>5. ASSUME NEW p \in Procs, ActivateStore(p)
      PROVE  WorkersMatch' /\ NoZombieEntry'
  <2>1. PICK w \in Workers :
          /\ Free(w)
          /\ PushWorkers' = [PushWorkers EXCEPT ![frame[p].sub] = w]
          /\ worker' = [worker EXCEPT ![w] =
               [at |-> "loop", sub |-> frame[p].sub,
                sender |-> frame[p].cfg # "unknownType", canceled |-> FALSE]]
    BY <1>5 DEF ActivateStore
  <2>2. frame' = [frame EXCEPT ![p] = IdleFrame] /\ frame[p].at = "activateStore"
    BY <1>5 DEF ActivateStore, Return, At
  <2>3. worker'[w].sub = frame[p].sub /\ worker'[w].canceled = FALSE
    BY <1>1, <2>1
  <2>4. \A v \in Workers : v # w => worker'[v] = worker[v]
    BY <1>1, <2>1
  <2>5. \A s \in Subs : \/ s = frame[p].sub /\ PushWorkers'[s] = w
                        \/ PushWorkers'[s] = PushWorkers[s] /\ PushWorkers[s] # w
    BY <1>1, <2>1 DEF Free
  <2>6. \A q \in Procs : frame'[q] = frame[q] \/ q = p
    BY <1>1, <2>2
  <2>7. WorkersMatch'
    <3>1. ASSUME NEW s \in Subs, PushWorkers'[s] # NoWorker
          PROVE  worker'[PushWorkers'[s]].sub = s
      BY <1>1, <2>3, <2>4, <2>5, <3>1 DEF WorkersMatch, Active
    <3>2. ASSUME NEW q \in Procs, frame'[q].worker # NoWorker
          PROVE  worker'[frame'[q].worker].sub = frame'[q].sub
      <4>1. q # p
        BY <1>1, <2>2, <3>2 DEF IdleFrame
      <4>2. frame'[q] = frame[q] /\ frame[q].worker # w
        BY <2>1, <2>6, <4>1 DEF Free
      <4> QED BY <1>1, <2>4, <3>2, <4>2 DEF WorkersMatch
    <3> QED BY <3>1, <3>2 DEF WorkersMatch, Active
  <2>8. NoZombieEntry'
    <3>1. ASSUME NEW s \in Subs, PushWorkers'[s] # NoWorker,
                 worker'[PushWorkers'[s]].canceled
          PROVE  \E q \in Procs : Deleting(q, s)'
      <4>1. PushWorkers'[s] = PushWorkers[s] /\ PushWorkers[s] # w
        BY <2>3, <2>5, <3>1
      <4>2. worker[PushWorkers[s]].canceled
        BY <1>1, <2>4, <3>1, <4>1
      <4>3. PICK q \in Procs : Deleting(q, s)
        BY <3>1, <4>1, <4>2 DEF NoZombieEntry, Active, Deleting
      <4> QED BY <2>2, <2>6, <4>3 DEF Deleting
    <3> QED BY <3>1 DEF NoZombieEntry, Active, Deleting
  <2> QED BY <2>7, <2>8
<1>6. ASSUME NEW p \in Procs, DeactivateRead(p)
      PROVE  WorkersMatch' /\ NoZombieEntry'
  <2>1. frame[p].at = "deactivateRead" /\ frame[p].sub \in Subs
    BY <1>1, <1>6, BusyTypes DEF DeactivateRead, At
  <2>2. /\ frame'[p].at = "deactivateStop" /\ frame'[p].sub = frame[p].sub
        /\ frame'[p].worker = PushWorkers[frame[p].sub]
        /\ \A q \in Procs : q # p => frame'[q] = frame[q]
    BY <1>1, <1>6 DEF DeactivateRead
  <2>3. UNCHANGED <<PushWorkers, worker>>
    BY <1>6 DEF DeactivateRead
  <2>4. WorkersMatch'
    <3>1. ASSUME NEW q \in Procs, frame'[q].worker # NoWorker
          PROVE  worker'[frame'[q].worker].sub = frame'[q].sub
      BY <2>1, <2>2, <2>3, <3>1 DEF WorkersMatch, Active
    <3> QED BY <2>3, <3>1 DEF WorkersMatch, Active
  <2>5. NoZombieEntry'
    <3>1. ASSUME NEW s \in Subs, NEW q \in Procs, Deleting(q, s)
          PROVE  Deleting(q, s)'
      BY <2>1, <2>2, <3>1 DEF Deleting
    <3> QED BY <2>3, <3>1 DEF NoZombieEntry, Active, Deleting
  <2> QED BY <2>4, <2>5
<1>7. ASSUME NEW p \in Procs, DeactivateStop(p)
      PROVE  WorkersMatch' /\ NoZombieEntry'
  <2>1. CASE frame[p].worker = NoWorker
    BY <1>7, <2>1, ResetIsClean DEF DeactivateStop
  <2>2. CASE frame[p].worker # NoWorker
    <3> DEFINE w == frame[p].worker
    <3>1. w \in Workers
      BY <1>1, <2>2
    <3>2. /\ worker' = [worker EXCEPT ![w].canceled = TRUE]
          /\ frame' = [frame EXCEPT ![p].at = "deactivateDelete"]
          /\ UNCHANGED PushWorkers
          /\ frame[p].at = "deactivateStop"
      BY <1>7, <2>2 DEF DeactivateStop, Goto, At
    <3>3. \A v \in Workers : worker'[v].sub = worker[v].sub
      <4>1. worker'[w].sub = worker[w].sub
        BY <1>1, <3>1, <3>2 DEF WorkerRecords
      <4>2. \A v \in Workers : v # w => worker'[v] = worker[v]
        BY <1>1, <3>2
      <4> QED BY <4>1, <4>2
    <3>4. \A v \in Workers : v # w => worker'[v] = worker[v]
      BY <1>1, <3>2
    <3>5. /\ frame'[p].at = "deactivateDelete" /\ frame'[p].sub = frame[p].sub
          /\ frame'[p].worker = frame[p].worker
      BY <1>1, <3>2 DEF Frames, IdleFrame
    <3>6. \A q \in Procs : q # p => frame'[q] = frame[q]
      BY <1>1, <3>2
    <3>7. \A q \in Procs : frame'[q].worker = frame[q].worker /\ frame'[q].sub = frame[q].sub
      BY <3>5, <3>6
    <3>8. WorkersMatch'
      <4>1. ASSUME NEW s \in Subs, PushWorkers'[s] # NoWorker
            PROVE  worker'[PushWorkers'[s]].sub = s
        BY <1>1, <3>2, <3>3, <4>1 DEF WorkersMatch, Active
      <4>2. ASSUME NEW q \in Procs, frame'[q].worker # NoWorker
            PROVE  worker'[frame'[q].worker].sub = frame'[q].sub
        BY <1>1, <3>3, <3>7, <4>2 DEF WorkersMatch
      <4> QED BY <4>1, <4>2 DEF WorkersMatch, Active
    <3>9. NoZombieEntry'
      <4>1. ASSUME NEW s \in Subs, PushWorkers'[s] # NoWorker,
                   worker'[PushWorkers'[s]].canceled
            PROVE  \E q \in Procs : Deleting(q, s)'
        <5>1. PushWorkers'[s] = PushWorkers[s] /\ PushWorkers[s] \in Workers
          BY <1>1, <3>2, <4>1
        <5>2. CASE PushWorkers[s] = w
          <6>1. s = frame[p].sub
            BY <2>2, <5>1, <5>2 DEF WorkersMatch, Active
          <6> QED BY <3>5, <6>1 DEF Deleting
        <5>3. CASE PushWorkers[s] # w
          <6>1. PICK q \in Procs : Deleting(q, s)
            BY <3>4, <4>1, <5>1, <5>3 DEF NoZombieEntry, Active, Deleting
          <6>2. q # p
            BY <3>2, <6>1 DEF Deleting
          <6> QED BY <3>6, <6>1, <6>2 DEF Deleting
        <5> QED BY <5>2, <5>3
      <4> QED BY <4>1 DEF NoZombieEntry, Active, Deleting
    <3> QED BY <3>8, <3>9
  <2> QED BY <2>1, <2>2
<1>8. ASSUME NEW p \in Procs, DeactivateDelete(p)
      PROVE  WorkersMatch' /\ NoZombieEntry'
  <2>1. /\ \A s \in Subs :
             PushWorkers'[s] = IF s = frame[p].sub THEN NoWorker ELSE PushWorkers[s]
        /\ UNCHANGED worker
    BY <1>1, <1>8 DEF DeactivateDelete
  <2>2. frame'[p].worker = NoWorker /\ \A q \in Procs : q # p => frame'[q] = frame[q]
    BY <1>1, <1>8 DEF DeactivateDelete, Return, IdleFrame
  <2>3. WorkersMatch'
    <3>1. ASSUME NEW q \in Procs, frame'[q].worker # NoWorker
          PROVE  worker'[frame'[q].worker].sub = frame'[q].sub
      BY <2>1, <2>2, <3>1 DEF WorkersMatch
    <3> QED BY <2>1, <3>1 DEF WorkersMatch, Active
  <2>4. NoZombieEntry'
    <3>1. ASSUME NEW s \in Subs, PushWorkers'[s] # NoWorker,
                 worker'[PushWorkers'[s]].canceled
          PROVE  \E q \in Procs : Deleting(q, s)'
      <4>1. s # frame[p].sub /\ PushWorkers'[s] = PushWorkers[s]
        BY <2>1, <3>1
      <4>2. PICK q \in Procs : Deleting(q, s)
        BY <2>1, <3>1, <4>1 DEF NoZombieEntry, Active, Deleting
      <4>3. q # p
        BY <4>1, <4>2 DEF Deleting
      <4> QED BY <2>2, <4>2, <4>3 DEF Deleting
    <3> QED BY <3>1 DEF NoZombieEntry, Active, Deleting
  <2> QED BY <2>3, <2>4
<1>9. ASSUME NEW p \in Procs, StatusRead(p)
      PROVE  WorkersMatch' /\ NoZombieEntry'
  BY <1>2, <1>9, ResetIsClean DEF StatusRead, At
<1>10. ASSUME NEW w \in Workers, WorkerMeetsGone(w) \/ WorkerEnds(w)
       PROVE  WorkersMatch' /\ NoZombieEntry'
  <2>1. \A v \in Workers : worker'[v].sub = worker[v].sub
                              /\ worker'[v].canceled = worker[v].canceled
    <3>1. \A v \in Workers : v # w => worker'[v] = worker[v]
      BY <1>1, <1>10 DEF WorkerMeetsGone, WorkerEnds
    <3>2. worker'[w].sub = worker[w].sub /\ worker'[w].canceled = worker[w].canceled
      BY <1>1, <1>10 DEF WorkerMeetsGone, WorkerEnds, WorkerRecords
    <3> QED BY <3>1, <3>2
  <2>2. UNCHANGED <<PushWorkers, frame>>
    BY <1>10 DEF WorkerMeetsGone, WorkerEnds
  <2> QED BY <2>1, <2>2, HarmlessStep
<1>11. ASSUME NEW w \in Workers, WorkerHasNoSender(w)
       PROVE  WorkersMatch' /\ NoZombieEntry'
  BY <1>11, ResetIsClean DEF WorkerHasNoSender
<1>12. ASSUME NEW w \in Workers, DeactivatorReceives(w)
       PROVE  WorkersMatch' /\ NoZombieEntry'
  <2>1. \A v \in Workers : worker'[v].sub = worker[v].sub
                              /\ worker'[v].canceled = worker[v].canceled
    <3>1. \A v \in Workers : v # w => worker'[v] = worker[v]
      BY <1>1, <1>12 DEF DeactivatorReceives
    <3>2. worker'[w].sub = worker[w].sub /\ worker'[w].canceled = worker[w].canceled
      BY <1>1, <1>12 DEF DeactivatorReceives, WorkerRecords
    <3> QED BY <3>1, <3>2
  <2>2. \A p \in Procs :
          \/ frame'[p] = frame[p]
          \/ frame[p].at # "deactivateDelete" /\ frame'[p].worker = NoWorker
    BY <1>1, <1>12 DEF DeactivatorReceives, Enter, At
  <2>3. UNCHANGED PushWorkers
    BY <1>12 DEF DeactivatorReceives
  <2> QED BY <2>1, <2>2, <2>3, HarmlessStep
<1>13. CASE UNCHANGED <<PushWorkers, worker, frame>>
  BY <1>13, HarmlessStep
<1>14. CASE LoaderMissesUser \/ LoaderFindsUser \/ LoaderEnds
  BY <1>13, <1>14 DEF LoaderMissesUser, LoaderFindsUser, LoaderEnds
<1>15. ASSUME NEW s \in Subs, LoaderFetches(s)
       PROVE  WorkersMatch' /\ NoZombieEntry'
  <2>1. "loader" \in Procs
    BY DEF Procs
  <2> QED BY <1>2, <1>13, <1>15, <2>1 DEF LoaderFetches, At
<1>16. ASSUME NEW s \in Subs, AmsChanges(s)
       PROVE  WorkersMatch' /\ NoZombieEntry'
  BY <1>13, <1>16 DEF AmsChanges
<1>17. CASE MapRace \/ Crash \/ Restart
  BY <1>17, ResetIsClean DEF MapRace, Crash, Restart
<1>18. CASE UNCHANGED vars
  BY <1>13, <1>18 DEF vars
<1> QED
  BY <1>3, <1>4, <1>5, <1>6, <1>7, <1>8, <1>9, <1>10, <1>11, <1>12, <1>14, <1>15,
     <1>16, <1>17, <1>18 DEF Next, FrameStep, WorkerStep, LoaderStep

(* A stopped worker never stays registered, however the handlers, the
   deactivation channel and the loader interleave. *)
THEOREM NoZombies == Spec => []NoZombieEntry
<1>1. Init => WorkersMatch /\ NoZombieEntry
  <2> SUFFICES ASSUME Init PROVE WorkersMatch /\ NoZombieEntry
    OBVIOUS
  <2>1. /\ \A s \in Subs : ~Active(s)
        /\ \A p \in Procs : frame[p].worker = NoWorker
    BY DEF Init, Active, IdleFrame
  <2> QED BY <2>1 DEF WorkersMatch, NoZombieEntry
<1>2. TypeOK /\ WorkersMatch /\ NoZombieEntry /\ [Next]_vars
        => (WorkersMatch /\ NoZombieEntry)'
  BY ZombieStep
<1> QED BY <1>1, <1>2, TypeCorrect, PTL DEF Spec

(* The worker of an entry has not ended, or was stopped before. *)
EndedWasStopped ==
  \A s \in Subs :
    Active(s) /\ worker[PushWorkers[s]].at = "off" => worker[PushWorkers[s]].canceled

(* Workers end after they were stopped, and a new one is registered running. *)
LEMMA EndedStep ==
  ASSUME TypeOK, EndedWasStopped, [Next]_vars
  PROVE  EndedWasStopped'
<1>1. /\ frame \in [Procs -> Frames] /\ worker \in [Workers -> WorkerRecords]
      /\ PushWorkers \in [Subs -> Workers \cup {NoWorker}]
      /\ NoWorker \notin Workers
  BY ServiceAssumption DEF TypeOK
<1>2. ASSUME UNCHANGED <<PushWorkers, worker>>
      PROVE  EndedWasStopped'
  BY <1>2 DEF EndedWasStopped, Active
<1>3. ASSUME NEW kind, Reset(kind)
      PROVE  EndedWasStopped'
  <2>1. PushWorkers' = [s \in Subs |-> NoWorker]
    BY <1>3 DEF Reset
  <2> QED BY <2>1 DEF EndedWasStopped, Active
<1>4. ASSUME NEW w \in Workers, UNCHANGED PushWorkers,
             \A v \in Workers : v # w => worker'[v] = worker[v],
             worker'[w].at = "off" => worker'[w].canceled
      PROVE  EndedWasStopped'
  BY <1>1, <1>4 DEF EndedWasStopped, Active
<1>5. ASSUME NEW p \in Procs, ActivateStore(p)
      PROVE  EndedWasStopped'
  <2>1. PICK w \in Workers :
          /\ PushWorkers' = [PushWorkers EXCEPT ![frame[p].sub] = w]
          /\ worker' = [worker EXCEPT ![w] =
               [at |-> "loop", sub |-> frame[p].sub,
                sender |-> frame[p].cfg # "unknownType", canceled |-> FALSE]]
    BY <1>5 DEF ActivateStore
  <2>2. worker'[w].at = "loop" /\ \A v \in Workers : v # w => worker'[v] = worker[v]
    BY <1>1, <2>1
  <2>3. \A s \in Subs : PushWorkers'[s] = PushWorkers[s] \/ PushWorkers'[s] = w
    BY <1>1, <2>1
  <2> QED BY <1>1, <2>2, <2>3 DEF EndedWasStopped, Active
<1>6. ASSUME NEW p \in Procs, DeactivateStop(p)
      PROVE  EndedWasStopped'
  <2>1. CASE frame[p].worker = NoWorker
    BY <1>3, <1>6, <2>1 DEF DeactivateStop
  <2>2. CASE frame[p].worker # NoWorker
    <3>1. PICK w \in Workers : w = frame[p].worker
      BY <1>1, <2>2, HeldWorker
    <3>2. worker' = [worker EXCEPT ![w].canceled = TRUE] /\ UNCHANGED PushWorkers
      BY <1>6, <2>2, <3>1 DEF DeactivateStop
    <3>3. worker'[w].canceled /\ \A v \in Workers : v # w => worker'[v] = worker[v]
      BY <1>1, <3>2 DEF WorkerRecords
    <3> QED BY <1>4, <3>2, <3>3
  <2> QED BY <2>1, <2>2
<1>7. ASSUME NEW p \in Procs, DeactivateDelete(p)
      PROVE  EndedWasStopped'
  <2>1. UNCHANGED worker /\ \A s \in Subs : PushWorkers'[s] \in {PushWorkers[s], NoWorker}
    BY <1>1, <1>7 DEF DeactivateDelete
  <2> QED BY <2>1 DEF EndedWasStopped, Active
<1>8. ASSUME NEW p \in Procs,
             \/ ActivateCheck(p) \/ DeactivateCheck(p) \/ DeactivateRead(p)
             \/ StatusCheck(p) \/ StatusRead(p)
      PROVE  EndedWasStopped'
  BY <1>2, <1>3, <1>8 DEF ActivateCheck, DeactivateCheck, DeactivateRead, StatusCheck,
                          StatusRead
<1>9. ASSUME NEW w \in Workers,
             WorkerMeetsGone(w) \/ WorkerEnds(w) \/ DeactivatorReceives(w)
      PROVE  EndedWasStopped'
  <2>1. UNCHANGED PushWorkers /\ \A v \in Workers : v # w => worker'[v] = worker[v]
    BY <1>1, <1>9 DEF WorkerMeetsGone, WorkerEnds, DeactivatorReceives
  <2>2. worker'[w].at = "off" => worker'[w].canceled
    BY <1>1, <1>9 DEF WorkerMeetsGone, WorkerEnds, DeactivatorReceives, WorkerRecords
  <2> QED BY <1>4, <2>1, <2>2
<1>10. ASSUME NEW w \in Workers, WorkerHasNoSender(w)
       PROVE  EndedWasStopped'
  BY <1>3, <1>10 DEF WorkerHasNoSender
<1>11. CASE MapRace \/ Crash \/ Restart
  BY <1>3, <1>11 DEF MapRace, Crash, Restart
<1>12. CASE \/ \E c \in Calls : Receive(c)
            \/ LoaderMissesUser \/ LoaderFindsUser \/ LoaderStep
            \/ \E s \in Subs : AmsChanges(s)
            \/ UNCHANGED vars
  BY <1>2, <1>12 DEF Receive, LoaderMissesUser, LoaderFindsUser, LoaderStep, LoaderEnds,
                     LoaderFetches, AmsChanges, vars
<1> QED
  BY <1>5, <1>6, <1>7, <1>8, <1>9, <1>10, <1>11, <1>12 DEF Next, FrameStep, WorkerStep

(* A subscription is never left registered with a worker that has ended, however
   the handlers, the deactivation channel and the loader interleave. *)
THEOREM NoDeadEntries == Spec => []NoDeadEntry
<1>1. Init => EndedWasStopped
  <2> SUFFICES ASSUME Init PROVE EndedWasStopped
    OBVIOUS
  <2>1. \A s \in Subs : ~Active(s)
    BY DEF Init, Active
  <2> QED BY <2>1 DEF EndedWasStopped
<1>2. TypeOK /\ EndedWasStopped /\ [Next]_vars => EndedWasStopped'
  BY EndedStep
<1>3. EndedWasStopped /\ NoZombieEntry => NoDeadEntry
  BY DEF EndedWasStopped, NoZombieEntry, NoDeadEntry
<1> QED BY <1>1, <1>2, <1>3, TypeCorrect, NoZombies, PTL DEF Spec

-----------------------------------------------------------------------------
(* The life of a worker, as the registry sees it.                          *)

places == [w \in Workers |-> worker[w].at]
stops == [w \in Workers |-> worker[w].at # "off" /\ worker[w].canceled]

(* The end of the process is the death of every worker. *)
LEMMA ResetMaps ==
  ASSUME NEW kind, Reset(kind)
  PROVE  Lifecycle!Die
BY DEF Reset, Lifecycle!Die, places, stops, NewWorkerRecord

(* Every step of the registry that is seen from a worker is one of its life. *)
LEMMA LifecycleMaps ==
  ASSUME TypeOK, [Next]_vars
  PROVE  Lifecycle!Next \/ UNCHANGED <<places, stops>>
<1>1. frame \in [Procs -> Frames] /\ worker \in [Workers -> WorkerRecords]
  BY DEF TypeOK
<1>2. CASE UNCHANGED worker
  BY <1>2 DEF places, stops
<1>3. CASE \E kind : Reset(kind)
  BY <1>3, ResetMaps DEF Lifecycle!Next
<1>4. ASSUME NEW p \in Procs, ActivateStore(p)
      PROVE  Lifecycle!Next
  <2>1. PICK w \in Workers :
          /\ worker[w].at = "off"
          /\ worker' = [worker EXCEPT ![w] =
               [at |-> "loop", sub |-> frame[p].sub,
                sender |-> frame[p].cfg # "unknownType", canceled |-> FALSE]]
    BY <1>4 DEF ActivateStore, Free
  <2>2. /\ worker'[w].at = "loop" /\ worker'[w].canceled = FALSE
        /\ \A v \in Workers : v # w => worker'[v] = worker[v]
    BY <1>1, <2>1
  <2>3. places' = [places EXCEPT ![w] = "loop"]
    BY <2>2 DEF places
  <2>4. places[w] = "off"
    BY <2>1 DEF places
  <2>5. stops' = stops
    BY <2>1, <2>2 DEF stops
  <2> QED BY <2>3, <2>4, <2>5 DEF Lifecycle!Start, Lifecycle!Next, places, stops
<1>5. ASSUME NEW p \in Procs, DeactivateStop(p), frame[p].worker # NoWorker
      PROVE  Lifecycle!Next \/ UNCHANGED <<places, stops>>
  <2> DEFINE w == frame[p].worker
  <2>1. w \in Workers
    BY <1>1, <1>5, HeldWorker
  <2>2. worker' = [worker EXCEPT ![w].canceled = TRUE]
    BY <1>5 DEF DeactivateStop
  <2>3. /\ worker'[w].at = worker[w].at /\ worker'[w].canceled = TRUE
        /\ \A v \in Workers : v # w => worker'[v] = worker[v]
    BY <1>1, <2>1, <2>2 DEF WorkerRecords
  <2>4. places' = places
    BY <2>3 DEF places
  <2>5. CASE worker[w].at = "off"
    BY <2>3, <2>4, <2>5 DEF stops
  <2>6. CASE worker[w].at # "off"
    <3>1. stops' = [stops EXCEPT ![w] = TRUE] /\ places[w] # "off"
      BY <2>1, <2>3, <2>6 DEF stops, places
    <3> QED BY <2>1, <2>4, <3>1 DEF Lifecycle!Stop, Lifecycle!Next, places, stops
  <2> QED BY <2>5, <2>6
<1>6. ASSUME NEW w \in Workers, NEW place,
             worker[w].at # "off", worker' = [worker EXCEPT ![w].at = place]
      PROVE  /\ places' = [places EXCEPT ![w] = place]
             /\ place # "off" => stops' = stops
             /\ place = "off" => stops' = [stops EXCEPT ![w] = FALSE]
             /\ places[w] = worker[w].at /\ stops[w] = worker[w].canceled
  <2>1. /\ worker'[w].at = place /\ worker'[w].canceled = worker[w].canceled
        /\ \A v \in Workers : v # w => worker'[v] = worker[v]
    BY <1>1, <1>6 DEF WorkerRecords
  <2>2. worker[w].canceled \in BOOLEAN
    BY <1>1 DEF WorkerRecords
  <2>3. places' = [places EXCEPT ![w] = place]
    BY <2>1 DEF places
  <2>4. CASE place # "off"
    <3>1. \A v \in Workers : stops'[v] = stops[v]
      BY <1>6, <2>1, <2>4 DEF stops
    <3> QED BY <1>6, <2>1, <2>2, <2>3, <2>4, <3>1 DEF places, stops
  <2>5. CASE place = "off"
    <3>1. stops' = [stops EXCEPT ![w] = FALSE]
      BY <2>1, <2>5 DEF stops
    <3> QED BY <1>6, <2>2, <2>3, <2>5, <3>1 DEF places, stops
  <2> QED BY <2>4, <2>5
<1>7. ASSUME NEW w \in Workers, WorkerMeetsGone(w)
      PROVE  Lifecycle!Next
  BY <1>6, <1>7 DEF WorkerMeetsGone, Lifecycle!Block, Lifecycle!Next, places, stops
<1>8. ASSUME NEW w \in Workers, WorkerEnds(w)
      PROVE  Lifecycle!Next
  BY <1>6, <1>8 DEF WorkerEnds, Lifecycle!End, Lifecycle!Next, places, stops
<1>9. ASSUME NEW w \in Workers, DeactivatorReceives(w)
      PROVE  Lifecycle!Next
  BY <1>6, <1>9 DEF DeactivatorReceives, Lifecycle!Unblock, Lifecycle!Next, places, stops
<1>10. ASSUME NEW p \in Procs, FrameStep(p)
       PROVE  Lifecycle!Next \/ UNCHANGED <<places, stops>>
  BY <1>2, <1>3, <1>4, <1>5, <1>10
     DEF FrameStep, ActivateCheck, DeactivateCheck, DeactivateRead, DeactivateStop,
         DeactivateDelete, StatusCheck, StatusRead
<1>11. ASSUME NEW w \in Workers, WorkerStep(w)
       PROVE  Lifecycle!Next \/ UNCHANGED <<places, stops>>
  BY <1>3, <1>7, <1>8, <1>11 DEF WorkerStep, WorkerHasNoSender
<1>12. CASE MapRace \/ Crash \/ Restart
  <2>1. \E kind : Reset(kind)
    BY <1>12 DEF MapRace, Crash, Restart
  <2> QED BY <1>3, <2>1
<1>13. ASSUME \/ \E c \in Calls : Receive(c)
              \/ LoaderMissesUser \/ LoaderFindsUser \/ LoaderStep
              \/ \E s \in Subs : AmsChanges(s)
              \/ UNCHANGED vars
       PROVE  UNCHANGED worker
  BY <1>13 DEF Receive, LoaderMissesUser, LoaderFindsUser, LoaderStep, LoaderEnds,
               LoaderFetches, AmsChanges, vars
<1> QED BY <1>2, <1>9, <1>10, <1>11, <1>12, <1>13 DEF Next

(* The registry asks of its workers only what WorkerLifecycle allows, in every
   interleaving. *)
THEOREM LifecycleRefinement == Spec => ImplementsLifecycle
<1>1. Init => Lifecycle!Init
  <2> SUFFICES ASSUME Init PROVE Lifecycle!Init
    OBVIOUS
  <2>1. worker = [w \in Workers |-> NewWorkerRecord]
    BY DEF Init
  <2> QED BY <2>1 DEF Lifecycle!Init, NewWorkerRecord
<1>2. TypeOK /\ [Next]_vars => [Lifecycle!Next]_(Lifecycle!vars)
  BY LifecycleMaps DEF Lifecycle!vars, places, stops
<1> QED
  BY <1>1, <1>2, TypeCorrect, PTL DEF Spec, ImplementsLifecycle, Lifecycle!Spec
==============================================================================
