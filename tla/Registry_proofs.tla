---------------------------- MODULE Registry_proofs ----------------------------
(***************************************************************************)
(* Proofs about the registry when no operations conflict                   *)
(* (ConflictFreeSpec): no worker is orphaned, none is nil, and the         *)
(* operations are as good as atomic.                                       *)
(***************************************************************************)
EXTENDS PushService_proofs

(* The statements that rely on what an earlier one has read from the map. *)
Relying ==
  {"activateStore", "deactivateRead", "deactivateStop", "deactivateDelete", "statusRead"}

(* What the goroutine p has learnt from the map still holds when p uses it. *)
FrameFact(p) ==
  /\ frame[p].at = "activateStore" => ~Active(frame[p].sub)
  /\ frame[p].at \in Relying \ {"activateStore"} => Active(frame[p].sub)
  /\ frame[p].at \in {"deactivateStop", "deactivateDelete"} =>
       frame[p].worker = PushWorkers[frame[p].sub]
  /\ frame[p].at = "deactivateDelete" => worker[frame[p].worker].canceled

(* The inductive invariant. *)
RegistryInv ==
  /\ ConflictFree
  /\ NoOrphan
  /\ NoNilWorker
  /\ \A p \in Procs : FrameFact(p)

-----------------------------------------------------------------------------
(* What q has learnt is still so if the entry of its subscription is the same, and
   the worker it holds has not forgotten that it was stopped. *)
LEMMA FactKept ==
  ASSUME NEW q \in Procs, FrameFact(q), frame'[q] = frame[q],
         frame[q].worker \in Workers \cup {NoWorker},
         frame[q].at \in Relying => PushWorkers'[frame[q].sub] = PushWorkers[frame[q].sub],
         frame[q].worker \in Workers /\ worker[frame[q].worker].canceled
           => worker'[frame[q].worker].canceled
  PROVE  FrameFact(q)'
BY DEF FrameFact, Relying, Active

(* Goroutines whose operations do not conflict never rely on one entry when one of
   them writes it: one would have found it empty, and the other in use. *)
LEMMA WriterIsAlone ==
  ASSUME ConflictFree, NEW p \in Procs, NEW q \in Procs, p # q,
         FrameFact(p), FrameFact(q),
         frame[p].at \in {"activateStore", "deactivateDelete"}, frame[q].at \in Relying
  PROVE  frame[q].sub # frame[p].sub
<1> SUFFICES ASSUME frame[q].sub = frame[p].sub PROVE FALSE
  OBVIOUS
<1>1. ~Conflict(p, q)
  BY DEF ConflictFree
<1>2. CASE frame[p].at = "activateStore"
  BY <1>1, <1>2 DEF Conflict, Activating, FrameFact, Relying
<1>3. CASE frame[p].at = "deactivateDelete"
  BY <1>1, <1>3 DEF Conflict, Deactivating, Inspecting, FrameFact, Relying
<1> QED BY <1>2, <1>3

(* A step that leaves the map and the frames alone, stops no worker and starts
   none keeps the invariant. *)
LEMMA CalmStep ==
  ASSUME RegistryInv, ConflictFree', NoNilWorker', UNCHANGED <<PushWorkers, frame>>,
         \A w \in Workers :
           /\ worker'[w].canceled = worker[w].canceled /\ worker'[w].sub = worker[w].sub
           /\ worker[w].at = "off" => worker'[w].at = "off",
         \A p \in Procs : frame[p].worker \in Workers \cup {NoWorker},
         \A s \in Subs : PushWorkers[s] \in Workers \cup {NoWorker},
         \A p \in Procs : frame[p].at # "idle" => frame[p].sub \in Subs
  PROVE  RegistryInv'
<1>1. NoOrphan'
  BY DEF RegistryInv, NoOrphan
<1>2. ASSUME NEW p \in Procs
      PROVE  FrameFact(p)'
  BY FactKept DEF RegistryInv
<1> QED BY <1>1, <1>2 DEF RegistryInv

(* A process that ends, or starts, has no worker and no operation; it did not
   end on a nil worker unless kind says so. *)
LEMMA ResetKeepsRegistry ==
  ASSUME NEW kind, kind # "nilWorker", Reset(kind)
  PROVE  RegistryInv'
<1>1. /\ worker' = [w \in Workers |-> NewWorkerRecord]
      /\ frame' = [p \in Procs |-> IdleFrame]
      /\ fatal' = kind
  BY DEF Reset
<1>2. (\A w \in Workers : worker'[w].at = "off") /\ (\A p \in Procs : frame'[p].at = "idle")
  BY <1>1 DEF NewWorkerRecord, IdleFrame
<1> QED BY <1>1, <1>2 DEF RegistryInv, ConflictFree, Conflict, Activating, Deactivating,
                      Inspecting, NoOrphan, NoNilWorker, FrameFact, Relying

(* The invariant is inductive, given the types. *)
LEMMA RegistryStepKeeps ==
  ASSUME TypeOK, RegistryInv, ConflictFreeNext
  PROVE  RegistryInv'
<1> USE DEF ConflictFreeNext
<1>1. /\ frame \in [Procs -> Frames] /\ worker \in [Workers -> WorkerRecords]
      /\ PushWorkers \in [Subs -> Workers \cup {NoWorker}]
      /\ \A p \in Procs : frame[p].worker \in Workers \cup {NoWorker}
      /\ \A p \in Procs : frame[p].at # "idle" => frame[p].sub \in Subs
      /\ \A s \in Subs : PushWorkers[s] \in Workers \cup {NoWorker}
      /\ NoWorker \notin Workers
  BY ServiceAssumption, HeldWorker, BusyTypes DEF TypeOK
<1>2. ConflictFree /\ ConflictFree' /\ NoOrphan /\ NoNilWorker /\ \A p \in Procs : FrameFact(p)
  BY DEF RegistryInv
<1>3. ASSUME NEW p \in Procs,
             UNCHANGED <<PushWorkers, worker, fatal>>,
             \A q \in Procs : q # p => frame'[q] = frame[q],
             FrameFact(p)'
      PROVE  RegistryInv'
  <2>1. NoOrphan' /\ NoNilWorker'
    BY <1>2, <1>3 DEF NoOrphan, NoNilWorker
  <2>2. \A q \in Procs : FrameFact(q)'
    BY <1>1, <1>2, <1>3, FactKept
  <2> QED BY <1>2, <2>1, <2>2 DEF RegistryInv
<1>4. ASSUME NEW p \in Procs, frame[p].at = "idle", NEW statement,
             statement \in {"activateCheck", "deactivateCheck", "statusCheck"},
             UNCHANGED <<PushWorkers, worker, fatal>>,
             \E s, cfg, reporter : Enter(p, statement, s, cfg, reporter)
      PROVE  RegistryInv'
  <2>1. /\ frame'[p].at = statement
        /\ \A q \in Procs : q # p => frame'[q] = frame[q]
    BY <1>1, <1>4 DEF Enter
  <2> QED BY <1>3, <1>4, <2>1 DEF FrameFact, Relying
<1>5. ASSUME NEW c \in Calls, Receive(c)
      PROVE  RegistryInv'
  BY <1>4, <1>5 DEF Receive, At, Procs
<1>6. ASSUME NEW p \in Procs, frame[p].at # "idle",
             UNCHANGED <<PushWorkers, worker, fatal>>, Return(p)
      PROVE  RegistryInv'
  <2>1. frame'[p].at = "idle" /\ \A q \in Procs : q # p => frame'[q] = frame[q]
    BY <1>1, <1>6 DEF Return, IdleFrame
  <2> QED BY <1>3, <1>6, <2>1 DEF FrameFact, Relying
<1>7. ASSUME NEW p \in Procs, frame[p].at # "idle",
             UNCHANGED <<PushWorkers, worker, fatal>>,
             \/ Goto(p, "activateStore") /\ ~Active(frame[p].sub)
             \/ Goto(p, "deactivateRead") /\ Active(frame[p].sub)
             \/ Goto(p, "statusRead") /\ Active(frame[p].sub)
      PROVE  RegistryInv'
  <2>1. /\ frame'[p].at \in {"activateStore", "deactivateRead", "statusRead"}
        /\ frame'[p].at = "activateStore" => ~Active(frame[p].sub)
        /\ frame'[p].at \in {"deactivateRead", "statusRead"} => Active(frame[p].sub)
        /\ frame'[p].sub = frame[p].sub
        /\ \A q \in Procs : q # p => frame'[q] = frame[q]
    BY <1>1, <1>7 DEF Goto, Frames, IdleFrame
  <2> QED BY <1>3, <1>7, <2>1 DEF FrameFact, Relying, Active
<1>8. ASSUME NEW p \in Procs, ActivateCheck(p) \/ DeactivateCheck(p) \/ StatusCheck(p)
      PROVE  RegistryInv'
  BY <1>6, <1>7, <1>8 DEF ActivateCheck, DeactivateCheck, StatusCheck, At
<1>9. ASSUME NEW p \in Procs, ActivateStore(p)
      PROVE  RegistryInv'
  <2> PICK t \in Subs : frame[p].at = "activateStore" /\ t = frame[p].sub
    BY <1>1, <1>9 DEF ActivateStore, At
  <2>1. PICK w \in Workers :
          /\ \A q \in Procs : frame[q].worker # w
          /\ PushWorkers' = [PushWorkers EXCEPT ![frame[p].sub] = w]
          /\ worker' = [worker EXCEPT ![w] =
               [at |-> "loop", sub |-> frame[p].sub,
                sender |-> frame[p].cfg # "unknownType", canceled |-> FALSE]]
    BY <1>9 DEF ActivateStore, Free
  <2>2. /\ frame[p].at = "activateStore" /\ frame[p].sub \in Subs
        /\ frame'[p].at = "idle" /\ UNCHANGED fatal
        /\ \A q \in Procs : q # p => frame'[q] = frame[q]
    BY <1>1, <1>9 DEF ActivateStore, Return, IdleFrame, At
  <2>3. ~Active(frame[p].sub)
    BY <1>2, <2>2 DEF FrameFact
  <2>4. worker'[w].sub = frame[p].sub /\ \A v \in Workers : v # w => worker'[v] = worker[v]
    BY <1>1, <2>1
  <2>5. /\ PushWorkers'[frame[p].sub] = w
        /\ \A s \in Subs : s # frame[p].sub => PushWorkers'[s] = PushWorkers[s]
    BY <1>1, <2>1, <2>2
  <2>6. NoOrphan'
    <3>1. ASSUME NEW v \in Workers, v # w,
                 worker[v].at # "off", ~worker[v].canceled
          PROVE  PushWorkers'[worker[v].sub] = v
      <4>1. PushWorkers[worker[v].sub] = v /\ worker[v].sub \in Subs
        BY <1>1, <1>2, <3>1, BusyTypes DEF NoOrphan
      <4>2. worker[v].sub # frame[p].sub
        BY <1>1, <2>3, <4>1 DEF Active
      <4> QED BY <2>5, <4>1, <4>2
    <3> QED BY <2>4, <2>5, <3>1 DEF NoOrphan
  <2>7. FrameFact(p)' /\ NoNilWorker'
    BY <1>2, <2>2 DEF FrameFact, Relying, NoNilWorker
  <2>8. \A q \in Procs : FrameFact(q)'
    BY <1>1, <1>2, <2>1, <2>2, <2>4, <2>5, <2>7, FactKept, WriterIsAlone
  <2> QED BY <1>2, <2>6, <2>7, <2>8 DEF RegistryInv
<1>10. ASSUME NEW p \in Procs, DeactivateRead(p)
       PROVE  RegistryInv'
  <2>1. /\ frame[p].at = "deactivateRead"
        /\ frame'[p].at = "deactivateStop" /\ frame'[p].sub = frame[p].sub
        /\ frame'[p].worker = PushWorkers[frame[p].sub]
        /\ \A q \in Procs : q # p => frame'[q] = frame[q]
        /\ UNCHANGED <<PushWorkers, worker, fatal>>
    BY <1>1, <1>10 DEF DeactivateRead, At
  <2> QED BY <1>2, <1>3, <2>1 DEF FrameFact, Relying, Active
<1>11. ASSUME NEW p \in Procs, DeactivateStop(p)
       PROVE  RegistryInv'
  <2> DEFINE w == frame[p].worker
  <2>1. /\ frame[p].at = "deactivateStop" /\ frame[p].sub \in Subs
        /\ w = PushWorkers[frame[p].sub] /\ w \in Workers
    BY <1>1, <1>2, <1>11 DEF DeactivateStop, At, FrameFact, Relying, Active
  <2>2. /\ worker' = [worker EXCEPT ![w].canceled = TRUE]
        /\ Goto(p, "deactivateDelete")
        /\ UNCHANGED <<PushWorkers, fatal>>
    BY <1>1, <1>11, <2>1 DEF DeactivateStop
  <2>3. /\ worker'[w].canceled /\ \A v \in Workers : v # w => worker'[v] = worker[v]
    BY <1>1, <2>1, <2>2 DEF WorkerRecords
  <2>4. /\ frame'[p].at = "deactivateDelete" /\ frame'[p].sub = frame[p].sub
        /\ frame'[p].worker = w
        /\ \A q \in Procs : q # p => frame'[q] = frame[q]
    BY <1>1, <2>2 DEF Goto, Frames, IdleFrame
  <2>5. NoOrphan' /\ NoNilWorker'
    BY <1>2, <2>2, <2>3 DEF NoOrphan, NoNilWorker
  <2>6. FrameFact(p)'
    BY <1>1, <2>1, <2>2, <2>3, <2>4 DEF FrameFact, Active
  <2>7. \A q \in Procs : FrameFact(q)'
    <3>1. \A v \in Workers : worker[v].canceled => worker'[v].canceled
      BY <2>3
    <3> QED BY <1>1, <1>2, <2>2, <2>4, <2>6, <3>1, FactKept
  <2> QED BY <1>2, <2>5, <2>7 DEF RegistryInv
<1>12. ASSUME NEW p \in Procs, DeactivateDelete(p)
       PROVE  RegistryInv'
  <2>1. /\ frame[p].at = "deactivateDelete" /\ frame[p].sub \in Subs
        /\ worker[PushWorkers[frame[p].sub]].canceled
    BY <1>1, <1>2, <1>12 DEF DeactivateDelete, At, FrameFact, Relying
  <2>2. /\ \A s \in Subs :
             s # frame[p].sub => PushWorkers'[s] = PushWorkers[s]
        /\ UNCHANGED <<worker, fatal>>
        /\ frame'[p].at = "idle"
        /\ \A q \in Procs : q # p => frame'[q] = frame[q]
    BY <1>1, <1>12, <2>1 DEF DeactivateDelete, Return, IdleFrame
  <2>3. NoOrphan'
    <3>1. ASSUME NEW v \in Workers, worker[v].at # "off", ~worker[v].canceled
          PROVE  PushWorkers'[worker[v].sub] = v
      <4>1. PushWorkers[worker[v].sub] = v /\ worker[v].sub \in Subs
        BY <1>1, <1>2, <3>1, BusyTypes DEF NoOrphan
      <4> QED BY <2>1, <2>2, <3>1, <4>1
    <3> QED BY <2>2, <3>1 DEF NoOrphan
  <2>4. FrameFact(p)' /\ NoNilWorker'
    BY <1>2, <2>2 DEF FrameFact, Relying, NoNilWorker
  <2>5. ASSUME NEW q \in Procs, q # p
        PROVE  FrameFact(q)'
    <3>1. frame[q].at \in Relying => frame[q].sub # frame[p].sub
      BY <1>2, <2>1, <2>5, WriterIsAlone
    <3>2. frame[q].at \in Relying => PushWorkers'[frame[q].sub] = PushWorkers[frame[q].sub]
      BY <1>1, <2>2, <3>1 DEF Relying
    <3> QED BY <1>1, <1>2, <2>2, <2>5, <3>2, FactKept
  <2> QED BY <1>2, <2>3, <2>4, <2>5 DEF RegistryInv
<1>13. ASSUME NEW p \in Procs, StatusRead(p)
       PROVE  RegistryInv'
  BY <1>2, <1>6, <1>13 DEF StatusRead, At, FrameFact, Relying
<1>14. ASSUME NEW w \in Workers, NEW place, worker[w].at # "off",
              worker' = [worker EXCEPT ![w].at = place]
       PROVE  \A v \in Workers :
                /\ worker'[v].canceled = worker[v].canceled
                /\ worker'[v].sub = worker[v].sub
                /\ worker[v].at = "off" => worker'[v].at = "off"
  <2>1. \A v \in Workers : v # w => worker'[v] = worker[v]
    BY <1>1, <1>14
  <2>2. worker'[w].canceled = worker[w].canceled /\ worker'[w].sub = worker[w].sub
    BY <1>1, <1>14 DEF WorkerRecords
  <2> QED BY <1>14, <2>1, <2>2
<1>15. ASSUME NEW w \in Workers, WorkerMeetsGone(w) \/ WorkerEnds(w)
       PROVE  RegistryInv'
  <2>1. UNCHANGED <<PushWorkers, frame, fatal>>
    BY <1>15 DEF WorkerMeetsGone, WorkerEnds
  <2>2. \A v \in Workers :
          /\ worker'[v].canceled = worker[v].canceled /\ worker'[v].sub = worker[v].sub
          /\ worker[v].at = "off" => worker'[v].at = "off"
    BY <1>14, <1>15 DEF WorkerMeetsGone, WorkerEnds
  <2> QED BY <1>1, <1>2, <2>1, <2>2, CalmStep DEF NoNilWorker
<1>16. ASSUME NEW w \in Workers, DeactivatorReceives(w)
       PROVE  RegistryInv'
  <2>1. \A v \in Workers :
          /\ worker'[v].canceled = worker[v].canceled /\ worker'[v].sub = worker[v].sub
          /\ worker[v].at = "off" => worker'[v].at = "off"
    BY <1>14, <1>16 DEF DeactivatorReceives
  <2>2. "deactivator" \in Procs
    BY DEF Procs
  <2>3. /\ UNCHANGED <<PushWorkers, fatal>>
        /\ frame'["deactivator"].at = "deactivateCheck"
        /\ \A q \in Procs : q # "deactivator" => frame'[q] = frame[q]
    BY <1>1, <1>16, <2>2 DEF DeactivatorReceives, Enter
  <2>4. NoOrphan' /\ NoNilWorker'
    BY <1>2, <2>1, <2>3 DEF NoOrphan, NoNilWorker
  <2>5. \A q \in Procs : FrameFact(q)'
    <3>1. FrameFact("deactivator")'
      BY <2>3 DEF FrameFact, Relying
    <3> QED BY <1>1, <1>2, <2>1, <2>3, <3>1, FactKept
  <2> QED BY <1>2, <2>4, <2>5 DEF RegistryInv
<1>17. ASSUME NEW w \in Workers, WorkerHasNoSender(w)
       PROVE  RegistryInv'
  BY <1>17, ResetKeepsRegistry DEF WorkerHasNoSender
<1>18. CASE MapRace \/ Crash \/ Restart
  BY <1>18, ResetKeepsRegistry DEF MapRace, Crash, Restart
<1>19. ASSUME NEW s \in Subs, LoaderFetches(s), UNCHANGED frame
       PROVE  RegistryInv'
  BY <1>1, <1>2, <1>19, CalmStep DEF LoaderFetches, NoNilWorker
<1>20. ASSUME NEW s \in Subs, LoaderFetches(s), ~UNCHANGED frame
       PROVE  RegistryInv'
  <2>1. "loader" \in Procs
    BY DEF Procs
  <2> QED BY <1>4, <1>20, <2>1 DEF LoaderFetches, At
<1>21. CASE \/ LoaderMissesUser \/ LoaderFindsUser \/ LoaderEnds
            \/ \E s \in Subs : AmsChanges(s)
  <2>1. UNCHANGED <<PushWorkers, frame, worker, fatal>>
    BY <1>21 DEF LoaderMissesUser, LoaderFindsUser, LoaderEnds, AmsChanges
  <2> QED BY <1>1, <1>2, <2>1, CalmStep DEF NoNilWorker
<1> QED
  BY <1>5, <1>8, <1>9, <1>10, <1>11, <1>12, <1>13, <1>15, <1>16, <1>17, <1>18, <1>19,
     <1>20, <1>21 DEF Next, FrameStep, WorkerStep, LoaderStep

(* The invariant holds when the process starts. *)
LEMMA RegistryInit ==
  ASSUME Init
  PROVE  RegistryInv
<1>1. /\ worker = [w \in Workers |-> NewWorkerRecord]
      /\ frame = [p \in Procs |-> IdleFrame]
      /\ fatal = "none"
  BY DEF Init
<1>2. (\A w \in Workers : worker[w].at = "off") /\ (\A p \in Procs : frame[p].at = "idle")
  BY <1>1 DEF NewWorkerRecord, IdleFrame
<1> QED BY <1>1, <1>2 DEF RegistryInv, ConflictFree, Conflict, Activating, Deactivating,
                      Inspecting, NoOrphan, NoNilWorker, FrameFact, Relying

(* Types and invariant hold in every reachable state. *)
LEMMA RegistryInvariant == ConflictFreeSpec => []TypeOK /\ []RegistryInv
<1>1. ConflictFreeSpec => Spec
  <2>1. [ConflictFreeNext]_vars => [Next]_vars
    BY DEF ConflictFreeNext
  <2> QED BY <2>1, PTL DEF ConflictFreeSpec, Spec
<1>2. TypeOK /\ RegistryInv /\ [ConflictFreeNext]_vars => RegistryInv'
  <2> SUFFICES ASSUME TypeOK, RegistryInv, UNCHANGED vars PROVE RegistryInv'
    BY RegistryStepKeeps
  <2> QED BY DEF RegistryInv, ConflictFree, Conflict, Activating, Deactivating, Inspecting,
              NoOrphan, NoNilWorker, FrameFact, Active, vars
<1> QED BY <1>1, <1>2, RegistryInit, TypeCorrect, PTL DEF ConflictFreeSpec

(* As long as no operations conflict, every worker that serves is the registered
   one, however the operations overlap and whatever the workers, AMS and the loader
   do in between. *)
THEOREM NoOrphans == ConflictFreeSpec => []NoOrphan
<1>1. RegistryInv => NoOrphan
  BY DEF RegistryInv
<1> QED BY <1>1, RegistryInvariant, PTL

(* As long as no operations conflict, none of them finds a nil worker. *)
THEOREM NoNilWorkers == ConflictFreeSpec => []NoNilWorker
<1>1. RegistryInv => NoNilWorker
  BY DEF RegistryInv
<1> QED BY <1>1, RegistryInvariant, PTL

-----------------------------------------------------------------------------
(* The operations are as good as atomic.                                   *)

served == [s \in Subs |-> Serving(s)]

(* Who serves a subscription is the worker registered for it. *)
LEMMA ServingIsRegistered ==
  ASSUME NoOrphan, NEW s \in Subs, NEW w \in Serving(s)
  PROVE  PushWorkers[s] = w /\ Serving(s) = {w}
BY DEF NoOrphan, Serving

(* Nobody new serves, nor does anyone stop to, unless where a worker runs, is
   stopped or what it serves changes. *)
LEMMA SameServing ==
  ASSUME \A w \in Workers :
           /\ worker'[w].sub = worker[w].sub
           /\ (worker'[w].at # "off" /\ ~worker'[w].canceled)
                <=> (worker[w].at # "off" /\ ~worker[w].canceled)
  PROVE  served' = served
<1>1. ASSUME NEW s PROVE Serving(s)' = Serving(s)
  BY DEF Serving
<1> QED BY <1>1 DEF served

(* With the process every worker stops serving. *)
LEMMA ResetCollapses ==
  ASSUME NEW kind, Reset(kind)
  PROVE  AtomicRegistry!Collapse
<1>1. worker' = [w \in Workers |-> NewWorkerRecord]
  BY DEF Reset
<1>2. \A s : Serving(s)' = {}
  BY <1>1 DEF Serving, NewWorkerRecord
<1> QED BY <1>2 DEF AtomicRegistry!Collapse

(* Every step is an operation of Registry, or changes nobody who serves. *)
LEMMA RegistryMaps ==
  ASSUME TypeOK, RegistryInv, [ConflictFreeNext]_vars
  PROVE  AtomicRegistry!Next \/ UNCHANGED served
<1>1. /\ frame \in [Procs -> Frames] /\ worker \in [Workers -> WorkerRecords]
      /\ PushWorkers \in [Subs -> Workers \cup {NoWorker}]
      /\ NoWorker \notin Workers /\ NoOrphan /\ \A p \in Procs : FrameFact(p)
  BY ServiceAssumption DEF TypeOK, RegistryInv
<1>2. CASE UNCHANGED worker
  BY <1>2, SameServing
<1>3. CASE \E kind : Reset(kind)
  BY <1>3, ResetCollapses DEF AtomicRegistry!Next
<1>4. ASSUME NEW p \in Procs, ActivateStore(p)
      PROVE  AtomicRegistry!Next
  <2>1. PICK t \in Subs : t = frame[p].sub
    BY <1>1, <1>4, BusyTypes DEF ActivateStore, At
  <2>2. PICK w \in Workers :
          /\ worker[w].at = "off"
          /\ worker' = [worker EXCEPT ![w] =
               [at |-> "loop", sub |-> t,
                sender |-> frame[p].cfg # "unknownType", canceled |-> FALSE]]
    BY <1>4, <2>1 DEF ActivateStore, Free
  <2>3. PushWorkers[t] = NoWorker
    BY <1>1, <1>4, <2>1 DEF ActivateStore, At, FrameFact, Active
  <2>4. Serving(t) = {}
    BY <1>1, <2>3, ServingIsRegistered DEF Serving
  <2>5. \A s \in Subs : w \notin Serving(s)
    BY <2>2 DEF Serving
  <2>6. /\ worker'[w].at = "loop" /\ worker'[w].sub = t /\ worker'[w].canceled = FALSE
        /\ \A v \in Workers : v # w => worker'[v] = worker[v]
    BY <1>1, <2>2
  <2>7. Serving(t)' = {w}
    BY <2>4, <2>6 DEF Serving
  <2>8. \A s \in Subs : s # t => Serving(s)' = Serving(s)
    BY <2>2, <2>6 DEF Serving
  <2>9. served' = [served EXCEPT ![t] = {w}]
    BY <2>7, <2>8 DEF served
  <2> QED BY <2>4, <2>5, <2>9 DEF AtomicRegistry!Activate, AtomicRegistry!Next, served
<1>5. ASSUME NEW p \in Procs, DeactivateStop(p), frame[p].worker # NoWorker
      PROVE  AtomicRegistry!Next \/ UNCHANGED served
  <2> DEFINE w == frame[p].worker
  <2>1. w \in Workers
    BY <1>1, <1>5, HeldWorker
  <2>2. worker' = [worker EXCEPT ![w].canceled = TRUE]
    BY <1>5 DEF DeactivateStop
  <2>3. /\ worker'[w].at = worker[w].at /\ worker'[w].canceled = TRUE
        /\ worker'[w].sub = worker[w].sub
        /\ \A v \in Workers : v # w => worker'[v] = worker[v]
    BY <1>1, <2>1, <2>2 DEF WorkerRecords
  <2>4. CASE worker[w].at = "off" \/ worker[w].canceled
    BY <2>3, <2>4, SameServing
  <2>5. CASE worker[w].at # "off" /\ ~worker[w].canceled
    <3>1. PICK t \in Subs : t = worker[w].sub
      BY <1>1, <2>1, <2>5, BusyTypes
    <3>2. Serving(t) = {w}
      BY <1>1, <2>1, <2>5, <3>1, ServingIsRegistered DEF Serving
    <3>3. Serving(t)' = {}
      <4>1. w \notin Serving(t)' /\ \A v \in Workers : v # w => v \notin Serving(t)'
        BY <2>3, <3>2 DEF Serving
      <4> QED BY <4>1 DEF Serving
    <3>4. \A s \in Subs : s # t => Serving(s)' = Serving(s)
      BY <2>3, <3>1 DEF Serving
    <3>5. served' = [served EXCEPT ![t] = {}]
      BY <3>3, <3>4 DEF served
    <3> QED BY <3>2, <3>5 DEF AtomicRegistry!Deactivate, AtomicRegistry!Next, served
  <2> QED BY <2>4, <2>5
<1>6. ASSUME NEW w \in Workers,
             \/ WorkerMeetsGone(w) \/ WorkerEnds(w) \/ DeactivatorReceives(w)
      PROVE  UNCHANGED served
  <2>1. \A v \in Workers : v # w => worker'[v] = worker[v]
    BY <1>1, <1>6 DEF WorkerMeetsGone, WorkerEnds, DeactivatorReceives
  <2>2. /\ worker'[w].sub = worker[w].sub /\ worker'[w].canceled = worker[w].canceled
        /\ worker[w].at # "off" /\ (worker'[w].at # "off" \/ worker[w].canceled)
    BY <1>1, <1>6 DEF WorkerMeetsGone, WorkerEnds, DeactivatorReceives, WorkerRecords
  <2> QED BY <2>1, <2>2, SameServing
<1>7. ASSUME NEW p \in Procs, FrameStep(p)
      PROVE  AtomicRegistry!Next \/ UNCHANGED served
  BY <1>2, <1>3, <1>4, <1>5, <1>7
     DEF FrameStep, ActivateCheck, DeactivateCheck, DeactivateRead, DeactivateStop,
         DeactivateDelete, StatusCheck, StatusRead
<1>8. ASSUME NEW w \in Workers, WorkerStep(w)
      PROVE  AtomicRegistry!Next \/ UNCHANGED served
  BY <1>3, <1>6, <1>8 DEF WorkerStep, WorkerHasNoSender
<1>9. CASE MapRace \/ Crash \/ Restart
  <2>1. \E kind : Reset(kind)
    BY <1>9 DEF MapRace, Crash, Restart
  <2> QED BY <1>3, <2>1
<1>10. ASSUME \/ \E c \in Calls : Receive(c)
              \/ LoaderMissesUser \/ LoaderFindsUser \/ LoaderStep
              \/ \E s \in Subs : AmsChanges(s)
              \/ UNCHANGED vars
       PROVE  UNCHANGED worker
  BY <1>10 DEF Receive, LoaderMissesUser, LoaderFindsUser, LoaderStep, LoaderEnds,
               LoaderFetches, AmsChanges, vars
<1> QED BY <1>2, <1>6, <1>7, <1>8, <1>9, <1>10 DEF ConflictFreeNext, Next

(* Operations of which no two conflict take effect at once, although they overlap:
   the registry implements Registry, at the store of an activation and the Stop of
   a deactivation. *)
THEOREM RegistryRefinement == ConflictFreeSpec => ImplementsRegistry
<1>1. Init => AtomicRegistry!Init
  <2> SUFFICES ASSUME Init PROVE AtomicRegistry!Init
    OBVIOUS
  <2>1. \A w \in Workers : worker[w].at = "off"
    BY DEF Init, NewWorkerRecord
  <2> QED BY <2>1 DEF AtomicRegistry!Init, Serving
<1>2. TypeOK /\ RegistryInv /\ [ConflictFreeNext]_vars
        => [AtomicRegistry!Next]_([s \in Subs |-> Serving(s)])
  BY RegistryMaps DEF served
<1> QED
  BY <1>1, <1>2, RegistryInvariant, PTL
     DEF ConflictFreeSpec, ImplementsRegistry, AtomicRegistry!Spec
==============================================================================
