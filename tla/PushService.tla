------------------------------ MODULE PushService ------------------------------
(***************************************************************************)
(* The registry of package api/v1/grpc: the map PushWorkers and the        *)
(* goroutines that use it without a lock.  These are the gRPC handlers     *)
(* (one goroutine per call), handleDeactivateChannel, which deactivates    *)
(* what workers report, and loadSubscriptions, which activates what AMS    *)
(* lists when the process starts.                                          *)
(*                                                                         *)
(* A goroutine in an operation of the registry is a frame: the statement   *)
(* it is about to run and its local variables.  Each statement that reads  *)
(* or writes the map is a step of its own.                                 *)
(*                                                                         *)
(* Of a worker only what the registry sees is kept: it runs, it is blocked *)
(* on the deactivation channel, or it has ended; its push cycle is the     *)
(* subject of module PushWorker.  Requests that are answered before they   *)
(* touch the map (service unavailable, empty subscription) change nothing  *)
(* and are left out, and so are the texts of the answers.                  *)
(***************************************************************************)
EXTENDS FiniteSets, Naturals

CONSTANTS
  Subs, Workers, Calls,    \* subscriptions; worker instances; gRPC calls at a time
  NoSub, NoWorker,
  CallConfigs,             \* push configurations that callers send
  AmsConfigs,              \* push configurations that AMS may hold
  SkipSubsLoad,            \* Config.SkipSubsLoad
  FetchMayFail             \* whether requests of the loader for a subscription fail

Configs == {"ok", "badEndpoint", "badPolicy", "unknownType"}

ASSUME ServiceAssumption ==
  /\ NoSub \notin Subs /\ NoWorker \notin Workers
  /\ {"deactivator", "loader"} \cap Calls = {}
  /\ CallConfigs \subseteq Configs
  /\ AmsConfigs \subseteq Configs \ {"unknownType"}
  /\ SkipSubsLoad \in BOOLEAN /\ FetchMayFail \in BOOLEAN

VARIABLES
  amsSub,        \* what AMS holds for each subscription
  status,        \* PushService.status
  PushWorkers,   \* PushService.PushWorkers
  worker,        \* the worker instances
  frame,         \* the registry operation each goroutine is in
  loader, todo,  \* control of loadSubscriptions, subscriptions left to load
  fatal          \* how the process died, "none" while it lives

vars == <<amsSub, status, PushWorkers, worker, frame, loader, todo, fatal>>

Procs == Calls \cup {"deactivator", "loader"}
Alive == fatal = "none"

Active(s) == PushWorkers[s] # NoWorker

IdleFrame ==
  [at |-> "idle", sub |-> NoSub, cfg |-> "ok", worker |-> NoWorker, reporter |-> NoWorker]
NewWorkerRecord == [at |-> "off", sub |-> NoSub, sender |-> TRUE, canceled |-> FALSE]

Init ==
  /\ amsSub \in [Subs -> AmsConfigs \cup {"absent", "notPush"}]
  /\ status = ""
  /\ PushWorkers = [s \in Subs |-> NoWorker]
  /\ worker = [w \in Workers |-> NewWorkerRecord]
  /\ frame = [p \in Procs |-> IdleFrame]
  /\ loader = IF SkipSubsLoad THEN "done" ELSE "user"
  /\ todo = {}
  /\ fatal = "none"

(* The process ends in the way kind, or starts again if kind is "none". *)
Reset(kind) ==
  /\ status' = ""
  /\ PushWorkers' = [s \in Subs |-> NoWorker]
  /\ worker' = [w \in Workers |-> NewWorkerRecord]
  /\ frame' = [p \in Procs |-> IdleFrame]
  /\ loader' = IF SkipSubsLoad THEN "done" ELSE "user"
  /\ todo' = {}
  /\ fatal' = kind
  /\ UNCHANGED amsSub

-----------------------------------------------------------------------------
(* Frames.                                                                 *)

At(p, statement) == Alive /\ frame[p].at = statement

Goto(p, statement) == frame' = [frame EXCEPT ![p].at = statement]

Return(p) == frame' = [frame EXCEPT ![p] = IdleFrame]

(* Goroutine p calls an operation, whose first statement is given. *)
Enter(p, statement, s, cfg, reporter) ==
  frame' = [frame EXCEPT ![p] =
    [at |-> statement, sub |-> s, cfg |-> cfg, worker |-> NoWorker, reporter |-> reporter]]

(* A gRPC call passes StatusInterceptor and enters its handler. *)
Receive(c) ==
  /\ At(c, "idle") /\ c \in Calls
  /\ status = "ok"
  /\ \E s \in Subs :
       \/ Enter(c, "deactivateCheck", s, "ok", NoWorker)
       \/ Enter(c, "statusCheck", s, "ok", NoWorker)
       \/ \E cfg \in CallConfigs : Enter(c, "activateCheck", s, cfg, NoWorker)
  /\ UNCHANGED <<amsSub, status, PushWorkers, worker, loader, todo, fatal>>

-----------------------------------------------------------------------------
(* ActivateSubscription.                                                   *)

Refused(cfg) == cfg \in {"badEndpoint", "badPolicy"}

\* Mutated form of ActivateCheck: the subscription may already be active.
ActivateUnchecked(p) ==
  /\ At(p, "activateCheck")
  /\ IF Refused(frame[p].cfg) THEN Return(p) ELSE Goto(p, "activateStore")
  /\ UNCHANGED <<amsSub, status, PushWorkers, worker, loader, todo, fatal>>

(* IsSubActive, then the checks that do not depend on the registry. *)
ActivateCheck(p) ==
  /\ At(p, "activateCheck")
  /\ IF Active(frame[p].sub) \/ Refused(frame[p].cfg)
       THEN Return(p)
       ELSE Goto(p, "activateStore")
  /\ UNCHANGED <<amsSub, status, PushWorkers, worker, loader, todo, fatal>>

(* Instances that nothing refers to any more stand for new ones. *)
Free(w) ==
  /\ worker[w].at = "off"
  /\ \A s \in Subs : PushWorkers[s] # w
  /\ \A p \in Procs : frame[p].worker # w

(* push.New, the map store and go worker.Start().  senders.New has no sender
   for an unknown push type, and its error is ignored. *)
ActivateStore(p) ==
  /\ At(p, "activateStore")
  /\ \E w \in Workers :
       /\ Free(w)
       /\ PushWorkers' = [PushWorkers EXCEPT ![frame[p].sub] = w]
       /\ worker' = [worker EXCEPT ![w] =
            [at |-> "loop", sub |-> frame[p].sub,
             sender |-> frame[p].cfg # "unknownType", canceled |-> FALSE]]
  /\ Return(p)
  /\ UNCHANGED <<amsSub, status, loader, todo, fatal>>

-----------------------------------------------------------------------------
(* deactivateSubscription.                                                 *)

\* Mutated form of DeactivateCheck: IsSubActive is not asked.
DeactivateUnchecked(p) ==
  /\ At(p, "deactivateCheck")
  /\ Goto(p, "deactivateRead")
  /\ UNCHANGED <<amsSub, status, PushWorkers, worker, loader, todo, fatal>>

\* Mutated form of DeactivateCheck: the goroutine that listens on the deactivation
\* channel ends when a subscription turns out not to be active.
DeactivateOrExit(p) ==
  /\ At(p, "deactivateCheck")
  /\ IF Active(frame[p].sub)
       THEN Goto(p, "deactivateRead")
       ELSE IF p = "deactivator" THEN Goto(p, "exited") ELSE Return(p)
  /\ UNCHANGED <<amsSub, status, PushWorkers, worker, loader, todo, fatal>>

DeactivateCheck(p) ==
  /\ At(p, "deactivateCheck")
  /\ IF Active(frame[p].sub) THEN Goto(p, "deactivateRead") ELSE Return(p)
  /\ UNCHANGED <<amsSub, status, PushWorkers, worker, loader, todo, fatal>>

(* w := ps.PushWorkers[sub] reads the map a second time. *)
DeactivateRead(p) ==
  /\ At(p, "deactivateRead")
  /\ frame' = [frame EXCEPT ![p] =
       [at |-> "deactivateStop", sub |-> @.sub, cfg |-> @.cfg,
        worker |-> PushWorkers[@.sub], reporter |-> @.reporter]]
  /\ UNCHANGED <<amsSub, status, PushWorkers, worker, loader, todo, fatal>>

(* w.Stop(): a nil w is a panic, and nothing recovers it. *)
DeactivateStop(p) ==
  /\ At(p, "deactivateStop")
  /\ IF frame[p].worker = NoWorker
       THEN Reset("nilWorker")
       ELSE /\ worker' = [worker EXCEPT ![frame[p].worker].canceled = TRUE]
            /\ Goto(p, "deactivateDelete")
            /\ UNCHANGED <<amsSub, status, PushWorkers, loader, todo, fatal>>

\* Mutated form of DeactivateDelete: the entry of the stopped worker stays.
DeactivateForgetsDelete(p) ==
  /\ At(p, "deactivateDelete")
  /\ Return(p)
  /\ UNCHANGED <<amsSub, status, PushWorkers, worker, loader, todo, fatal>>

DeactivateDelete(p) ==
  /\ At(p, "deactivateDelete")
  /\ PushWorkers' = [PushWorkers EXCEPT ![frame[p].sub] = NoWorker]
  /\ Return(p)
  /\ UNCHANGED <<amsSub, status, worker, loader, todo, fatal>>

-----------------------------------------------------------------------------
(* SubscriptionStatus.                                                     *)

StatusCheck(p) ==
  /\ At(p, "statusCheck")
  /\ IF Active(frame[p].sub) THEN Goto(p, "statusRead") ELSE Return(p)
  /\ UNCHANGED <<amsSub, status, PushWorkers, worker, loader, todo, fatal>>

StatusRead(p) ==
  /\ At(p, "statusRead")
  /\ IF Active(frame[p].sub)
       THEN /\ Return(p)
            /\ UNCHANGED <<amsSub, status, PushWorkers, worker, loader, todo, fatal>>
       ELSE Reset("nilWorker")

-----------------------------------------------------------------------------
(* Workers, as the registry sees them.                                     *)

(* AMS answers a Pull with an error that is cancelable; push() blocks until
   the deactivation channel takes it.  The Pull of a worker that was stopped
   may be in flight, and is answered like any other. *)
WorkerMeetsGone(w) ==
  /\ Alive /\ worker[w].at = "loop"
  /\ amsSub[worker[w].sub] = "absent"
  /\ worker' = [worker EXCEPT ![w].at = "report"]
  /\ UNCHANGED <<amsSub, status, PushWorkers, frame, loader, todo, fatal>>

(* push() has messages to send, and calls a nil Sender. *)
WorkerHasNoSender(w) ==
  /\ Alive /\ worker[w].at = "loop" /\ ~worker[w].sender
  /\ amsSub[worker[w].sub] # "absent"
  /\ Reset("nilSender")

\* Mutated form of WorkerEnds: the loop ends on an error.
WorkerEndsUnasked(w) ==
  /\ Alive /\ worker[w].at = "loop"
  /\ worker' = [worker EXCEPT ![w].at = "off"]
  /\ UNCHANGED <<amsSub, status, PushWorkers, frame, loader, todo, fatal>>

WorkerEnds(w) ==
  /\ Alive /\ worker[w].at = "loop" /\ worker[w].canceled
  /\ worker' = [worker EXCEPT ![w].at = "off"]
  /\ UNCHANGED <<amsSub, status, PushWorkers, frame, loader, todo, fatal>>

(* handleDeactivateChannel receives from a blocked worker the name of its
   subscription; which worker it was is known to the model only. *)
DeactivatorReceives(w) ==
  /\ At("deactivator", "idle") /\ worker[w].at = "report"
  /\ worker' = [worker EXCEPT ![w].at = "loop"]
  /\ Enter("deactivator", "deactivateCheck", worker[w].sub, "ok", w)
  /\ UNCHANGED <<amsSub, status, PushWorkers, loader, todo, fatal>>

-----------------------------------------------------------------------------
(* loadSubscriptions.                                                      *)

(* GetUserByToken fails, and the loader tries again at once. *)
LoaderMissesUser ==
  /\ Alive /\ loader = "user"
  /\ status' = "noUser"
  /\ UNCHANGED <<amsSub, PushWorkers, worker, frame, loader, todo, fatal>>

(* The profile lists the subscriptions assigned to the push worker user. *)
Assigned == {s \in Subs : amsSub[s] # "absent"}

(* The answers that a request for a subscription may get: what AMS holds, or an
   error of the network or of the server. *)
GetSubscription(s) == {amsSub[s]} \cup IF FetchMayFail THEN {"error"} ELSE {}

(* A subscription that is there has a push configuration, or none. *)
IsPushEnabled(answer) == answer \in AmsConfigs

\* Mutated form of LoaderFindsUser: a user without subscriptions is no user.
LoaderFindsSubs ==
  /\ Alive /\ loader = "user" /\ Assigned # {}
  /\ status' = "ok" /\ loader' = "list"
  /\ todo' = Assigned
  /\ UNCHANGED <<amsSub, PushWorkers, worker, frame, fatal>>

(* GetUserByToken answers, and the loop over the projects begins. *)
LoaderFindsUser ==
  /\ Alive /\ loader = "user"
  /\ status' = "ok" /\ loader' = "list"
  /\ todo' = Assigned
  /\ UNCHANGED <<amsSub, PushWorkers, worker, frame, fatal>>

(* The call of ActivateSubscription with what GetSubscription returned, or the
   continue that skips a subscription that is gone, not push enabled, or could
   not be had, for good. *)
LoaderFetches(s) ==
  /\ At("loader", "idle") /\ loader = "list" /\ s \in todo
  /\ todo' = todo \ {s}
  /\ \E answer \in GetSubscription(s) :
       \/ /\ IsPushEnabled(answer)
          /\ Enter("loader", "activateCheck", s, answer, NoWorker)
       \/ ~IsPushEnabled(answer) /\ UNCHANGED frame
  /\ UNCHANGED <<amsSub, status, PushWorkers, worker, loader, fatal>>

LoaderEnds ==
  /\ At("loader", "idle") /\ loader = "list" /\ todo = {}
  /\ loader' = "done"
  /\ UNCHANGED <<amsSub, status, PushWorkers, worker, frame, todo, fatal>>

-----------------------------------------------------------------------------
(* The environment and the Go runtime.                                     *)

AmsChanges(s) ==
  /\ \E cfg \in (AmsConfigs \cup {"absent", "notPush"}) \ {amsSub[s]} :
       amsSub' = [amsSub EXCEPT ![s] = cfg]
  /\ UNCHANGED <<status, PushWorkers, worker, frame, loader, todo, fatal>>

Writes(p) == frame[p].at \in {"activateStore", "deactivateDelete"}
Accesses(p) ==
  \/ Writes(p)
  \/ frame[p].at \in {"activateCheck", "deactivateCheck", "deactivateRead",
                      "statusCheck", "statusRead"}

(* Two goroutines use the map at once and one of them writes: the runtime
   may notice, and ends the process. *)
MapRace ==
  /\ Alive
  /\ \E p, q \in Procs : p # q /\ Writes(p) /\ Accesses(q)
  /\ Reset("mapRace")

Crash == Alive /\ Reset("killed")

Restart == ~Alive /\ Reset("none")

-----------------------------------------------------------------------------
FrameStep(p) ==
  \/ ActivateCheck(p) \/ ActivateStore(p)
  \/ DeactivateCheck(p) \/ DeactivateRead(p) \/ DeactivateStop(p) \/ DeactivateDelete(p)
  \/ StatusCheck(p) \/ StatusRead(p)

WorkerStep(w) == WorkerMeetsGone(w) \/ WorkerHasNoSender(w) \/ WorkerEnds(w)

LoaderStep == LoaderEnds \/ \E s \in Subs : LoaderFetches(s)

Next ==
  \/ \E c \in Calls : Receive(c)
  \/ \E p \in Procs : FrameStep(p)
  \/ \E w \in Workers : WorkerStep(w) \/ DeactivatorReceives(w)
  \/ LoaderMissesUser \/ LoaderFindsUser \/ LoaderStep
  \/ \E s \in Subs : AmsChanges(s)
  \/ MapRace \/ Crash \/ Restart

Spec == Init /\ [][Next]_vars

(* Operations run to their end, and a worker whose subscription is gone meets the
   error.  The senders blocked on a Go channel are served in the order they came, so
   none of them is passed over for ever.  Nothing is asked of AMS, of the loader, and
   of workers that were stopped. *)
Fairness ==
  /\ \A p \in Procs \ {"loader"} : WF_vars(FrameStep(p))
  /\ \A w \in Workers : WF_vars(WorkerMeetsGone(w)) /\ SF_vars(DeactivatorReceives(w))

FairSpec == Spec /\ Fairness

(* Two operations on one subscription conflict if both store an entry, or if one of
   them deletes the entry that the other goes on to use.  An activation overlaps
   with a deactivation or a status request as it likes, and operations on different
   subscriptions overlap with each other. *)
Activating(p) == frame[p].at \in {"activateCheck", "activateStore"}
Deactivating(p) ==
  frame[p].at \in {"deactivateCheck", "deactivateRead", "deactivateStop", "deactivateDelete"}
Inspecting(p) == frame[p].at \in {"statusCheck", "statusRead"}

Conflict(p, q) ==
  /\ frame[p].sub = frame[q].sub
  /\ \/ Activating(p) /\ Activating(q)
     \/ Deactivating(p) /\ (Deactivating(q) \/ Inspecting(q))

(* What a lock would have to see to, and the repository's tests, which call one
   handler after the other, never violate; the code has no lock. *)
ConflictFree == \A p, q \in Procs : p # q => ~Conflict(p, q)
ConflictFreeNext == Next /\ ConflictFree'
ConflictFreeSpec == Init /\ [][ConflictFreeNext]_vars

-----------------------------------------------------------------------------
(* Properties.                                                             *)

Frames ==
  {IdleFrame} \cup
  [at : {"activateCheck", "activateStore", "deactivateCheck", "deactivateRead",
         "deactivateStop", "deactivateDelete", "statusCheck", "statusRead"},
   sub : Subs, cfg : Configs,
   worker : Workers \cup {NoWorker}, reporter : Workers \cup {NoWorker}]

WorkerRecords ==
  {r \in [at : {"off", "loop", "report"}, sub : Subs \cup {NoSub},
          sender : BOOLEAN, canceled : BOOLEAN] : r.at # "off" => r.sub \in Subs}

(* Every variable has its type. *)
TypeOK ==
  /\ amsSub \in [Subs -> AmsConfigs \cup {"absent", "notPush"}]
  /\ status \in {"", "noUser", "ok"}
  /\ PushWorkers \in [Subs -> Workers \cup {NoWorker}]
  /\ worker \in [Workers -> WorkerRecords]
  /\ frame \in [Procs -> Frames]
  /\ loader \in {"user", "list", "done"}
  /\ todo \subseteq Subs
  /\ fatal \in {"none", "nilWorker", "nilSender", "mapRace", "killed"}

(* The worker registered for a subscription, or held by an operation on it,
   was made for that subscription. *)
WorkersMatch ==
  /\ \A s \in Subs : Active(s) => worker[PushWorkers[s]].sub = s
  /\ \A p \in Procs :
       frame[p].worker # NoWorker => worker[frame[p].worker].sub = frame[p].sub

(* A subscription is never left registered with a worker that was stopped:
   whoever stopped the worker is about to delete the entry, whatever other
   operations on the subscription run at the same time. *)
NoZombieEntry ==
  \A s \in Subs :
    Active(s) /\ worker[PushWorkers[s]].canceled =>
      \E p \in Procs : frame[p].at = "deactivateDelete" /\ frame[p].sub = s

(* Nor with a worker that has ended, for which SubscriptionStatus would answer
   that the subscription is active: none ends without being stopped. *)
NoDeadEntry ==
  \A s \in Subs :
    Active(s) /\ worker[PushWorkers[s]].at = "off" =>
      \E p \in Procs : frame[p].at = "deactivateDelete" /\ frame[p].sub = s

(* A worker that serves a subscription is the registered one, if no operations
   conflict.  A worker that is not registered can no longer be stopped, by the
   caller or by its own cancelable error: it pushes until the process ends, next
   to any other worker of the subscription. *)
NoOrphan ==
  \A w \in Workers :
    worker[w].at # "off" /\ ~worker[w].canceled => PushWorkers[worker[w].sub] = w

(* The operations on the registry never find a nil worker, if none conflict. *)
NoNilWorker == fatal # "nilWorker"

(* handleDeactivateChannel stops the worker whose error it received, and no
   later worker of a subscription with the same name. *)
StopsOnlyTheReporter ==
  [][\A w \in Workers :
       At("deactivator", "deactivateStop") /\ frame["deactivator"].worker = w
         => w = frame["deactivator"].reporter]_vars

(* No worker stays blocked on the deactivation channel. *)
ReportsAreTaken ==
  \A w \in Workers : worker[w].at = "report" ~> worker[w].at # "report"

(* A worker that was stopped ends, blocked on the channel or not. *)
StoppedWorkersEnd ==
  \A w \in Workers : worker[w].canceled ~> worker[w].at = "off"

(* A subscription that AMS no longer has does not stay registered. *)
DeletedIsReleased ==
  \A s \in Subs :
    Active(s) /\ amsSub[s] = "absent" ~> ~Active(s) \/ amsSub[s] # "absent"

(* The workers that serve subscription s. *)
Serving(s) ==
  {w \in Workers : worker[w].at # "off" /\ ~worker[w].canceled /\ worker[w].sub = s}

AtomicRegistry == INSTANCE Registry WITH serving <- [s \in Subs |-> Serving(s)]

(* If no operations conflict, each of them is as good as atomic, although they
   overlap: at most one worker serves a subscription, an activation takes effect
   only if none does, a deactivation leaves none, and nothing but these two and
   the end of the process changes who serves. *)
ImplementsRegistry == AtomicRegistry!Spec

Lifecycle ==
  INSTANCE WorkerLifecycle WITH
    at <- [w \in Workers |-> worker[w].at],
    stopped <- [w \in Workers |-> worker[w].at # "off" /\ worker[w].canceled]

(* The registry assumes of its workers no more than module WorkerLifecycle
   says, which is what the push worker implements. *)
ImplementsLifecycle == Lifecycle!Spec
==============================================================================
