------------------------------ MODULE PushSystem ------------------------------
(***************************************************************************)
(* The whole server around one subscription: the registry of PushService   *)
(* with the worker instances of PushWorker in place of its sketch of them, *)
(* AMS, the destination, and the operating system process, which may die   *)
(* and is started again.                                                   *)
(*                                                                         *)
(* The two modules meet in the events of WorkerLifecycle, which are steps  *)
(* of both: an activation starts an instance, a deactivation cancels it, a *)
(* Pull that finds the subscription gone blocks it, the deactivation       *)
(* channel wakes it up, its end frees it, and the end of the process takes *)
(* every instance with it.  Everything else is a step of one module that   *)
(* leaves the variables of the other alone.                                *)
(*                                                                         *)
(* Handlers, the deactivator and the loader overlap as in PushService.     *)
(* ConflictFreeSystem is the server as long as no two of their operations  *)
(* conflict, which the code does not see to.                               *)
(***************************************************************************)
EXTENDS PushService

CONSTANTS
  Period, SlowStartInitialInterval, SlowStartLowerTimeBound, SlowStartUpperTimeBound,
  MaxMessages, PushType, RetryPolicyType,
  MaxPublished, MaxDisturbances      \* bounds, see PushWorker

VARIABLES
  published, acked, delivered,
  pc, timer, canceled, pushErr, policy, batch, exchange,
  latePosts, lateAcks, disturbances

serviceVars == vars
pushVars ==
  <<published, acked, delivered, pc, timer, canceled, pushErr, policy, batch, exchange,
    latePosts, lateAcks, disturbances>>
systemVars == <<serviceVars, pushVars>>

TheSub == CHOOSE s \in Subs : TRUE

(* The subscription of PushWorker is there while AMS holds it; the registry
   stops instances whenever it will. *)
W == INSTANCE PushWorker WITH exists <- amsSub[TheSub] # "absent", BoundEnds <- FALSE

ASSUME SystemAssumption ==
  /\ \E s \in Subs : Subs = {s}
  /\ "unknownType" \notin CallConfigs
  /\ W!IntervalAssumption /\ W!WorkerAssumption

SystemInit == Init /\ W!Init

-----------------------------------------------------------------------------
(* Steps of the registry that no instance notices.                         *)

Called(c) == Receive(c) /\ UNCHANGED pushVars

RegistryStep(p) ==
  /\ \/ ActivateCheck(p) \/ DeactivateCheck(p) \/ DeactivateRead(p)
     \/ DeactivateDelete(p) \/ StatusCheck(p) \/ StatusRead(p)
  /\ Alive' /\ UNCHANGED pushVars

Loads == (LoaderEnds \/ LoaderFetches(TheSub)) /\ UNCHANGED pushVars

MissesUser == LoaderMissesUser /\ UNCHANGED pushVars
FindsUser == LoaderFindsUser /\ UNCHANGED pushVars

(* AMS changes or deletes the subscription; a deleted one is not created
   again, it would be another one with messages of its own. *)
Changes == amsSub[TheSub] # "absent" /\ AmsChanges(TheSub) /\ UNCHANGED pushVars

-----------------------------------------------------------------------------
(* Steps of both.                                                          *)

Starts(p) ==
  /\ ActivateStore(p)
  /\ \E w \in Workers : worker[w].at = "off" /\ worker'[w].at = "loop" /\ W!Activate(w)

\* Mutated form of Stops: Stop does not reach the context of the instance.
StopsInName(p) == DeactivateStop(p) /\ Alive' /\ UNCHANGED pushVars

(* Stop may come when the instance has been stopped before, or has ended. *)
Stops(p) ==
  /\ DeactivateStop(p) /\ Alive'
  /\ IF W!Running(frame[p].worker) /\ ~canceled[frame[p].worker]
       THEN W!Stop(frame[p].worker)
       ELSE UNCHANGED pushVars

(* A call of a nil worker ends the process. *)
Panics(p) == (StatusRead(p) \/ DeactivateStop(p)) /\ ~Alive' /\ W!Crash

MeetsGone(w) == WorkerMeetsGone(w) /\ W!ConsumeGone(w)

\* Mutated form of Reports: the channel is read while the service starts only.
ReportsAtStart(w) == loader # "done" /\ DeactivatorReceives(w) /\ W!Report(w)

Reports(w) == DeactivatorReceives(w) /\ W!Report(w)

(* The instance leaves the loop of Start, at once or through its timer. *)
Ends(w) ==
  \/ WorkerEnds(w) /\ W!Done(w) /\ pc'[w] = "off"
  \/ UNCHANGED serviceVars /\ W!Done(w) /\ pc'[w] = "drain"
  \/ WorkerEnds(w) /\ W!Drain(w)

Dies == (Crash \/ MapRace) /\ W!Crash

\* Mutated form of Restarts: a process that was restarted loads nothing.
RestartsLoaded ==
  /\ ~Alive /\ fatal' = "none" /\ status' = "ok" /\ loader' = "done"
  /\ UNCHANGED <<amsSub, PushWorkers, worker, frame, todo, pushVars>>

Restarts == Restart /\ UNCHANGED pushVars

-----------------------------------------------------------------------------
(* Steps of an instance, of the servers and of the network.                *)

Fires(w) == UNCHANGED serviceVars /\ W!TimerFires(w)

Pushes(w) ==
  /\ UNCHANGED serviceVars
  /\ \/ W!Tick(w) \/ W!ConsumeMessages(w) \/ W!ConsumeEmpty(w)
     \/ W!PushFails(w) \/ W!SendOk(w) \/ W!AckOk(w)

Answers(w) == UNCHANGED serviceVars /\ W!ServerStep(w)

Surroundings == UNCHANGED serviceVars /\ (W!LatePost \/ W!LateAck \/ W!Publish)

-----------------------------------------------------------------------------
SystemNext ==
  \/ \E c \in Calls : Called(c)
  \/ \E p \in Procs : RegistryStep(p) \/ Starts(p) \/ Stops(p) \/ Panics(p)
  \/ \E w \in Workers :
       \/ MeetsGone(w) \/ Reports(w) \/ Ends(w)
       \/ Fires(w) \/ Pushes(w) \/ Answers(w)
  \/ Loads \/ MissesUser \/ FindsUser
  \/ Changes \/ Surroundings
  \/ Dies \/ Restarts

SystemSpec == SystemInit /\ [][SystemNext]_systemVars

(* As in the two modules, with one condition for an instance, its timer and the
   servers it waits for.  Besides, the loader runs and finds its user some day, and
   somebody starts the process again. *)
SystemFairness ==
  /\ \A p \in Procs :
       WF_systemVars(RegistryStep(p) \/ Starts(p) \/ Stops(p) \/ Panics(p))
  /\ \A w \in Workers :
       /\ WF_systemVars(Fires(w) \/ Pushes(w) \/ MeetsGone(w) \/ Answers(w))
       /\ SF_systemVars(Ends(w))
       /\ SF_systemVars(Reports(w))
  /\ WF_systemVars(Loads) /\ SF_systemVars(FindsUser)
  /\ WF_systemVars(Restarts)

FairSystem == SystemSpec /\ SystemFairness

ConflictFreeSystem == SystemInit /\ [][SystemNext /\ ConflictFree']_systemVars

FairConflictFreeSystem == ConflictFreeSystem /\ SystemFairness

-----------------------------------------------------------------------------
(* Properties.                                                             *)

(* The registry and the instances agree on who runs, who is blocked and who
   was stopped, whatever either of them does. *)
Coupled ==
  \A w \in Workers :
    /\ worker[w].at = W!Place(w)
    /\ W!Running(w) => canceled[w] = worker[w].canceled

(* If no operations conflict, a request leaves only from the instance that is
   registered: once the entry is deleted, its instance has been stopped and sends
   nothing more, whether another one has been activated since or not. *)
OnlyRegisteredPush ==
  [][\A w \in Workers :
       pc'[w] # pc[w] /\ exchange'[w] = "pending" => PushWorkers[TheSub] = w]_systemVars

(* The server as a whole, through activations and deactivations that overlap and
   conflict, deletions, crashes and restarts, is a channel that delivers in order
   and at least once. *)
ServerDelivers == W!ImplementsDelivery

(* No call deactivates the subscription any more. *)
LeftAlone == \A c \in Calls : frame[c].at # "deactivateCheck"

(* After the last crash the service finds its user, and stays available. *)
EventuallyAvailable == <>[]Alive => <>[](status = "ok")

(* Whatever was published before or after a crash reaches the destination and
   is acknowledged, as long as AMS holds the subscription, push enabled and well
   configured, and no call deactivates it: the restarted process finds it in AMS
   and continues from its offset.  That is so with FetchMayFail = FALSE only: a
   subscription that loadSubscriptions could not have is not served until someone
   activates it. *)
Recovers ==
  <>[]Alive /\ [](amsSub[TheSub] = "ok" /\ LeftAlone) =>
    \A m \in 1 .. MaxPublished : [](m <= published => <>(m <= acked))

(* If no operations conflict, an instance of a subscription that was deleted ends:
   it meets the error, reports it, is stopped, and leaves its loop.  An instance
   that a conflicting activation has orphaned reports for ever, as nothing that is
   registered can be deactivated for it. *)
DeletedGoesQuiet ==
  []ConflictFree =>
    \A w \in Workers :
      amsSub[TheSub] = "absent" /\ W!Running(w) ~> ~W!Running(w)
==============================================================================
