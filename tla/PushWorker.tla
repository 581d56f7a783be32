------------------------------ MODULE PushWorker ------------------------------
(***************************************************************************)
(* The push cycle of package push (consume -> send -> ack) for ONE AMS     *)
(* subscription, with the consumer, the senders and the AMS message calls  *)
(* it is made of.                                                          *)
(*                                                                         *)
(* Workers is a set of worker instances.  More than one can serve the      *)
(* subscription at once: an instance that was stopped stays in its push    *)
(* cycle until the cycle notices, and by then the subscription may have    *)
(* been activated again.  Instances are activated, stopped and killed here *)
(* at any moment; which of those moments the service can choose is the     *)
(* subject of module PushService.                                          *)
(*                                                                         *)
(* AMS numbers the messages of the subscription 1, 2, ... and keeps the    *)
(* offset acked.  An HTTP exchange is a request, its processing by the     *)
(* server, and its answer.  A client that gives up (error, timeout,        *)
(* canceled context) leaves its request on the network, where the server   *)
(* may still process it at any later time.                                 *)
(***************************************************************************)
EXTENDS RetryPolicy, FiniteSets

CONSTANTS
  Workers,
  MaxMessages,        \* PushConfig.MaxMessages
  PushType,           \* PushConfig.Type
  RetryPolicyType,    \* PushConfig.RetryPolicy.Type
  MaxPublished,       \* bound: messages ever published to the topic
  MaxDisturbances,    \* bound: failed requests, stops and crashes
  BoundEnds           \* whether stops and crashes are held back by it, or only counted

ASSUME WorkerAssumption ==
  /\ MaxMessages \in Nat \ {0}
  /\ PushType \in {"HTTP_ENDPOINT", "MATTERMOST"}
  /\ RetryPolicyType \in RetryPolicyTypes
  /\ MaxPublished \in Nat
  /\ MaxDisturbances \in Nat \ {0} /\ BoundEnds \in BOOLEAN

VARIABLES
  \* AMS and the remote destination
  published,    \* number of messages published
  acked,        \* offset of the subscription: messages up to it are acknowledged
  exists,       \* whether the subscription still exists
  delivered,    \* messages the destination has accepted, at least once
  \* the fields and control state of each worker
  pc, timer, canceled, policy,
  pushErr,      \* whether it is empty: its text goes into status answers only
  batch,        \* messages of the current push cycle
  exchange,     \* state of its current HTTP exchange
  \* the network
  latePosts, lateAcks,   \* requests whose sender no longer waits for them
  disturbances           \* failed requests, stops and crashes

amsVars == <<published, acked, exists>>
workerVars == <<pc, timer, canceled, pushErr, policy, batch, exchange>>
lateVars == <<latePosts, lateAcks>>
vars == <<amsVars, delivered, workerVars, lateVars, disturbances>>

Batches == [first : Nat, last : Nat]
NoBatch == [first |-> 1, last |-> 0]
Messages(b) == b.first .. b.last

Running(w) == pc[w] # "off"

-----------------------------------------------------------------------------
(* Senders.                                                                *)

DetermineMessageFormat(numberOfMessages) ==
  IF numberOfMessages = 1 THEN "single" ELSE "multi"

\* Mutated form of HttpSent: a single message is sent whatever the format.
HttpSentFirst(b) == {b.first}

(* HttpSender.Send follows the format that push() chose. *)
HttpSent(b) ==
  IF DetermineMessageFormat(MaxMessages) = "single" THEN {b.first} ELSE Messages(b)

(* MattermostSender.Send takes Messages[0] in either format. *)
MattermostSent(b) == {b.first}

(* The messages of batch b that one Send puts in its request. *)
Sent(b) == IF PushType = "MATTERMOST" THEN MattermostSent(b) ELSE HttpSent(b)

\* Mutated form of AckId: the first message of the batch is acknowledged.
AckFirst(b) == b.first

\* Mutated form of AckId: the identifier that precedes the batch.
AckBeforeFirst(b) == b.first - 1

(* rml.Last().AckID *)
AckId(b) == b.last

-----------------------------------------------------------------------------
(* Worker control.                                                         *)

Init ==
  /\ published = 0 /\ acked = 0 /\ exists = TRUE
  /\ delivered = {}
  /\ pc = [w \in Workers |-> "off"]
  /\ timer = [w \in Workers |-> "stopped"]
  /\ canceled = [w \in Workers |-> FALSE]
  /\ pushErr = [w \in Workers |-> "none"]
  /\ policy = [w \in Workers |-> NewRetryPolicy(RetryPolicyType)]
  /\ batch = [w \in Workers |-> NoBatch]
  /\ exchange = [w \in Workers |-> "none"]
  /\ latePosts = {} /\ lateAcks = {}
  /\ disturbances = 0

\* Mutated form of NewExchange: the request ignores the worker's context.
DetachedExchange(w) == "pending"

(* The http client checks the context before it sends anything. *)
NewExchange(w) == IF canceled[w] THEN "none" ELSE "pending"

Waiting(ws, stage) == {w \in ws : pc[w] = stage /\ exchange[w] = "pending"}

(* A request that AMS or the destination has not processed yet stays on
   the network when its sender stops waiting. *)
Abandon(ws) ==
  /\ latePosts' = latePosts \cup {batch[w] : w \in Waiting(ws, "send")}
  /\ lateAcks' = lateAcks \cup {AckId(batch[w]) : w \in Waiting(ws, "ack")}

\* Mutated form of EndPush: the retry policy is not reset.
EndPushNoReset(w, err) ==
  /\ pushErr' = [pushErr EXCEPT ![w] = err]
  /\ pc' = [pc EXCEPT ![w] = "select"]
  /\ batch' = [batch EXCEPT ![w] = NoBatch]
  /\ exchange' = [exchange EXCEPT ![w] = "none"]
  /\ UNCHANGED <<canceled, policy, timer>>

(* push() returns with pushErr = err, and Start resets the retry policy. *)
EndPush(w, err) ==
  /\ pushErr' = [pushErr EXCEPT ![w] = err]
  /\ policy' = [policy EXCEPT ![w] = Reset(@, err # "none")]
  /\ timer' = [timer EXCEPT ![w] = "armed"]
  /\ pc' = [pc EXCEPT ![w] = "select"]
  /\ batch' = [batch EXCEPT ![w] = NoBatch]
  /\ exchange' = [exchange EXCEPT ![w] = "none"]
  /\ UNCHANGED canceled

(* f, with value for every instance in ws. *)
Blank(ws, f, value) == [w \in Workers |-> IF w \in ws THEN value ELSE f[w]]

(* The goroutines of the instances ws end; nothing of them remains. *)
Vanish(ws) ==
  /\ pc' = Blank(ws, pc, "off")
  /\ timer' = Blank(ws, timer, "stopped")
  /\ canceled' = Blank(ws, canceled, FALSE)
  /\ pushErr' = Blank(ws, pushErr, "none")
  /\ policy' = Blank(ws, policy, NewRetryPolicy(RetryPolicyType))
  /\ batch' = Blank(ws, batch, NoBatch)
  /\ exchange' = Blank(ws, exchange, "none")

Disturb ==
  /\ disturbances < MaxDisturbances
  /\ disturbances' = disturbances + 1

(* The same for what ends instances. *)
DisturbEnd ==
  /\ BoundEnds => disturbances < MaxDisturbances
  /\ disturbances' =
       IF disturbances < MaxDisturbances THEN disturbances + 1 ELSE disturbances

(* push.New, then go worker.Start(). *)
Activate(w) ==
  /\ pc[w] = "off"
  /\ pc' = [pc EXCEPT ![w] = "select"]
  /\ timer' = [timer EXCEPT ![w] = "armed"]
  /\ UNCHANGED <<amsVars, delivered, canceled, pushErr, policy, batch, exchange,
                 lateVars, disturbances>>

(* Stop cancels the context of the instance; to do so again changes nothing. *)
Stop(w) ==
  /\ Running(w) /\ ~canceled[w]
  /\ DisturbEnd
  /\ canceled' = [canceled EXCEPT ![w] = TRUE]
  /\ UNCHANGED <<amsVars, delivered, pc, timer, pushErr, policy, batch, exchange,
                 lateVars>>

TimerFires(w) ==
  /\ timer[w] = "armed"
  /\ timer' = [timer EXCEPT ![w] = "fired"]
  /\ UNCHANGED <<amsVars, delivered, pc, canceled, pushErr, policy, batch, exchange,
                 lateVars, disturbances>>

(* select: the timer case.  push() starts with the Pull request. *)
Tick(w) ==
  /\ pc[w] = "select" /\ timer[w] = "fired"
  /\ timer' = [timer EXCEPT ![w] = "stopped"]
  /\ pc' = [pc EXCEPT ![w] = "consume"]
  /\ exchange' = [exchange EXCEPT ![w] = NewExchange(w)]
  /\ UNCHANGED <<amsVars, delivered, canceled, pushErr, policy, batch, lateVars,
                 disturbances>>

\* Mutated form of Done: the loop ends although nobody stopped the instance.
DoneUnasked(w) ==
  /\ pc[w] = "select" /\ timer[w] = "armed"
  /\ Vanish({w})
  /\ UNCHANGED <<amsVars, delivered, lateVars, disturbances>>

\* Mutated form of Done: the answer of Timer.Stop is taken the wrong way round.
DoneInverted(w) ==
  /\ pc[w] = "select" /\ canceled[w]
  /\ IF timer[w] = "fired"
       THEN Vanish({w})
       ELSE /\ pc' = [pc EXCEPT ![w] = "drain"]
            /\ timer' = [timer EXCEPT ![w] = "stopped"]
            /\ UNCHANGED <<canceled, pushErr, policy, batch, exchange>>
  /\ UNCHANGED <<amsVars, delivered, lateVars, disturbances>>

(* select: the Done case.  Timer.Stop reports whether it was in time; if it
   was not, Start drains the channel before it leaves the loop. *)
Done(w) ==
  /\ pc[w] = "select" /\ canceled[w]
  /\ IF timer[w] = "armed"
       THEN Vanish({w})
       ELSE /\ pc' = [pc EXCEPT ![w] = "drain"]
            /\ UNCHANGED <<timer, canceled, pushErr, policy, batch, exchange>>
  /\ UNCHANGED <<amsVars, delivered, lateVars, disturbances>>

Drain(w) ==
  /\ pc[w] = "drain" /\ timer[w] = "fired"
  /\ Vanish({w})
  /\ UNCHANGED <<amsVars, delivered, lateVars, disturbances>>

-----------------------------------------------------------------------------
(* push(): consume.                                                        *)

(* The batches that AMS may answer a Pull with: up to MaxMessages messages
   that follow the offset. *)
PullAnswers ==
  {[first |-> acked + 1, last |-> acked + n] :
     n \in {k \in 1 .. MaxMessages : acked + k <= published}}

ConsumeMessages(w) ==
  /\ pc[w] = "consume" /\ exchange[w] = "pending"
  /\ exists
  /\ \E answer \in PullAnswers : batch' = [batch EXCEPT ![w] = answer]
  /\ pc' = [pc EXCEPT ![w] = "send"]
  /\ exchange' = [exchange EXCEPT ![w] = NewExchange(w)]
  /\ UNCHANGED <<amsVars, delivered, timer, canceled, pushErr, policy, lateVars,
                 disturbances>>

(* "no new messages": the cycle ends without touching pushErr. *)
ConsumeEmpty(w) ==
  /\ pc[w] = "consume" /\ exchange[w] = "pending"
  /\ exists /\ acked = published
  /\ EndPush(w, pushErr[w])
  /\ UNCHANGED <<amsVars, delivered, lateVars, disturbances>>

(* AMS answers that the subscription does not exist, a cancelable error. *)
ConsumeGone(w) ==
  /\ pc[w] = "consume" /\ exchange[w] = "pending"
  /\ ~exists
  /\ pc' = [pc EXCEPT ![w] = "report"]
  /\ exchange' = [exchange EXCEPT ![w] = "none"]
  /\ UNCHANGED <<amsVars, delivered, timer, canceled, pushErr, policy, batch,
                 lateVars, disturbances>>

\* Mutated form of Report: the cancelable error is registered as well.
ReportRegistersError(w) ==
  /\ pc[w] = "report"
  /\ EndPush(w, "gone")
  /\ UNCHANGED <<amsVars, delivered, lateVars, disturbances>>

(* handleDeactivateChannel receives what the worker sends on the unbuffered
   deactivation channel; pushErr is left as it was. *)
Report(w) ==
  /\ pc[w] = "report"
  /\ EndPush(w, pushErr[w])
  /\ UNCHANGED <<amsVars, delivered, lateVars, disturbances>>

(* Consume, Send or Ack returns an error that is not cancelable: the server
   answered with one, the answer was lost, the client timed out, or the
   worker's context is canceled. *)
PushFails(w) ==
  /\ pc[w] \in {"consume", "send", "ack"}
  /\ IF canceled[w] \/ exchange[w] = "refused" \/ (pc[w] = "ack" /\ ~exists)
       THEN UNCHANGED disturbances
       ELSE Disturb
  /\ Abandon({w})
  /\ EndPush(w, "failed")
  /\ UNCHANGED <<amsVars, delivered>>

-----------------------------------------------------------------------------
(* push(): send and ack.                                                   *)

(* The endpoint takes the messages and answers so.  HttpSender counts the
   status codes 200, 201, 204 and 102 as that, MattermostSender only 200. *)
EndpointAccepts(w) ==
  /\ pc[w] = "send" /\ exchange[w] = "pending"
  /\ delivered' = delivered \cup Sent(batch[w])
  /\ exchange' = [exchange EXCEPT ![w] = "ok"]
  /\ UNCHANGED <<amsVars, pc, timer, canceled, pushErr, policy, batch, lateVars,
                 disturbances>>

(* The endpoint answers with any other status code; Send reads the answer
   and makes an error of it. *)
EndpointRefuses(w) ==
  /\ pc[w] = "send" /\ exchange[w] = "pending"
  /\ Disturb
  /\ exchange' = [exchange EXCEPT ![w] = "refused"]
  /\ UNCHANGED <<amsVars, delivered, pc, timer, canceled, pushErr, policy, batch,
                 lateVars>>

\* Mutated form of SendOk: whatever the endpoint answers will do.
SendAnswered(w) ==
  /\ pc[w] = "send" /\ exchange[w] \in {"ok", "refused"}
  /\ pc' = [pc EXCEPT ![w] = "ack"]
  /\ exchange' = [exchange EXCEPT ![w] = NewExchange(w)]
  /\ UNCHANGED <<amsVars, delivered, timer, canceled, pushErr, policy, batch,
                 lateVars, disturbances>>

SendOk(w) ==
  /\ pc[w] = "send" /\ exchange[w] = "ok"
  /\ pc' = [pc EXCEPT ![w] = "ack"]
  /\ exchange' = [exchange EXCEPT ![w] = NewExchange(w)]
  /\ UNCHANGED <<amsVars, delivered, timer, canceled, pushErr, policy, batch,
                 lateVars, disturbances>>

(* The offset of the subscription after it is acknowledged up to id. *)
Acknowledged(id) == IF id > acked THEN id ELSE acked

AmsReceivesAck(w) ==
  /\ pc[w] = "ack" /\ exchange[w] = "pending"
  /\ exists
  /\ acked' = Acknowledged(AckId(batch[w]))
  /\ exchange' = [exchange EXCEPT ![w] = "ok"]
  /\ UNCHANGED <<published, exists, delivered, pc, timer, canceled, pushErr, policy,
                 batch, lateVars, disturbances>>

AckOk(w) ==
  /\ pc[w] = "ack" /\ exchange[w] = "ok"
  /\ EndPush(w, "none")
  /\ UNCHANGED <<amsVars, delivered, lateVars, disturbances>>

-----------------------------------------------------------------------------
(* The environment.                                                        *)

LatePost ==
  \E b \in latePosts :
    /\ delivered' = delivered \cup Sent(b)
    /\ latePosts' = latePosts \ {b}
    /\ UNCHANGED <<amsVars, workerVars, lateAcks, disturbances>>

LateAck ==
  \E id \in lateAcks :
    /\ exists
    /\ acked' = Acknowledged(id)
    /\ lateAcks' = lateAcks \ {id}
    /\ UNCHANGED <<published, exists, delivered, workerVars, latePosts, disturbances>>

Publish ==
  /\ exists /\ published < MaxPublished
  /\ published' = published + 1
  /\ UNCHANGED <<acked, exists, delivered, workerVars, lateVars, disturbances>>

DeleteSubscription ==
  /\ exists
  /\ exists' = FALSE
  /\ UNCHANGED <<published, acked, delivered, workerVars, lateVars, disturbances>>

(* The process dies with every instance it runs. *)
Die ==
  /\ Abandon(Workers)
  /\ Vanish(Workers)
  /\ UNCHANGED <<amsVars, delivered>>

Crash == DisturbEnd /\ Die

-----------------------------------------------------------------------------
(* The steps the program takes for w, whatever its surroundings do. *)
WorkerStep(w) ==
  \/ Tick(w) \/ Drain(w)
  \/ ConsumeMessages(w) \/ ConsumeEmpty(w) \/ ConsumeGone(w) \/ Report(w)
  \/ PushFails(w) \/ SendOk(w) \/ AckOk(w)

ServerStep(w) == EndpointAccepts(w) \/ EndpointRefuses(w) \/ AmsReceivesAck(w)

Next ==
  \/ \E w \in Workers :
       \/ Activate(w) \/ Stop(w)
       \/ TimerFires(w) \/ Done(w)
       \/ WorkerStep(w) \/ ServerStep(w)
  \/ LatePost \/ LateAck
  \/ Publish \/ DeleteSubscription \/ Crash

Spec == Init /\ [][Next]_vars

(* Timers fire, goroutines run, and servers answer.  A select whose Done and
   timer cases are ready picks one at random, so it does not pass over Done
   for ever: that is the strong fairness of Done. *)
Fairness ==
  \A w \in Workers :
    /\ WF_vars(TimerFires(w))
    /\ WF_vars(WorkerStep(w))
    /\ WF_vars(ServerStep(w))
    /\ SF_vars(Done(w))

FairSpec == Spec /\ Fairness

-----------------------------------------------------------------------------
(* Properties.                                                             *)

WorkerTypes ==
  /\ pc \in [Workers ->
       {"off", "select", "drain", "consume", "report", "send", "ack"}]
  /\ timer \in [Workers -> {"armed", "fired", "stopped"}]
  /\ canceled \in [Workers -> BOOLEAN]
  /\ pushErr \in [Workers -> {"none", "failed"}]
  /\ policy \in [Workers -> Policies]
  /\ batch \in [Workers -> Batches]
  /\ exchange \in [Workers -> {"none", "pending", "ok", "refused"}]

(* Every variable has its type. *)
TypeOK ==
  /\ published \in Nat /\ acked \in Nat /\ exists \in BOOLEAN
  /\ delivered \subseteq Nat
  /\ WorkerTypes
  /\ latePosts \subseteq Batches /\ lateAcks \subseteq Nat
  /\ disturbances \in Nat

(* AMS never regards as acknowledged a message that the destination has not
   accepted: push() acknowledges a batch only after Send returned without
   error, and Send posts the whole batch.  It holds for as many instances of
   the worker as one likes, and through timeouts and crashes; it fails for a
   MattermostSender that is handed more than one message. *)
NoLossOnAck == 1 .. acked \subseteq delivered

(* The destination first learns of the messages in the order AMS numbers
   them: what it has received has no gap, whatever was lost or repeated. *)
NoGap == \A m \in delivered : 1 .. m \subseteq delivered

(* The destination has received the messages 1 .. n. *)
Received(n) == 1 .. n \subseteq delivered

(* A batch that a Pull returned: it is not empty, not longer than asked, and
   of messages that were published. *)
Pulled(b) ==
  /\ 1 <= b.first /\ b.first <= b.last /\ b.last < b.first + MaxMessages
  /\ b.last <= published

WorkerDelivery(w) ==
  /\ pc[w] \in {"send", "ack"} => Pulled(batch[w]) /\ Received(batch[w].first - 1)
  /\ pc[w] = "ack" \/ (pc[w] = "send" /\ exchange[w] = "ok") => Received(batch[w].last)

LateDelivery ==
  /\ \A b \in latePosts : Pulled(b) /\ Received(b.first - 1)
  /\ \A id \in lateAcks : Received(id)

(* Why the two properties above hold.  Everything that precedes a batch was
   received before the batch was pulled, and all of it before it can be
   acknowledged; the same goes for the requests that nobody waits for. *)
DeliveryInv ==
  /\ NoLossOnAck /\ NoGap
  /\ delivered \subseteq 1 .. published
  /\ \A w \in Workers : WorkerDelivery(w)
  /\ LateDelivery

(* Start never waits in vain for its timer: when it drains the channel of the
   retry policy's timer after a late Stop, the channel holds a tick. *)
DrainNeverBlocks == \A w \in Workers : pc[w] = "drain" => timer[w] = "fired"

(* The loop of Start can only be waiting with its timer running or its tick
   pending: every path out of push() resets the timer exactly once, and no
   path resets it while a tick is undrained. *)
TimerFollowsCycle ==
  \A w \in Workers :
    /\ pc[w] = "select" => timer[w] \in {"armed", "fired"}
    /\ pc[w] \in {"consume", "report", "send", "ack"} => timer[w] = "stopped"

(* Whatever the sequence of failed, empty and successful cycles, the slow
   start policy keeps its interval between its two bounds. *)
IntervalInBounds ==
  \A w \in Workers :
    policy[w].type = "slowstart" =>
      policy[w].interval \in SlowStartLowerTimeBound .. SlowStartUpperTimeBound

(* While nothing has failed and a single instance serves the subscription,
   no message is posted twice: the next Pull starts after the whole batch
   that was just sent. *)
OnceWithoutFaults ==
  [][\A w \in Workers :
       EndpointAccepts(w) /\ disturbances = 0 /\ {v \in Workers : Running(v)} = {w}
         => Sent(batch[w]) \cap delivered = {}]_vars

(* A stopped worker starts no HTTP exchange, neither a cycle nor the next call of
   the one it is in: what it still has in flight was in flight when Stop was
   called, as every request carries its context. *)
NoRequestAfterStop ==
  [][\A w \in Workers :
       canceled[w] /\ exchange'[w] = "pending" =>
         exchange[w] = "pending" /\ pc'[w] = pc[w]]_vars

(* A stopped worker ends, even one that is blocked on the deactivation
   channel or in the middle of an exchange when Stop is called. *)
StopTerminates == \A w \in Workers : canceled[w] ~> ~Running(w)

(* A published message is delivered and acknowledged, unless its
   subscription is deleted or no instance remains in service. *)
EventuallyPushed ==
  \A m \in 1 .. MaxPublished :
    m <= published ~>
      \/ m <= acked
      \/ ~exists
      \/ \A w \in Workers : Running(w) => canceled[w]

AtLeastOnce == INSTANCE Delivery WITH received <- delivered

(* The instances, their cycles, the faults and the network together implement
   the channel of module Delivery: whatever the destination accepts is accepted
   after all that precedes it, and AMS moves its offset over accepted messages
   only. *)
ImplementsDelivery == AtLeastOnce!Spec

(* Where an instance is, seen from outside. *)
Place(w) ==
  IF pc[w] \in {"off", "report"} THEN pc[w] ELSE "loop"

Lifecycle ==
  INSTANCE WorkerLifecycle WITH at <- [w \in Workers |-> Place(w)], stopped <- canceled

(* Whatever happens in its push cycles, an instance lives the life of module
   WorkerLifecycle: it ends only if it was stopped, and not while it is blocked
   on the deactivation channel. *)
ImplementsLifecycle == Lifecycle!Spec

(* "A slowstart retry policy performs faster push cycles when there are no
   errors and slower ones when errors exist" (retrypolicies/slowstart.go):
   only a push cycle that met an error makes the interval grow past the
   initial one. *)
SlowerOnlyAfterErrors ==
  [][\A w \in Workers :
       /\ policy'[w].interval > policy[w].interval
       /\ policy'[w].interval > SlowStartInitialInterval
       => PushFails(w)]_vars
==============================================================================
