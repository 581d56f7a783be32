--------------------------- MODULE PushWorker_proofs ---------------------------
(***************************************************************************)
(* Proofs about PushWorker, for any number of worker instances, messages   *)
(* and failures, and any durations that satisfy IntervalAssumption.        *)
(***************************************************************************)
EXTENDS PushWorker, TLAPS

(* What is assumed of the push configuration in the theorems on delivery:
   Send posts the whole batch. *)
SendsWholeBatch == PushType = "HTTP_ENDPOINT" \/ MaxMessages = 1

-----------------------------------------------------------------------------
(* Retry policies.                                                         *)

(* A new policy is a policy. *)
LEMMA NewPolicyType ==
  NewRetryPolicy(RetryPolicyType) \in Policies
BY IntervalAssumption, WorkerAssumption DEF NewRetryPolicy, Policies, RetryPolicyTypes

(* What Reset makes of a policy is a policy of the same type. *)
LEMMA ResetType ==
  ASSUME NEW policy_ \in Policies, NEW err \in BOOLEAN
  PROVE  /\ Reset(policy_, err) \in Policies
         /\ Reset(policy_, err).type = policy_.type
<1>1. NextInterval(policy_, err) \in Nat
  BY IntervalAssumption DEF Policies, Halved, Doubled, NextInterval
<1> QED BY <1>1 DEF Reset, SlowstartReset, Policies

(* Reset keeps the interval of a slow start policy between the bounds. *)
LEMMA ResetInBounds ==
  ASSUME NEW policy_ \in Policies, NEW err \in BOOLEAN,
         policy_.type = "slowstart",
         policy_.interval \in SlowStartLowerTimeBound .. SlowStartUpperTimeBound
  PROVE  Reset(policy_, err).interval
           \in SlowStartLowerTimeBound .. SlowStartUpperTimeBound
<1>1. NextInterval(policy_, err) \in SlowStartLowerTimeBound .. SlowStartUpperTimeBound
  BY IntervalAssumption DEF Policies, Halved, Doubled, NextInterval
<1> QED BY <1>1 DEF Reset, SlowstartReset

-----------------------------------------------------------------------------
(* The next state of a worker, for the operators that build it.            *)

(* EndPush keeps the types of the worker's fields. *)
LEMMA EndPushType ==
  ASSUME WorkerTypes, NEW w \in Workers, NEW err \in {"none", "failed"},
         EndPush(w, err)
  PROVE  WorkerTypes'
<1>1. policy' \in [Workers -> Policies]
  <2>1. Reset(policy[w], err # "none") \in Policies
    BY ResetType DEF WorkerTypes
  <2> QED BY <2>1 DEF EndPush, WorkerTypes
<1>2. NoBatch \in Batches
  BY DEF NoBatch, Batches
<1> QED BY <1>1, <1>2 DEF EndPush, WorkerTypes

(* Vanish keeps the types of the workers' fields. *)
LEMMA VanishType ==
  ASSUME WorkerTypes, NEW ws \in SUBSET Workers, Vanish(ws)
  PROVE  WorkerTypes'
<1>1. policy' \in [Workers -> Policies]
  BY NewPolicyType DEF Vanish, Blank, WorkerTypes
<1>2. NoBatch \in Batches
  BY DEF NoBatch, Batches
<1> QED BY <1>1, <1>2 DEF Vanish, Blank, WorkerTypes

(* Abandon keeps the types of the requests on the network. *)
LEMMA AbandonType ==
  ASSUME TypeOK, NEW ws \in SUBSET Workers, Abandon(ws)
  PROVE  latePosts' \subseteq Batches /\ lateAcks' \subseteq Nat
<1>1. ASSUME NEW w \in Workers
      PROVE  batch[w] \in Batches /\ AckId(batch[w]) \in Nat
  BY DEF TypeOK, WorkerTypes, Batches, AckId
<1>2. Waiting(ws, "send") \subseteq Workers /\ Waiting(ws, "ack") \subseteq Workers
  BY DEF Waiting
<1>3. latePosts' \subseteq Batches
  BY <1>1, <1>2 DEF Abandon, TypeOK
<1>4. lateAcks' \subseteq Nat
  BY <1>1, <1>2 DEF Abandon, TypeOK
<1> QED BY <1>3, <1>4

(* A Send puts numbers of messages on the wire. *)
LEMMA SentType ==
  ASSUME NEW b \in Batches
  PROVE  Sent(b) \subseteq Nat
BY DEF Sent, HttpSent, MattermostSent, Messages, Batches

(* AMS answers a Pull with a batch that starts after the offset. *)
LEMMA PullAnswersType ==
  ASSUME TypeOK, NEW answer \in PullAnswers
  PROVE  answer \in Batches /\ Pulled(answer) /\ answer.first = acked + 1
<1>1. PICK n \in {k \in 1 .. MaxMessages : acked + k <= published} :
        answer = [first |-> acked + 1, last |-> acked + n]
  BY DEF PullAnswers
<1> QED BY <1>1, WorkerAssumption DEF TypeOK, Batches, Pulled

-----------------------------------------------------------------------------
(* Type correctness.                                                       *)

(* Every reachable state of the workers, of AMS and of the network has the
   types that TypeOK gives them. *)
THEOREM TypeCorrect == Spec => []TypeOK
<1>1. Init => TypeOK
  BY NewPolicyType DEF Init, TypeOK, WorkerTypes, NoBatch, Batches
<1>2. TypeOK /\ [Next]_vars => TypeOK'
  <2> SUFFICES ASSUME TypeOK, [Next]_vars
               PROVE  TypeOK'
    OBVIOUS
  <2> USE DEF TypeOK
  <2>1. ASSUME NEW w \in Workers, Activate(w)
        PROVE  TypeOK'
    BY <2>1 DEF Activate, WorkerTypes, amsVars, lateVars
  <2>2. ASSUME NEW w \in Workers, Stop(w)
        PROVE  TypeOK'
    BY <2>2 DEF Stop, DisturbEnd, WorkerTypes, amsVars, lateVars
  <2>3. ASSUME NEW w \in Workers, TimerFires(w)
        PROVE  TypeOK'
    BY <2>3 DEF TimerFires, WorkerTypes, amsVars, lateVars
  <2>4. ASSUME NEW w \in Workers, Done(w)
        PROVE  TypeOK'
    <3>1. CASE timer[w] = "armed"
      BY <2>4, <3>1, VanishType DEF Done, amsVars, lateVars
    <3>2. CASE timer[w] # "armed"
      BY <2>4, <3>2 DEF Done, WorkerTypes, amsVars, lateVars
    <3> QED BY <3>1, <3>2
  <2>5. ASSUME NEW w \in Workers, Tick(w)
        PROVE  TypeOK'
    BY <2>5 DEF Tick, NewExchange, WorkerTypes, amsVars, lateVars
  <2>6. ASSUME NEW w \in Workers, Drain(w)
        PROVE  TypeOK'
    BY <2>6, VanishType DEF Drain, amsVars, lateVars
  <2>7. ASSUME NEW w \in Workers, ConsumeMessages(w)
        PROVE  TypeOK'
    <3>1. batch' \in [Workers -> Batches]
      BY <2>7, PullAnswersType DEF ConsumeMessages, WorkerTypes
    <3> QED BY <2>7, <3>1 DEF ConsumeMessages, NewExchange, WorkerTypes, amsVars, lateVars
  <2>8. ASSUME NEW w \in Workers, ConsumeEmpty(w)
        PROVE  TypeOK'
    <3>1. pushErr[w] \in {"none", "failed"}
      BY DEF WorkerTypes
    <3> QED BY <2>8, <3>1, EndPushType DEF ConsumeEmpty, amsVars, lateVars
  <2>9. ASSUME NEW w \in Workers, ConsumeGone(w)
        PROVE  TypeOK'
    BY <2>9 DEF ConsumeGone, WorkerTypes, amsVars, lateVars
  <2>10. ASSUME NEW w \in Workers, Report(w)
         PROVE  TypeOK'
    <3>1. pushErr[w] \in {"none", "failed"}
      BY DEF WorkerTypes
    <3> QED BY <2>10, <3>1, EndPushType DEF Report, amsVars, lateVars
  <2>11. ASSUME NEW w \in Workers, PushFails(w)
         PROVE  TypeOK'
    <3>1. pc[w] \in {"none", "consume", "send", "ack"}
      BY <2>11 DEF PushFails
    <3>2. WorkerTypes'
      BY <2>11, <3>1, EndPushType DEF PushFails
    <3>3. latePosts' \subseteq Batches /\ lateAcks' \subseteq Nat
      BY <2>11, AbandonType DEF PushFails
    <3> QED BY <2>11, <3>2, <3>3 DEF PushFails, Disturb, amsVars
  <2>12. ASSUME NEW w \in Workers, SendOk(w)
         PROVE  TypeOK'
    BY <2>12 DEF SendOk, NewExchange, WorkerTypes, amsVars, lateVars
  <2>13. ASSUME NEW w \in Workers, AckOk(w)
         PROVE  TypeOK'
    BY <2>13, EndPushType DEF AckOk, amsVars, lateVars
  <2>14. ASSUME NEW w \in Workers, EndpointAccepts(w)
         PROVE  TypeOK'
    <3>1. Sent(batch[w]) \subseteq Nat
      BY SentType DEF WorkerTypes
    <3> QED BY <2>14, <3>1 DEF EndpointAccepts, WorkerTypes, amsVars, lateVars
  <2>15. ASSUME NEW w \in Workers, AmsReceivesAck(w)
         PROVE  TypeOK'
    BY <2>15 DEF AmsReceivesAck, Acknowledged, AckId, WorkerTypes, Batches, lateVars
  <2>22. ASSUME NEW w \in Workers, EndpointRefuses(w)
         PROVE  TypeOK'
    BY <2>22 DEF EndpointRefuses, Disturb, WorkerTypes, amsVars, lateVars
  <2>16. CASE LatePost
    BY <2>16, SentType DEF LatePost, WorkerTypes, amsVars, workerVars
  <2>17. CASE LateAck
    BY <2>17 DEF LateAck, Acknowledged, WorkerTypes, workerVars
  <2>18. CASE Publish
    BY <2>18 DEF Publish, WorkerTypes, workerVars, lateVars
  <2>19. CASE DeleteSubscription
    BY <2>19 DEF DeleteSubscription, WorkerTypes, workerVars, lateVars
  <2>20. CASE Crash
    <3>1. WorkerTypes'
      BY <2>20, VanishType DEF Crash, Die
    <3>2. latePosts' \subseteq Batches /\ lateAcks' \subseteq Nat
      BY <2>20, AbandonType DEF Crash, Die
    <3> QED BY <2>20, <3>1, <3>2 DEF Crash, Die, DisturbEnd, amsVars
  <2>21. CASE UNCHANGED vars
    BY <2>21 DEF vars, WorkerTypes, amsVars, workerVars, lateVars
  <2> QED
    BY <2>1, <2>2, <2>3, <2>4, <2>5, <2>6, <2>7, <2>8, <2>9, <2>10, <2>11, <2>12,
       <2>13, <2>14, <2>15, <2>16, <2>17, <2>18, <2>19, <2>20, <2>21, <2>22
       DEF Next, WorkerStep, ServerStep
<1> QED BY <1>1, <1>2, PTL DEF Spec

-----------------------------------------------------------------------------
(* Delivery.                                                               *)

(* What Send puts on the wire is the batch it was given. *)
LEMMA SentIsBatch ==
  ASSUME SendsWholeBatch, NEW b \in Batches, Pulled(b)
  PROVE  Sent(b) = b.first .. b.last
<1>1. CASE MaxMessages = 1
  <2>1. b.first = b.last
    BY <1>1 DEF Pulled, Batches
  <2> QED BY <1>1, <2>1
       DEF Sent, HttpSent, MattermostSent, DetermineMessageFormat, Messages, Batches
<1>2. CASE MaxMessages # 1 /\ PushType = "HTTP_ENDPOINT"
  BY <1>2 DEF Sent, HttpSent, DetermineMessageFormat, Messages
<1> QED BY <1>1, <1>2 DEF SendsWholeBatch

(* Posting a batch whose predecessors were received leaves no gap, and all of
   the batch is received. *)
LEMMA PostLeavesNoGap ==
  ASSUME SendsWholeBatch, TypeOK, NoGap,
         NEW b \in Batches, Pulled(b), Received(b.first - 1),
         delivered' = delivered \cup Sent(b)
  PROVE  NoGap' /\ (1 .. b.last \subseteq delivered')
<1>1. delivered' = delivered \cup (b.first .. b.last)
  BY SentIsBatch
<1>2. ASSUME NEW m \in b.first .. b.last
      PROVE  1 .. m \subseteq delivered'
  <2> SUFFICES ASSUME NEW k \in 1 .. m
               PROVE  k \in delivered'
    OBVIOUS
  <2>1. CASE k < b.first
    <3>1. k \in 1 .. b.first - 1
      BY <2>1 DEF Batches
    <3> QED BY <3>1, <1>1 DEF Received
  <2>2. CASE ~(k < b.first)
    <3>1. k \in b.first .. b.last
      BY <2>2 DEF Batches
    <3> QED BY <3>1, <1>1
  <2> QED BY <2>1, <2>2
<1>3. b.last \in b.first .. b.last
  BY DEF Pulled, Batches
<1> QED BY <1>1, <1>2, <1>3 DEF NoGap

(* A batch that was pulled stays one when another message is published. *)
LEMMA PulledStays ==
  ASSUME TypeOK, published' = published + 1, NEW b \in Batches, Pulled(b)
  PROVE  Pulled(b)'
BY DEF Pulled, TypeOK, Batches

(* Posting a batch adds published messages, and all up to its last. *)
LEMMA PostAddsPrefix ==
  ASSUME SendsWholeBatch, TypeOK, NEW b \in Batches, Pulled(b), Received(b.first - 1),
         delivered' = delivered \cup Sent(b)
  PROVE  /\ b.last \in 1 .. published
         /\ delivered' = delivered \cup 1 .. b.last
         /\ delivered \subseteq 1 .. published => delivered' \subseteq 1 .. published
<1>1. delivered' = delivered \cup (b.first .. b.last)
  BY SentIsBatch
<1>2. b.last \in 1 .. published
  BY DEF Pulled, Batches, TypeOK
<1>3. 1 .. b.last = (1 .. b.first - 1) \cup (b.first .. b.last)
  BY DEF Pulled, Batches
<1>4. 1 .. b.last \subseteq 1 .. published
  BY <1>2 DEF TypeOK
<1> QED BY <1>1, <1>2, <1>3, <1>4 DEF Received

(* The requests that the workers ws leave behind are as harmless as the ones
   that were on the network before. *)
LEMMA AbandonKeepsDelivery ==
  ASSUME TypeOK, DeliveryInv, NEW ws \in SUBSET Workers, Abandon(ws),
         UNCHANGED <<delivered, published>>
  PROVE  LateDelivery'
<1>1. ASSUME NEW w \in Waiting(ws, "send")
      PROVE  Pulled(batch[w]) /\ Received(batch[w].first - 1)
  BY <1>1 DEF Waiting, DeliveryInv, WorkerDelivery
<1>2. ASSUME NEW w \in Waiting(ws, "ack")
      PROVE  Received(AckId(batch[w]))
  BY <1>2 DEF Waiting, DeliveryInv, WorkerDelivery, AckId
<1>3. \A b \in latePosts' : Pulled(b) /\ Received(b.first - 1)
  BY <1>1 DEF Abandon, DeliveryInv, LateDelivery
<1>4. \A id \in lateAcks' : Received(id)
  BY <1>2 DEF Abandon, DeliveryInv, LateDelivery
<1> QED BY <1>3, <1>4 DEF LateDelivery, Received, Pulled

(* A worker that is where it was, with the batch and exchange it had, keeps
   its part of DeliveryInv while nothing received is lost; and so does one
   that is neither sending nor acknowledging. *)
LEMMA WorkerDeliveryKept ==
  ASSUME NEW w \in Workers, WorkerDelivery(w), delivered \subseteq delivered',
         UNCHANGED published,
         \/ pc'[w] = pc[w] /\ batch'[w] = batch[w] /\ exchange'[w] = exchange[w]
         \/ pc'[w] \notin {"send", "ack"}
  PROVE  WorkerDelivery(w)'
BY DEF WorkerDelivery, Received, Pulled

(* A step that neither delivers, acknowledges nor leaves a request behind
   preserves DeliveryInv if it moves no worker into a Send or an Ack. *)
LEMMA QuietStep ==
  ASSUME DeliveryInv, UNCHANGED <<published, delivered, acked, lateVars>>,
         \A w \in Workers :
           \/ pc'[w] = pc[w] /\ batch'[w] = batch[w] /\ exchange'[w] = exchange[w]
           \/ pc'[w] \notin {"send", "ack"}
  PROVE  DeliveryInv'
<1>1. \A w \in Workers : WorkerDelivery(w)'
  BY WorkerDeliveryKept DEF DeliveryInv
<1>2. LateDelivery'
  BY DEF DeliveryInv, LateDelivery, lateVars, Received, Pulled
<1> QED BY <1>1, <1>2 DEF DeliveryInv, NoLossOnAck, NoGap

(* EndPush and Vanish leave the other workers alone, and their own neither
   sending nor acknowledging. *)
LEMMA EndPushMoves ==
  ASSUME WorkerTypes, NEW w \in Workers, NEW err, EndPush(w, err), NEW v \in Workers
  PROVE  \/ pc'[v] = pc[v] /\ batch'[v] = batch[v] /\ exchange'[v] = exchange[v]
         \/ pc'[v] \notin {"send", "ack"}
BY DEF EndPush, WorkerTypes

(* Instances that end are in no exchange, and the others stay where they are. *)
LEMMA VanishMoves ==
  ASSUME WorkerTypes, NEW ws \in SUBSET Workers, Vanish(ws), NEW v \in Workers
  PROVE  \/ pc'[v] = pc[v] /\ batch'[v] = batch[v] /\ exchange'[v] = exchange[v]
         \/ pc'[v] \notin {"send", "ack"}
BY DEF Vanish, Blank, WorkerTypes

(* DeliveryInv is inductive, given the types. *)
LEMMA DeliveryStep ==
  ASSUME SendsWholeBatch, TypeOK, DeliveryInv, [Next]_vars
  PROVE  DeliveryInv'
<1> USE DEF TypeOK
<1>1. ASSUME NEW w \in Workers, Activate(w)
      PROVE  DeliveryInv'
  BY <1>1, QuietStep DEF Activate, amsVars, WorkerTypes
<1>2. ASSUME NEW w \in Workers, Stop(w)
      PROVE  DeliveryInv'
  BY <1>2, QuietStep DEF Stop, amsVars
<1>3. ASSUME NEW w \in Workers, TimerFires(w)
      PROVE  DeliveryInv'
  BY <1>3, QuietStep DEF TimerFires, amsVars
<1>4. ASSUME NEW w \in Workers, Done(w)
      PROVE  DeliveryInv'
  <2>1. CASE timer[w] = "armed"
    BY <1>4, <2>1, QuietStep, VanishMoves DEF Done, amsVars
  <2>2. CASE timer[w] # "armed"
    BY <1>4, <2>2, QuietStep DEF Done, amsVars, WorkerTypes
  <2> QED BY <2>1, <2>2
<1>5. ASSUME NEW w \in Workers, Tick(w)
      PROVE  DeliveryInv'
  BY <1>5, QuietStep DEF Tick, amsVars, WorkerTypes
<1>6. ASSUME NEW w \in Workers, Drain(w)
      PROVE  DeliveryInv'
  BY <1>6, QuietStep, VanishMoves DEF Drain, amsVars
<1>7. ASSUME NEW w \in Workers, ConsumeMessages(w)
      PROVE  DeliveryInv'
  <2>1. PICK answer \in PullAnswers : batch' = [batch EXCEPT ![w] = answer]
    BY <1>7 DEF ConsumeMessages
  <2>2. UNCHANGED <<published, delivered, acked, lateVars>>
    BY <1>7 DEF ConsumeMessages, amsVars
  <2>3. WorkerDelivery(w)'
    <3>1. batch'[w] = answer
      BY <2>1 DEF WorkerTypes
    <3>2. pc'[w] = "send" /\ exchange'[w] # "ok"
      BY <1>7 DEF ConsumeMessages, NewExchange, WorkerTypes
    <3>3. Pulled(batch'[w])
      BY <3>1, PullAnswersType
    <3>4. 1 .. batch'[w].first - 1 \subseteq delivered'
      BY <2>2, <3>1, PullAnswersType DEF DeliveryInv, NoLossOnAck
    <3> QED BY <2>2, <3>2, <3>3, <3>4 DEF WorkerDelivery, Received, Pulled
  <2>4. ASSUME NEW v \in Workers, v # w
        PROVE  WorkerDelivery(v)'
    <3>1. pc'[v] = pc[v] /\ batch'[v] = batch[v] /\ exchange'[v] = exchange[v]
      BY <1>7, <2>1, <2>4 DEF ConsumeMessages, WorkerTypes
    <3> QED BY <2>2, <3>1, WorkerDeliveryKept DEF DeliveryInv
  <2>5. LateDelivery'
    BY <2>2 DEF DeliveryInv, LateDelivery, lateVars, Received, Pulled
  <2> QED BY <2>2, <2>3, <2>4, <2>5 DEF DeliveryInv, NoLossOnAck, NoGap
<1>8. ASSUME NEW w \in Workers, ConsumeEmpty(w)
      PROVE  DeliveryInv'
  BY <1>8, QuietStep, EndPushMoves DEF ConsumeEmpty, amsVars
<1>9. ASSUME NEW w \in Workers, ConsumeGone(w)
      PROVE  DeliveryInv'
  BY <1>9, QuietStep DEF ConsumeGone, amsVars, WorkerTypes
<1>10. ASSUME NEW w \in Workers, Report(w)
       PROVE  DeliveryInv'
  BY <1>10, QuietStep, EndPushMoves DEF Report, amsVars
<1>11. ASSUME NEW w \in Workers, PushFails(w)
       PROVE  DeliveryInv'
  <2>1. UNCHANGED <<published, delivered, acked>>
    BY <1>11 DEF PushFails, amsVars
  <2>2. LateDelivery'
    BY <1>11, <2>1, AbandonKeepsDelivery DEF PushFails
  <2>3. \A v \in Workers : WorkerDelivery(v)'
    BY <1>11, <2>1, EndPushMoves, WorkerDeliveryKept DEF PushFails, DeliveryInv
  <2> QED BY <2>1, <2>2, <2>3 DEF DeliveryInv, NoLossOnAck, NoGap
<1>12. ASSUME NEW w \in Workers, SendOk(w)
       PROVE  DeliveryInv'
  <2>1. UNCHANGED <<published, delivered, acked, lateVars>>
    BY <1>12 DEF SendOk, amsVars
  <2>2. WorkerDelivery(w)'
    <3>1. Received(batch[w].last) /\ Pulled(batch[w]) /\ Received(batch[w].first - 1)
      BY <1>12 DEF SendOk, DeliveryInv, WorkerDelivery
    <3>2. batch' = batch
      BY <1>12 DEF SendOk
    <3> QED BY <2>1, <3>1, <3>2 DEF WorkerDelivery, Received, Pulled
  <2>3. ASSUME NEW v \in Workers, v # w
        PROVE  WorkerDelivery(v)'
    <3>1. pc'[v] = pc[v] /\ batch'[v] = batch[v] /\ exchange'[v] = exchange[v]
      BY <1>12, <2>3 DEF SendOk, WorkerTypes
    <3> QED BY <2>1, <3>1, WorkerDeliveryKept DEF DeliveryInv
  <2>4. LateDelivery'
    BY <2>1 DEF DeliveryInv, LateDelivery, lateVars, Received, Pulled
  <2> QED BY <2>1, <2>2, <2>3, <2>4 DEF DeliveryInv, NoLossOnAck, NoGap
<1>13. ASSUME NEW w \in Workers, AckOk(w)
       PROVE  DeliveryInv'
  BY <1>13, QuietStep, EndPushMoves DEF AckOk, amsVars
<1>14. ASSUME NEW w \in Workers, EndpointAccepts(w)
       PROVE  DeliveryInv'
  <2>1. batch[w] \in Batches /\ Pulled(batch[w]) /\ Received(batch[w].first - 1)
    BY <1>14 DEF EndpointAccepts, DeliveryInv, WorkerDelivery, WorkerTypes
  <2>2. delivered' = delivered \cup Sent(batch[w]) /\ NoGap
    BY <1>14 DEF EndpointAccepts, DeliveryInv
  <2>3. NoGap' /\ (1 .. batch[w].last \subseteq delivered') /\ published' = published
    BY <1>14, <2>1, <2>2, PostLeavesNoGap DEF EndpointAccepts, amsVars
  <2>4. WorkerDelivery(w)'
    <3>1. batch' = batch
      BY <1>14 DEF EndpointAccepts
    <3> QED BY <2>1, <2>2, <2>3, <3>1 DEF WorkerDelivery, Received, Pulled
  <2>5. ASSUME NEW v \in Workers, v # w
        PROVE  WorkerDelivery(v)'
    <3>1. pc'[v] = pc[v] /\ batch'[v] = batch[v] /\ exchange'[v] = exchange[v]
      BY <1>14, <2>5 DEF EndpointAccepts, WorkerTypes
    <3> QED BY <2>2, <2>3, <3>1, WorkerDeliveryKept DEF DeliveryInv
  <2>6. LateDelivery'
    BY <1>14, <2>2, <2>3
       DEF EndpointAccepts, DeliveryInv, LateDelivery, lateVars, Received, Pulled
  <2>7. NoLossOnAck'
    BY <1>14, <2>2 DEF EndpointAccepts, DeliveryInv, NoLossOnAck, amsVars
  <2>8. delivered' \subseteq 1 .. published'
    BY <2>1, <2>2, <2>3, PostAddsPrefix DEF DeliveryInv
  <2> QED BY <2>3, <2>4, <2>5, <2>6, <2>7, <2>8 DEF DeliveryInv
<1>15. ASSUME NEW w \in Workers, AmsReceivesAck(w)
       PROVE  DeliveryInv'
  <2>1. UNCHANGED <<published, delivered, pc, batch, latePosts, lateAcks>>
    BY <1>15 DEF AmsReceivesAck, lateVars
  <2>2. NoLossOnAck'
    BY <1>15, <2>1 DEF AmsReceivesAck, Acknowledged, AckId, DeliveryInv, NoLossOnAck,
                       WorkerDelivery, Received
  <2>3. ASSUME NEW v \in Workers
        PROVE  WorkerDelivery(v)'
    <3>1. CASE v = w
      BY <1>15, <2>1, <3>1
         DEF AmsReceivesAck, DeliveryInv, WorkerDelivery, Received, Pulled
    <3>2. CASE v # w
      BY <1>15, <2>1, <3>2
         DEF AmsReceivesAck, DeliveryInv, WorkerDelivery, Received, Pulled, WorkerTypes
    <3> QED BY <3>1, <3>2
  <2> QED BY <2>1, <2>2, <2>3
          DEF DeliveryInv, NoGap, LateDelivery, Received, Pulled
<1>16. CASE LatePost
  <2>1. PICK b \in latePosts : /\ delivered' = delivered \cup Sent(b)
                               /\ latePosts' = latePosts \ {b}
    BY <1>16 DEF LatePost
  <2>2. UNCHANGED <<published, acked, pc, batch, exchange, lateAcks>>
    BY <1>16 DEF LatePost, amsVars, workerVars
  <2>3. NoGap'
    BY <2>1, PostLeavesNoGap DEF DeliveryInv, LateDelivery
  <2>4. \A v \in Workers : WorkerDelivery(v)'
    BY <2>1, <2>2, WorkerDeliveryKept DEF DeliveryInv
  <2>5. LateDelivery'
    BY <2>1, <2>2 DEF DeliveryInv, LateDelivery, Received, Pulled
  <2>6. delivered' \subseteq 1 .. published'
    BY <2>1, <2>2, PostAddsPrefix DEF DeliveryInv, LateDelivery
  <2> QED BY <2>1, <2>2, <2>3, <2>4, <2>5, <2>6 DEF DeliveryInv, NoLossOnAck
<1>17. CASE LateAck
  <2>1. PICK id \in lateAcks : acked' = Acknowledged(id) /\ lateAcks' = lateAcks \ {id}
    BY <1>17 DEF LateAck
  <2>2. UNCHANGED <<published, delivered, pc, batch, exchange, latePosts>>
    BY <1>17 DEF LateAck, workerVars
  <2>3. NoLossOnAck'
    BY <2>1, <2>2 DEF Acknowledged, DeliveryInv, NoLossOnAck, LateDelivery, Received
  <2>4. \A v \in Workers : WorkerDelivery(v)'
    BY <2>2, WorkerDeliveryKept DEF DeliveryInv
  <2> QED BY <2>1, <2>2, <2>3, <2>4 DEF DeliveryInv, NoGap, LateDelivery, Received, Pulled
<1>18. CASE Publish
  <2>1. /\ published' = published + 1
        /\ UNCHANGED <<acked, delivered, pc, batch, exchange, latePosts, lateAcks>>
    BY <1>18 DEF Publish, workerVars, lateVars
  <2>2. \A w \in Workers : WorkerDelivery(w)'
    BY <2>1, PulledStays DEF DeliveryInv, WorkerDelivery, Received, WorkerTypes
  <2>3. LateDelivery'
    BY <2>1, PulledStays DEF DeliveryInv, LateDelivery, Received
  <2>4. delivered' \subseteq 1 .. published'
    BY <2>1 DEF DeliveryInv
  <2> QED BY <2>1, <2>2, <2>3, <2>4 DEF DeliveryInv, NoLossOnAck, NoGap
<1>19. CASE DeleteSubscription
  BY <1>19, QuietStep DEF DeleteSubscription, workerVars
<1>20. CASE Crash
  <2>1. UNCHANGED <<published, delivered, acked>>
    BY <1>20 DEF Crash, Die, amsVars
  <2>2. LateDelivery'
    BY <1>20, <2>1, AbandonKeepsDelivery DEF Crash, Die
  <2>3. \A v \in Workers : WorkerDelivery(v)'
    BY <1>20, <2>1, VanishMoves, WorkerDeliveryKept DEF Crash, Die, DeliveryInv
  <2> QED BY <2>1, <2>2, <2>3 DEF DeliveryInv, NoLossOnAck, NoGap
<1>22. ASSUME NEW w \in Workers, EndpointRefuses(w)
       PROVE  DeliveryInv'
  <2>1. UNCHANGED <<published, delivered, acked, lateVars, pc, batch>>
    BY <1>22 DEF EndpointRefuses, amsVars
  <2>2. \A v \in Workers : exchange'[v] = exchange[v] \/ exchange'[v] = "refused"
    BY <1>22 DEF EndpointRefuses, WorkerTypes
  <2>3. \A v \in Workers : WorkerDelivery(v)'
    BY <2>1, <2>2 DEF DeliveryInv, WorkerDelivery, Received, Pulled
  <2>4. LateDelivery'
    BY <2>1 DEF DeliveryInv, LateDelivery, lateVars, Received, Pulled
  <2> QED BY <2>1, <2>3, <2>4 DEF DeliveryInv, NoLossOnAck, NoGap
<1>21. CASE UNCHANGED vars
  BY <1>21, QuietStep DEF vars, amsVars, workerVars
<1> QED
  BY <1>1, <1>2, <1>3, <1>4, <1>5, <1>6, <1>7, <1>8, <1>9, <1>10, <1>11, <1>12,
     <1>13, <1>14, <1>15, <1>16, <1>17, <1>18, <1>19, <1>20, <1>21, <1>22
     DEF Next, WorkerStep, ServerStep

(* The invariant that explains delivery holds for every number of instances,
   messages and failures, if Send posts the whole batch. *)
THEOREM DeliveryInvariant ==
  ASSUME SendsWholeBatch
  PROVE  Spec => []DeliveryInv
<1>1. Init => DeliveryInv
  BY DEF Init, DeliveryInv, NoLossOnAck, NoGap, WorkerDelivery, LateDelivery
<1>2. TypeOK /\ DeliveryInv /\ [Next]_vars => DeliveryInv'
  BY DeliveryStep
<1> QED BY <1>1, <1>2, TypeCorrect, PTL DEF Spec

(* Nothing is acknowledged before it was received, if Send posts the whole
   batch. *)
THEOREM AcknowledgedWasReceived ==
  ASSUME SendsWholeBatch
  PROVE  Spec => []NoLossOnAck
<1>1. DeliveryInv => NoLossOnAck
  BY DEF DeliveryInv
<1> QED BY <1>1, DeliveryInvariant, PTL

(* The destination receives the messages in order, without a gap, if Send
   posts the whole batch. *)
THEOREM ReceivedWithoutGap ==
  ASSUME SendsWholeBatch
  PROVE  Spec => []NoGap
<1>1. DeliveryInv => NoGap
  BY DEF DeliveryInv
<1> QED BY <1>1, DeliveryInvariant, PTL

-----------------------------------------------------------------------------
(* The channel that the workers implement.                                 *)

abstractVars == <<published, delivered, acked, exists>>

(* An acknowledgement of received messages is one of the abstract channel, or
   none at all. *)
LEMMA AcknowledgeMaps ==
  ASSUME TypeOK, exists, NEW id \in Nat, Received(id), acked' = Acknowledged(id),
         UNCHANGED <<published, delivered, exists>>
  PROVE  AtLeastOnce!Acknowledge \/ UNCHANGED abstractVars
<1>1. CASE id > acked
  <2>1. id \in delivered
    BY <1>1 DEF Received, TypeOK
  <2> QED BY <1>1, <2>1 DEF Acknowledged, Received, AtLeastOnce!Acknowledge
<1>2. CASE ~(id > acked)
  BY <1>2 DEF Acknowledged, abstractVars
<1> QED BY <1>1, <1>2

(* Posting a pulled batch is one step of the abstract channel. *)
LEMMA PostMaps ==
  ASSUME SendsWholeBatch, TypeOK, NEW b \in Batches, Pulled(b), Received(b.first - 1),
         delivered' = delivered \cup Sent(b), UNCHANGED <<published, acked, exists>>
  PROVE  AtLeastOnce!Receive
BY PostAddsPrefix DEF AtLeastOnce!Receive

(* Every step of the workers, the servers and the network is a step of the
   abstract channel, or leaves it as it is. *)
LEMMA DeliveryMaps ==
  ASSUME SendsWholeBatch, TypeOK, DeliveryInv, [Next]_vars
  PROVE  AtLeastOnce!Next \/ UNCHANGED abstractVars
<1>1. ASSUME NEW w \in Workers,
             \/ Activate(w) \/ Stop(w) \/ TimerFires(w) \/ Done(w) \/ WorkerStep(w)
             \/ EndpointRefuses(w)
      PROVE  UNCHANGED abstractVars
  BY <1>1 DEF Activate, Stop, TimerFires, Done, WorkerStep, Tick, Drain,
              ConsumeMessages, ConsumeEmpty, ConsumeGone, Report, PushFails, SendOk, AckOk,
              EndpointRefuses, amsVars, abstractVars
<1>2. ASSUME NEW w \in Workers, EndpointAccepts(w)
      PROVE  AtLeastOnce!Receive
  BY <1>2, PostMaps
     DEF EndpointAccepts, DeliveryInv, WorkerDelivery, TypeOK, WorkerTypes, amsVars
<1>3. ASSUME NEW w \in Workers, AmsReceivesAck(w)
      PROVE  AtLeastOnce!Acknowledge \/ UNCHANGED abstractVars
  <2>1. AckId(batch[w]) \in Nat /\ Received(AckId(batch[w]))
    BY <1>3 DEF AmsReceivesAck, AckId, DeliveryInv, WorkerDelivery, TypeOK, WorkerTypes,
                Batches
  <2> QED BY <1>3, <2>1, AcknowledgeMaps DEF AmsReceivesAck
<1>4. CASE LatePost
  BY <1>4, PostMaps
     DEF LatePost, DeliveryInv, LateDelivery, TypeOK, amsVars, AtLeastOnce!Next
<1>5. CASE LateAck
  BY <1>5, AcknowledgeMaps DEF LateAck, DeliveryInv, LateDelivery, TypeOK, AtLeastOnce!Next
<1>6. CASE Publish
  BY <1>6 DEF Publish, AtLeastOnce!Publish, AtLeastOnce!Next
<1>7. CASE DeleteSubscription
  BY <1>7 DEF DeleteSubscription, AtLeastOnce!Delete, AtLeastOnce!Next
<1>8. CASE Crash \/ UNCHANGED vars
  BY <1>8 DEF Crash, Die, vars, amsVars, abstractVars
<1> QED
  BY <1>1, <1>2, <1>3, <1>4, <1>5, <1>6, <1>7, <1>8
     DEF Next, ServerStep, AtLeastOnce!Next

(* Any number of overlapping instances, with any faults, implement the channel
   that delivers in order, at least once, and acknowledges only what it
   delivered, if Send posts the whole batch. *)
THEOREM DeliveryRefinement ==
  ASSUME SendsWholeBatch
  PROVE  Spec => ImplementsDelivery
<1>1. Init => AtLeastOnce!Init
  BY DEF Init, AtLeastOnce!Init
<1>2. TypeOK /\ DeliveryInv /\ [Next]_vars => [AtLeastOnce!Next]_(AtLeastOnce!vars)
  BY DeliveryMaps DEF abstractVars, AtLeastOnce!vars
<1> QED
  BY <1>1, <1>2, TypeCorrect, DeliveryInvariant, PTL
     DEF Spec, ImplementsDelivery, AtLeastOnce!Spec

-----------------------------------------------------------------------------
(* Timers and retry policies.                                              *)

TimerInv(w) ==
  /\ pc[w] = "drain" => timer[w] = "fired" /\ canceled[w]
  /\ pc[w] = "select" => timer[w] \in {"armed", "fired"}
  /\ pc[w] \in {"consume", "report", "send", "ack"} => timer[w] = "stopped"

(* EndPush and Vanish leave every worker's timer as its place requires. *)
LEMMA EndPushTimer ==
  ASSUME WorkerTypes, NEW w \in Workers, NEW err, EndPush(w, err),
         NEW v \in Workers, TimerInv(v)
  PROVE  TimerInv(v)'
BY DEF EndPush, TimerInv, WorkerTypes

(* An instance that ends leaves its timer stopped, and the others as they were. *)
LEMMA VanishTimer ==
  ASSUME WorkerTypes, NEW ws \in SUBSET Workers, Vanish(ws),
         NEW v \in Workers, TimerInv(v)
  PROVE  TimerInv(v)'
BY DEF Vanish, Blank, TimerInv, WorkerTypes

(* Every step of the system leaves every timer as its worker's place in the
   cycle requires. *)
LEMMA TimerStep ==
  ASSUME WorkerTypes, [Next]_vars, NEW v \in Workers, TimerInv(v)
  PROVE  TimerInv(v)'
<1>1. ASSUME NEW w \in Workers,
             Activate(w) \/ Stop(w) \/ TimerFires(w) \/ Tick(w)
      PROVE  TimerInv(v)'
  BY <1>1 DEF Activate, Stop, TimerFires, Tick, TimerInv, WorkerTypes
<1>2. ASSUME NEW w \in Workers, Done(w)
      PROVE  TimerInv(v)'
  <2>1. CASE timer[w] = "armed"
    BY <1>2, <2>1, VanishTimer DEF Done
  <2>2. CASE timer[w] # "armed"
    BY <1>2, <2>2 DEF Done, TimerInv, WorkerTypes
  <2> QED BY <2>1, <2>2
<1>3. ASSUME NEW w \in Workers, Drain(w)
      PROVE  TimerInv(v)'
  BY <1>3, VanishTimer DEF Drain
<1>4. ASSUME NEW w \in Workers,
             ConsumeMessages(w) \/ ConsumeGone(w) \/ SendOk(w)
      PROVE  TimerInv(v)'
  BY <1>4 DEF ConsumeMessages, ConsumeGone, SendOk, TimerInv, WorkerTypes
<1>5. ASSUME NEW w \in Workers,
             ConsumeEmpty(w) \/ Report(w) \/ PushFails(w) \/ AckOk(w)
      PROVE  TimerInv(v)'
  BY <1>5, EndPushTimer DEF ConsumeEmpty, Report, PushFails, AckOk
<1>6. ASSUME NEW w \in Workers, ServerStep(w)
      PROVE  TimerInv(v)'
  BY <1>6 DEF ServerStep, EndpointAccepts, EndpointRefuses, AmsReceivesAck, TimerInv
<1>7. CASE LatePost \/ LateAck \/ Publish \/ DeleteSubscription \/ UNCHANGED vars
  BY <1>7 DEF LatePost, LateAck, Publish, DeleteSubscription, vars, workerVars, TimerInv
<1>8. CASE Crash
  BY <1>8, VanishTimer DEF Crash, Die
<1> QED BY <1>1, <1>2, <1>3, <1>4, <1>5, <1>6, <1>7, <1>8 DEF Next, WorkerStep

(* The timer follows the push cycle in every reachable state. *)
THEOREM TimerInvariant == Spec => [](DrainNeverBlocks /\ TimerFollowsCycle)
<1> DEFINE Inv == \A w \in Workers : TimerInv(w)
<1>1. Init => Inv
  BY DEF Init, TimerInv
<1>2. TypeOK /\ Inv /\ [Next]_vars => Inv'
  BY TimerStep DEF TypeOK
<1>3. Inv => DrainNeverBlocks /\ TimerFollowsCycle
  BY DEF TimerInv, DrainNeverBlocks, TimerFollowsCycle
<1> HIDE DEF Inv
<1> QED BY <1>1, <1>2, <1>3, TypeCorrect, PTL DEF Spec

(* A worker that leaves its loop on a late Stop finds the tick it drains. *)
THEOREM DrainIsSafe == Spec => []DrainNeverBlocks
BY TimerInvariant, PTL

InBounds(p) ==
  p.type = "slowstart" =>
    p.interval \in SlowStartLowerTimeBound .. SlowStartUpperTimeBound

(* A slow start policy stays within its bounds in every reachable state. *)
THEOREM IntervalBounded == Spec => []IntervalInBounds
<1>1. InBounds(NewRetryPolicy(RetryPolicyType))
  BY IntervalAssumption, WorkerAssumption
     DEF NewRetryPolicy, InBounds, RetryPolicyTypes
<1>2. Init => IntervalInBounds
  BY <1>1 DEF Init, IntervalInBounds, InBounds
<1>3. ASSUME WorkerTypes, IntervalInBounds, NEW w \in Workers,
             NEW err \in {"none", "failed"}, EndPush(w, err)
      PROVE  IntervalInBounds'
  <2>1. policy[w] \in Policies
    BY <1>3 DEF WorkerTypes
  <2>2. InBounds(Reset(policy[w], err # "none"))
    BY <1>3, <2>1, ResetType, ResetInBounds DEF InBounds, IntervalInBounds
  <2>3. ASSUME NEW v \in Workers
        PROVE  InBounds(policy'[v])
    <3>1. CASE v = w
      BY <1>3, <2>2, <3>1 DEF EndPush, WorkerTypes
    <3>2. CASE v # w
      BY <1>3, <3>2 DEF EndPush, WorkerTypes, IntervalInBounds, InBounds
    <3> QED BY <3>1, <3>2
  <2> QED BY <2>3 DEF IntervalInBounds, InBounds
<1>4. ASSUME WorkerTypes, IntervalInBounds, NEW ws \in SUBSET Workers, Vanish(ws)
      PROVE  IntervalInBounds'
  <2>1. ASSUME NEW v \in Workers
        PROVE  InBounds(policy'[v])
    BY <1>1, <1>4 DEF Vanish, Blank, IntervalInBounds, InBounds
  <2> QED BY <2>1 DEF IntervalInBounds, InBounds
<1>5. TypeOK /\ IntervalInBounds /\ [Next]_vars => IntervalInBounds'
  <2> SUFFICES ASSUME TypeOK, IntervalInBounds, [Next]_vars
               PROVE  IntervalInBounds'
    OBVIOUS
  <2>1. WorkerTypes
    BY DEF TypeOK
  <2>2. CASE UNCHANGED policy
    BY <2>2 DEF IntervalInBounds
  <2>3. ASSUME NEW w \in Workers, Done(w) \/ Drain(w)
        PROVE  IntervalInBounds'
    <3>1. Vanish({w}) \/ UNCHANGED policy
      BY <2>3 DEF Done, Drain
    <3> QED BY <2>1, <2>2, <3>1, <1>4
  <2>4. ASSUME NEW w \in Workers,
               ConsumeEmpty(w) \/ Report(w) \/ PushFails(w) \/ AckOk(w)
        PROVE  IntervalInBounds'
    <3>1. PICK err \in {"none", "failed"} : EndPush(w, err)
      BY <2>1, <2>4 DEF ConsumeEmpty, Report, PushFails, AckOk, WorkerTypes
    <3> QED BY <2>1, <3>1, <1>3
  <2>5. CASE Crash
    BY <2>1, <2>5, <1>4 DEF Crash, Die
  <2>6. ASSUME NEW w \in Workers,
               \/ Activate(w) \/ Stop(w) \/ TimerFires(w) \/ Tick(w)
               \/ ConsumeMessages(w) \/ ConsumeGone(w) \/ SendOk(w) \/ ServerStep(w)
        PROVE  UNCHANGED policy
    BY <2>6 DEF Activate, Stop, TimerFires, Tick, ConsumeMessages, ConsumeGone,
                SendOk, ServerStep, EndpointAccepts, EndpointRefuses, AmsReceivesAck
  <2>7. ASSUME LatePost \/ LateAck \/ Publish \/ DeleteSubscription \/ UNCHANGED vars
        PROVE  UNCHANGED policy
    BY <2>7 DEF LatePost, LateAck, Publish, DeleteSubscription, vars, workerVars
  <2> QED BY <2>2, <2>3, <2>4, <2>5, <2>6, <2>7 DEF Next, WorkerStep
<1> QED BY <1>2, <1>5, TypeCorrect, PTL DEF Spec

-----------------------------------------------------------------------------
(* The life of an instance.                                                *)

places == [w \in Workers |-> Place(w)]

(* The instances that vanish are off, and the others where they were. *)
LEMMA VanishPlaces ==
  ASSUME WorkerTypes, NEW ws \in SUBSET Workers, Vanish(ws)
  PROVE  /\ places' = [w \in Workers |-> IF w \in ws THEN "off" ELSE Place(w)]
         /\ canceled' = [w \in Workers |-> IF w \in ws THEN FALSE ELSE canceled[w]]
BY DEF Vanish, Blank, Place, places, WorkerTypes

(* A step that keeps every instance in its place is not seen from outside. *)
LEMMA SamePlaces ==
  ASSUME \A w \in Workers : Place(w)' = Place(w)
  PROVE  places' = places
BY DEF places

(* Every step of an instance is a step of its life, or not seen from outside. *)
LEMMA LifecycleMaps ==
  ASSUME TypeOK, \A w \in Workers : TimerInv(w), [Next]_vars
  PROVE  Lifecycle!Next \/ UNCHANGED <<places, canceled>>
<1> USE DEF TypeOK
<1>1. ASSUME NEW w \in Workers, Activate(w)
      PROVE  Lifecycle!Start(w)
  <2>1. places' = [places EXCEPT ![w] = "loop"] /\ places[w] = "off"
    BY <1>1 DEF Activate, Place, places, WorkerTypes
  <2> QED BY <1>1, <2>1 DEF Activate, Lifecycle!Start, places
<1>2. ASSUME NEW w \in Workers, Stop(w)
      PROVE  Lifecycle!Stop(w)
  <2>1. places' = places /\ places[w] # "off"
    BY <1>2 DEF Stop, Running, Place, places, WorkerTypes
  <2> QED BY <1>2, <2>1 DEF Stop, Lifecycle!Stop, places
<1>3. ASSUME NEW w \in Workers, ConsumeGone(w)
      PROVE  Lifecycle!Block(w)
  <2>1. places' = [places EXCEPT ![w] = "report"] /\ places[w] = "loop"
    BY <1>3 DEF ConsumeGone, Place, places, WorkerTypes
  <2> QED BY <1>3, <2>1 DEF ConsumeGone, Lifecycle!Block, places
<1>4. ASSUME NEW w \in Workers, Report(w)
      PROVE  Lifecycle!Unblock(w)
  <2>1. places' = [places EXCEPT ![w] = "loop"] /\ places[w] = "report"
    BY <1>4 DEF Report, EndPush, Place, places, WorkerTypes
  <2> QED BY <1>4, <2>1 DEF Report, EndPush, Lifecycle!Unblock, places
<1>5. ASSUME NEW w \in Workers, Vanish({w}), canceled[w], Place(w) = "loop"
      PROVE  Lifecycle!End(w)
  <2>1. /\ places' = [v \in Workers |-> IF v \in {w} THEN "off" ELSE Place(v)]
        /\ canceled' = [v \in Workers |-> IF v \in {w} THEN FALSE ELSE canceled[v]]
    BY <1>5, VanishPlaces
  <2>2. /\ places' = [places EXCEPT ![w] = "off"] /\ places[w] = "loop"
        /\ canceled' = [canceled EXCEPT ![w] = FALSE]
    BY <1>5, <2>1 DEF places, WorkerTypes
  <2> QED BY <1>5, <2>2 DEF Lifecycle!End, places
<1>6. ASSUME NEW w \in Workers, Done(w)
      PROVE  Lifecycle!End(w) \/ UNCHANGED <<places, canceled>>
  <2>1. CASE timer[w] = "armed"
    BY <1>5, <1>6, <2>1 DEF Done, Place
  <2>2. CASE timer[w] # "armed"
    BY <1>6, <2>2, SamePlaces DEF Done, Place, WorkerTypes
  <2> QED BY <2>1, <2>2
<1>7. ASSUME NEW w \in Workers, Drain(w)
      PROVE  Lifecycle!End(w)
  BY <1>5, <1>7 DEF Drain, Place, TimerInv
<1>8. ASSUME NEW w \in Workers,
             \/ Tick(w) \/ ConsumeMessages(w) \/ ConsumeEmpty(w) \/ PushFails(w)
             \/ SendOk(w) \/ AckOk(w)
      PROVE  UNCHANGED <<places, canceled>>
  BY <1>8, SamePlaces DEF Tick, ConsumeMessages, ConsumeEmpty, PushFails, SendOk, AckOk,
              EndPush, Place, WorkerTypes
<1>9. ASSUME NEW w \in Workers, TimerFires(w) \/ ServerStep(w)
      PROVE  UNCHANGED <<places, canceled>>
  BY <1>9, SamePlaces DEF TimerFires, ServerStep, EndpointAccepts, EndpointRefuses,
              AmsReceivesAck, Place
<1>10. CASE LatePost \/ LateAck \/ Publish \/ DeleteSubscription \/ UNCHANGED vars
  BY <1>10, SamePlaces DEF LatePost, LateAck, Publish, DeleteSubscription, vars, workerVars,
               Place
<1>11. CASE Crash
  BY <1>11, VanishPlaces DEF Crash, Die, Lifecycle!Die, Lifecycle!Next, places
<1> QED
  BY <1>1, <1>2, <1>3, <1>4, <1>6, <1>7, <1>8, <1>9, <1>10, <1>11
     DEF Next, WorkerStep, Lifecycle!Next

(* An instance, however it fails, lives the life of module WorkerLifecycle. *)
THEOREM LifecycleRefinement == Spec => ImplementsLifecycle
<1> DEFINE Inv == \A w \in Workers : TimerInv(w)
<1>1. Init => Lifecycle!Init
  BY DEF Init, Lifecycle!Init, Place
<1>2. TypeOK /\ Inv /\ [Next]_vars => [Lifecycle!Next]_(Lifecycle!vars)
  BY LifecycleMaps DEF Lifecycle!vars, places
<1>3. Init => Inv
  BY DEF Init, TimerInv
<1>4. TypeOK /\ Inv /\ [Next]_vars => Inv'
  BY TimerStep DEF TypeOK
<1> HIDE DEF Inv
<1> QED
  BY <1>1, <1>2, <1>3, <1>4, TypeCorrect, PTL
     DEF Spec, ImplementsLifecycle, Lifecycle!Spec

-----------------------------------------------------------------------------
(* Instances between their cycles.                                         *)

(* An instance that is not in a push cycle has no exchange, and one that is not
   running has not been stopped. *)
IdleInv(w) ==
  /\ pc[w] \notin {"consume", "send", "ack"} => exchange[w] = "none"
  /\ pc[w] = "off" => ~canceled[w]

(* Every step leaves every instance like that. *)
LEMMA IdleStep ==
  ASSUME WorkerTypes, [Next]_vars, NEW v \in Workers, IdleInv(v)
  PROVE  IdleInv(v)'
<1>1. ASSUME NEW w \in Workers, Vanish({w})
      PROVE  IdleInv(v)'
  BY <1>1 DEF Vanish, Blank, IdleInv
<1>2. ASSUME NEW w \in Workers, Done(w) \/ Drain(w)
      PROVE  IdleInv(v)'
  BY <1>1, <1>2 DEF Done, Drain, IdleInv, WorkerTypes
<1>3. ASSUME NEW w \in Workers,
             \/ Activate(w) \/ Stop(w) \/ TimerFires(w) \/ Tick(w)
             \/ ConsumeMessages(w) \/ ConsumeGone(w) \/ SendOk(w)
      PROVE  IdleInv(v)'
  BY <1>3 DEF Activate, Stop, Running, TimerFires, Tick, ConsumeMessages, ConsumeGone,
              SendOk, IdleInv, WorkerTypes
<1>4. ASSUME NEW w \in Workers,
             ConsumeEmpty(w) \/ Report(w) \/ PushFails(w) \/ AckOk(w)
      PROVE  IdleInv(v)'
  BY <1>4 DEF ConsumeEmpty, Report, PushFails, AckOk, EndPush, IdleInv, WorkerTypes
<1>5. ASSUME NEW w \in Workers, ServerStep(w)
      PROVE  IdleInv(v)'
  BY <1>5 DEF ServerStep, EndpointAccepts, EndpointRefuses, AmsReceivesAck, IdleInv,
              WorkerTypes
<1>6. CASE LatePost \/ LateAck \/ Publish \/ DeleteSubscription \/ UNCHANGED vars
  BY <1>6 DEF LatePost, LateAck, Publish, DeleteSubscription, vars, workerVars, IdleInv
<1>7. CASE Crash
  BY <1>7 DEF Crash, Die, Vanish, Blank, IdleInv
<1> QED BY <1>2, <1>3, <1>4, <1>5, <1>6, <1>7 DEF Next, WorkerStep

(* It holds in every reachable state. *)
LEMMA IdleInvariant == Spec => []\A w \in Workers : IdleInv(w)
<1> DEFINE Inv == \A w \in Workers : IdleInv(w)
<1>1. Init => Inv
  BY DEF Init, IdleInv
<1>2. TypeOK /\ Inv /\ [Next]_vars => Inv'
  BY IdleStep DEF TypeOK
<1> HIDE DEF Inv
<1>3. Spec => []Inv
  BY <1>1, <1>2, TypeCorrect, PTL DEF Spec
<1> QED BY <1>3 DEF Inv

-----------------------------------------------------------------------------
(* Stopping.                                                               *)

StartsNoRequest(w) ==
  canceled[w] /\ exchange'[w] = "pending" => exchange[w] = "pending" /\ pc'[w] = pc[w]

(* Between two cycles there is no exchange to go on with, and within one the next
   call finds the context canceled. *)
LEMMA StoppedStep ==
  ASSUME WorkerTypes, [Next]_vars, NEW v \in Workers, IdleInv(v)
  PROVE  StartsNoRequest(v)
<1>1. ASSUME NEW w \in Workers, Vanish({w})
      PROVE  StartsNoRequest(v)
  BY <1>1 DEF Vanish, Blank, StartsNoRequest
<1>2. ASSUME NEW w \in Workers, Activate(w) \/ Done(w) \/ Drain(w)
      PROVE  StartsNoRequest(v)
  BY <1>1, <1>2 DEF Activate, Done, Drain, IdleInv, StartsNoRequest,
                       WorkerTypes
<1>3. ASSUME NEW w \in Workers, Tick(w) \/ ConsumeMessages(w) \/ SendOk(w)
      PROVE  StartsNoRequest(v)
  <2>1. /\ exchange' = [exchange EXCEPT ![w] = NewExchange(w)]
        /\ v # w => pc'[v] = pc[v]
    BY <1>3 DEF Tick, ConsumeMessages, SendOk, WorkerTypes
  <2> QED BY <2>1 DEF NewExchange, StartsNoRequest, WorkerTypes
<1>4. ASSUME NEW w \in Workers,
             \/ ConsumeEmpty(w) \/ Report(w) \/ PushFails(w) \/ AckOk(w)
             \/ ConsumeGone(w) \/ ServerStep(w)
      PROVE  StartsNoRequest(v)
  <2>1. /\ \E value \in {"none", "ok", "refused"} :
             exchange' = [exchange EXCEPT ![w] = value]
        /\ v # w => pc'[v] = pc[v]
    BY <1>4 DEF ConsumeEmpty, Report, PushFails, AckOk, ConsumeGone, ServerStep,
                EndpointAccepts, EndpointRefuses, AmsReceivesAck, EndPush, WorkerTypes
  <2> QED BY <2>1 DEF StartsNoRequest, WorkerTypes
<1>5. ASSUME NEW w \in Workers, Stop(w) \/ TimerFires(w)
      PROVE  StartsNoRequest(v)
  BY <1>5 DEF Stop, TimerFires, StartsNoRequest
<1>6. CASE LatePost \/ LateAck \/ Publish \/ DeleteSubscription \/ UNCHANGED vars
  BY <1>6 DEF LatePost, LateAck, Publish, DeleteSubscription, vars, workerVars,
              StartsNoRequest
<1>7. CASE Crash
  BY <1>7 DEF Crash, Die, Vanish, Blank, StartsNoRequest
<1> QED BY <1>2, <1>3, <1>4, <1>5, <1>6, <1>7 DEF Next, WorkerStep

(* A worker that was stopped starts no exchange, in any behaviour: not with the
   next cycle, and not with the next call of the cycle that it is in. *)
THEOREM StoppedIsQuiet == Spec => NoRequestAfterStop
<1> DEFINE Idle == \A w \in Workers : IdleInv(w)
<1>1. WorkerTypes /\ Idle /\ [Next]_vars =>
        [\A w \in Workers :
           canceled[w] /\ exchange'[w] = "pending" =>
             exchange[w] = "pending" /\ pc'[w] = pc[w]]_vars
  <2>1. ASSUME WorkerTypes, Idle, [Next]_vars, NEW w \in Workers
        PROVE  StartsNoRequest(w)
    BY <2>1, StoppedStep
  <2> QED BY <2>1 DEF StartsNoRequest
<1>2. TypeOK => WorkerTypes
  BY DEF TypeOK
<1> HIDE DEF Idle
<1>3. Spec => []Idle
  BY IdleInvariant DEF Idle
<1> QED BY <1>1, <1>2, <1>3, TypeCorrect, PTL DEF Spec, NoRequestAfterStop

-----------------------------------------------------------------------------
(* Duplicates.                                                             *)

(* At most one instance runs. *)
Alone == \A u, v \in Workers : Running(u) /\ Running(v) => u = v

(* Where an instance that runs alone, and meets no fault, is in its cycle says
   how far the destination can have got: not past the offset before the Send,
   not past its batch until the offset has moved over it. *)
Fresh(w) ==
  /\ pc[w] = "send" /\ exchange[w] = "pending" =>
       /\ batch[w].first = acked + 1 /\ batch[w].first <= batch[w].last
       /\ delivered \subseteq 1 .. acked
  /\ \/ pc[w] = "send" /\ exchange[w] = "ok"
     \/ pc[w] = "ack" /\ exchange[w] = "pending"
     => delivered \subseteq 1 .. batch[w].last
  /\ pc[w] = "ack" /\ exchange[w] = "ok" => delivered \subseteq 1 .. acked

AllFresh ==
  /\ exists /\ (\A w \in Workers : pc[w] \notin {"send", "ack"}) =>
       delivered \subseteq 1 .. acked
  /\ \A w \in Workers : Fresh(w)

(* The instance was not stopped, and its requests were not refused. *)
Unharmed(w) == ~canceled[w] /\ exchange[w] # "refused" /\ pc[w] # "drain"

(* No request was left behind, save for acknowledgements that a deleted
   subscription does not take. *)
NothingLate == latePosts = {} /\ (exists => lateAcks = {})

Undisturbed == NothingLate /\ \A w \in Workers : Unharmed(w)

(* Why no message is posted twice.  An instance ends only when it was stopped,
   so one that is alone without a fault was never anything else. *)
OnceInv == disturbances = 0 => Undisturbed /\ (Alone => AllFresh)

(* What Send puts on the wire lies in the batch. *)
LEMMA SentInBatch ==
  ASSUME NEW b \in Batches, b.first <= b.last
  PROVE  Sent(b) \subseteq b.first .. b.last
BY DEF Sent, HttpSent, MattermostSent, Messages, Batches

(* Until the first fault nobody is stopped and nothing is left behind. *)
LEMMA UndisturbedStep ==
  ASSUME TypeOK, OnceInv, [Next]_vars, disturbances' = 0
  PROVE  disturbances = 0 /\ Undisturbed /\ Undisturbed'
<1> USE DEF TypeOK
<1>1. disturbances = 0 /\ Undisturbed
  <2>1. disturbances' \in {disturbances, disturbances + 1}
    BY DEF Next, vars, Activate, Stop, TimerFires, Done, WorkerStep, Tick, Drain,
           ConsumeMessages, ConsumeEmpty, ConsumeGone, Report, PushFails, SendOk, AckOk,
           ServerStep, EndpointAccepts, EndpointRefuses, AmsReceivesAck, LatePost, LateAck,
           Publish, DeleteSubscription, Crash, Disturb, DisturbEnd
  <2>2. disturbances = 0
    BY <2>1
  <2> QED BY <2>2 DEF OnceInv
<1>2. NothingLate /\ \A w \in Workers : Unharmed(w)
  BY <1>1 DEF Undisturbed
<1>3. ASSUME NEW w \in Workers, Stop(w) \/ Done(w) \/ Drain(w) \/ EndpointRefuses(w)
      PROVE  FALSE
  BY <1>1, <1>2, <1>3, WorkerAssumption
     DEF Stop, Done, Drain, EndpointRefuses, Disturb, DisturbEnd, Unharmed
<1>4. ASSUME NEW w \in Workers, PushFails(w)
      PROVE  NothingLate'
  <2>1. pc[w] = "ack" /\ ~exists
    BY <1>1, <1>2, <1>4 DEF PushFails, Disturb, Unharmed
  <2>2. latePosts' = {}
    BY <1>2, <1>4, <2>1 DEF PushFails, Abandon, Waiting, NothingLate
  <2> QED BY <1>4, <2>1, <2>2 DEF PushFails, amsVars, NothingLate
<1>5. ASSUME UNCHANGED <<exists, lateVars>>
      PROVE  NothingLate'
  BY <1>2, <1>5 DEF lateVars, NothingLate
<1>6. ASSUME LatePost \/ LateAck \/ Crash
      PROVE  FALSE
  BY <1>1, <1>2, <1>6, WorkerAssumption DEF LatePost, LateAck, Crash, DisturbEnd, NothingLate
<1>7. ASSUME DeleteSubscription
      PROVE  NothingLate'
  BY <1>2, <1>7 DEF DeleteSubscription, lateVars, NothingLate
<1>8. NothingLate'
  <2>1. ASSUME NEW w \in Workers,
               \/ Activate(w) \/ TimerFires(w) \/ Tick(w) \/ ConsumeMessages(w)
               \/ ConsumeEmpty(w) \/ ConsumeGone(w) \/ Report(w) \/ SendOk(w) \/ AckOk(w)
               \/ EndpointAccepts(w) \/ AmsReceivesAck(w)
        PROVE  NothingLate'
    BY <1>5, <2>1 DEF Activate, TimerFires, Tick, ConsumeMessages, ConsumeEmpty,
                      ConsumeGone, Report, SendOk, AckOk, EndpointAccepts, AmsReceivesAck,
                      amsVars
  <2>2. CASE Publish \/ UNCHANGED vars
    BY <1>5, <2>2 DEF Publish, vars, amsVars
  <2> QED BY <1>3, <1>4, <1>6, <1>7, <2>1, <2>2 DEF Next, WorkerStep, ServerStep
<1>9. ASSUME NEW v \in Workers
      PROVE  Unharmed(v)'
  <2>1. ASSUME NEW w \in Workers, Activate(w) \/ TimerFires(w)
        PROVE  Unharmed(v)'
    BY <1>2, <2>1 DEF Activate, TimerFires, Unharmed, WorkerTypes
  <2>2. ASSUME NEW w \in Workers,
               Tick(w) \/ ConsumeMessages(w) \/ ConsumeGone(w) \/ SendOk(w)
        PROVE  Unharmed(v)'
    BY <1>2, <2>2 DEF Tick, ConsumeMessages, ConsumeGone, SendOk, NewExchange, Unharmed,
                      WorkerTypes
  <2>3. ASSUME NEW w \in Workers,
               ConsumeEmpty(w) \/ Report(w) \/ PushFails(w) \/ AckOk(w)
        PROVE  Unharmed(v)'
    BY <1>2, <2>3 DEF ConsumeEmpty, Report, PushFails, AckOk, EndPush, Unharmed,
                      WorkerTypes
  <2>4. ASSUME NEW w \in Workers, EndpointAccepts(w) \/ AmsReceivesAck(w)
        PROVE  Unharmed(v)'
    BY <1>2, <2>4 DEF EndpointAccepts, AmsReceivesAck, Unharmed, WorkerTypes
  <2>5. CASE Publish \/ DeleteSubscription \/ UNCHANGED vars
    BY <1>2, <2>5 DEF Publish, DeleteSubscription, vars, workerVars, Unharmed
  <2> QED
    BY <1>3, <1>6, <2>1, <2>2, <2>3, <2>4, <2>5 DEF Next, WorkerStep, ServerStep
<1> QED BY <1>1, <1>8, <1>9 DEF Undisturbed

(* A step without a fault leaves an instance that is alone as fresh as its
   place requires. *)
LEMMA FreshStep ==
  ASSUME TypeOK, Undisturbed, Undisturbed', disturbances = 0, disturbances' = 0,
         Alone => AllFresh, Alone', [Next]_vars
  PROVE  AllFresh'
<1> USE DEF TypeOK
<1>1. \A w \in Workers : Unharmed(w)
  BY DEF Undisturbed
<1>2. ASSUME NEW w \in Workers, Stop(w) \/ Done(w) \/ Drain(w) \/ EndpointRefuses(w)
      PROVE  FALSE
  BY <1>1, <1>2, WorkerAssumption
     DEF Stop, Done, Drain, EndpointRefuses, Disturb, DisturbEnd, Unharmed
<1>3. ASSUME LatePost \/ LateAck \/ Crash
      PROVE  FALSE
  BY <1>3, WorkerAssumption
     DEF LatePost, LateAck, Crash, DisturbEnd, Undisturbed, NothingLate
<1>4. Alone
  <2>1. ASSUME NEW v \in Workers, Running(v)
        PROVE  Running(v)'
    <3>1. ASSUME NEW w \in Workers,
                 \/ Activate(w) \/ TimerFires(w) \/ Tick(w) \/ ConsumeMessages(w)
                 \/ ConsumeGone(w) \/ SendOk(w) \/ EndpointAccepts(w) \/ AmsReceivesAck(w)
          PROVE  Running(v)'
      BY <2>1, <3>1 DEF Activate, TimerFires, Tick, ConsumeMessages, ConsumeGone, SendOk,
                        EndpointAccepts, AmsReceivesAck, Running, WorkerTypes
    <3>2. ASSUME NEW w \in Workers,
                 ConsumeEmpty(w) \/ Report(w) \/ PushFails(w) \/ AckOk(w)
          PROVE  Running(v)'
      BY <2>1, <3>2 DEF ConsumeEmpty, Report, PushFails, AckOk, EndPush, Running,
                        WorkerTypes
    <3>3. CASE Publish \/ DeleteSubscription \/ UNCHANGED vars
      BY <2>1, <3>3 DEF Publish, DeleteSubscription, vars, workerVars, Running
    <3> QED BY <1>2, <1>3, <3>1, <3>2, <3>3 DEF Next, WorkerStep, ServerStep
  <2> QED BY <2>1 DEF Alone
<1>5. AllFresh
  BY <1>4
<1>6. ASSUME NEW w \in Workers, NEW v \in Workers, v # w, pc[w] # "off"
      PROVE  pc[v] = "off"
  BY <1>4, <1>6 DEF Alone, Running
<1>7. ASSUME NEW w \in Workers, Activate(w)
      PROVE  AllFresh'
  <2>1. \A v \in Workers : v # w => pc[v] = "off"
    <3>1. pc'[w] = "select" /\ \A v \in Workers : v # w => pc'[v] = pc[v]
      BY <1>7 DEF Activate, WorkerTypes
    <3> QED BY <3>1 DEF Alone, Running
  <2> QED BY <1>5, <1>7, <2>1 DEF Activate, AllFresh, Fresh, amsVars, WorkerTypes
<1>8. ASSUME NEW w \in Workers, TimerFires(w) \/ Tick(w) \/ ConsumeGone(w)
      PROVE  AllFresh'
  <2>1. CASE TimerFires(w)
    BY <1>5, <2>1 DEF TimerFires, AllFresh, Fresh, amsVars
  <2>2. CASE Tick(w)
    BY <1>5, <1>6, <2>2 DEF Tick, AllFresh, Fresh, amsVars, WorkerTypes
  <2>3. CASE ConsumeGone(w)
    BY <1>5, <1>6, <2>3 DEF ConsumeGone, AllFresh, Fresh, amsVars, WorkerTypes
  <2> QED BY <1>8, <2>1, <2>2, <2>3
<1>9. ASSUME NEW w \in Workers, ConsumeMessages(w)
      PROVE  AllFresh'
  <2>1. delivered \subseteq 1 .. acked
    BY <1>5, <1>6, <1>9 DEF ConsumeMessages, AllFresh
  <2>2. PICK answer \in PullAnswers : batch' = [batch EXCEPT ![w] = answer]
    BY <1>9 DEF ConsumeMessages
  <2>3. answer.first = acked + 1 /\ answer.first <= answer.last
    BY PullAnswersType DEF Pulled
  <2>4. exchange' = [exchange EXCEPT ![w] = "pending"]
    BY <1>1, <1>9 DEF ConsumeMessages, NewExchange, Unharmed
  <2> QED
    BY <1>6, <1>9, <2>1, <2>2, <2>3, <2>4
       DEF ConsumeMessages, AllFresh, Fresh, amsVars, WorkerTypes
<1>10. ASSUME NEW w \in Workers, ConsumeEmpty(w) \/ Report(w)
       PROVE  AllFresh'
  <2>1. pc[w] \in {"consume", "report"} /\ pc' = [pc EXCEPT ![w] = "select"]
    BY <1>10 DEF ConsumeEmpty, Report, EndPush
  <2>2. UNCHANGED <<exists, acked, delivered>>
    BY <1>10 DEF ConsumeEmpty, Report, amsVars
  <2>3. exists => delivered \subseteq 1 .. acked
    BY <1>5, <1>6, <2>1 DEF AllFresh
  <2> QED BY <1>6, <2>1, <2>2, <2>3 DEF AllFresh, Fresh, WorkerTypes
<1>11. ASSUME NEW w \in Workers, PushFails(w)
       PROVE  AllFresh'
  <2>1. ~exists
    BY <1>1, <1>11 DEF PushFails, Disturb, Unharmed
  <2> QED
    BY <1>6, <1>11, <2>1 DEF PushFails, EndPush, AllFresh, Fresh, amsVars, WorkerTypes
<1>12. ASSUME NEW w \in Workers, EndpointAccepts(w)
       PROVE  AllFresh'
  <2>1. /\ batch[w].first = acked + 1 /\ batch[w].first <= batch[w].last
        /\ delivered \subseteq 1 .. acked
    BY <1>5, <1>12 DEF EndpointAccepts, AllFresh, Fresh
  <2>2. Sent(batch[w]) \subseteq 1 .. batch[w].last
    BY <2>1, SentInBatch DEF WorkerTypes, Batches
  <2>3. 1 .. acked \subseteq 1 .. batch[w].last
    BY <2>1 DEF WorkerTypes, Batches
  <2>4. delivered' \subseteq 1 .. batch[w].last
    BY <1>12, <2>1, <2>2, <2>3 DEF EndpointAccepts
  <2> QED
    BY <1>6, <1>12, <2>4 DEF EndpointAccepts, AllFresh, Fresh, amsVars, WorkerTypes
<1>13. ASSUME NEW w \in Workers, SendOk(w)
       PROVE  AllFresh'
  BY <1>1, <1>5, <1>6, <1>13
     DEF SendOk, NewExchange, Unharmed, AllFresh, Fresh, amsVars, WorkerTypes
<1>14. ASSUME NEW w \in Workers, AmsReceivesAck(w)
       PROVE  AllFresh'
  <2>1. delivered \subseteq 1 .. batch[w].last
    BY <1>5, <1>14 DEF AmsReceivesAck, AllFresh, Fresh
  <2>2. delivered' \subseteq 1 .. acked'
    BY <1>14, <2>1 DEF AmsReceivesAck, Acknowledged, AckId, WorkerTypes, Batches
  <2> QED
    BY <1>6, <1>14, <2>2 DEF AmsReceivesAck, AllFresh, Fresh, WorkerTypes
<1>15. ASSUME NEW w \in Workers, AckOk(w)
       PROVE  AllFresh'
  <2>1. delivered \subseteq 1 .. acked
    BY <1>5, <1>15 DEF AckOk, AllFresh, Fresh
  <2> QED
    BY <1>6, <1>15, <2>1 DEF AckOk, EndPush, AllFresh, Fresh, amsVars, WorkerTypes
<1>16. ASSUME Publish \/ DeleteSubscription \/ UNCHANGED vars
       PROVE  AllFresh'
  <2>1. UNCHANGED <<acked, delivered, pc, batch, exchange>> /\ (exists' => exists)
    BY <1>16 DEF Publish, DeleteSubscription, vars, amsVars, workerVars
  <2> QED BY <1>5, <2>1 DEF AllFresh, Fresh
<1> QED
  BY <1>2, <1>3, <1>7, <1>8, <1>9, <1>10, <1>11, <1>12, <1>13, <1>14, <1>15, <1>16
     DEF Next, WorkerStep, ServerStep

(* Until the first fault, an instance that runs alone keeps to OnceInv. *)
LEMMA OnceInvariant == Spec => []OnceInv
<1>1. Init => OnceInv
  BY DEF Init, OnceInv, Undisturbed, NothingLate, Unharmed, AllFresh, Fresh
<1>2. TypeOK /\ OnceInv /\ [Next]_vars => OnceInv'
  BY UndisturbedStep, FreshStep DEF OnceInv
<1> QED BY <1>1, <1>2, TypeCorrect, PTL DEF Spec

(* Without faults a single instance posts every message once. *)
THEOREM NoDuplicates == Spec => OnceWithoutFaults
<1>1. ASSUME TypeOK, OnceInv, NEW w \in Workers, EndpointAccepts(w), disturbances = 0,
             {v \in Workers : Running(v)} = {w}
      PROVE  Sent(batch[w]) \cap delivered = {}
  <2>1. Alone
    BY <1>1 DEF Alone
  <2>2. /\ batch[w].first = acked + 1 /\ batch[w].first <= batch[w].last
        /\ delivered \subseteq 1 .. acked
    BY <1>1, <2>1 DEF OnceInv, AllFresh, Fresh, EndpointAccepts
  <2>3. Sent(batch[w]) \subseteq batch[w].first .. batch[w].last
    BY <1>1, <2>2, SentInBatch DEF TypeOK, WorkerTypes
  <2> QED BY <1>1, <2>2, <2>3 DEF TypeOK, WorkerTypes, Batches
<1>2. TypeOK /\ OnceInv /\ [Next]_vars =>
        [\A w \in Workers :
           EndpointAccepts(w) /\ disturbances = 0 /\ {v \in Workers : Running(v)} = {w}
             => Sent(batch[w]) \cap delivered = {}]_vars
  BY <1>1
<1> QED BY <1>2, TypeCorrect, OnceInvariant, PTL DEF Spec, OnceWithoutFaults
==============================================================================
