# A TLA+ model of ams-push-server

The ARGO AMS push server pulls messages from subscriptions of the ARGO Messaging
Service (AMS), posts them to an HTTP endpoint or a Mattermost webhook, and
acknowledges them. A gRPC API activates and deactivates subscriptions. This
directory models its core in TLA+, checks it with TLC, and proves some of what
TLC checks with TLAPS for every value of the constants.

File and line references below are to the repository's root (`src/` in
PROJECT.json).

## 1. Inventory

| Component | State | Operations | Talks to |
|---|---|---|---|
| push worker, `push/worker.go` | context, `pushErr`, retry policy, position in the cycle | `New`, `Start`, `push`, `Stop`, `Status` | consumer, sender, deactivation channel |
| retry policies, `retrypolicies/` | timer; slow start: last interval, whether the last cycle failed | `New`, `Reset`, `Timer` | the worker's loop |
| senders, `senders/` | none | `New`, `Send`, `DetermineMessageFormat` | the destination |
| AMS consumer, `consumers/` | none | `Consume`, `Ack`, `ToCancelableError` | AMS client |
| AMS client, `pkg/ams/v1/` | none | `Pull`, `Ack`, `GetUserByToken`, `GetSubscription` | AMS |
| registry and handlers, `api/v1/grpc/server.go` | `PushWorkers`, a map without a lock | `ActivateSubscription`, `DeactivateSubscription`, `SubscriptionStatus` | workers |
| deactivation channel, `server.go:77` | an unbuffered channel | receive, then `deactivateSubscription` | workers, registry |
| loader, `server.go:246` | `status`, position in the list | retry for the user, fetch, activate | AMS, registry |
| `Status`, `StatusInterceptor` | reads `status` | refuse calls | handlers |
| `AuthInterceptor`, `api/v1/grpc/interceptors.go` | none, the ACL is fixed at start | admit or refuse a call | the next interceptor |
| configuration and TLS, `config/config.go` | what was read at start | `LoadFromJson`, `loadTLSConfig`, `loadCAs` | files, `main` |
| `main.go` | the listener | load, listen, serve, end | all of the above |

What is hard here: any number of gRPC handlers, the loader and the goroutine of
the deactivation channel use one map without a lock; a worker that was stopped
is still in its push cycle when the next one for the same subscription starts; a
worker blocks on a channel whose reader may be stopping that worker; HTTP
requests outlive the client that gave up on them; the process can die between
any two steps; a timer is reused across cycles; files are edited while a process
that has read them goes on; one unusable certificate changes what the others
mean; two interceptors and a handler look at a status that the loader writes.
PROJECT.json lists the hazards
one by one, each at its line, with the properties that watch it.

What makes each part correct: the worker loses no message and stops when told;
the retry policy keeps its interval in bounds; the registry knows every worker
that runs and none that was stopped; every report is taken; the loader brings up
what AMS lists; the process admits callers by the files it started with, and
serves once they are usable; and after a crash the whole continues where AMS
says it was.

## 2. Modules

| Module | Models |
|---|---|
| `Delivery` | abstract: the channel from AMS to the destination, in order and at least once |
| `WorkerLifecycle` | abstract: the life of a worker as registry and worker see it from either side |
| `Registry` | abstract: activation and deactivation as atomic operations |
| `RetryPolicy` | the intervals of `retrypolicies`, pure operators |
| `PushWorker` | one subscription: its worker instances, AMS, the destination and the network between them |
| `PushService` | the registry: handlers, deactivation channel and loader, statement by statement |
| `PushSystem` | `PushService` and `PushWorker` composed around one subscription, with crash and restart |
| `Server` | the process: files, `main`, package `config`, connections, interceptors |
| `MCPushWorker`, `MCPushService`, `MCPushSystem`, `MCServer` | the instances for TLC, with symmetry sets where they are sound |
| `PushWorker_proofs`, `PushService_proofs`, `Registry_proofs`, `PushSystem_proofs`, `Server_proofs` | theorems and proofs |

```
   Delivery <---- PushWorker ----> WorkerLifecycle <---- PushService ----> Registry
                      |             (implements)              |     (if no operations
                      +-------------> PushSystem <------------+          conflict)
   Server: what happens before PushService exists and before its handlers run
```

### PushWorker

`pc[w]` is where the goroutine of instance `w` is: in the `select` of `Start`,
draining the timer, in one of the calls `Consume`, `Send`, `Ack` of `push()`, or
blocked on the deactivation channel (`"report"`). `timer`, `canceled`, `pushErr`
and `policy` are the fields of the Go structs; of `pushErr` only whether it is
empty is kept, which is all that the retry policy asks. Messages are the numbers
1, 2, ... in AMS's order; `acked` is the subscription's offset.

An HTTP exchange is a request (`exchange = "pending"`), its processing by the
server (`EndpointAccepts`, `AmsReceivesAck`, then `"ok"`), and its answer
(`SendOk`, `AckOk`). `EndpointRefuses` is the destination that answers with
another status than the ones the sender takes for success. `PushFails` stands for
every way a call returns an ordinary error: an error answer, a lost answer, the
30 s timeout of the client, a canceled context. A request that the server had not
processed by then stays in `latePosts` or `lateAcks`, and may be processed at any
later time. A Pull changes nothing in AMS, so its exchange is one step.

`EndPush` is the way out of `push()` together with the `Reset` that `Start` calls
right after it. An empty Pull and a cancelable error pass the old `pushErr` to
it, as the code does.

A subscription that is deleted stays deleted; `Stop` and activation of instances
come at any time, more often than the registry would allow, so what is shown
here holds for every behaviour of the registry, the double activation of section
4 included. Failed calls, stops and crashes are counted in `disturbances`, which
`MaxDisturbances` bounds; `BoundEnds` says whether the bound may also hold back a
stop or a crash. It is FALSE in `PushSystem`, where the registry decides when to
stop and the process may die at any time.

Two refinements say what all this amounts to. `ImplementsDelivery` maps what the
destination has (`delivered`, without counting repetitions) and the offset to
`Delivery`. `ImplementsLifecycle` maps `pc` to the three places of
`WorkerLifecycle` (off, in the loop, blocked on the channel).

### PushService

Every goroutine that works on the registry has a `frame`: the statement it is at
and its locals. Each statement that touches the map is an action:
`ActivateCheck`, `ActivateStore`, `DeactivateCheck`, `DeactivateRead`,
`DeactivateStop`, `DeactivateDelete`, `StatusCheck`, `StatusRead`. The loader and
the goroutine of the channel call the same operations as the gRPC handlers, as
they do in the code. A worker is reduced to running, blocked on the channel, or
ended.

A configuration is one of four classes: `ok`, one that the URL check refuses,
one whose retry policy is unknown, and one whose push type has no sender.
`senders.New` reports the last, `ActivateSubscription` drops that error, and the
worker gets a nil sender.

The process dies (`fatal`) of a nil dereference, since no recovery interceptor is
installed, of the Go runtime noticing concurrent map use, or of anything else
(`Crash`), and may be started again. `MapRace` is a possibility and not a
necessity: the runtime's check does not see every race. When it sees none, the
accesses are taken to happen in some order.

`ConflictFreeSpec` adds the assumption that no two operations conflict
(`ConflictFreeNext == Next /\ ConflictFree'`). Two activations of one subscription
conflict, since both may store an entry; so do a deactivation and either another
deactivation or a status request, since the one may delete the entry that the
other goes on to use. An activation may overlap with a deactivation or with
status requests, status requests with one another, and operations on different
subscriptions in any way. The code does nothing to ensure this, and the
repository's tests, which call the handlers one after the other, live in it. It
separates what goes wrong because of conflicts from what goes wrong without; the
violations of section 4 show that it may not allow either kind. Under it the
registry implements the atomic one of `Registry`: a subscription is served by the
workers in the loop that were not stopped, an activation takes effect where the
map is written, a deactivation where `Stop` is called. `NoZombieEntry`,
`NoDeadEntry` and `ImplementsLifecycle` need no such assumption.

### PushSystem

The registry of `PushService` and the instances of `PushWorker` run side by
side. They share the events of `WorkerLifecycle`: `Starts` is `ActivateStore` of
the one and `Activate` of the other, `Stops` is `DeactivateStop` and `Stop`,
`MeetsGone`, `Reports`, `Ends` and `Dies` likewise. Every other step belongs to
one side and leaves the variables of the other alone. `PushWorker` has the
subscription exist while AMS, as `PushService` models it, holds it.

Handlers, loader and the goroutine of the channel overlap and conflict here as
they do in `PushService`. `Stops` therefore allows for an instance that was
stopped before, or that has ended, where `Stop` changes nothing; and `Panics` is
the operation that finds a nil worker and takes the process down with every
instance. `ConflictFreeSystem` is the server as long as no operations conflict;
the properties that need it say so.

A subscription that was deleted is not created again, since the new one would
have other messages; an activation waits at its store for an instance that
nobody refers to, the bound that `Workers` is. Push types without a sender are
left to `PushService`: the instances of `PushWorker` have one.

### Server

`disk` are the files and `cfg` what the running process read of them. `pc`
follows `main` through reading, checking, the key pair, the walk over
`certificate_authorities_dir` and `net.Listen`; every way it may fail ends the
process by `log.Fatal`. Files are edited while the process is down or serves,
and count from the next start. `loadCAs` takes the entries in the order of their
names; an error (no certificate, or a file it cannot open, as one in a
subdirectory, whose name it joins to the directory itself) ends the walk and not
the start. A directory that does not exist is one whose first entry is broken.

`conn[c]` is a connection and the call it carries, between `AuthInterceptor`,
`StatusInterceptor` and the handler. `Handshake` is what `crypto/tls` does with
`RequireAnyClientCert` and `RequireAndVerifyClientCert`, the two that
`config.go` chooses from. The loader appears as far as the status goes.

## 3. Runs that pass

Every property has, in PROJECT.json, a changed form of one definition, the kind
of slip a later edit could make, under which TLC finds the property violated.

| Run | Bounds | Shows |
|---|---|---|
| `worker_delivery` | 2 instances, batches of up to 2, 3 messages, 2 faults | no loss on acknowledgement, no gap, no duplicate without faults, no request after Stop, the timer protocol; `Delivery` and `WorkerLifecycle` are implemented |
| `worker_liveness` | 1 instance, batches of up to 2, 2 messages, 2 faults, slow start with the code's constants in ms | interval within 300 ms and 24 h; a stopped worker ends; published messages get through |
| `registry_conflict_free` | 2 subscriptions, 2 instances, 1 call, configurations that are refused or without a sender; good ones come from AMS | if no operations conflict: no orphan, no nil worker, `Registry` and `WorkerLifecycle` are implemented |
| `registry_overlap` | 1 subscription, 2 instances, 1 call, without a sender | neither a stopped worker nor one that has ended is left registered; every report is taken, deleted subscriptions are released |
| `system_conflict_free` | 2 instances, 1 call, 1 message, 1 failed call | if no operations conflict: both sides agree on every instance, and only the registered one starts requests |
| `system_recovery` | 1 instance, 1 call, 1 message, 1 failed call | both sides agree, however operations conflict; stopped workers end; the service becomes available; with `FetchMayFail` FALSE it delivers across crashes; if no operations conflict, a deleted subscription goes quiet |
| `server_access` | 1 connection at a time, 1 name, 1 authority and an unknown one, directories of up to 2 entries, every flaw, 1 edit, 1 crash | who passes, across edits and restarts; the status holds while a handler runs; usable files are served |

Bounds and why they are enough. Three messages in batches of two give a full
batch, a partial one, and a batch that overlaps an earlier one. Two instances are
the least that overlap; two faults allow a stop and a lost answer, or a lost
answer and a crash, in one behaviour (a fault is a failed call, a stop or a crash,
counted by `disturbances`). The delivery and interval properties are also proved
without these bounds. In `worker_liveness` the two faults come after up to any
number of clean cycles, so the lower bound is reached; empty cycles that repeat an
old error drive the interval to the upper one. In the registry, a call, the
goroutine of the channel and the loader make three operations at a time, which
meet in every pair of statements: the call and the loader activate, the call and
the goroutine deactivate, and the call may ask for the status meanwhile. The set
`Workers` of `PushService` bounds how many instances exist at once: an activation
waits for an instance that nobody refers to, which only delays it. The two
subscriptions of `registry_conflict_free` have the call, the loader and the
goroutine of the channel work on both at once. The configurations that the URL
check and the retry policy refuse take the same way out, so that run has one of
them.

The runs of `PushSystem` have the linear policy, whose interval is one value, and
the same three operations at a time. Stops and crashes are counted and not
bounded, so any number of them may follow, and calls may fail until
`MaxDisturbances` is reached. `OnlyRegisteredPush` needs an instance that is
stopped in the middle of a cycle, between Pull and Send for one, with another one
registered: two instances and one message. `system_recovery` asks whether one
instance follows another across a crash: one message, which the crash may meet at
any stage of its delivery. With one instance the second of two activations waits
for it, so no orphan arises there; the condition of `DeletedGoesQuiet` is what the
property needs as soon as there are two. Order needs two messages and more than
one instance, and is the subject of `worker_delivery`; that the server inherits it
(`ServerDelivers`) is proved and not checked, as are `Coupled` and
`OnlyRegisteredPush` beyond these bounds.

In `server_access` a directory of two entries puts an authority before or after an
unusable file; one edit in any state covers every pair of configurations that
differ in one respect, and one crash lets a process with the second follow one
with the first. Calls do not see one another, so one at a time is enough; safety
is proved for any number.

Fairness. Goroutines are scheduled, timers fire, and servers answer or the
client's timeout ends the wait: weak fairness. A `select` with two ready cases
takes one at random, so it does not pass over `Done` for ever: strong fairness of
`Done`. Senders blocked on a Go channel are queued in order, so none is passed
over for ever: strong fairness of `DeactivatorReceives`. No fairness is asked of
gRPC calls, activations, publishers, failures or, in `PushWorker` and
`PushService`, restarts; nor, in `PushService`, of the loader and of the ends of
workers, which its liveness properties do not need. A worker's weak fairness
covers all its steps together, failures included; it is the bound on faults that
makes them finitely many, so `EventuallyPushed` says what happens after the last
failure.

`PushSystem` keeps these conditions: weak fairness of each operation, none of
which waits for another, and strong fairness of the receive from the channel
(`SF(Reports)`) for the queue of above. It adds four. The ends of a worker get
strong fairness as a whole (`SF(Ends)`), for the `select`. The loader runs
(`WF(Loads)`), and AMS answers it some day (`SF(FindsUser)`), an assumption on
AMS. And somebody starts the process again after it died (`WF(Restarts)`):
nothing in the repository does, `ams-push-server.service` has no `Restart=`, so
this is an assumption on whoever runs it. `Server` makes the same one
(`WF(Start)`), and assumes that the address is free some day (`SF(Listen)`) and
that AMS answers the loader some day (`SF(FindsUser)`); nobody has to call.

Conditions that the liveness properties of `PushSystem` name. `EventuallyAvailable`
and `Recovers` begin with the last crash (`<>[]Alive`): a process that dies again
and again serves nobody. `Recovers` asks further that AMS holds the subscription
all the time and that no call deactivates it, and is checked with `FetchMayFail`
FALSE: the loader asks once for each subscription (`server.go:287`), and one that
it fails to get stays inactive until a caller activates it or the next start.
`DeletedGoesQuiet` asks that no operations conflict: the instance that a double
activation has orphaned reports again and again once its subscription is deleted,
is answered that nothing is active, and never ends.

Assumptions on the Go runtime: `go.mod` says Go 1.21, so timers have buffered
channels and `Stop` leaves a tick in them. Under the timers of Go 1.23, which
drop the tick, the wait in `worker.go:106` would be for nothing;
`DrainNeverBlocks` would then need another model.

## 4. Runs that find a violation

Each checks one sentence of the repository that its code does not live up to;
PROJECT.json quotes the sentence under `findings`.

- `worker_mattermost_batch`: `MattermostSender.Send` posts the first message of
  a batch and `push()` acknowledges the last.
- `worker_stale_error`: an empty Pull keeps the old `pushErr`, and the slow start
  policy goes on doubling its interval although nothing fails any more.
- `registry_double_activation`: two activations both find the subscription
  inactive; the second overwrites the first worker in the map, which then pushes
  until the process ends and cannot be stopped.
- `registry_nil_worker`: the map is read once to check and once to use; a
  deactivation in between leaves a nil worker and the process ends.
- `registry_stale_report`: a worker meets a cancelable error and blocks on the
  channel; its subscription is deactivated and activated again; the report, a
  mere name, then stops the new worker. It needs no conflict of operations.

Others are part of the model and have no run of their own, as no search is needed
to see them:

- With `skip_subs_load` nothing ever sets the status to ok (`server.go:69`), and
  every call but `Status` is refused for ever, `Check` of the health service
  included, which would answer SERVING.
- A push type outside the enum is accepted although `senders.New` has no sender
  for it, and the first message then ends the process (`WorkerHasNoSender`).
- One failed `GetSubscription` skips a subscription until the next restart
  (`FetchMayFail`).
- The ACL is documented as a list of certificate DNs (`interceptors.go:32`,
  `README.md:110`, with `OU=my.local,O=mkcert development certificate` for an
  example) and compared with the common name (`interceptors.go:53`).
- `loadCAs` is said to use each .pem file of its directory (`config.go:220`, and
  `README.md:84` likewise). The first one it cannot read or parse ends the walk
  (`config.go:249`), and the service starts without the authorities whose files
  come after it. The theorem `PoolCorrect` says which ones it trusts.

## 5. Proofs

`PushWorker_proofs`, for any set of instances, any batch size and any number of
messages and faults:

- `TypeCorrect`: `TypeOK`.
- `DeliveryInvariant`: `DeliveryInv`, and from it `AcknowledgedWasReceived` and
  `ReceivedWithoutGap`. They assume that a Send posts the whole batch (an HTTP
  endpoint, or batches of one), which section 4 shows to be needed. `NoLossOnAck`
  and `NoGap` are not inductive: an acknowledgement may come long after the Send,
  from an instance that is gone, and a batch may be pulled before another
  instance moves the offset. `DeliveryInv` adds that whatever precedes a batch
  was received before the batch was pulled (`WorkerDelivery`), and the same for
  requests that nobody waits for (`LateDelivery`).
- `DrainIsSafe`, with `TimerInvariant`: the timer is armed or has fired whenever
  the loop waits for it.
- `IntervalBounded`: for any bounds and any initial interval between them.
- `StoppedIsQuiet`: an action property, from the types. No step of an instance
  that was stopped leads it into a new exchange, be it the next cycle or the Send
  after a Pull, which go from waiting to waiting (`StoppedStep`).
- `NoDuplicates`: `OnceWithoutFaults`, no message is posted twice before the
  first fault. That there is one instance is no reason by itself: an earlier one
  could have left a post behind. `OnceInv` says why it could not. Without faults
  nobody was stopped, nobody ended and nothing is late, so an instance that is
  alone has always been; and then where it is in its cycle bounds what the
  destination may have received: nothing after the offset before its post, its
  batch after.
- `DeliveryRefinement`: every step is one of `Delivery` or a stutter, from
  `DeliveryInv` and under its assumption: a request that is processed adds a
  batch all of whose predecessors are there, so together a prefix.
- `LifecycleRefinement`: the same for `WorkerLifecycle`, from the types.

`PushService_proofs`, for any sets of subscriptions, instances and calls, with
every interleaving:

- `TypeCorrect`: `TypeOK`.
- `NoZombies`: `NoZombieEntry`. Alone it is not inductive, as a goroutine might
  hold a worker that is registered under another name; `WorkersMatch` says that
  every worker, in the map or in a frame, was made for the subscription it stands
  for. Whoever stops a registered worker is then at the statement that deletes
  its very entry, and everyone else's delete only removes more.
- `NoDeadEntries`: `NoDeadEntry`. With `EndedWasStopped`, a registered worker that
  has ended was stopped first, `NoZombies` leaves no such entry.
- `LifecycleRefinement`: in every interleaving the registry asks of a worker no
  more than `WorkerLifecycle` allows.

`Registry_proofs`, as long as no operations conflict, for any sets of
subscriptions, instances and calls; all others interleave at every statement:

- `NoOrphans`, `NoNilWorkers`: the inductive invariant `RegistryInv` adds to
  `ConflictFree` that what a frame has learnt from the map and relies on still
  holds when it acts on it (`FrameFact`): the name that an activation found free is
  free, the entry that a deactivation or a status request found is there, the
  worker it read is that entry. Only an activation's store and a deactivation's
  delete change an entry, and no other operation on it relies on what they change
  (`FactKept`, `WriterIsAlone`).
- `RegistryRefinement`: from the same invariant, the workers that serve are those
  the map names, save for one whose deactivation is between `Stop` and `delete`.

`PushSystem_proofs`, for the whole server, with any number of instances, calls,
messages and faults:

- `SystemDelivers`: `ServerDelivers`, that is `DeliveryRefinement` in the server,
  and like it under the condition that a Send posts the whole batch. Operations
  overlap and conflict. It rests on lemmas that carry the theorems of the parts
  over: a step of the server is a step or a stutter of the registry
  (`SystemRegistry`) and of the instances (`SystemWorkers`).
- `AlwaysCoupled`: `Coupled`, however operations overlap and conflict. Alone it is
  not inductive: a restart resets the registry, and agrees with the instances only
  if the crash left none. `CoupledInv` adds that. Its steps need `IdleInv`, so that
  what is started was not stopped before.
- `OnlyRegistered`: `OnlyRegisteredPush`, if no operations conflict; the schedule of
  `registry_double_activation` breaks it otherwise. An instance that starts a
  request runs and was not stopped (`ServesWhenItSends`); by `Coupled` the registry
  says the same of its worker, and by `NoOrphan`, which needs the condition, such a
  worker is registered.
- `OneInstanceServes`: at most one instance runs that was not stopped, if no
  operations conflict, for the same reasons. An instance overlaps only with the
  last cycle of those that were.

`Server_proofs`, for directories of any length, any number of connections, edits
and crashes:

- `TypeCorrect`: `TypeOK`.
- `PoolCorrect`: `PoolIsReadablePrefix`, what the code does with a directory (and
  not what its comment says of it, see section 4). By `PoolInv`, during the walk
  the pool holds the authorities among the entries so far, none of which was
  unusable. The walk is a step per entry, so its result needs no induction over
  the directory.
- `OnlyAdmitted`, `StableStatus`, `AuthFirst`: by `CallInv`, a certificate was
  accepted and a call admitted by the configuration of the very process that
  serves it, since no connection outlives its process; and a status that is ok
  belongs to a loader that has ended.

All rest on the named assumptions of the modules (`IntervalAssumption`,
`WorkerAssumption`, `ServiceAssumption`, `SystemAssumption`, `ServerAssumption`),
which TLC evaluates in every run. `SystemAssumption` fixes the one subscription
that `PushSystem` is about and leaves out push types without a sender.

Only model-checked: the liveness properties (`StopTerminates`, `EventuallyPushed`,
`ReportsAreTaken`, `StoppedWorkersEnd`, `DeletedIsReleased`, `EventuallyAvailable`,
`Recovers`, `DeletedGoesQuiet`, `RepairedIsServed`), which are out of the prover's
reach with their fairness. Every safety property of the runs that pass is proved,
under the condition it is checked with.

## 6. What is not modelled

- Logging, the texts of answers and errors, JSON, headers, Base64 decoding of
  payloads: no property is about them. The command line flags and the cipher
  suites decide nothing that is modelled.
- The generated protocol code, the mocks, and what gRPC and `crypto/tls` do
  beyond calls and certificates. The stream `Watch` of the health service passes
  no unary interceptor. The deferred `GracefulStop` of `main.go` is never
  reached.
- The unsynchronised strings `pushErr` and `status` are read and written in
  single steps; a reader that sees half of a write is not modelled.
- A subscription that changes in AMS after the loader read it, or after it was
  activated, keeps the configuration it was activated with: the service never
  compares the two again, and there is no property to state. One that is deleted
  leaves the map (`DeletedIsReleased`, whatever overlaps), and its instances end if
  no operations conflict (`DeletedGoesQuiet`); an orphaned one pushes nothing
  more, but does not end.
- Chained certificates, expiry and revocation: a certificate has a name and the
  authority that signed it.

## 7. Plan

Done: the modules of section 2 with their refinements, the composition
`PushSystem`, `Server`, and the proofs of section 5. What would add most next:

1. A registry with a lock for each entry of the map, to show that it establishes
   `ConflictFree`, and then which of the violations of section 4 remain.
2. `PushSystem` with more than one subscription: `W` becomes an instance for each,
   and the proof of `SystemWorkers` carries over entry by entry, as that of
   `Registry_proofs` does.
3. Lemmas on which the liveness properties rest and which are safety: in
   `PushService`, that a worker that waits on the channel is always met by a
   receiver that can take its report.
