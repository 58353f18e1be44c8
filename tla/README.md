# A TLA+ model of mx-operator

mx-operator is a Kubernetes operator. A user submits an `MXJob`; the operator
creates a pod and a service for every process of the job (one scheduler, some
servers, some workers), watches the chief's pod and writes what it sees to the
job's status. This directory models what the operator decides, request by
request, against an API server, kubelets and users that do what they like in
between; how a change of a job reaches it; and how one of several operators
becomes the leader. TLC checks small instances; TLAPS proves the invariants for
all.

Contents: the system, the modules, the runs, the theorems, what the code does
differently from what its documentation says, what is not modelled, the plan.

## 1. The system

| component | code | state it keeps | operations |
|---|---|---|---|
| controller | `pkg/controller/controller.go` | work queue, `jobs` map, informer cache | `New`, `Run`, `enqueueController`, `processNextWorkItem`, `syncMXJob` |
| training job | `pkg/trainer/training.go` | `j.job` (its copy of the MXJob), `j.status`, `j.Replicas` | `NewJob`, `Reconcile`: `setup`, `setupReplicas`, `updateCRDStatus`, `GetStatus`, `deleteResources` |
| replica set | `pkg/trainer/replicas.go`, `labels.go` | none but its spec | `SyncPods`, `SyncServices`, `GetStatus`, `GetSingleReplicaStatus`, `Delete` |
| job specification | `pkg/apis/mxnet/...` | none | defaults, `ValidateTFJobSpec`, `ConfigureAccelerators...`, `NewTFReplicaSet` |
| start-up, election | `cmd/mx-operator/app/server.go`, client-go's `leaderelection` | a lease of 15 s in an Endpoints object | `Run`: informers (resync every 30 s), election, one worker |
| cluster (external) | used through `pkg/client`, client-go | the stored MXJob, pods, services | optimistic concurrency, pods' life, garbage collection |

How they interact. An informer event, or a resync, puts the job's key into the
work queue. The only worker takes it and calls `syncMXJob`, which makes a
`TrainingJob` from the informer's object the first time it sees the job and
reuses it ever after. `Reconcile` is a sequence of requests to the API server:
the first sync sets the job up (defaults, validation, a random `RuntimeId`) and
stores that; every sync then lists, and where needed creates, the pods and the
services of every task, reads the state of every replica, and stores a new
status. All memory is in the process; only the MXJob, the pods and the services
survive a crash. Nothing but the `resourceVersion` of the MXJob stands between
two processes that both believe they lead.

What is hard here, and therefore what the properties are about:

- *requests that fail or whose answer is lost*, in the middle of a sequence, with
  the in-memory job already changed (`updateCRDStatus` aliases it);
- *crashes between two requests*: the runtime id, from which all names and labels
  derive, is in memory before it is stored, and pod names are random, so a create
  that is repeated does not collide;
- *two leaders*: a lease that is renewed late, or by an update that its sender
  gave up; the requests of a worker whose process is about to end;
- *changes on their way*: a watch that breaks, a key that is added while it is
  processed, a job created again under its name;
- *stale copies*: `j.job` is never refreshed, the informer lags, a user edits;
- *reading pods*: by name or by label, the last of several, current or past
  container state;
- *order inside `Reconcile`*: pods are synced before CleanUp is looked at, and
  even after the job was rejected.

`PROJECT.json` lists these as hazards, each at its line, with the properties
that cover it.

## 2. The modules

| module | what it is |
|---|---|
| `JobSpec` | defaults, validation and `NewTFReplicaSet` as operators on specs |
| `ReplicaStatus` | the state of a replica from its pods, of a set from its replicas |
| `TrainingJob` | the state machine: one MXJob, any number of operators, the cluster; all properties |
| `JobLifecycle` | abstract: what the stored job promises to whoever watches it |
| `Controller` | the state machine from the watch of the MXJobs to the worker that syncs one |
| `KeyedWork` | abstract: what the work queue promises to the workers and to who adds keys |
| `LeaderElection` | the state machine of the lease: candidates, a leader, the API server, time |
| `Lease` | abstract: what the election promises to who reads the Endpoints object |
| `TrainingJob_proofs`, `Controller_proofs`, `LeaderElection_proofs` | theorems, with their proofs |
| `AnyOperators_proofs` | theorems about `TrainingJob` that hold for any number of operators at once |
| `OneLeader_proofs` | theorems about `TrainingJob` that need the election: one leader at a time |
| `Reconcile_proofs` | lemmas on the steps of `TrainingJob` that the last two share |
| `MCTrainingJob`, `MCController`, `MCLeaderElection`, `MC*.cfg` | instances for TLC |

`TrainingJob` extends `JobSpec` and `ReplicaStatus`, and instantiates
`JobLifecycle` with the refinement mapping `phase <- crd.status.phase`,
`rid <- crd.rid`. `Controller` instantiates `KeyedWork`: the queue is open
unless the process stops, `waiting \union dirty` are the keys somebody wants
worked on, and a worker has taken its key. `LeaderElection` instantiates `Lease`
with the record's holder, its age, and `TheLeader`, who has returned from
`acquire` and not from `renew`.

The three state machines are checked apart. What joins them: `Controller` leaves
out what `Reconcile` does (it takes a while, then succeeds or fails), and
`TrainingJob` leaves out why `Reconcile` is called again (`Sync` may happen
whenever the process is idle, and does happen again and again, which is what
`EveryJobIsTakenUp`, the retry of a failed sync and the resyncs give it).
`LeaderElection` shows when there is one leader (`MutualExclusion`); the theorems
of `OneLeader_proofs` have just that, `[]OneLeads`, as a hypothesis;
`TrainingJob_proofs` and `AnyOperators_proofs` show what remains true when there
are more.

### TrainingJob: state

| variable | code |
|---|---|
| `spec` | `j.job.Spec` without the runtime id, after `SetDefaultsMXJob`; nobody changes it later |
| `crd` | the stored MXJob: whether it exists, `Spec.RuntimeId`, `Status` |
| `fresh` | the operators whose `j.job` has the stored `resourceVersion`: the others' Updates conflict |
| `pods`, `services` | what the API server has; a pod's name is `genName`, plus a suffix unless that is 0 |
| `mem[o]` | process `o`: `pc` is its place in `Reconcile`, `job` is `j.job`, `status` is `j.status`, `built` says that `j.Replicas` is there, the rest are the locals of the loops |
| `faults` | how many disturbances have happened, and how many of them were a List of `SyncPods` that failed |

### TrainingJob: actions

Each request to the API server is one step, with the local code up to the next
request. `Start`, `Informed`, `NewJob`, `Sync`, `ObserveDelete`: a process
begins to lead, its informer delivers, `syncMXJob` runs. `Setup`,
`SetupReplicas`: the functions of that name. `StatusUnchanged`,
`StatusWritten`, `StatusRefused`, `StatusAnswerLost`: the four outcomes of
`updateCRDStatus`, at each of its five call sites (`pc` tells which).
`SkipEmptySet` ... `ServicesSynced`: `SyncPods` and `SyncServices`. `GetPod`,
`ListReplica`, `SetRead`, `ReportStatus`: `GetStatus`, in which a replica takes
two requests. `DeleteResources`: `MXReplicaSet.Delete`, a set per step.
`Panic`, `Crash`: the process ends and its memory is lost. `Panics` names the nil
dereferences of `Reconcile`: the template of a rejected SERVER (`replicas.go:175`),
the missing chief of a rejected policy (`training.go:154`), the start time of a
listed pod (`replicas.go:353`), and what setup was to fill in when a CleanUp came
before it (`UnsetPanics`). The actions that these lines belong to are guarded by
their absence. The rest is the cluster: kubelets, users, the garbage collector.

### TrainingJob: what is abstracted

- A template is nil, or has or lacks a container named `mxnet`; images,
  resources, volumes and environment are left out.
- An exit code is one of five classes, those `isRetryableTerminationState`
  tells apart.
- `Reason` is one of the texts' kinds. `replicaStatuses` is kept, since
  `updateCRDStatus` compares it.
- A lookup by name and a selection by labels are sets of pods; that a list in the
  order of names ends with the greatest suffix matters (`LatestPod`) and is kept.
- `MXReplicaSet.Delete` sends several requests, which it goes on with when one
  fails; no other actor's step between them is distinguished. With the
  disturbance `delete` any part of the pods and services is deleted.
- Kubernetes deletes pods gracefully: they stay for a while after `DeleteCollection`
  was answered. Here they are gone at once, and `CleanUpDeletesAll` says that
  their deletion was accepted.
- A pod has a start time when its kubelet has acknowledged it: `Pending` is before
  that, `Waiting` (the API's phase is Pending still) is after.
- A process that begins to lead has the stored job in its informer's cache; older
  copies arise because the job changes before its first sync. In the code the
  informer runs from the process' start (`server.go:91`), before it leads, and
  may lag behind at that moment already.

### TrainingJob: disturbances

`Faults` names what may go wrong in a run and `MaxFaults` how often: a request
refused (`update`, `list` of `SyncPods`, `listReplica` of
`GetSingleReplicaStatus`, `get`, `create`, `delete`), a write whose answer is
lost (`lostUpdate`, `lostCreate`), `crash`, a `stale` informer, a container that
restarts (`restart`), a pod that fails (`podFail`) or is removed by somebody
(`podRemove`), a user who edits the job (`edit`). A user may ask for clean-up
unless the job is in it (`cleanUp`; `earlyCleanUp` if no operator has set the job
up), and delete the job (`jobDelete`) once: neither counts against `MaxFaults`.
Pods start and succeed without being counted.

A CleanUp that comes before setup makes `Reconcile` skip it (`training.go:349`):
the job gets no runtime id, is not validated, and works with the spec as the user
wrote it, without defaults (`NotSetUp`, `spec.written`). `setupReplicas` then
fails on a missing port, and nil `Replicas` or a nil termination policy end the
process (`replicas.go:83`, `replicas.go:483`, `training.go:134`).

### TrainingJob: a job from an earlier release

`GetSingleReplicaStatus` looks for a pod that is named `genName(index)`.
`CreatePodWithIndex` never makes one: its names end in a random suffix. Half of
`GetStatus` is therefore dead code in a cluster that this release alone has
touched (finding *unreported*). To check that half as well, `Origins` may
contain `"upgraded"`: the job was set up, and its pods created, under the names
the status code expects. This is an assumption about releases before this
commit, drawn from the code that still looks for these names.

### Controller

| variables | code |
|---|---|
| `store`, `created` | the MXJobs the API server has; a job is its UID, a number in the order of creation, 0 is none |
| `deltas` | what the DeltaFIFO holds for a key, and what the watch has sent and not delivered |
| `informer`, `initial`, `cache` | whether the factory has registered and started the informer; the keys of the first list still to be handled (`HasSynced`); the indexer the lister reads |
| `notices` | keys with a notification the handlers have not seen |
| `waiting` | the delaying queue behind `AddRateLimited` |
| `queue`, `dirty`, `processing` | the fields of the workqueue's `Type` |
| `failures` | the exponential rate limiter's count of each key |
| `jobs`, `leading`, `worker` | `c.jobs`; how far `Run` is; where each worker is in `processNextWorkItem`, with its key and what `syncMXJob` returned |
| `stops`, `relists` | bounds |

Actions. `CreateJob`, `DeleteJob`: users, and the watch event that follows.
`Relist`: the watch breaks, what it had not delivered is lost, and
`DeltaFIFO.Replace` takes a new list. `HandleDelta`: `HandleDeltas` and the
filter of `New`. `Resync`, `enqueueController`, `AddReady`: up to the work queue.
`New`, `FactoryStart`, `Lead`, `StartWorkers`, `StopLeading`, `Exit`: the process
from `New` to `log.Fatalf`; the informer is started by a goroutine of its own, so
the election may be won before it. `Get`, `Lookup`, `Reconcile`, `Recheck`,
`Finish`, `Done`, `Quit`: `processNextWorkItem` around `syncMXJob`, cut where
another goroutine may come between.

Abstracted: updates of a job that keep its UID (they notify like a resync);
delays (a key that waits is added some time later, so `failures` only matters
for what forgets it, and `MaxFailures` caps it); several unseen notifications of
one key are one; deltas are handled one at a time, which other keys' arrivals
cannot tell from the code's handling of all of a key's at once. A list is taken
to be current, although the reflector asks for resource version "0", which an
API server may answer from a cache that lags.

### LeaderElection

| variables | code |
|---|---|
| `lock` | the record in the Endpoints annotation: holder and renew time |
| `orphans` | updates under way whose sender has stopped waiting |
| `pc`, `leading`, `due`, `poll` | where an operator is in `tryAcquireOrRenew`, whether `acquire` has returned, when its next try starts, how long its poll in `renew` has run |
| `try`, `final`, `sent`, `read`, `differs`, `fresh`, `ok` | the locals of the try: its `now`, whether it is the poll's last one, the request's age, what `Get` returned, whether the lock was written since, whether `Update` succeeded |
| `known`, `observedTime` | whether `observedRecord` is the record in the object, and then the age of `observedTime` |
| `faults` | bound |

Times are ages in whole seconds, the precision of the stored record; `Tick` lets a
second pass for everybody, unless a try is due or a request overdue.
`Begin`, `ServeGet`, `ReceiveGet`, `ServeUpdate`, `TrySucceeds`, `Conflict` are a
try; `Pauses` says when the next one starts (`JitterUntil` for a candidate, the
poller's ticks and its last try at the deadline for the leader).
`RequestFails`, `Crash`, `Restart`, `ServeOrphan` are the faults. A poll that fails
ends the process at once, which is what `OnStoppedLeading` does
(`server.go:123-128`); requests of the worker that are under way at that moment
are applied later, which `TrainingJob` covers with a second operator.

Abstracted: acquire time and transitions, which change with the holder only; when a
record was observed that has been replaced since, as the next `Get` to find a
record starts anew.
Ages are capped at `MaxAge`, from which on no comparison changes. Identities are
host names and taken to differ. The code puts no limit on the time a request
takes (the client has no timeout); `MaxDelay` is that limit here, and
`DelayAssumption` what the election needs of it.

## 3. The runs

| run | instance | shows |
|---|---|---|
| `core` | 1 operator, scheduler and worker or one of 8 odd specs, 2 disturbances | `TypeOK`, `AcceptedNeverPanics`, `PodsCarryStoredId`, `OnePodPerTask` |
| `writers` | 2 operators, new or upgraded job, accepted or rejected, complete or with fields left to setup, 1 disturbance and any clean-ups, before setup included | `IInv`, `NeverAdmitRejected`, `LateUpdatesAreNoOps`, `RuntimeIdWriteOnce`, `FollowsLifecycle` |
| `upgraded` | 1 operator, upgraded scheduler and worker, or two workers, or a chief that is no task, fair, kubelets included, 1 disturbance and any clean-ups | `DoneMeansTerminated`, `DoneHasChief`, `CleanUpDeletesAll`, `SucceededChiefIsReported` |
| `life` | 1 operator, scheduler and worker, fair, deletion and any 1 disturbance | `PodsBounded`, `Converges`, `DeletedJobIsCollected` |
| `controller` | 1 key, 2 workers, 2 jobs after each other, 2 broken watches, 1 end of the process, fair | `TypeOK`, `QueueOK`, `NoChangeUnseen`, `IncarnationsAdvance`, `FollowsKeyedWork`, `EveryJobIsTakenUp` |
| `election` | 2 operators, lease 9, deadline 2, retry 1, requests up to 1 s, 2 faults, fair | `TypeOK`, `AtMostOneLeader`, `LeaderHolds`, `FollowsLease`, `SomeoneLeads` |

The other six end in a counterexample; see section 5.

What the properties say beyond their names:

- `OnePodPerTask`: neither a crash between list and create, nor a create whose
  answer is lost, nor a retry gives a task a second pod that is not Failed. It
  depends on a List that tells the truth: with the disturbance `list` it fails
  (`replicas.go:507-512` creates a pod when the List failed), and with two
  operators it has no safeguard at all. `core` leaves both out.
- `AcceptedNeverPanics` is about jobs that were set up, that is accepted by
  validation: in `core` they are submitted to this release. A job of an earlier
  release does make the operator panic: its pods are found and listed, and one that
  comes second in the list and has no start time yet is dereferenced
  (`replicas.go:353`).
- `PodsBounded` is what remains true then: a task has no more pods that are not
  Failed than there are operators, plus one for each List of `SyncPods` that failed
  (`faults.lists`; other disturbances do not count), however often each of
  them syncs, crashes or loses an answer. `life` checks it with a failed List, or
  any other disturbance, and one operator; with two operators and the suffixes they need,
  TLC does not finish within 5 minutes, and the theorem `PodsPerTask` takes over.
- `PodsCarryStoredId`: what `setup` chose was stored before a pod was made of
  it. It depends on Updates that are not refused (finding *idlost*).
- `DoneMeansTerminated`: a pod of another type or index never decides. A failed
  List is taken for a failed replica (`replicas.go:426-429`), so `listReplica` is
  left out. Nor is Done final: the next sync may report Running. A container that
  was restarted counts as terminated, as it does for `replicaStatusFromPodList`.
- `SucceededChiefIsReported` asks that a chief that has succeeded, and stays, is
  reported as Done in the end. With a failed pod and its replacement in a list
  the operator panics at every sync until the replacement has a start time
  (`replicas.go:353`), before it stores a status, for this replica or another.
  So the property needs that kubelets acknowledge pods (`KubeletFairSpec`); without
  that TLC finds the crash loop.
- `DoneHasChief`: validation accepts a chief whose index is not below its replicas
  (`validation.go:79`). Such a job never gets Done, by whatever else its pods
  do; in particular the chief is not taken for another replica of its set.
- `CleanUpDeletesAll` speaks of the moment when `deleteResources` ends without
  an error. The next sync of that job creates pods again before it deletes them
  again (`training.go:371-430`), so it is no statement about later states.
- `IInv` is the inductive invariant; see section 4.
- `NoChangeUnseen`: a job of the cache whose TrainingJob is missing, or is an
  earlier job's, is in `notices`, `waiting` or `dirty`, or a worker has its key
  and has not looked it up. After the lookup its UID is in `c.jobs`.
- `IncarnationsAdvance`: neither the cache nor `c.jobs` returns to an earlier job
  of a name, although lists, resyncs and watch events race.
- `EveryJobIsTakenUp`: with fairness, a stored job gets a TrainingJob unless it is
  deleted first, or `Overlooked`: the DeltaFIFO ignores a list's word on a key
  whose last delta is a delete (`delta_fifo.go:319`), and such a job stays
  unknown until the watch tells something of it.
- `LeaderHolds` is stronger than `AtMostOneLeader`: no update that is under way,
  not even one whose sender has crashed, can take the lock from a leader.
- `FollowsLease`: the record passes from one operator to another only when it is a
  lease old and nobody leads; between two leaders there is a time without one; a
  leader is whom the record names.
- `SomeoneLeads`: if an operator stays up, there is a leader again and again,
  although each write of the lock makes every candidate wait a lease anew.

Bounds. Two tasks are the least with two replica sets and a loop that goes from
one to the next; `upgraded` adds two replicas of one set for the loop over
indexes, and the odd specs have sets of none. Two runtime ids are the least
that can differ, and where a run has one the property does not compare ids.
Three suffixes are one more than the pods a task can collect within the
disturbances of `core` and `life`; with fewer a name may be taken for good, which
real suffixes (5 characters) are not. One operator is what leader election
means to guarantee; two are what it can fail to. `writers` has one disturbance
because the interleavings of two operators already contain the rest, and
because its properties are proved for any number.

`controller` has one key, since keys share nothing but the order of the queue,
and its safety properties are proved for any number of keys; two workers, one
more than `server.go` starts, since only a second can break `QueueOK`; two jobs,
so that one succeeds another; two broken watches, since the second may break
while what the first list brought is still queued. `election` has the real
configuration's proportions made small (15 s, 5 s, 3 s are 9, 2, 1) with two
faults, since the last try of a poll needs a failed one before it; with 15, 5, 3
and one fault it passes too. With the real durations `DelayAssumption` reads
`MaxDelay < (15 - 5) / 6`: requests of at most 1 s, counted in whole seconds.

Symmetry is used in `core` and `writers`, whose properties are safety
properties: runtime ids and operators are only compared. Three runs do not check
deadlock. In `life` and `tombstone` everything stops when the job is deleted and
what was of it is gone; in `controller` when the creations, the broken watches
and the ends of the process are used up.

Fairness. `TrainingJob!FairSpec`: `WF(Start)`: Kubernetes restarts the deployment's pod.
`WF(NewJob \/ Sync \/ ObserveDelete)`: the informer resyncs every 30 s
(`server.go:85`) and a failed sync is queued again (`controller.go:200`).
`WF(Reconcile \/ Panic)`: the one worker runs `Reconcile` to its end.
`SF(PodCreated)`: `RandString(5)` does not draw taken suffixes for ever.
`WF(CollectGarbage)`: Kubernetes' collector runs. Nothing is assumed of
kubelets, of users or of disturbances. Only `upgraded` assumes more,
`KubeletFairSpec`: as long as pods wait for it, some kubelet acknowledges one some
day, which sets its start time. That a pod then runs or succeeds is not assumed.

`Controller!FairSpec`: the goroutines of a process run, namely start-up, the
informer, its handlers, the waiting loop and the workers; the election is won
some day (`SomeoneLeads`); a process that lost the lease ends. Nothing is assumed
of resyncs or of the watch. `LeaderElection!FairSpec`: time passes or an operator in
a try goes on; that no operator is left behind follows, since `Tick` waits for a
try that is due and a request that is overdue. An operator that ended need not
come back, nor need an orphan be applied.

## 4. The theorems

`TrainingJob_proofs` proves, for every value of the constants that satisfies the
assumptions of `TrainingJob` (ids, suffixes and specs have their types, operators are
finitely many):

| theorem | statement |
|---|---|
| `Inductive`, `Invariant` | `IInv` is inductive; `Spec => []IInv` |
| `TypeCorrect` | `Spec => []TypeOK` |
| `RejectedNeverAdmitted` | `Spec => []NeverAdmitRejected` |
| `LateUpdates` | `Spec => []LateUpdatesAreNoOps` |
| `IdWrittenOnce` | `Spec => RuntimeIdWriteOnce` |
| `Implements` | `Spec => FollowsLifecycle`: `TrainingJob` implements `JobLifecycle` |

Why `IInv` is needed. That a stored id is never replaced is not inductive: a
process could hold another id and the right to write it. `IInv` says which
memories go with which stored job.

- `Consistent`: a runtime id exists exactly with the phases of an admitted job,
  in the stored job and in every memory; in CleanUp it exists if the job was set
  up before.
- `MemoryOK`: `j.status` is ahead of `j.job.Status` only between `setup` or
  `GetStatus` and the next `updateCRDStatus`, whichever way that fails; a
  process without an id has an unknown chief, hence nothing to report.
- `ViewOK`: a process whose copy is fresh has the stored id and a phase that
  may follow the stored one. Only such a process can write. And no memory has
  CleanUp unless the stored job has a phase, so that a job in CleanUp without an
  id is never given one.
- `LoopsOK`: `j.Replicas` is there from `setupReplicas` on, and the loops stay
  within it.
- `BareOK`: a pod without a suffix has an id.

The proof has one lemma per action. `MemoryStep`, `QuietStep`, `LoopStep`,
`StoreStep` and `ClusterStep` say once what a kind of step preserves; the lemmas
of the actions show that an action is of that kind. The refinement splits a
write by the stored phase: `TakeUp` when there was none, `Report` or a stutter
otherwise.

`Controller_proofs`, for any keys, workers and bounds:

| theorem | statement |
|---|---|
| `Invariance` | `Spec => []IInv` |
| `TypeCorrect` | `Spec => []TypeOK` |
| `OneWorkerPerKey` | `Spec => []QueueOK` |
| `ChangesAreSeen` | `Spec => []NoChangeUnseen` |
| `JobsAdvance` | `Spec => IncarnationsAdvance` |
| `QueueImplements` | `Spec => FollowsKeyedWork`: `Controller` implements `KeyedWork` |

`QueueOK` needs one fact more to be inductive, `WorkerInv`: a worker has a key
exactly while it is at an item, and before Run starts them workers are off
(otherwise the end of the process could leave a key in `processing`).
`IInv == TypeOK /\ WorkerInv /\ QueueOK`. `NoChangeUnseen` is then inductive on top of it:
`SeenKept` goes through the actions that take a key out of `notices`, `waiting`
or `dirty`, or a worker past its lookup, and finds where it went.
`IncarnationsAdvance` follows from an order of the UIDs of a name (`AscendingInv`):
those in `c.jobs`, the cache, the deltas from first to last, and the store ascend,
and none is above the number of jobs created; a list keeps the order because it
is appended to the deltas that came before it. The refinement
maps `Add` of a waiting key to a stutter (`waiting \union dirty` does not change),
`Get` to `Take`, `Done` to `Finish`, `AddRateLimited` to `Request`.

`LeaderElection_proofs`, for any operators, any durations that `NewLeaderElector`
accepts, and any number of faults, under `DelayAssumption`
(`RenewDeadline + 6 * MaxDelay < LeaseDuration`):

| theorem | statement |
|---|---|
| `Invariance` | `Spec => []IInv` |
| `TypeCorrect` | `Spec => []TypeOK` |
| `MutualExclusion` | `Spec => []AtMostOneLeader` |
| `NoLeaderDeposed` | `Spec => []LeaderHolds` |

The invariant bounds ages. What an operator knows of the record it observed no
longer ago than the record was written (`KnownInv`), so whoever may take the
lock from another has read a record at least a lease old (`WriteInv`,
`Replaceable`; `OrphanInv` says the same of updates whose sender is gone). A
leader's record never is: it is at most two delays older than the leader's poll,
and a poll lasts at most `RenewDeadline` and four delays (`LeaderInv`). `SuccessInv`
covers a new leader between its update and the answer. The refinement
(`LeaseImplemented: Spec => FollowsLease`) maps `ServeUpdate` and `ServeOrphan` to
`Renew` or `Take` by the holder of the record they replace, `TrySucceeds` to `Lead`
when the operator did not lead before, what ends an operator to `Stop`, and
`Tick` to `Renew`. `Take` asks that nobody leads; that no leader is overwritten
is `NoLeaderDeposed`, without which the step would not be allowed.

`AnyOperators_proofs` is about any number of operators that all believe they lead,
and any disturbances:

| theorem | statement |
|---|---|
| `PodsPerTask` | `Spec => []PodsBounded` |
| `DoneIsOfATask` | `Spec => []DoneHasChief` |
| `SubmittedIsNeverReported` | unless an earlier release made the pods, `crd.status.phase` is never Running or Done |
| `AcceptedSafe` | unless an earlier release made the pods, `Spec => []AcceptedNeverPanics` |

`PodsBounded` is not inductive: an operator may be between its List and its create.
`BoundInv` counts the pods of a task together with the operators about to create
one (`Load`). A List that finds no active pod lets one operator join when there are
no pods, so that the load is at most the number of operators; a List that fails
lets one join at any time and is counted by `faults.lists`; a create exchanges the
operator for a pod. The operators are assumed to be finitely many and at least one
(`OperatorsAssumption`), since they are counted. `ReportInv` says that a pod under
the name that `GetSingleReplicaStatus` asks for is one of the job's tasks and comes
from an earlier release, and that an operator which is past its Get, and so lists pods, knows a state
of the chief, or has Done or Running in memory, has found such a pod.
`SubmittedIsNeverReported` is finding *unreported* for every spec and any number
of operators, not for the one counterexample of the run. `AcceptedSafe` rests on
the same invariant: an operator that lists no pods dereferences no start time; the
template and the chief of a job with a runtime id are what validation asked for.

`OneLeader_proofs` is about what needs the election. Its theorems have the form
`Spec /\ []OneLeads => []P`: any number of processes, of which one at a time is not
down, in any succession, with any crashes in between. It is what `AtMostOneLeader`
gives, if a process that is deposed sends nothing more; a request that it sent
before, and that is applied later, has no place here (section 2,
LeaderElection) and is covered by `AnyOperators_proofs` only. They further assume
that the API server refuses no Update it could accept and no user edits the job, or
puts it in CleanUp, before it is set up (`Without({"update", "edit",
"earlyCleanUp"})`; otherwise a process may go on with an id that is stored nowhere,
see `idlost`); they allow answers that are lost. That a process which takes over
sees the stored job is part of the model (section 2).

| theorem | statement | and without |
|---|---|---|
| `StoredIdCarried` | `Spec /\ []OneLeads => []PodsCarryStoredId` | |
| `TaskHasOnePod` | `Spec /\ []OneLeads => []OnePodPerTask` | failed Lists of `SyncPods` |
| `CleanUpComplete` | `Spec /\ []OneLeads => []CleanUpDeletesAll` | deletion of the job |
| `DoneIsTrue` | `Spec /\ []OneLeads => []DoneMeansTerminated` | failed Lists of `GetSingleReplicaStatus`, pods removed from outside, deletion of the job |

Each has an invariant on top of `IInv`, and of `DownInv`: a process that crashed or
panicked has forgotten everything, so that the next leader starts from the stored
job alone. `IdInv`: the leader's id is ahead of the stored one only between `setup`
and its `Update`, and that `Update` is not refused; before it there are no pods.
`UniqueInv`: a pod is about to be created only for a task whose pods have all failed,
and kubelets do not bring one back. `DeleteInv`: pods and services belong to replica
sets of the spec, and those of the sets that `deleteResources` has passed are gone.
`DoneInv`: Done in the leader's memory, or a chief it has read as ended, has a pod of
the chief that has ended, and pods are deleted only while the stored job is in
CleanUp, when nobody remembers Done. That the pod `replicaStatusFromPodList` reads
exists (`LatestIsListed`) needs that a finite set of suffixes has a greatest one,
hence that `PodSuffixes` is finite.

Only model-checked: the liveness properties (`Converges`,
`DeletedJobIsCollected`, `SucceededChiefIsReported`, `EveryJobIsTakenUp`,
`SomeoneLeads`), since TLAPS has no fairness. Every safety property of a passing run is
proved.

## 5. Where the code and what is said of it differ

Each has a run that ends in the counterexample.

| run | said | done |
|---|---|---|
| `unreported` | README.md:101-103: the chief's exit code determines the job's status, 0 is success | the status is looked up under a pod name that is never created (`replicas.go:402` and `169`): the job stays Creating |
| `mostrecent` | `replicas_test.go:319`: of multiple pods the most recent is read | `latest = &i` is the loop's variable (`replicas.go:348`, Go 1.8): the last one listed is read, unless it has no start time yet (then the comparison in line 353 panics) |
| `statuslost` | `training.go:432-434`: changes to the status are propagated | after a failed Update `j.job.Status` equals `j.status` already (`training.go:333-334`), so nothing is sent again |
| `idlost` | README.md:100: one and only one scheduler | an id whose store failed is used all the same and forgotten in a crash; a second scheduler is created |
| `tombstone` | `controller.go:269`: `enqueueController`'s object may be a `DeletionFinalStateUnknown` marker | the FilterFunc of `New` lets MXJobs pass only (`controller.go:116-124`): such a delete reaches nobody, and the rate limiter keeps the key's failures |
| `schedulers` | README.md:100: a job must have one and only one scheduler | validation counts no schedulers (`validation.go:39-77`) |

## 6. What is not modelled

- Time in `Controller`: how long a back-off is. Since every event counts as a
  failure of its key (`controller.go:278`), an event may wait up to 1000 s
  (hazard at that line); the model says that it is served, not when.
- A watch cache of the API server that lags behind what the reflector has seen.
- Two operators with one host name, and requests of the election that take
  longer than `MaxDelay`.
- The pods' environment (`DMLC_*`): a function of the spec that no decision of the
  operator depends on, and of which the repository promises nothing. Hazard
  `replicas.go:241` says what may be wrong with it.
- Labels other than those selected by, and events.
- The ConfigMap of `MXReplicaSet.Delete`, which no code creates.
- `TrainingJob.Delete`, which nothing calls.
- The Kubernetes client configuration, generated registration, deep copies and the
  fake client, options, chart and scripts: no state and no logic of their own.

## 7. Plan

Done: `JobSpec`, `ReplicaStatus`, `TrainingJob`, `JobLifecycle`, `Controller`,
`KeyedWork`, `LeaderElection`, `Lease`, their runs and the theorems above. Left, in
this order:

1. `DoneMeansTerminated` for any number of operators at once: what it needs in place
   of `[]OneLeads` is that no operator deletes pods while another remembers Done.
2. `Operator`: `Controller` and `Lease` composed with an abstract `TrainingJob`, to
   show which of its disturbances they can cause, and to discharge `[]OneLeads` from
   `LeaseImplemented` instead of assuming it.
3. `PodEnvironment`: the `DMLC_*` variables as a function of the spec, checked over
   all small specs: who looks for the scheduler where.
