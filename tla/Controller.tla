------------------------------ MODULE Controller ------------------------------
(***************************************************************************)
(* The controller of pkg/controller: how a change of a stored MXJob        *)
(* reaches a worker.  The API server's watch, the informer's delta queue   *)
(* and cache, the filtered event handlers, the rate limited work queue,    *)
(* the jobs map and the workers that run syncMXJob.  Jobs are deleted and  *)
(* created again under their names.                                        *)
(*                                                                         *)
(* A job is its UID here, a positive number in the order of creation.      *)
(* What Reconcile does with it is TrainingJob's: here it takes a while,    *)
(* during which anything else may happen, and succeeds or fails.  Delays   *)
(* are not measured: a key that waits is added at some later time, so the  *)
(* number of a key's failures only matters for what forgets it.            *)
(***************************************************************************)
EXTENDS Integers, Sequences, FiniteSets

CONSTANTS
  Keys,         \* names of jobs
  NoKey,        \* the key of a worker that has none
  Workers,      \* the goroutines Run starts; server.go asks for one
  MaxUid,       \* how many jobs may be created
  MaxFailures,  \* failures are counted up to here: the delay grows no more
  MaxStops,     \* how often the process may end
  MaxRelists    \* how often the watch may break

ASSUME KeysAssumption == NoKey \notin Keys
ASSUME BoundsAssumption == /\ MaxUid \in Nat /\ MaxFailures \in Nat \ {0}
                           /\ MaxStops \in Nat /\ MaxRelists \in Nat

VARIABLES
  store,     \* the UID stored under each key, 0 if there is none
  created,   \* how many jobs were created so far
  deltas,    \* per key, what the informer has not handled yet
  informer,  \* "none", "registered", "running"
  initial,   \* the keys of the first list that are not in the cache yet
  cache,     \* the informer's cache
  notices,   \* keys with a notification that no handler has seen
  waiting,   \* the delaying queue: keys that a rate limiter holds back
  queue,     \* the work queue's order
  dirty,     \* the work queue's set of keys that need processing
  processing,\* the work queue's set of keys that are processed
  failures,  \* the rate limiter's count for each key
  jobs,      \* c.jobs: the UID of the TrainingJob of each key, 0 if none
  leading,   \* "no", "starting", "working", "stopping"
  worker,    \* where each worker is in processNextWorkItem
  stops,     \* how often the process ended
  relists    \* how often the watch broke

clusterVars == <<store, created>>
informerVars == <<deltas, informer, initial, cache, notices>>
queueVars == <<waiting, queue, dirty, processing, failures>>
processVars == <<jobs, leading, worker>>
boundVars == <<stops, relists>>

vars == <<clusterVars, informerVars, queueVars, processVars, boundVars>>

-----------------------------------------------------------------------------
Uids == 1..MaxUid

(* A delta: the object is there (Added, Updated, Sync), a delete that the  *)
(* watch told, or one that a list revealed (DeletedFinalStateUnknown).     *)
Deltas == [type : {"set"}, uid : Uids] \union [type : {"deleted", "tombstone"}, uid : {0}]

Set(u) == [type |-> "set", uid |-> u]
Deleted == [type |-> "deleted", uid |-> 0]
Tombstone == [type |-> "tombstone", uid |-> 0]

Steps == {"off", "idle", "lookup", "reconcile", "recheck", "finish", "done"}

(* What syncMXJob returned: (true, nil), (false, nil) or an error. *)
Results == {"none", "forget", "leave", "retry"}

Idle == [pc |-> "idle", key |-> NoKey, result |-> "none"]
Off == [Idle EXCEPT !.pc = "off"]

WorkerStates == [pc : Steps, key : Keys \union {NoKey}, result : Results]

-----------------------------------------------------------------------------
(***************************************************************************)
(* The work queue (client-go's workqueue), as the controller uses it.      *)
(***************************************************************************)
ShuttingDown == leading = "stopping"

(* When: the item exponential rate limiter counts every request. *)
When(k) == [failures EXCEPT ![k] = IF @ < MaxFailures THEN @ + 1 ELSE @]

(* AddRateLimited: the key waits, unless it does already. *)
AddRateLimited(k) ==
  /\ failures' = When(k)
  /\ waiting' = IF ShuttingDown THEN waiting ELSE waiting \union {k}

(* Variant of Add: a key that is processed is not remembered. *)
AddUnlessProcessing(k) ==
  IF ShuttingDown \/ k \in dirty \/ k \in processing
  THEN UNCHANGED <<queue, dirty>>
  ELSE /\ dirty' = dirty \union {k}
       /\ queue' = Append(queue, k)

(* Variant of Add: a key that is processed is queued at once. *)
AddAtOnce(k) ==
  IF ShuttingDown \/ k \in dirty
  THEN UNCHANGED <<queue, dirty>>
  ELSE dirty' = dirty \union {k} /\ queue' = Append(queue, k)

(* Add: a key that is processed is only marked, Done will queue it. *)
Add(k) ==
  IF ShuttingDown \/ k \in dirty
  THEN UNCHANGED <<queue, dirty>>
  ELSE /\ dirty' = dirty \union {k}
       /\ queue' = IF k \in processing THEN queue ELSE Append(queue, k)

(* The waiting loop adds a key whose delay is over. *)
AddReady(k) ==
  /\ k \in waiting
  /\ waiting' = waiting \ {k}
  /\ Add(k)
  /\ UNCHANGED <<clusterVars, informerVars, processing, failures, processVars, boundVars>>

-----------------------------------------------------------------------------
(***************************************************************************)
(* Users, the watch and the informer.                                      *)
(***************************************************************************)
(* What the informer will think of a key after the deltas ds. *)
Expected(k, ds) == IF ds = <<>> THEN cache[k] ELSE ds[Len(ds)].uid

(* The watch carries a change if the informer runs; the queue of deltas    *)
(* takes no delete of what it does not know.                               *)
Watched(k, d) ==
  deltas' = IF informer = "running" /\ (d.uid # 0 \/ Expected(k, deltas[k]) # 0)
            THEN [deltas EXCEPT ![k] = Append(@, d)]
            ELSE deltas

CreateJob(k) ==
  /\ store[k] = 0 /\ created < MaxUid
  /\ created' = created + 1
  /\ store' = [store EXCEPT ![k] = created + 1]
  /\ Watched(k, Set(created + 1))
  /\ UNCHANGED <<informer, initial, cache, notices, queueVars, processVars, boundVars>>

DeleteJob(k) ==
  /\ store[k] # 0
  /\ store' = [store EXCEPT ![k] = 0]
  /\ Watched(k, Deleted)
  /\ UNCHANGED <<created, informer, initial, cache, notices, queueVars, processVars, boundVars>>

(* Variant of Replaced: the list goes before what is still to be handled. *)
ReplacedFirst(k, ds) ==
  IF store[k] # 0 THEN <<Set(store[k])>> \o ds
  ELSE IF cache[k] # 0 THEN <<Tombstone>> \o ds
  ELSE ds

(* What Replace leaves of a key's deltas ds: the listed object is queued   *)
(* behind them, or a tombstone if the cache has an object that is not      *)
(* listed; neither is if a delete is the last of them.                     *)
Replaced(k, ds) ==
  IF ds # <<>> /\ ds[Len(ds)].uid = 0 THEN ds
  ELSE IF store[k] # 0 THEN Append(ds, Set(store[k]))
  ELSE IF cache[k] # 0 THEN Append(ds, Tombstone)
  ELSE ds

(* The watch breaks and the reflector lists again.  Of each key's deltas   *)
(* the first n[k] had arrived, among them those of the first list; the     *)
(* others are lost.                                                        *)
Relist ==
  LET lengths == UNION {0..Len(deltas[k]) : k \in Keys}
  IN /\ informer = "running" /\ relists < MaxRelists
     /\ \E n \in [Keys -> lengths] :
          /\ \A k \in Keys : n[k] <= Len(deltas[k]) /\ (k \in initial => n[k] > 0)
          /\ deltas' = [k \in Keys |-> Replaced(k, SubSeq(deltas[k], 1, n[k]))]
     /\ relists' = relists + 1
     /\ UNCHANGED <<clusterVars, informer, initial, cache, notices, queueVars, processVars, stops>>

(* The FilterFunc of New lets MXJobs pass; a tombstone is none. *)
Filtered(d) == d.type = "tombstone"

(* HandleDeltas: the cache, then the notification of the handlers.         *)
HandleDelta(k) ==
  LET d == deltas[k][1]
  IN /\ deltas[k] # <<>>
     /\ deltas' = [deltas EXCEPT ![k] = Tail(@)]
     /\ cache' = [cache EXCEPT ![k] = d.uid]
     /\ notices' = IF Filtered(d) THEN notices ELSE notices \union {k}
     /\ initial' = initial \ {k}
     /\ UNCHANGED <<clusterVars, informer, queueVars, processVars, boundVars>>

(* Every 30 seconds, an update of each object without news. *)
Resync(k) ==
  /\ informer = "running" /\ cache[k] # 0 /\ deltas[k] = <<>>
  /\ notices' = notices \union {k}
  /\ UNCHANGED <<clusterVars, deltas, informer, initial, cache, queueVars, processVars, boundVars>>

(* AddFunc, UpdateFunc and DeleteFunc are enqueueController.  Several      *)
(* notifications of a key that nobody has seen are one here.               *)
enqueueController(k) ==
  /\ k \in notices
  /\ notices' = notices \ {k}
  /\ AddRateLimited(k)
  /\ UNCHANGED <<clusterVars, deltas, informer, initial, cache, queue, dirty, processing,
                 processVars, boundVars>>

-----------------------------------------------------------------------------
(***************************************************************************)
(* The process: New, the factory's Start, the election, Run.               *)
(***************************************************************************)
Init ==
  /\ store = [k \in Keys |-> 0] /\ created = 0
  /\ deltas = [k \in Keys |-> <<>>] /\ informer = "none" /\ initial = {}
  /\ cache = [k \in Keys |-> 0] /\ notices = {}
  /\ waiting = {} /\ queue = <<>> /\ dirty = {} /\ processing = {}
  /\ failures = [k \in Keys |-> 0]
  /\ jobs = [k \in Keys |-> 0] /\ leading = "no" /\ worker = [w \in Workers |-> Off]
  /\ stops = 0 /\ relists = 0

(* New asks the factory for the informer, which registers it. *)
New ==
  /\ informer = "none"
  /\ informer' = "registered"
  /\ UNCHANGED <<clusterVars, deltas, initial, cache, notices, queueVars, processVars, boundVars>>

(* Variant of FirstList: a key without an object is listed too. *)
FirstListOfAll(k) == <<[type |-> "set", uid |-> store[k]]>>

(* What the first list makes the informer handle for a key. *)
FirstList(k) == IF store[k] = 0 THEN <<>> ELSE <<Set(store[k])>>

(* A goroutine starts the registered informers: the first list. *)
FactoryStart ==
  /\ informer = "registered"
  /\ informer' = "running"
  /\ deltas' = [k \in Keys |-> FirstList(k)]
  /\ initial' = {k \in Keys : store[k] # 0}
  /\ UNCHANGED <<clusterVars, cache, notices, queueVars, processVars, boundVars>>

(* The election may be won before the informer runs. *)
Lead ==
  /\ informer # "none" /\ leading = "no"
  /\ leading' = "starting"
  /\ UNCHANGED <<clusterVars, informerVars, queueVars, jobs, worker, boundVars>>

(* WaitForCacheSync, then the workers. *)
HasSynced == informer = "running" /\ initial = {}

StartWorkers ==
  /\ leading = "starting" /\ HasSynced
  /\ leading' = "working"
  /\ worker' = [w \in Workers |-> Idle]
  /\ UNCHANGED <<clusterVars, informerVars, queueVars, jobs, boundVars>>

(* The lease is lost: stopCh is closed, Run shuts the queue down.          *)
StopLeading ==
  /\ leading \in {"starting", "working"} /\ stops < MaxStops
  /\ leading' = "stopping"
  /\ UNCHANGED <<clusterVars, informerVars, queueVars, jobs, worker, boundVars>>

(* log.Fatalf, or a crash: a new process starts from nothing. *)
Exit ==
  /\ informer # "none" /\ stops < MaxStops
  /\ stops' = stops + 1
  /\ deltas' = [k \in Keys |-> <<>>] /\ informer' = "none" /\ initial' = {}
  /\ cache' = [k \in Keys |-> 0] /\ notices' = {}
  /\ waiting' = {} /\ queue' = <<>> /\ dirty' = {} /\ processing' = {}
  /\ failures' = [k \in Keys |-> 0]
  /\ jobs' = [k \in Keys |-> 0] /\ leading' = "no" /\ worker' = [w \in Workers |-> Off]
  /\ UNCHANGED <<clusterVars, relists>>

-----------------------------------------------------------------------------
(***************************************************************************)
(* processNextWorkItem and syncMXJob.                                      *)
(***************************************************************************)
At(w, pc) == worker[w].pc = pc

Step(w, pc, result) == worker' = [worker EXCEPT ![w].pc = pc, ![w].result = result]

(* Get. *)
Get(w) ==
  /\ At(w, "idle") /\ queue # <<>>
  /\ LET k == queue[1]
     IN /\ queue' = Tail(queue)
        /\ processing' = processing \union {k}
        /\ dirty' = dirty \ {k}
        /\ worker' = [worker EXCEPT ![w] = [@ EXCEPT !.pc = "lookup", !.key = k]]
  /\ UNCHANGED <<clusterVars, informerVars, waiting, failures, jobs, leading, boundVars>>

(* The queue is shut down and empty: the worker ends. *)
Quit(w) ==
  /\ At(w, "idle") /\ ShuttingDown /\ queue = <<>>
  /\ worker' = [worker EXCEPT ![w] = Off]
  /\ UNCHANGED <<clusterVars, informerVars, queueVars, jobs, leading, boundVars>>

(* Variant of NeedsNewJob: the UIDs are not compared. *)
NeedsFirstJob(k) == jobs[k] = 0

(* There is no TrainingJob, or one of another UID. *)
NeedsNewJob(k) == jobs[k] = 0 \/ jobs[k] # cache[k]

(* The lister, the jobs map and NewJob. *)
Lookup(w) ==
  LET k == worker[w].key
  IN /\ At(w, "lookup")
     /\ \/ /\ cache[k] = 0
           /\ Step(w, "finish", "forget")
           /\ UNCHANGED jobs
        \/ /\ cache[k] # 0
           /\ jobs' = IF NeedsNewJob(k) THEN [jobs EXCEPT ![k] = cache[k]] ELSE jobs
           /\ Step(w, "reconcile", "none")
     /\ UNCHANGED <<clusterVars, informerVars, queueVars, leading, boundVars>>

(* Reconcile returns. *)
Reconcile(w) ==
  /\ At(w, "reconcile")
  /\ Step(w, "recheck", "none") \/ Step(w, "finish", "retry")
  /\ UNCHANGED <<clusterVars, informerVars, queueVars, jobs, leading, boundVars>>

(* The job is read from the API server: it is gone, or the request fails;  *)
(* or its phase is CleanUp; or another.                                    *)
Recheck(w) ==
  /\ At(w, "recheck")
  /\ \/ Step(w, "finish", "retry")
     \/ store[worker[w].key] # 0 /\ Step(w, "finish", "forget")
     \/ store[worker[w].key] # 0 /\ Step(w, "finish", "leave")
  /\ UNCHANGED <<clusterVars, informerVars, queueVars, jobs, leading, boundVars>>

Forget(k) == failures' = [failures EXCEPT ![k] = 0] /\ UNCHANGED waiting

(* What processNextWorkItem makes of the result. *)
Finish(w) ==
  LET k == worker[w].key
  IN /\ At(w, "finish")
     /\ CASE worker[w].result = "forget" -> Forget(k)
          [] worker[w].result = "retry"  -> AddRateLimited(k)
          [] OTHER                       -> UNCHANGED <<failures, waiting>>
     /\ Step(w, "done", "none")
     /\ UNCHANGED <<clusterVars, informerVars, queue, dirty, processing, jobs, leading, boundVars>>

(* Variant of Done: a key that was added meanwhile is not queued again. *)
DoneForGood(w) ==
  LET k == worker[w].key
  IN /\ At(w, "done")
     /\ processing' = processing \ {k} /\ dirty' = dirty \ {k}
     /\ worker' = [worker EXCEPT ![w] = Idle]
     /\ UNCHANGED <<clusterVars, informerVars, waiting, queue, failures, jobs, leading, boundVars>>

(* The deferred Done: the key is queued again if it was added meanwhile.   *)
Done(w) ==
  LET k == worker[w].key
  IN /\ At(w, "done")
     /\ processing' = processing \ {k}
     /\ queue' = IF k \in dirty THEN Append(queue, k) ELSE queue
     /\ worker' = [worker EXCEPT ![w] = Idle]
     /\ UNCHANGED <<clusterVars, informerVars, waiting, dirty, failures, jobs, leading, boundVars>>

Work(w) == \/ Get(w) \/ Quit(w) \/ Lookup(w) \/ Reconcile(w) \/ Recheck(w)
           \/ Finish(w) \/ Done(w)

-----------------------------------------------------------------------------
Next ==
  \/ New \/ FactoryStart \/ Lead \/ StartWorkers \/ StopLeading \/ Exit \/ Relist
  \/ \E k \in Keys : \/ CreateJob(k) \/ DeleteJob(k)
                     \/ HandleDelta(k) \/ Resync(k) \/ enqueueController(k) \/ AddReady(k)
  \/ \E w \in Workers : Work(w)

Spec == Init /\ [][Next]_vars

(***************************************************************************)
(* Fairness.  The goroutines of the process run: start-up, the informer,   *)
(* its handlers, the waiting loop, the workers; the election is won some   *)
(* day; a process that lost the lease ends.  Resyncs are not needed.       *)
(***************************************************************************)
Fairness ==
  /\ WF_vars(New) /\ WF_vars(FactoryStart) /\ WF_vars(Lead) /\ WF_vars(StartWorkers)
  /\ WF_vars(leading = "stopping" /\ Exit)
  /\ \A k \in Keys : WF_vars(HandleDelta(k)) /\ WF_vars(enqueueController(k)) /\ WF_vars(AddReady(k))
  /\ \A w \in Workers : WF_vars(Work(w))

FairSpec == Spec /\ Fairness

-----------------------------------------------------------------------------
(***************************************************************************)
(* Properties.                                                             *)
(***************************************************************************)
TypeOK ==
  /\ store \in [Keys -> Uids \union {0}] /\ created \in 0..MaxUid
  /\ deltas \in [Keys -> Seq(Deltas)] /\ informer \in {"none", "registered", "running"}
  /\ initial \subseteq Keys /\ cache \in [Keys -> Uids \union {0}] /\ notices \subseteq Keys
  /\ waiting \subseteq Keys /\ queue \in Seq(Keys) /\ dirty \subseteq Keys
  /\ processing \subseteq Keys /\ failures \in [Keys -> 0..MaxFailures]
  /\ jobs \in [Keys -> Uids \union {0}]
  /\ leading \in {"no", "starting", "working", "stopping"}
  /\ worker \in [Workers -> WorkerStates]
  /\ stops \in 0..MaxStops /\ relists \in 0..MaxRelists

Queued == {queue[i] : i \in 1..Len(queue)}

Busy == {w \in Workers : worker[w].key # NoKey}

(* The comment on WorkQueue: no two workers are in processNextWorkItem     *)
(* with one key.  The queue's three views of a key agree: a key in the     *)
(* order is dirty, is there once and is not processed; a dirty key that is *)
(* not in the order is being processed; processing is what workers hold.   *)
QueueOK ==
  /\ \A i, j \in 1..Len(queue) : queue[i] = queue[j] => i = j
  /\ Queued = dirty \ processing
  /\ processing = {worker[w].key : w \in Busy}
  /\ \A v, w \in Busy : worker[v].key = worker[w].key => v = w

(* A worker will look the key up after now. *)
ToBeLookedUp(k) ==
  \/ k \in notices \union waiting \union dirty
  \/ \E w \in Workers : At(w, "lookup") /\ worker[w].key = k

(* While the process leads, a job of the informer's cache for which c.jobs *)
(* has no TrainingJob, or one of an earlier incarnation, is on its way to  *)
(* syncMXJob: no step of handlers, rate limiter, queue and workers, in any *)
(* order, loses the change.                                                *)
NoChangeUnseen ==
  leading # "stopping" =>
    \A k \in Keys : cache[k] # 0 /\ jobs[k] # cache[k] => ToBeLookedUp(k)

(* Within a process, neither the lister nor c.jobs goes back from a job to *)
(* an earlier one of the same name, whatever the watch loses.              *)
Later(f) == \A k \in Keys : f[k] # 0 /\ f'[k] # 0 => f[k] <= f'[k]

IncarnationsAdvance == [][stops' = stops => Later(cache) /\ Later(jobs)]_vars

(* The work queue with its rate limiter, its delaying queue and the three  *)
(* views of a key keeps what KeyedWork promises.                           *)
Promise == INSTANCE KeyedWork WITH
  open <- leading # "stopping",
  wanted <- waiting \union dirty,
  taken <- [w \in Workers |-> worker[w].key]

FollowsKeyedWork == Promise!Spec

(* A list that came while a delete of the key was still to be handled has  *)
(* been ignored for the key: the job is stored and the cache will not know.*)
Overlooked(k) == /\ relists > 0
                 /\ store[k] # 0 /\ Expected(k, deltas[k]) = 0

(* The comment in syncMXJob: a job that was deleted and created again gets *)
(* a TrainingJob of its own, which its worker goes on to reconcile.  Every *)
(* stored job gets one, in each process that leads long enough, unless it  *)
(* is deleted before or a list overlooked it.                              *)
EveryJobIsTakenUp ==
  \A k \in Keys, u \in Uids :
    store[k] = u ~> store[k] # u \/ jobs[k] = u \/ Overlooked(k)

(* enqueueController says that its object may be the marker of a delete    *)
(* that the watch missed: so that every deleted job comes to syncMXJob,    *)
(* which has the rate limiter forget it.                                   *)
DeletedJobIsForgotten ==
  \A k \in Keys : store[k] = 0 ~> failures[k] = 0 \/ store[k] # 0
=============================================================================
