-------------------------- MODULE Controller_proofs --------------------------
(***************************************************************************)
(* Proofs about Controller, for all keys, workers and bounds: the queue    *)
(* never gives one key to two workers, no change of the informer's cache   *)
(* is lost on its way to a worker, nobody goes back to an earlier job of a *)
(* name, and the queue with its rate limiter is what KeyedWork says.       *)
(*                                                                         *)
(* The argument.  A worker has a key from Get to Done, and only then; the  *)
(* three views of the queue and the keys of the workers are one invariant, *)
(* which the order of Get's and Done's assignments keeps.  A key leaves    *)
(* the notices for the delaying queue, that for dirty, and dirty for a     *)
(* worker that has yet to look it up: NoChangeUnseen is inductive.         *)
(***************************************************************************)
EXTENDS Controller, SequenceTheorems, TLAPS

(* A worker has a key while it processes an item; before the process works *)
(* there are no workers.                                                   *)
WorkerInv ==
  /\ \A w \in Workers : worker[w].key = NoKey <=> worker[w].pc \in {"off", "idle"}
  /\ leading \in {"no", "starting"} => \A w \in Workers : worker[w] = Off

IInv == TypeOK /\ WorkerInv /\ QueueOK

-----------------------------------------------------------------------------
(* Facts about the data. *)
LEMMA DeltaFacts ==
  /\ \A u \in Uids : Set(u) \in Deltas
  /\ Deleted \in Deltas /\ Tombstone \in Deltas
  /\ \A d \in Deltas : d.uid \in Uids \union {0} /\ (d.uid = 0 <=> d.type # "set")
BY BoundsAssumption DEF Deltas, Uids, Set, Deleted, Tombstone

LEMMA WorkerFacts == Idle \in WorkerStates /\ Off \in WorkerStates
BY DEF Idle, Off, WorkerStates, Steps, Results

(* What a list leaves of the deltas are deltas. *)
LEMMA ReplacedType ==
  ASSUME TypeOK, NEW k \in Keys, NEW n \in 0 .. Len(deltas[k])
  PROVE  Replaced(k, SubSeq(deltas[k], 1, n)) \in Seq(Deltas)
<1>1. deltas[k] \in Seq(Deltas) /\ store[k] \in Uids \union {0}
  BY DEF TypeOK
<1>2. Len(deltas[k]) \in Nat /\ \A i \in 1 .. n : deltas[k][i] \in Deltas
  BY <1>1, ElementOfSeq, LenProperties
<1>3. SubSeq(deltas[k], 1, n) \in Seq(Deltas)
  BY <1>2, SubSeqProperties
<1> QED
  BY <1>1, <1>3, DeltaFacts, AppendProperties DEF Replaced

-----------------------------------------------------------------------------
(* Initially everything is empty. *)
LEMMA InitInv == Init => IInv
<1> SUFFICES ASSUME Init PROVE IInv
  OBVIOUS
<1>1. TypeOK
  BY BoundsAssumption, WorkerFacts, EmptySeq DEF Init, TypeOK
<1>2. WorkerInv
  BY DEF Init, WorkerInv, Off, Idle
<1>3. QueueOK
  BY DEF Init, QueueOK, Queued, Busy, Off, Idle
<1> QED
  BY <1>1, <1>2, <1>3 DEF IInv

(* The steps outside of the work queue. *)
LEMMA TypeOutside ==
  ASSUME TypeOK,
         \/ New \/ FactoryStart \/ Lead \/ StartWorkers \/ StopLeading \/ Exit \/ Relist
         \/ \E k \in Keys : CreateJob(k) \/ DeleteJob(k) \/ HandleDelta(k) \/ Resync(k)
  PROVE  TypeOK'
<1> USE BoundsAssumption DEF clusterVars, informerVars, queueVars, processVars, boundVars
<1>1. CASE New \/ Lead \/ StopLeading
  BY <1>1 DEF TypeOK, New, Lead, StopLeading
<1>2. CASE FactoryStart
  <2>1. ASSUME NEW k \in Keys PROVE FirstList(k) \in Seq(Deltas)
    <3>1. CASE store[k] = 0
      BY <3>1, EmptySeq DEF FirstList
    <3>2. CASE store[k] # 0
      <4>1. Set(store[k]) \in Deltas
        BY <2>1, <3>2, DeltaFacts DEF TypeOK
      <4> QED
        BY <3>2, <4>1 DEF FirstList
    <3> QED
      BY <3>1, <3>2
  <2> QED
    BY <1>2, <2>1 DEF TypeOK, FactoryStart
<1>3. CASE StartWorkers
  BY <1>3, WorkerFacts DEF TypeOK, StartWorkers
<1>4. CASE Exit
  BY <1>4, WorkerFacts, EmptySeq DEF TypeOK, Exit
<1>5. CASE Relist
  <2>1. PICK n : /\ \A k \in Keys : n[k] \in Nat /\ n[k] <= Len(deltas[k])
                 /\ deltas' = [k \in Keys |-> Replaced(k, SubSeq(deltas[k], 1, n[k]))]
    <3> DEFINE lengths == UNION {0..Len(deltas[k]) : k \in Keys}
    <3>1. lengths \subseteq Nat
      BY LenProperties DEF TypeOK
    <3>2. PICK n \in [Keys -> lengths] :
            /\ \A k \in Keys : n[k] <= Len(deltas[k]) /\ (k \in initial => n[k] > 0)
            /\ deltas' = [k \in Keys |-> Replaced(k, SubSeq(deltas[k], 1, n[k]))]
      BY <1>5 DEF Relist
    <3>3. \A k \in Keys : n[k] \in Nat
      BY <3>1, <3>2
    <3> QED
      BY <3>2, <3>3
  <2>2. \A k \in Keys : n[k] \in 0 .. Len(deltas[k])
    BY <2>1, LenProperties DEF TypeOK
  <2>3. \A k \in Keys : Replaced(k, SubSeq(deltas[k], 1, n[k])) \in Seq(Deltas)
    BY <2>2, ReplacedType
  <2>4. deltas' \in [Keys -> Seq(Deltas)]
    BY <2>1, <2>3
  <2>5. /\ relists' = relists + 1 /\ relists < MaxRelists
        /\ UNCHANGED <<clusterVars, informer, initial, cache, notices, queueVars, processVars, stops>>
    BY <1>5 DEF Relist
  <2> QED
    BY <2>4, <2>5 DEF TypeOK
<1>6. ASSUME NEW k \in Keys, CreateJob(k) PROVE TypeOK'
  <2>1. created + 1 \in Uids /\ Set(created + 1) \in Deltas
    BY <1>6, DeltaFacts DEF TypeOK, CreateJob, Uids
  <2>2. deltas' \in [Keys -> Seq(Deltas)]
    BY <1>6, <2>1, AppendProperties DEF TypeOK, CreateJob, Watched
  <2>3. created' \in 0..MaxUid /\ store' \in [Keys -> Uids \union {0}]
    BY <1>6, <2>1 DEF TypeOK, CreateJob
  <2> QED
    BY <1>6, <2>2, <2>3 DEF TypeOK, CreateJob
<1>7. ASSUME NEW k \in Keys, DeleteJob(k) PROVE TypeOK'
  <2>1. deltas' \in [Keys -> Seq(Deltas)]
    BY <1>7, DeltaFacts, AppendProperties DEF TypeOK, DeleteJob, Watched
  <2> QED
    BY <1>7, <2>1 DEF TypeOK, DeleteJob
<1>8. ASSUME NEW k \in Keys, HandleDelta(k) PROVE TypeOK'
  <2>1. deltas[k] \in Seq(Deltas) /\ deltas[k] # <<>>
    BY <1>8 DEF TypeOK, HandleDelta
  <2>2. deltas[k][1] \in Deltas /\ Tail(deltas[k]) \in Seq(Deltas)
    BY <2>1, EmptySeq, ElementOfSeq, HeadTailProperties
  <2> QED
    BY <1>8, <2>1, <2>2, DeltaFacts DEF TypeOK, HandleDelta
<1>9. ASSUME NEW k \in Keys, Resync(k) PROVE TypeOK'
  BY <1>9 DEF TypeOK, Resync
<1> QED
  BY <1>1, <1>2, <1>3, <1>4, <1>5, <1>6, <1>7, <1>8, <1>9

(* A worker that is past Get has a key of Keys. *)
LEMMA HasKey ==
  ASSUME TypeOK, WorkerInv, NEW w \in Workers, ~ At(w, "off"), ~ At(w, "idle")
  PROVE  worker[w].key \in Keys /\ worker[w].key # NoKey
BY DEF TypeOK, WorkerInv, WorkerStates, At

(* The steps of a worker within its record keep the record's type. *)
LEMMA StepType ==
  ASSUME TypeOK, NEW w \in Workers, NEW pc \in Steps, NEW result \in Results, Step(w, pc, result)
  PROVE  worker' \in [Workers -> WorkerStates]
BY DEF TypeOK, Step, WorkerStates

(* The steps of the work queue and of the workers. *)
LEMMA TypeQueue ==
  ASSUME TypeOK, WorkerInv,
         \/ \E k \in Keys : enqueueController(k) \/ AddReady(k)
         \/ \E w \in Workers : Work(w)
  PROVE  TypeOK'
<1> USE BoundsAssumption DEF clusterVars, informerVars, queueVars, processVars, boundVars
<1>1. ASSUME NEW k \in Keys, AddRateLimited(k)
      PROVE  waiting' \subseteq Keys /\ failures' \in [Keys -> 0..MaxFailures]
  BY <1>1 DEF TypeOK, AddRateLimited, When
<1>2. ASSUME NEW k \in Keys, enqueueController(k) PROVE TypeOK'
  BY <1>1, <1>2 DEF TypeOK, enqueueController
<1>3. ASSUME NEW k \in Keys, AddReady(k) PROVE TypeOK'
  <2>1. queue \in Seq(Keys) /\ Append(queue, k) \in Seq(Keys) /\ dirty \subseteq Keys
    BY AppendProperties DEF TypeOK
  <2>2. queue' \in {queue, Append(queue, k)} /\ dirty' \in {dirty, dirty \union {k}}
    BY <1>3 DEF AddReady, Add
  <2> QED
    BY <1>3, <2>1, <2>2 DEF TypeOK, AddReady
<1>4. ASSUME NEW w \in Workers, Get(w) PROVE TypeOK'
  <2>1. queue[1] \in Keys /\ Tail(queue) \in Seq(Keys)
    BY <1>4, EmptySeq, ElementOfSeq, HeadTailProperties DEF TypeOK, Get
  <2>2. worker' \in [Workers -> WorkerStates]
    BY <1>4, <2>1 DEF TypeOK, Get, WorkerStates, Steps
  <2> QED
    BY <1>4, <2>1, <2>2 DEF TypeOK, Get
<1>5. ASSUME NEW w \in Workers, Quit(w) PROVE TypeOK'
  BY <1>5, WorkerFacts DEF TypeOK, Quit
<1>6. ASSUME NEW w \in Workers, Lookup(w) PROVE TypeOK'
  <2>1. worker[w].key \in Keys
    BY <1>6, HasKey DEF Lookup, At
  <2>2. jobs' \in [Keys -> Uids \union {0}]
    BY <1>6, <2>1 DEF TypeOK, Lookup
  <2>3. worker' \in [Workers -> WorkerStates]
    BY <1>6, StepType DEF Lookup, Steps, Results
  <2> QED
    BY <1>6, <2>2, <2>3 DEF TypeOK, Lookup
<1>7. ASSUME NEW w \in Workers, Reconcile(w) PROVE TypeOK'
  <2>1. worker' \in [Workers -> WorkerStates]
    BY <1>7, StepType DEF Reconcile, Steps, Results
  <2> QED
    BY <1>7, <2>1 DEF TypeOK, Reconcile
<1>8. ASSUME NEW w \in Workers, Recheck(w) PROVE TypeOK'
  <2>1. worker' \in [Workers -> WorkerStates]
    BY <1>8, StepType DEF Recheck, Steps, Results
  <2> QED
    BY <1>8, <2>1 DEF TypeOK, Recheck
<1>9. ASSUME NEW w \in Workers, Finish(w) PROVE TypeOK'
  <2>1. worker[w].key \in Keys
    BY <1>9, HasKey DEF Finish, At
  <2>2. worker' \in [Workers -> WorkerStates]
    BY <1>9, StepType DEF Finish, Steps, Results
  <2>3. \/ AddRateLimited(worker[w].key)
        \/ Forget(worker[w].key)
        \/ UNCHANGED <<failures, waiting>>
    BY <1>9 DEF Finish
  <2>4. waiting' \subseteq Keys /\ failures' \in [Keys -> 0..MaxFailures]
    <3>1. CASE AddRateLimited(worker[w].key)
      BY <1>1, <2>1, <3>1
    <3>2. CASE Forget(worker[w].key)
      <4>1. failures \in [Keys -> 0..MaxFailures] /\ 0 \in 0..MaxFailures /\ waiting \subseteq Keys
        BY DEF TypeOK
      <4> QED
        BY <3>2, <4>1 DEF Forget
    <3>3. CASE UNCHANGED <<failures, waiting>>
      BY <3>3 DEF TypeOK
    <3> QED
      BY <2>3, <3>1, <3>2, <3>3
  <2> QED
    BY <1>9, <2>2, <2>4 DEF TypeOK, Finish
<1>10. ASSUME NEW w \in Workers, Done(w) PROVE TypeOK'
  <2>1. worker[w].key \in Keys
    BY <1>10, HasKey DEF Done, At
  <2>2. queue' \in Seq(Keys)
    BY <1>10, <2>1, AppendProperties DEF TypeOK, Done
  <2> QED
    BY <1>10, <2>2, WorkerFacts DEF TypeOK, Done
<1> QED
  BY <1>2, <1>3, <1>4, <1>5, <1>6, <1>7, <1>8, <1>9, <1>10 DEF Work

(* Workers have keys from Get to Done, and exist while the process works. *)
LEMMA WorkerStep ==
  ASSUME TypeOK, WorkerInv, [Next]_vars
  PROVE  WorkerInv'
<1> USE DEF clusterVars, informerVars, queueVars, processVars, boundVars
<1>1. CASE UNCHANGED <<worker, leading>>
  BY <1>1 DEF WorkerInv
<1>2. CASE Lead \/ StopLeading
  BY <1>2 DEF WorkerInv, Lead, StopLeading
<1>3. CASE StartWorkers \/ Exit
  <2>1. \/ leading' = "working" /\ worker' = [w \in Workers |-> Idle]
        \/ worker' = [w \in Workers |-> Off]
    BY <1>3 DEF StartWorkers, Exit
  <2>2. Idle.key = NoKey /\ Idle.pc = "idle" /\ Off.key = NoKey /\ Off.pc = "off"
    BY DEF Idle, Off
  <2> QED
    BY <2>1, <2>2 DEF WorkerInv
<1>4. ASSUME NEW w \in Workers, Work(w) PROVE WorkerInv'
  <2>1. worker[w] # Off /\ leading \notin {"no", "starting"} /\ leading' = leading
    BY <1>4 DEF WorkerInv, Work, Get, Quit, Lookup, Reconcile, Recheck, Finish, Done, At, Off, Idle
  <2>2. \A v \in Workers \ {w} : worker'[v] = worker[v]
    BY <1>4 DEF TypeOK, Work, Get, Quit, Lookup, Reconcile, Recheck, Finish, Done, Step
  <2>3. worker'[w].key = NoKey <=> worker'[w].pc \in {"off", "idle"}
    <3>1. CASE Get(w)
      <4>1. queue[1] \in Keys
        BY <3>1, EmptySeq, ElementOfSeq DEF TypeOK, Get
      <4> QED
        BY <3>1, <4>1, KeysAssumption DEF TypeOK, Get, WorkerStates
    <3>2. CASE Quit(w) \/ Done(w)
      BY <3>2 DEF TypeOK, Quit, Done, Off, Idle
    <3>3. CASE Lookup(w) \/ Reconcile(w) \/ Recheck(w) \/ Finish(w)
      <4>1. worker[w].key # NoKey
        BY <3>3, HasKey DEF Lookup, Reconcile, Recheck, Finish, At
      <4> QED
        BY <3>3, <4>1 DEF TypeOK, WorkerStates, Lookup, Reconcile, Recheck, Finish, Step
    <3> QED
      BY <1>4, <3>1, <3>2, <3>3 DEF Work
  <2> QED
    BY <2>1, <2>2, <2>3 DEF WorkerInv
<1>5. CASE UNCHANGED vars
  BY <1>1, <1>5 DEF vars
<1>6. CASE New \/ FactoryStart \/ Relist
  BY <1>1, <1>6 DEF New, FactoryStart, Relist
<1>7. ASSUME NEW k \in Keys,
             \/ CreateJob(k) \/ DeleteJob(k) \/ HandleDelta(k) \/ Resync(k)
             \/ enqueueController(k) \/ AddReady(k)
      PROVE  WorkerInv'
  BY <1>1, <1>7 DEF CreateJob, DeleteJob, HandleDelta, Resync, enqueueController, AddReady
<1> QED
  BY <1>2, <1>3, <1>4, <1>5, <1>6, <1>7 DEF Next

-----------------------------------------------------------------------------
(***************************************************************************)
(* QueueOK.  What it says of the queue is about the elements of a sequence *)
(* without duplicates, which Append and Tail change by one.                *)
(***************************************************************************)
Elements(q) == {q[i] : i \in 1..Len(q)}

Distinct(q) == \A i, j \in 1..Len(q) : q[i] = q[j] => i = j

LEMMA AppendElements ==
  ASSUME NEW q \in Seq(Keys), NEW k \in Keys
  PROVE  /\ Elements(Append(q, k)) = Elements(q) \union {k}
         /\ Distinct(q) /\ k \notin Elements(q) => Distinct(Append(q, k))
<1> DEFINE r == Append(q, k)
<1>1. /\ Len(q) \in Nat /\ Len(r) = Len(q) + 1 /\ r[Len(q) + 1] = k
      /\ \A i \in 1..Len(q) : r[i] = q[i]
  BY AppendProperties, LenProperties
<1> HIDE DEF r
<1>2. Elements(r) = Elements(q) \union {k}
  BY <1>1 DEF Elements
<1>3. ASSUME Distinct(q), k \notin Elements(q), NEW i \in 1..Len(r), NEW j \in 1..Len(r), r[i] = r[j]
      PROVE  i = j
  <2>1. CASE i = Len(q) + 1 \/ j = Len(q) + 1
    BY <1>1, <1>3, <2>1 DEF Elements
  <2>2. CASE i \in 1..Len(q) /\ j \in 1..Len(q)
    BY <1>1, <1>3, <2>2 DEF Distinct
  <2> QED
    BY <1>1, <2>1, <2>2
<1> QED
  BY <1>2, <1>3 DEF Distinct, r

LEMMA TailElements ==
  ASSUME NEW q \in Seq(Keys), q # <<>>, Distinct(q)
  PROVE  /\ q[1] \in Elements(q)
         /\ Elements(Tail(q)) = Elements(q) \ {q[1]}
         /\ Distinct(Tail(q))
<1> DEFINE r == Tail(q)
<1>1. /\ Len(q) \in Nat \ {0} /\ Len(r) = Len(q) - 1
      /\ \A i \in 1..Len(r) : r[i] = q[i + 1]
  BY HeadTailProperties, LenProperties, EmptySeq
<1> HIDE DEF r
<1>2. q[1] \in Elements(q)
  BY <1>1 DEF Elements
<1>3. Distinct(r)
  BY <1>1 DEF Distinct
<1>4. Elements(r) \subseteq Elements(q) \ {q[1]}
  BY <1>1 DEF Elements, Distinct
<1>5. ASSUME NEW x \in Elements(q) \ {q[1]} PROVE x \in Elements(r)
  <2>1. PICK i \in 1..Len(q) : x = q[i]
    BY <1>5 DEF Elements
  <2>2. i - 1 \in 1..Len(r) /\ x = r[i - 1]
    BY <1>1, <1>5, <2>1
  <2> QED
    BY <2>2 DEF Elements
<1> QED
  BY <1>2, <1>3, <1>4, <1>5 DEF r

(* The keys that workers hold are those of processing, each once. *)
Holding ==
  /\ processing = {worker[w].key : w \in Busy}
  /\ \A v, w \in Busy : worker[v].key = worker[w].key => v = w

LEMMA QueueParts ==
  QueueOK <=> /\ Distinct(queue)
              /\ Elements(queue) = dirty \ processing
              /\ Holding
BY DEF QueueOK, Queued, Distinct, Elements, Holding

(* Steps that neither queue a key nor give one to a worker. *)
SameKeys == \A w \in Workers : worker'[w].key = worker[w].key

LEMMA HoldingKept ==
  ASSUME Holding, SameKeys, processing' = processing
  PROVE  Holding'
<1>1. Busy' = Busy
  BY DEF SameKeys, Busy
<1>2. \A w \in Busy : worker'[w].key = worker[w].key
  BY DEF SameKeys, Busy
<1> QED
  BY <1>1, <1>2 DEF Holding

LEMMA QueueKept ==
  ASSUME QueueOK, SameKeys, UNCHANGED <<queue, dirty, processing>>
  PROVE  QueueOK'
<1>1. Holding'
  BY QueueParts, HoldingKept
<1>2. /\ Queued' = dirty' \ processing'
      /\ \A i, j \in 1..Len(queue') : queue'[i] = queue'[j] => i = j
  BY DEF QueueOK, Queued
<1> QED
  BY <1>1, <1>2 DEF QueueOK, Holding

(* Steps within an item leave the keys of the workers. *)
LEMMA StepKeys ==
  ASSUME TypeOK, NEW w \in Workers, NEW pc, NEW result, Step(w, pc, result)
  PROVE  SameKeys
BY DEF TypeOK, WorkerStates, Step, SameKeys

(* The queue's invariant is kept: by what leaves the queue alone, by a     *)
(* ready key, by Get, by Done, and by the end of the process.              *)
LEMMA QueueStep ==
  ASSUME TypeOK, WorkerInv, QueueOK, [Next]_vars
  PROVE  QueueOK'
<1> USE DEF clusterVars, informerVars, queueVars, processVars, boundVars
<1>1. /\ queue \in Seq(Keys) /\ Distinct(queue)
      /\ Elements(queue) = dirty \ processing /\ Holding
  BY QueueParts DEF TypeOK
<1>2. ASSUME UNCHANGED <<queue, dirty, processing>>, worker' = worker PROVE QueueOK'
  BY <1>2, QueueKept DEF SameKeys
<1>3. ASSUME Distinct(queue'), Elements(queue') = dirty' \ processing', Holding' PROVE QueueOK'
  BY <1>3 DEF QueueOK, Queued, Distinct, Elements, Holding
<1>4. CASE \/ New \/ FactoryStart \/ Lead \/ StopLeading \/ Relist
           \/ \E k \in Keys : \/ CreateJob(k) \/ DeleteJob(k) \/ HandleDelta(k)
                              \/ Resync(k) \/ enqueueController(k)
           \/ UNCHANGED vars
  BY <1>2, <1>4
  DEF New, FactoryStart, Lead, StopLeading, Relist, CreateJob, DeleteJob, HandleDelta, Resync,
      enqueueController, vars
<1>5. CASE StartWorkers
  <2>1. UNCHANGED <<queue, dirty, processing>>
    BY <1>5 DEF StartWorkers
  <2>2. \A w \in Workers : worker[w].key = NoKey /\ worker'[w].key = NoKey
    BY <1>5 DEF WorkerInv, StartWorkers, Idle, Off
  <2> QED
    BY <2>1, <2>2, QueueKept DEF SameKeys
<1>6. CASE Exit
  <2>1. queue' = <<>> /\ dirty' = {} /\ processing' = {} /\ worker' = [w \in Workers |-> Off]
    BY <1>6 DEF Exit
  <2>2. \A w \in Workers : worker'[w].key = NoKey
    BY <2>1 DEF Off, Idle
  <2>3. Holding'
    BY <2>1, <2>2 DEF Holding, Busy
  <2>4. Elements(queue') = {} /\ Distinct(queue')
    BY <2>1 DEF Elements, Distinct
  <2> QED
    BY <1>3, <2>1, <2>3, <2>4
<1>7. ASSUME NEW k \in Keys, AddReady(k) PROVE QueueOK'
  <2>1. processing' = processing /\ worker' = worker
    BY <1>7 DEF AddReady
  <2>2. Holding'
    BY <1>1, <2>1, HoldingKept DEF SameKeys
  <2>3. CASE UNCHANGED <<queue, dirty>>
    BY <1>2, <2>1, <2>3
  <2>4. CASE k \notin dirty /\ dirty' = dirty \union {k} /\ k \in processing /\ queue' = queue
    BY <1>1, <1>3, <2>1, <2>2, <2>4
  <2>5. CASE /\ k \notin dirty /\ dirty' = dirty \union {k}
             /\ k \notin processing /\ queue' = Append(queue, k)
    <3>1. k \notin Elements(queue)
      BY <1>1, <2>5
    <3>2. Elements(queue') = Elements(queue) \union {k} /\ Distinct(queue')
      BY <1>1, <2>5, <3>1, AppendElements
    <3> QED
      BY <1>1, <1>3, <2>1, <2>2, <2>5, <3>2
  <2> QED
    BY <1>7, <2>3, <2>4, <2>5 DEF AddReady, Add
<1>8. ASSUME NEW w \in Workers, Get(w) PROVE QueueOK'
  <2> DEFINE k == queue[1]
  <2>1. /\ queue # <<>> /\ queue' = Tail(queue)
        /\ processing' = processing \union {k} /\ dirty' = dirty \ {k}
        /\ worker' = [worker EXCEPT ![w] = [@ EXCEPT !.pc = "lookup", !.key = k]]
        /\ worker[w].key = NoKey
    BY <1>8 DEF Get, WorkerInv, At
  <2>2. /\ k \in Elements(queue) /\ Distinct(queue')
        /\ Elements(queue') = Elements(queue) \ {k}
    BY <1>1, <2>1, TailElements
  <2>3. k \in Keys /\ k \notin processing /\ k # NoKey
    BY <1>1, <2>2, KeysAssumption DEF TypeOK
  <2>4. Elements(queue') = dirty' \ processing'
    BY <1>1, <2>1, <2>2
  <2>5. /\ worker'[w].key = k
        /\ \A v \in Workers \ {w} : worker'[v] = worker[v]
    BY <2>1 DEF TypeOK, WorkerStates
  <2> HIDE DEF k
  <2>6. Busy' = Busy \union {w} /\ w \notin Busy
    BY <2>1, <2>3, <2>5 DEF Busy
  <2>7. Holding'
    <3>1. \A v \in Busy : worker'[v].key = worker[v].key /\ worker[v].key # k
      BY <1>1, <2>3, <2>5, <2>6 DEF Holding, Busy
    <3>2. processing' = {worker'[v].key : v \in Busy'}
      BY <1>1, <2>1, <2>5, <2>6, <3>1 DEF Holding
    <3>3. \A u, v \in Busy' : worker'[u].key = worker'[v].key => u = v
      BY <1>1, <2>5, <2>6, <3>1 DEF Holding
    <3> QED
      BY <3>2, <3>3 DEF Holding
  <2> QED
    BY <1>3, <2>2, <2>4, <2>7
<1>9. ASSUME NEW w \in Workers, Done(w) PROVE QueueOK'
  <2> DEFINE k == worker[w].key
  <2>1. /\ processing' = processing \ {k} /\ dirty' = dirty
        /\ queue' = IF k \in dirty THEN Append(queue, k) ELSE queue
        /\ worker' = [worker EXCEPT ![w] = Idle]
    BY <1>9 DEF Done
  <2>2. k \in Keys /\ k # NoKey
    BY <1>9, HasKey DEF Done, At
  <2>3. /\ worker'[w].key = NoKey
        /\ \A v \in Workers \ {w} : worker'[v] = worker[v]
    BY <2>1 DEF TypeOK, Idle
  <2>4. w \in Busy
    BY <2>2 DEF Busy
  <2>5. k \in processing
    BY <1>1, <2>4 DEF Holding
  <2>6. \A v \in Busy \ {w} : worker[v].key # k
    BY <1>1, <2>4 DEF Holding
  <2>7. k \notin Elements(queue)
    BY <1>1, <2>5
  <2>8. Elements(queue') = dirty' \ processing' /\ Distinct(queue')
    <3>1. CASE k \in dirty
      BY <1>1, <2>1, <2>2, <2>5, <2>7, <3>1, AppendElements
    <3>2. CASE k \notin dirty
      BY <1>1, <2>1, <3>2
    <3> QED
      BY <3>1, <3>2
  <2>9. Busy' = Busy \ {w}
    BY <2>3 DEF Busy
  <2>10. Holding'
    <3>1. \A v \in Busy' : worker'[v].key = worker[v].key
      BY <2>3, <2>9 DEF Busy
    <3>2. processing' = {worker'[v].key : v \in Busy'}
      BY <1>1, <2>1, <2>4, <2>6, <2>9, <3>1 DEF Holding
    <3> QED
      BY <1>1, <2>9, <3>1, <3>2 DEF Holding
  <2> QED
    BY <1>3, <2>8, <2>10
<1>10. ASSUME NEW w \in Workers, Quit(w) PROVE QueueOK'
  <2>1. worker[w].key = NoKey /\ worker' = [worker EXCEPT ![w] = Off]
    BY <1>10 DEF Quit, WorkerInv, At
  <2>2. SameKeys
    BY <2>1 DEF TypeOK, SameKeys, Off, Idle
  <2> QED
    BY <1>10, <2>2, QueueKept DEF Quit
<1>11. ASSUME NEW w \in Workers, Lookup(w) \/ Reconcile(w) \/ Recheck(w) \/ Finish(w) PROVE QueueOK'
  <2>1. SameKeys
    BY <1>11, StepKeys DEF Lookup, Reconcile, Recheck, Finish
  <2>2. UNCHANGED <<queue, dirty, processing>>
    BY <1>11 DEF Lookup, Reconcile, Recheck, Finish
  <2> QED
    BY <2>1, <2>2, QueueKept
<1> QED
  BY <1>4, <1>5, <1>6, <1>7, <1>8, <1>9, <1>10, <1>11 DEF Next, Work

-----------------------------------------------------------------------------
(* The invariant that the theorems rest on. *)
THEOREM Invariance == Spec => []IInv
<1>1. ASSUME IInv, [Next]_vars PROVE TypeOK'
  <2>1. CASE UNCHANGED vars
    BY <1>1, <2>1
    DEF IInv, TypeOK, vars, clusterVars, informerVars, queueVars, processVars, boundVars
  <2>2. CASE Next
    BY <1>1, <2>2, TypeOutside, TypeQueue DEF IInv, Next
  <2> QED
    BY <1>1, <2>1, <2>2
<1>2. IInv /\ [Next]_vars => IInv'
  BY <1>1, WorkerStep, QueueStep DEF IInv
<1> QED
  BY <1>2, InitInv, PTL DEF Spec

(* The property TypeOK. *)
THEOREM TypeCorrect == Spec => []TypeOK
<1>1. IInv => TypeOK
  BY DEF IInv
<1> QED
  BY <1>1, Invariance, PTL

(* The property QueueOK: the work queue's views of a key agree, and no key *)
(* is with two workers, for any number of keys and workers.                *)
THEOREM OneWorkerPerKey == Spec => []QueueOK
<1>1. IInv => QueueOK
  BY DEF IInv
<1> QED
  BY <1>1, Invariance, PTL

-----------------------------------------------------------------------------
(***************************************************************************)
(* NoChangeUnseen.                                                         *)
(***************************************************************************)
(* A key keeps its place, or has a TrainingJob of the cache's incarnation. *)
LEMMA SeenKept ==
  ASSUME IInv, NoChangeUnseen, [Next]_vars, leading' # "stopping",
         NEW k \in Keys, cache'[k] # 0, jobs'[k] # cache'[k]
  PROVE  ToBeLookedUp(k)'
<1> USE DEF clusterVars, informerVars, queueVars, processVars, boundVars
<1>1. TypeOK /\ WorkerInv
  BY DEF IInv
<1>2. ASSUME cache' = cache, jobs' = jobs, leading # "stopping" PROVE ToBeLookedUp(k)
  BY <1>2 DEF NoChangeUnseen
<1>3. ASSUME notices' = notices, waiting' = waiting, dirty' = dirty, worker' = worker
      PROVE  ToBeLookedUp(k)' <=> ToBeLookedUp(k)
  BY <1>3 DEF ToBeLookedUp, At
<1>4. CASE \/ New \/ FactoryStart \/ Lead \/ Relist
           \/ \E j \in Keys : CreateJob(j) \/ DeleteJob(j)
           \/ UNCHANGED vars
  BY <1>2, <1>3, <1>4 DEF New, FactoryStart, Lead, Relist, CreateJob, DeleteJob, vars
<1>5. CASE StopLeading
  BY <1>5 DEF StopLeading
<1>6. CASE Exit
  BY <1>6 DEF Exit
<1>7. CASE StartWorkers
  <2>1. \A w \in Workers : ~ At(w, "lookup")
    BY <1>1, <1>7 DEF WorkerInv, StartWorkers, At, Off, Idle
  <2> QED
    BY <1>2, <1>7, <2>1 DEF StartWorkers, ToBeLookedUp
<1>8. ASSUME NEW j \in Keys, HandleDelta(j) PROVE ToBeLookedUp(k)'
  <2> DEFINE d == deltas[j][1]
  <2>1. /\ deltas[j] \in Seq(Deltas) /\ deltas[j] # <<>>
        /\ cache' = [cache EXCEPT ![j] = d.uid]
        /\ notices' = IF Filtered(d) THEN notices ELSE notices \union {j}
        /\ UNCHANGED <<queueVars, processVars>>
    BY <1>1, <1>8 DEF TypeOK, HandleDelta
  <2>2. d \in Deltas
    BY <2>1, EmptySeq, ElementOfSeq
  <2> HIDE DEF d
  <2>3. CASE k = j
    <3>1. d.uid # 0
      BY <1>1, <2>1, <2>3 DEF TypeOK
    <3>2. ~ Filtered(d)
      BY <2>2, <3>1, DeltaFacts DEF Filtered
    <3> QED
      BY <2>1, <2>3, <3>2 DEF ToBeLookedUp
  <2>4. CASE k # j
    <3>1. cache'[k] = cache[k]
      BY <1>1, <2>1, <2>4 DEF TypeOK
    <3>2. ToBeLookedUp(k)
      BY <2>1, <3>1 DEF NoChangeUnseen
    <3> QED
      BY <2>1, <3>2 DEF ToBeLookedUp, At
  <2> QED
    BY <2>3, <2>4
<1>9. ASSUME NEW j \in Keys, Resync(j) \/ enqueueController(j) \/ AddReady(j) PROVE ToBeLookedUp(k)'
  <2>1. cache' = cache /\ jobs' = jobs /\ leading' = leading /\ worker' = worker
    BY <1>9 DEF Resync, enqueueController, AddReady
  <2>2. ToBeLookedUp(k)
    BY <1>2, <2>1
  <2>3. notices \union waiting \union dirty \subseteq notices' \union waiting' \union dirty'
    BY <1>9, <2>1 DEF Resync, enqueueController, AddReady, AddRateLimited, Add, ShuttingDown
  <2> QED
    BY <2>1, <2>2, <2>3 DEF ToBeLookedUp, At
<1>10. ASSUME NEW w \in Workers, Get(w) PROVE ToBeLookedUp(k)'
  <2>1. ToBeLookedUp(k)
    BY <1>2, <1>10 DEF Get
  <2>2. /\ worker'[w].pc = "lookup" /\ worker'[w].key = queue[1]
        /\ \A v \in Workers \ {w} : worker'[v] = worker[v]
        /\ dirty' = dirty \ {queue[1]}
        /\ notices' = notices /\ waiting' = waiting /\ At(w, "idle")
    BY <1>1, <1>10 DEF TypeOK, WorkerStates, Get
  <2> QED
    BY <2>1, <2>2 DEF ToBeLookedUp, At
<1>11. ASSUME NEW w \in Workers, Lookup(w) PROVE ToBeLookedUp(k)'
  <2>1. /\ notices' = notices /\ waiting' = waiting /\ dirty' = dirty
        /\ cache' = cache /\ leading' = leading
        /\ \A v \in Workers \ {w} : worker'[v] = worker[v]
    BY <1>1, <1>11 DEF TypeOK, Lookup, Step
  <2>2. worker[w].key \in Keys
    BY <1>1, <1>11, HasKey DEF Lookup, At
  <2>3. worker[w].key # k /\ jobs'[k] = jobs[k]
    BY <1>1, <1>11, <2>1, <2>2 DEF TypeOK, Lookup, NeedsNewJob
  <2>4. ToBeLookedUp(k)
    BY <2>1, <2>3 DEF NoChangeUnseen
  <2> QED
    BY <2>1, <2>3, <2>4 DEF ToBeLookedUp, At
<1>12. ASSUME NEW w \in Workers, Quit(w) \/ Reconcile(w) \/ Recheck(w) \/ Finish(w) \/ Done(w)
       PROVE  ToBeLookedUp(k)'
  <2>1. cache' = cache /\ jobs' = jobs /\ leading' = leading /\ notices' = notices /\ dirty' = dirty
    BY <1>12 DEF Quit, Reconcile, Recheck, Finish, Done
  <2>2. waiting \subseteq waiting'
    BY <1>12 DEF Quit, Reconcile, Recheck, Finish, Done, Forget, AddRateLimited
  <2>3. ~ At(w, "lookup") /\ \A v \in Workers \ {w} : worker'[v] = worker[v]
    BY <1>1, <1>12 DEF TypeOK, Quit, Reconcile, Recheck, Finish, Done, Step, At
  <2> QED
    BY <1>2, <2>1, <2>2, <2>3 DEF ToBeLookedUp, At
<1> QED
  BY <1>4, <1>5, <1>6, <1>7, <1>8, <1>9, <1>10, <1>11, <1>12 DEF Next, Work

(* The property NoChangeUnseen: whatever the order of handlers, delays,    *)
(* queue and workers, a job of the cache that has no TrainingJob of its    *)
(* own is on its way to syncMXJob.                                         *)
THEOREM ChangesAreSeen == Spec => []NoChangeUnseen
<1>1. Init => NoChangeUnseen
  BY DEF Init, NoChangeUnseen
<1>2. IInv /\ NoChangeUnseen /\ [Next]_vars => NoChangeUnseen'
  BY SeenKept DEF NoChangeUnseen
<1> QED
  BY <1>1, <1>2, Invariance, PTL DEF Spec

-----------------------------------------------------------------------------
(***************************************************************************)
(* IncarnationsAdvance.  For each key, UIDs only grow from c.jobs over the *)
(* cache and the deltas to the stored job, deletes aside.                  *)
(***************************************************************************)
(* s, c, j, ds are the store, the cache, c.jobs and the deltas of a key; n *)
(* is the number of jobs created.                                          *)
Ascending(s, c, j, ds, n) ==
  /\ s <= n /\ c <= n /\ j <= n
  /\ \A i \in 1..Len(ds) : ds[i].uid <= n
  /\ c # 0 => j <= c
  /\ \A i \in 1..Len(ds) : ds[i].uid # 0 => c <= ds[i].uid /\ j <= ds[i].uid
  /\ \A i, l \in 1..Len(ds) : i < l /\ ds[l].uid # 0 => ds[i].uid <= ds[l].uid
  /\ s # 0 => c <= s /\ j <= s /\ \A i \in 1..Len(ds) : ds[i].uid <= s

AscendingInv == \A k \in Keys : Ascending(store[k], cache[k], jobs[k], deltas[k], created)

(* The deltas of a key, and the UIDs, are of their types. *)
LEMMA KeyTypes ==
  ASSUME TypeOK, NEW k \in Keys
  PROVE  /\ store[k] \in Nat /\ cache[k] \in Nat /\ jobs[k] \in Nat /\ created \in Nat
         /\ deltas[k] \in Seq(Deltas) /\ Len(deltas[k]) \in Nat
         /\ \A i \in 1..Len(deltas[k]) : deltas[k][i].uid \in Nat
<1>1. deltas[k] \in Seq(Deltas) /\ Len(deltas[k]) \in Nat
  BY LenProperties DEF TypeOK
<1>2. \A i \in 1..Len(deltas[k]) : deltas[k][i] \in Deltas
  BY <1>1, ElementOfSeq
<1> QED
  BY <1>1, <1>2, DeltaFacts, BoundsAssumption DEF TypeOK, Uids

(* A prefix of the deltas ascends. *)
LEMMA PrefixAscends ==
  ASSUME NEW s, NEW c, NEW j, NEW n, NEW ds \in Seq(Deltas), NEW l \in 0..Len(ds),
         Ascending(s, c, j, ds, n)
  PROVE  /\ SubSeq(ds, 1, l) \in Seq(Deltas)
         /\ Ascending(s, c, j, SubSeq(ds, 1, l), n)
<1> DEFINE r == SubSeq(ds, 1, l)
<1>1. Len(ds) \in Nat /\ \A i \in 1..l : ds[i] \in Deltas
  BY ElementOfSeq, LenProperties
<1>2. r \in Seq(Deltas) /\ Len(r) = l /\ \A i \in 1..l : r[i] = ds[i]
  BY <1>1, SubSeqProperties
<1> HIDE DEF r
<1>3. 1..l \subseteq 1..Len(ds)
  BY <1>1
<1>4. Ascending(s, c, j, r, n)
  BY <1>2, <1>3 DEF Ascending
<1> QED
  BY <1>2, <1>4 DEF r

(* So do the deltas with a delete, or the stored object, behind them. *)
LEMMA AppendAscends ==
  ASSUME NEW s \in Nat, NEW c \in Nat, NEW j \in Nat, NEW n \in Nat,
         NEW ds \in Seq(Deltas), NEW d \in Deltas,
         Ascending(s, c, j, ds, n),
         d.uid = 0 \/ (s # 0 /\ d.uid = s)
  PROVE  Ascending(s, c, j, Append(ds, d), n)
<1> DEFINE r == Append(ds, d)
<1>1. /\ Len(ds) \in Nat /\ Len(r) = Len(ds) + 1 /\ r[Len(ds) + 1] = d
      /\ \A i \in 1..Len(ds) : r[i] = ds[i]
  BY AppendProperties, LenProperties
<1> HIDE DEF r
<1>2. \A i \in 1..Len(r) : (i \in 1..Len(ds) /\ r[i] = ds[i]) \/ (i = Len(ds) + 1 /\ r[i] = d)
  BY <1>1
<1>3. \A i \in 1..Len(ds) : ds[i].uid \in Nat
  BY ElementOfSeq, DeltaFacts, BoundsAssumption DEF Uids
<1>4. /\ \A i \in 1..Len(r) : r[i].uid <= n
      /\ \A i \in 1..Len(r) : r[i].uid # 0 => c <= r[i].uid /\ j <= r[i].uid
      /\ s # 0 => \A i \in 1..Len(r) : r[i].uid <= s
  BY <1>2, <1>3 DEF Ascending
<1>5. ASSUME NEW i \in 1..Len(r), NEW l \in 1..Len(r), i < l, r[l].uid # 0
      PROVE  r[i].uid <= r[l].uid
  <2>1. i \in 1..Len(ds) /\ r[i] = ds[i]
    BY <1>1, <1>2, <1>5
  <2>2. CASE l \in 1..Len(ds) /\ r[l] = ds[l]
    BY <1>5, <2>1, <2>2 DEF Ascending
  <2>3. CASE r[l] = d
    BY <1>3, <1>5, <2>1, <2>3 DEF Ascending
  <2> QED
    BY <1>2, <2>2, <2>3
<1>6. Ascending(s, c, j, r, n)
  BY <1>4, <1>5 DEF Ascending
<1> QED
  BY <1>6 DEF r

(* What a list leaves of the deltas ascends. *)
LEMMA ReplacedAscends ==
  ASSUME TypeOK, AscendingInv, NEW k \in Keys, NEW l \in 0..Len(deltas[k])
  PROVE  Ascending(store[k], cache[k], jobs[k], Replaced(k, SubSeq(deltas[k], 1, l)), created)
<1> DEFINE ds == SubSeq(deltas[k], 1, l)
<1>1. /\ ds \in Seq(Deltas) /\ Ascending(store[k], cache[k], jobs[k], ds, created)
  BY PrefixAscends, KeyTypes DEF AscendingInv
<1>2. /\ store[k] \in Nat /\ cache[k] \in Nat /\ jobs[k] \in Nat /\ created \in Nat
  BY KeyTypes
<1>3. store[k] # 0 => Set(store[k]) \in Deltas /\ Set(store[k]).uid = store[k]
  BY DeltaFacts DEF TypeOK, Set
<1>4. Tombstone \in Deltas /\ Tombstone.uid = 0
  BY DeltaFacts DEF Tombstone
<1> HIDE DEF ds
<1>5. CASE Replaced(k, ds) = ds
  BY <1>1, <1>5 DEF ds
<1>6. CASE store[k] # 0 /\ Replaced(k, ds) = Append(ds, Set(store[k]))
  <2>1. Ascending(store[k], cache[k], jobs[k], Append(ds, Set(store[k])), created)
    BY <1>1, <1>2, <1>3, <1>6, AppendAscends
  <2> QED
    BY <1>6, <2>1 DEF ds
<1>7. CASE Replaced(k, ds) = Append(ds, Tombstone)
  <2>1. Ascending(store[k], cache[k], jobs[k], Append(ds, Tombstone), created)
    BY <1>1, <1>2, <1>4, AppendAscends
  <2> QED
    BY <1>7, <2>1 DEF ds
<1> QED
  BY <1>5, <1>6, <1>7 DEF Replaced

(* The object that the first of the deltas puts into the cache, or takes   *)
(* out of it, is before the others.                                        *)
LEMMA TailAscends ==
  ASSUME NEW s \in Nat, NEW c \in Nat, NEW j \in Nat, NEW n \in Nat,
         NEW ds \in Seq(Deltas), ds # <<>>, Ascending(s, c, j, ds, n)
  PROVE  /\ Ascending(s, ds[1].uid, j, Tail(ds), n)
         /\ ds[1].uid # 0 => c <= ds[1].uid
<1> DEFINE r == Tail(ds)
<1>1. /\ Len(ds) \in Nat \ {0} /\ Len(r) = Len(ds) - 1
      /\ \A i \in 1..Len(r) : r[i] = ds[i + 1]
  BY HeadTailProperties, LenProperties, EmptySeq
<1> HIDE DEF r
<1>2. 1 \in 1..Len(ds) /\ \A i \in 1..Len(r) : i + 1 \in 1..Len(ds) /\ 1 < i + 1
  BY <1>1
<1>3. Ascending(s, ds[1].uid, j, r, n)
  <2>1. \A i \in 1..Len(r) : r[i].uid # 0 => ds[1].uid <= r[i].uid /\ j <= r[i].uid
    BY <1>1, <1>2 DEF Ascending
  <2>2. ASSUME NEW i \in 1..Len(r), NEW l \in 1..Len(r), i < l, r[l].uid # 0
        PROVE  r[i].uid <= r[l].uid
    <3>1. i + 1 \in 1..Len(ds) /\ l + 1 \in 1..Len(ds) /\ i + 1 < l + 1
      BY <1>2, <2>2
    <3> QED
      BY <1>1, <2>2, <3>1 DEF Ascending
  <2> QED
    BY <1>1, <1>2, <2>1, <2>2 DEF Ascending
<1> QED
  BY <1>2, <1>3 DEF Ascending, r

(* A new job's UID is above all others. *)
LEMMA CreatedAscends ==
  ASSUME NEW s \in Nat, NEW c \in Nat, NEW j \in Nat, NEW n \in Nat, NEW ds,
         \A i \in 1..Len(ds) : ds[i].uid \in Nat,
         Ascending(s, c, j, ds, n)
  PROVE  Ascending(s, c, j, ds, n + 1) /\ Ascending(n + 1, c, j, ds, n + 1)
BY DEF Ascending

(* A deletion takes the job's UID away. *)
LEMMA GoneAscends ==
  ASSUME NEW s, NEW c, NEW j, NEW n \in Nat, NEW ds, Ascending(s, c, j, ds, n)
  PROVE  Ascending(0, c, j, ds, n)
BY DEF Ascending

(* Every step keeps the order, and a step within a process goes up.        *)
LEMMA AscendingKept ==
  ASSUME IInv, AscendingInv, [Next]_vars
  PROVE  AscendingInv' /\ (stops' = stops => Later(cache) /\ Later(jobs))
<1> USE DEF clusterVars, informerVars, queueVars, processVars, boundVars
<1>0. TypeOK /\ WorkerInv
  BY DEF IInv
<1>1. /\ cache' = cache => Later(cache)
      /\ jobs' = jobs => Later(jobs)
  BY <1>0, KeyTypes DEF Later
<1>2. CASE \/ New \/ Lead \/ StartWorkers \/ StopLeading
           \/ \E k \in Keys : Resync(k) \/ enqueueController(k) \/ AddReady(k)
           \/ \E w \in Workers : Get(w) \/ Quit(w) \/ Reconcile(w) \/ Recheck(w) \/ Finish(w) \/ Done(w)
           \/ UNCHANGED vars
  <2>1. UNCHANGED <<store, created, deltas, cache, jobs>>
    BY <1>2 DEF New, Lead, StartWorkers, StopLeading, Resync, enqueueController, AddReady, Get, Quit,
       Reconcile, Recheck, Finish, Done, vars
  <2> QED
    BY <1>1, <2>1 DEF AscendingInv
<1>3. CASE FactoryStart
  <2>1. UNCHANGED <<store, created, cache, jobs>> /\ deltas' = [k \in Keys |-> FirstList(k)]
    BY <1>3 DEF FactoryStart
  <2>2. ASSUME NEW k \in Keys
        PROVE  Ascending(store[k], cache[k], jobs[k], FirstList(k), created)
    <3>1. Ascending(store[k], cache[k], jobs[k], deltas[k], created)
      BY DEF AscendingInv
    <3>2. store[k] \in Nat
      BY <1>0, KeyTypes
    <3> QED
      BY <3>1, <3>2 DEF Ascending, FirstList, Set
  <2> QED
    BY <1>1, <2>1, <2>2 DEF AscendingInv
<1>4. CASE Relist
  <2>1. UNCHANGED <<store, created, cache, jobs>>
    BY <1>4 DEF Relist
  <2>2. PICK n \in [Keys -> UNION {0..Len(deltas[k]) : k \in Keys}] :
          /\ \A k \in Keys : n[k] <= Len(deltas[k])
          /\ deltas' = [k \in Keys |-> Replaced(k, SubSeq(deltas[k], 1, n[k]))]
    BY <1>4 DEF Relist
  <2>3. ASSUME NEW k \in Keys PROVE n[k] \in 0..Len(deltas[k])
    BY <1>0, <2>2, KeyTypes
  <2>4. \A k \in Keys : Ascending(store[k], cache[k], jobs[k], deltas'[k], created)
    BY <1>0, <2>2, <2>3, ReplacedAscends
  <2> QED
    BY <1>1, <2>1, <2>4 DEF AscendingInv
<1>5. CASE Exit
  <2>1. /\ UNCHANGED <<store, created>> /\ stops' # stops
        /\ deltas' = [k \in Keys |-> <<>>] /\ cache' = [k \in Keys |-> 0] /\ jobs' = [k \in Keys |-> 0]
    BY <1>0, <1>5 DEF Exit, TypeOK
  <2>2. ASSUME NEW k \in Keys PROVE Ascending(store[k], 0, 0, <<>>, created)
    BY <1>0, KeyTypes DEF AscendingInv, Ascending
  <2> QED
    BY <2>1, <2>2 DEF AscendingInv
<1>6. ASSUME NEW k \in Keys, CreateJob(k)
      PROVE  AscendingInv' /\ (stops' = stops => Later(cache) /\ Later(jobs))
  <2>1. /\ created' = created + 1 /\ store' = [store EXCEPT ![k] = created + 1]
        /\ UNCHANGED <<cache, jobs>> /\ created + 1 \in Uids
        /\ deltas' \in {deltas, [deltas EXCEPT ![k] = Append(@, Set(created + 1))]}
    BY <1>0, <1>6, BoundsAssumption DEF CreateJob, Watched, TypeOK, Uids
  <2>2. ASSUME NEW i \in Keys
        PROVE  Ascending(store'[i], cache[i], jobs[i], deltas'[i], created + 1)
    <3>0. Set(created + 1) \in Deltas /\ Set(created + 1).uid = created + 1
      BY <2>1, DeltaFacts DEF Set
    <3>1. /\ Ascending(store[i], cache[i], jobs[i], deltas[i], created + 1)
          /\ Ascending(created + 1, cache[i], jobs[i], deltas[i], created + 1)
      BY <1>0, KeyTypes, CreatedAscends DEF AscendingInv
    <3>2. Ascending(created + 1, cache[i], jobs[i], Append(deltas[i], Set(created + 1)), created + 1)
      BY <1>0, <3>0, <3>1, KeyTypes, AppendAscends
    <3>3. CASE i = k
      <4>1. store'[i] = created + 1 /\ deltas'[i] \in {deltas[i], Append(deltas[i], Set(created + 1))}
        BY <1>0, <2>1, <3>3 DEF TypeOK
      <4> QED
        BY <3>1, <3>2, <4>1
    <3>4. CASE i # k
      <4>1. store'[i] = store[i] /\ deltas'[i] = deltas[i]
        BY <1>0, <2>1, <3>4 DEF TypeOK
      <4> QED
        BY <3>1, <4>1
    <3> QED
      BY <3>3, <3>4
  <2> QED
    BY <1>1, <2>1, <2>2 DEF AscendingInv
<1>7. ASSUME NEW k \in Keys, DeleteJob(k)
      PROVE  AscendingInv' /\ (stops' = stops => Later(cache) /\ Later(jobs))
  <2>1. /\ UNCHANGED <<created, cache, jobs>> /\ store' = [store EXCEPT ![k] = 0]
        /\ deltas' \in {deltas, [deltas EXCEPT ![k] = Append(@, Deleted)]}
    BY <1>7 DEF DeleteJob, Watched
  <2>2. ASSUME NEW i \in Keys
        PROVE  Ascending(store'[i], cache[i], jobs[i], deltas'[i], created)
    <3>0. Deleted \in Deltas /\ Deleted.uid = 0
      BY DeltaFacts DEF Deleted
    <3>1. Ascending(store[i], cache[i], jobs[i], deltas[i], created)
      BY DEF AscendingInv
    <3>2. Ascending(store[i], cache[i], jobs[i], Append(deltas[i], Deleted), created)
      BY <1>0, <3>0, <3>1, KeyTypes, AppendAscends
    <3>3. CASE i = k
      <4>1. store'[i] = 0 /\ deltas'[i] \in {deltas[i], Append(deltas[i], Deleted)}
        BY <1>0, <2>1, <3>3 DEF TypeOK
      <4>2. /\ Ascending(0, cache[i], jobs[i], deltas[i], created)
            /\ Ascending(0, cache[i], jobs[i], Append(deltas[i], Deleted), created)
        BY <1>0, <3>1, <3>2, KeyTypes, GoneAscends
      <4> QED
        BY <4>1, <4>2
    <3>4. CASE i # k
      <4>1. store'[i] = store[i] /\ deltas'[i] = deltas[i]
        BY <1>0, <2>1, <3>4 DEF TypeOK
      <4> QED
        BY <3>1, <4>1
    <3> QED
      BY <3>3, <3>4
  <2> QED
    BY <1>1, <2>1, <2>2 DEF AscendingInv
<1>8. ASSUME NEW k \in Keys, HandleDelta(k)
      PROVE  AscendingInv' /\ (stops' = stops => Later(cache) /\ Later(jobs))
  <2> DEFINE u == deltas[k][1].uid
  <2>1. /\ UNCHANGED <<store, created, jobs>> /\ deltas[k] # <<>>
        /\ deltas' = [deltas EXCEPT ![k] = Tail(@)] /\ cache' = [cache EXCEPT ![k] = u]
    BY <1>8 DEF HandleDelta
  <2>2. /\ Ascending(store[k], u, jobs[k], Tail(deltas[k]), created)
        /\ u # 0 => cache[k] <= u
    BY <1>0, <2>1, KeyTypes, TailAscends DEF AscendingInv
  <2> HIDE DEF u
  <2>3. ASSUME NEW i \in Keys
        PROVE  /\ Ascending(store[i], cache'[i], jobs[i], deltas'[i], created)
               /\ cache[i] # 0 /\ cache'[i] # 0 => cache[i] <= cache'[i]
    <3>1. CASE i = k
      <4>1. cache'[i] = u /\ deltas'[i] = Tail(deltas[i])
        BY <1>0, <2>1, <3>1 DEF TypeOK
      <4> QED
        BY <2>2, <3>1, <4>1
    <3>2. CASE i # k
      <4>1. cache'[i] = cache[i] /\ deltas'[i] = deltas[i] /\ cache[i] \in Nat
        BY <1>0, <2>1, <3>2, KeyTypes DEF TypeOK
      <4> QED
        BY <4>1 DEF AscendingInv
    <3> QED
      BY <3>1, <3>2
  <2> QED
    BY <1>1, <2>1, <2>3 DEF AscendingInv, Later
<1>9. ASSUME NEW w \in Workers, Lookup(w)
      PROVE  AscendingInv' /\ (stops' = stops => Later(cache) /\ Later(jobs))
  <2> DEFINE k == worker[w].key
  <2>1. /\ UNCHANGED <<store, created, cache, deltas>>
        /\ jobs' = jobs \/ (cache[k] # 0 /\ jobs' = [jobs EXCEPT ![k] = cache[k]])
    BY <1>9 DEF Lookup
  <2>2. k \in Keys
    BY <1>0, <1>9, HasKey DEF Lookup, At
  <2> HIDE DEF k
  <2>3. CASE jobs' = jobs
    BY <1>1, <2>1, <2>3 DEF AscendingInv
  <2>4. CASE cache[k] # 0 /\ jobs' = [jobs EXCEPT ![k] = cache[k]]
    <3>1. ASSUME NEW i \in Keys
          PROVE  /\ Ascending(store[i], cache[i], jobs'[i], deltas[i], created)
                 /\ jobs[i] # 0 /\ jobs'[i] # 0 => jobs[i] <= jobs'[i]
      <4>0. /\ Ascending(store[i], cache[i], jobs[i], deltas[i], created)
            /\ jobs[i] \in Nat /\ cache[i] \in Nat
        BY <1>0, KeyTypes DEF AscendingInv
      <4>1. CASE i = k
        <5>1. jobs'[i] = cache[i] /\ cache[i] # 0
          BY <1>0, <2>4, <4>1 DEF TypeOK
        <5> QED
          BY <4>0, <5>1 DEF Ascending
      <4>2. CASE i # k
        <5>1. jobs'[i] = jobs[i]
          BY <1>0, <2>4, <4>2 DEF TypeOK
        <5> QED
          BY <4>0, <5>1
      <4> QED
        BY <4>1, <4>2
    <3> QED
      BY <1>1, <2>1, <3>1 DEF AscendingInv, Later
  <2> QED
    BY <2>1, <2>3, <2>4
<1> QED
  BY <1>2, <1>3, <1>4, <1>5, <1>6, <1>7, <1>8, <1>9 DEF Next, Work

(* The property IncarnationsAdvance: within a process neither the lister   *)
(* nor c.jobs goes back to an earlier job of a name, whatever the watch    *)
(* loses, in whatever order deltas, lists and workers come (HandleDeltas,  *)
(* Replace, syncMXJob).                                                    *)
THEOREM JobsAdvance == Spec => IncarnationsAdvance
<1>1. Init => AscendingInv
  BY DEF Init, AscendingInv, Ascending
<1>2. IInv /\ AscendingInv /\ [Next]_vars => AscendingInv'
  BY AscendingKept
<1>3. IInv /\ AscendingInv /\ [Next]_vars => [stops' = stops => Later(cache) /\ Later(jobs)]_vars
  BY AscendingKept
<1> QED
  BY <1>1, <1>2, <1>3, Invariance, PTL DEF Spec, IncarnationsAdvance

-----------------------------------------------------------------------------
(***************************************************************************)
(* FollowsKeyedWork: the queue implements KeyedWork.                       *)
(***************************************************************************)
wanted == waiting \union dirty

taken == [w \in Workers |-> worker[w].key]

open == leading # "stopping"

LEMMA InitRefines == Init => Promise!Init
<1> SUFFICES ASSUME Init PROVE Promise!Init
  OBVIOUS
<1>1. \A w \in Workers : worker[w].key = NoKey
  BY DEF Init, Off, Idle
<1> QED
  BY <1>1 DEF Init, Promise!Init

(* A step that a worker makes within an item, or outside, takes nothing.   *)
LEMMA StutterRefines ==
  ASSUME SameKeys, open' = open, wanted' = wanted
  PROVE  UNCHANGED Promise!vars
BY DEF SameKeys, open, wanted, Promise!vars

(* A rate limited request is a request, or nothing once the queue closed.  *)
LEMMA RequestRefines ==
  ASSUME NEW k \in Keys, AddRateLimited(k), SameKeys, leading' = leading, dirty' = dirty
  PROVE  [\E j \in Keys : Promise!Request(j)]_(Promise!vars)
<1>1. CASE ShuttingDown
  <2>1. wanted' = wanted /\ open' = open
    BY <1>1 DEF AddRateLimited, wanted, open
  <2> QED
    BY <2>1, StutterRefines
<1>2. CASE ~ ShuttingDown
  <2>1. /\ leading # "stopping" /\ leading' # "stopping"
        /\ waiting' \union dirty' = (waiting \union dirty) \union {k}
    BY <1>2 DEF AddRateLimited, ShuttingDown
  <2>2. [w \in Workers |-> worker'[w].key] = [w \in Workers |-> worker[w].key]
    BY DEF SameKeys
  <2> QED
    BY <2>1, <2>2 DEF Promise!Request
<1> QED
  BY <1>1, <1>2

(* Every step is a step of KeyedWork or changes nothing of it. *)
LEMMA StepRefines ==
  ASSUME IInv, [Next]_vars
  PROVE  [Promise!Next]_(Promise!vars)
<1> USE DEF clusterVars, informerVars, queueVars, processVars, boundVars
<1>1. TypeOK /\ WorkerInv /\ QueueOK
  BY DEF IInv
<1>2. ASSUME worker' = worker, leading' = leading, wanted' = wanted
      PROVE  UNCHANGED Promise!vars
  BY <1>2, StutterRefines DEF SameKeys, open
<1>3. CASE \/ New \/ FactoryStart \/ Relist
           \/ \E k \in Keys : CreateJob(k) \/ DeleteJob(k) \/ HandleDelta(k) \/ Resync(k)
           \/ UNCHANGED vars
  <2>1. worker' = worker /\ leading' = leading /\ waiting' = waiting /\ dirty' = dirty
    BY <1>3 DEF New, FactoryStart, Relist, CreateJob, DeleteJob, HandleDelta, Resync, vars
  <2> QED
    BY <1>2, <2>1 DEF wanted
<1>4. CASE Lead
  <2>1. SameKeys /\ open' = open /\ wanted' = wanted
    BY <1>4 DEF Lead, SameKeys, open, wanted
  <2> QED
    BY <2>1, StutterRefines
<1>5. CASE StartWorkers
  <2>1. SameKeys
    BY <1>1, <1>5 DEF StartWorkers, WorkerInv, SameKeys, Off, Idle
  <2>2. open' = open /\ wanted' = wanted
    BY <1>5 DEF StartWorkers, open, wanted
  <2> QED
    BY <2>1, <2>2, StutterRefines
<1>6. CASE StopLeading
  BY <1>6 DEF StopLeading, Promise!Next, Promise!Close
<1>7. CASE Exit
  <2>1. \A w \in Workers : worker'[w].key = NoKey
    BY <1>7 DEF Exit, Off, Idle
  <2> QED
    BY <1>7, <2>1 DEF Exit, Promise!Next, Promise!Reset
<1>8. ASSUME NEW k \in Keys, enqueueController(k) PROVE [Promise!Next]_(Promise!vars)
  <2>1. [\E j \in Keys : Promise!Request(j)]_(Promise!vars)
    BY <1>8, RequestRefines DEF enqueueController, SameKeys
  <2> QED
    BY <2>1 DEF Promise!Next
<1>9. ASSUME NEW k \in Keys, AddReady(k) PROVE [Promise!Next]_(Promise!vars)
  <2>1. /\ k \in waiting /\ waiting' = waiting \ {k}
        /\ worker' = worker /\ leading' = leading
    BY <1>9 DEF AddReady
  <2>2. CASE k \in dirty'
    <3>1. dirty' = dirty \union {k}
      BY <1>9, <2>2 DEF AddReady, Add
    <3> QED
      BY <1>2, <2>1, <3>1 DEF wanted
  <2>3. CASE k \notin dirty'
    <3>1. leading = "stopping" /\ dirty' = dirty
      BY <1>9, <2>3 DEF AddReady, Add, ShuttingDown
    <3>2. Promise!Drop(k)
      BY <2>1, <2>3, <3>1 DEF Promise!Drop
    <3> QED
      BY <3>2 DEF Promise!Next
  <2> QED
    BY <2>2, <2>3
<1>10. ASSUME NEW w \in Workers, Get(w) PROVE [Promise!Next]_(Promise!vars)
  <2>0. PICK k : k = queue[1]
    OBVIOUS
  <2>1. /\ queue # <<>> /\ processing' = processing \union {k} /\ dirty' = dirty \ {k}
        /\ worker' = [worker EXCEPT ![w] = [@ EXCEPT !.pc = "lookup", !.key = k]]
        /\ waiting' = waiting /\ leading' = leading
        /\ worker[w].key = NoKey
    BY <1>1, <1>10, <2>0 DEF Get, WorkerInv, At
  <2>2. k \in Keys /\ k \in Elements(queue)
    BY <1>1, <2>1, <2>0, QueueParts, TailElements, EmptySeq, ElementOfSeq DEF TypeOK
  <2>3. k \in dirty /\ k \notin processing
    BY <1>1, <2>2, QueueParts
  <2>4. \A v \in Workers : worker[v].key # k
    BY <1>1, <2>2, <2>3, KeysAssumption DEF QueueOK, Busy
  <2>5. worker'[w].key = k /\ \A v \in Workers \ {w} : worker'[v].key = worker[v].key
    BY <1>1, <2>1 DEF TypeOK, WorkerStates
  <2>6. [v \in Workers |-> worker'[v].key] = [[v \in Workers |-> worker[v].key] EXCEPT ![w] = k]
    BY <2>5
  <2>7. waiting' \union dirty' \in {waiting \union dirty, (waiting \union dirty) \ {k}}
    BY <2>1, <2>3
  <2>8. Promise!Take(w, k)
    BY <2>1, <2>3, <2>4, <2>6, <2>7 DEF Promise!Take
  <2> QED
    BY <2>2, <2>8 DEF Promise!Next
<1>11. ASSUME NEW w \in Workers, Quit(w) \/ Lookup(w) \/ Reconcile(w) \/ Recheck(w)
       PROVE  [Promise!Next]_(Promise!vars)
  <2>3. SameKeys
    <3>1. CASE Quit(w)
      <4>1. worker[w].key = NoKey /\ worker' = [worker EXCEPT ![w] = Off]
        BY <1>1, <3>1 DEF Quit, WorkerInv, At
      <4> QED
        BY <1>1, <4>1 DEF TypeOK, SameKeys, Off, Idle
    <3>2. CASE Lookup(w) \/ Reconcile(w) \/ Recheck(w)
      BY <1>1, <3>2, StepKeys DEF Lookup, Reconcile, Recheck
    <3> QED
      BY <1>11, <3>1, <3>2
  <2>4. open' = open /\ wanted' = wanted
    BY <1>11 DEF Quit, Lookup, Reconcile, Recheck, open, wanted
  <2> QED
    BY <2>3, <2>4, StutterRefines
<1>12. ASSUME NEW w \in Workers, Finish(w) PROVE [Promise!Next]_(Promise!vars)
  <2>1. worker[w].key \in Keys
    BY <1>1, <1>12, HasKey DEF Finish, At
  <2>2. SameKeys /\ leading' = leading /\ dirty' = dirty
    BY <1>1, <1>12, StepKeys DEF Finish
  <2>3. CASE AddRateLimited(worker[w].key)
    <3>1. [\E j \in Keys : Promise!Request(j)]_(Promise!vars)
      BY <2>1, <2>2, <2>3, RequestRefines
    <3> QED
      BY <3>1 DEF Promise!Next
  <2>4. CASE waiting' = waiting
    <3>1. open' = open /\ wanted' = wanted
      BY <2>2, <2>4 DEF open, wanted
    <3> QED
      BY <2>2, <3>1, StutterRefines
  <2>5. AddRateLimited(worker[w].key) \/ waiting' = waiting
    BY <1>12 DEF Finish, Forget
  <2> QED
    BY <2>3, <2>4, <2>5
<1>13. ASSUME NEW w \in Workers, Done(w) PROVE [Promise!Next]_(Promise!vars)
  <2>1. worker[w].key # NoKey
    BY <1>1, <1>13, HasKey DEF Done, At
  <2>2. /\ worker' = [worker EXCEPT ![w] = Idle]
        /\ leading' = leading /\ waiting' = waiting /\ dirty' = dirty
    BY <1>13 DEF Done
  <2>3. worker'[w].key = NoKey /\ \A v \in Workers \ {w} : worker'[v].key = worker[v].key
    BY <1>1, <2>2 DEF TypeOK, Idle
  <2>4. [v \in Workers |-> worker'[v].key] = [[v \in Workers |-> worker[v].key] EXCEPT ![w] = NoKey]
    BY <2>3
  <2>5. Promise!Finish(w)
    BY <2>1, <2>2, <2>4 DEF Promise!Finish
  <2> QED
    BY <2>5 DEF Promise!Next
<1> QED
  BY <1>3, <1>4, <1>5, <1>6, <1>7, <1>8, <1>9, <1>10, <1>11, <1>12, <1>13 DEF Next, Work

(* The property FollowsKeyedWork: the delaying queue, the order, the dirty *)
(* set and the processing set, run by the workers, implement KeyedWork.    *)
THEOREM QueueImplements == Spec => FollowsKeyedWork
<1>1. Spec => Promise!Spec
  BY InitRefines, StepRefines, Invariance, PTL DEF Spec, Promise!Spec
<1> QED
  BY <1>1 DEF FollowsKeyedWork
==============================================================================
