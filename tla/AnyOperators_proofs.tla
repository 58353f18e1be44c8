------------------------- MODULE AnyOperators_proofs -------------------------
(***************************************************************************)
(* Proofs about TrainingJob that need no election: any number of processes *)
(* reconcile the job at the same time, and every disturbance may occur.    *)
(***************************************************************************)
EXTENDS Reconcile_proofs, FiniteSetTheorems

-----------------------------------------------------------------------------
(***************************************************************************)
(* The pods of a task are bounded.                                         *)
(***************************************************************************)
(* The operators that listed no pod of a task and have yet to create one.  *)
Creating(t, i, r) ==
  {o \in Operators : /\ mem[o].pc = "createPod"
                     /\ ReplicaSet(mem[o]).type = t /\ mem[o].pos.idx = i
                     /\ mem[o].job.rid = r}

(* A process stands for one pod: the one it is about to create, or the one *)
(* that it found or made, which keeps it from creating another one until   *)
(* the pod has failed or a List goes wrong.                                *)
Bound == Cardinality(Operators) + faults.lists

Load(t, i, r) == Cardinality(ActivePods(t, i, r)) + Cardinality(Creating(t, i, r))

BoundInv == \A p \in pods : Load(p.type, p.idx, p.rid) <= Bound

(* A set of five values is finite. *)
LEMMA FiveAreFinite ==
  ASSUME NEW a, NEW b, NEW c, NEW d, NEW e
  PROVE  IsFiniteSet({a, b, c, d, e})
<1>1. IsFiniteSet({a}) /\ IsFiniteSet({a} \union {b})
  BY FS_Singleton, FS_AddElement
<1>2. IsFiniteSet(({a} \union {b}) \union {c})
  BY <1>1, FS_AddElement
<1>3. IsFiniteSet((({a} \union {b}) \union {c}) \union {d})
  BY <1>2, FS_AddElement
<1>4. IsFiniteSet(((({a} \union {b}) \union {c}) \union {d}) \union {e})
  BY <1>3, FS_AddElement
<1>5. ((({a} \union {b}) \union {c}) \union {d}) \union {e} = {a, b, c, d, e}
  OBVIOUS
<1> QED
  BY <1>4, <1>5

(* Pods of one task differ in their suffix, their phase or their exit, of  *)
(* which there are finitely many.                                          *)
LEMMA PodsOfTaskFinite ==
  ASSUME NEW ps \in SUBSET Pods, NEW t, NEW i, NEW r,
         \A p \in ps : p.type = t /\ p.idx = i /\ p.rid = r
  PROVE  IsFiniteSet(ps)
<1> DEFINE Suffixes == PodSuffixes \union {0}
           Rest == Suffixes \X (PodPhases \X Exits)
           f == [p \in ps |-> <<p.sfx, <<p.phase, p.exit>>>>]
<1>1. IsFiniteSet(PodPhases)
  BY FiveAreFinite DEF PodPhases
<1>2. IsFiniteSet(Exits)
  <2>1. Exits = {"none", "success", "oom", "permanent", "retryable"}
    BY DEF Exits, FailedExits
  <2> QED
    BY <2>1, FiveAreFinite
<1>3. IsFiniteSet(Suffixes)
  BY PodSuffixesAssumption, FS_AddElement
<1>4. IsFiniteSet(Rest)
  <2>1. IsFiniteSet(PodPhases \X Exits)
    BY <1>1, <1>2, FS_Product
  <2> QED
    BY <1>3, <2>1, FS_Product
<1>5. f \in Injection(ps, Rest)
  <2>1. f \in [ps -> Rest]
    BY DEF Pods
  <2>2. ASSUME NEW p \in ps, NEW q \in ps, f[p] = f[q]
        PROVE  p = q
    <3>1. p.sfx = q.sfx /\ p.phase = q.phase /\ p.exit = q.exit
      BY <2>2
    <3>2. p \in Pods /\ q \in Pods /\ p.type = q.type /\ p.idx = q.idx /\ p.rid = q.rid
      OBVIOUS
    <3> QED
      BY <3>1, <3>2 DEF Pods
  <2> QED
    BY <2>1, <2>2 DEF Injection, IsInjective
<1> HIDE DEF f, Rest
<1> QED
  BY <1>4, <1>5, FS_Injection

(* The numbers that are compared are natural numbers. *)
LEMMA LoadType ==
  ASSUME TypeOK, NEW t, NEW i, NEW r
  PROVE  /\ IsFiniteSet(ActivePods(t, i, r)) /\ Cardinality(ActivePods(t, i, r)) \in Nat
         /\ IsFiniteSet(Creating(t, i, r)) /\ Cardinality(Creating(t, i, r)) \in Nat
         /\ Cardinality(Creating(t, i, r)) <= Cardinality(Operators)
         /\ Cardinality(Operators) \in Nat /\ faults.lists \in Nat
<1>1. IsFiniteSet(ActivePods(t, i, r))
  <2>1. /\ ActivePods(t, i, r) \in SUBSET Pods
        /\ \A p \in ActivePods(t, i, r) : p.type = t /\ p.idx = i /\ p.rid = r
    BY DEF ActivePods, TypeOK
  <2> HIDE DEF ActivePods
  <2> QED
    BY <2>1, PodsOfTaskFinite
<1>2. Creating(t, i, r) \in SUBSET Operators
  BY DEF Creating
<1>3. faults.lists \in Nat
  BY DEF TypeOK, FaultCounts
<1> HIDE DEF Creating, ActivePods
<1> QED
  BY <1>1, <1>2, <1>3, OperatorsAssumption, FS_Subset, FS_CardinalityType

(* BoundInv says the same of tasks that have no pods. *)
LEMMA BoundAnywhere ==
  ASSUME IInv, BoundInv, NEW t, NEW i, NEW r
  PROVE  Load(t, i, r) <= Bound
<1>1. TypeOK
  BY DEF IInv
<1>2. CASE ActivePods(t, i, r) = {}
  BY <1>1, <1>2, LoadType, FS_EmptySet DEF Load, Bound
<1>3. CASE ActivePods(t, i, r) # {}
  <2>1. PICK p \in pods : p.type = t /\ p.idx = i /\ p.rid = r
    BY <1>3 DEF ActivePods
  <2> QED
    BY <2>1 DEF BoundInv
<1> QED
  BY <1>2, <1>3

(* One element adds at most one. *)
LEMMA OneMore ==
  ASSUME NEW S, IsFiniteSet(S), NEW x, NEW T \in SUBSET (S \union {x})
  PROVE  Cardinality(T) <= Cardinality(S) + 1
<1>0. Cardinality(S) \in Nat
  BY FS_CardinalityType
<1>1. /\ IsFiniteSet(S \union {x})
      /\ Cardinality(S \union {x}) <= Cardinality(S) + 1
  BY <1>0, FS_AddElement
<1>2. /\ Cardinality(T) \in Nat /\ Cardinality(S \union {x}) \in Nat
      /\ Cardinality(T) <= Cardinality(S \union {x})
  BY <1>1, FS_Subset, FS_CardinalityType
<1> QED
  BY <1>0, <1>1, <1>2

(* How a step may change the active pods and the creating operators of a   *)
(* task.                                                                   *)
Shrinks(t, i, r) == /\ ActivePods(t, i, r)' \subseteq ActivePods(t, i, r)
                    /\ Creating(t, i, r)' \subseteq Creating(t, i, r)

Creates(t, i, r) ==
  \E o \in Creating(t, i, r) : \E n :
    /\ ActivePods(t, i, r)' \subseteq ActivePods(t, i, r) \union {n}
    /\ Creating(t, i, r)' \subseteq Creating(t, i, r) \ {o}

Replaces(t, i, r) ==
  \E p \in ActivePods(t, i, r) : \E n :
    /\ ActivePods(t, i, r)' \subseteq (ActivePods(t, i, r) \ {p}) \union {n}
    /\ Creating(t, i, r)' \subseteq Creating(t, i, r)

Misses(t, i, r) ==
  \E o : /\ ActivePods(t, i, r)' \subseteq ActivePods(t, i, r)
         /\ Creating(t, i, r)' \subseteq Creating(t, i, r) \union {o}
         /\ faults'.lists = faults.lists + 1

(* Each of these changes keeps the task within its bound. *)
LEMMA BoundStep ==
  ASSUME IInv, IInv', BoundInv, faults.lists <= faults'.lists, NEW t, NEW i, NEW r,
         \/ Shrinks(t, i, r) \/ Creates(t, i, r) \/ Replaces(t, i, r) \/ Misses(t, i, r)
         \/ ActivePods(t, i, r)' = {}
  PROVE  Load(t, i, r)' <= Bound'
<1> DEFINE A == ActivePods(t, i, r)
           C == Creating(t, i, r)
           AA == ActivePods(t, i, r)'
           CC == Creating(t, i, r)'
           N == Cardinality(Operators)
<1>1. /\ IsFiniteSet(A) /\ Cardinality(A) \in Nat /\ IsFiniteSet(C) /\ Cardinality(C) \in Nat
      /\ N \in Nat /\ faults.lists \in Nat
  BY LoadType DEF IInv
<1>2. /\ IsFiniteSet(AA) /\ Cardinality(AA) \in Nat /\ IsFiniteSet(CC) /\ Cardinality(CC) \in Nat
      /\ Cardinality(CC) <= N /\ faults'.lists \in Nat
  <2>1. IsFiniteSet(AA)
    <3>1. /\ AA \in SUBSET Pods
          /\ \A p \in AA : p.type = t /\ p.idx = i /\ p.rid = r
      BY DEF ActivePods, IInv, TypeOK
    <3> HIDE DEF AA
    <3> QED
      BY <3>1, PodsOfTaskFinite
  <2>2. CC \in SUBSET Operators
    BY DEF Creating
  <2>3. faults'.lists \in Nat
    BY DEF IInv, TypeOK, FaultCounts
  <2> HIDE DEF AA, CC
  <2> QED
    BY <2>1, <2>2, <2>3, OperatorsAssumption, FS_Subset, FS_CardinalityType
<1>3. Cardinality(A) + Cardinality(C) <= N + faults.lists
  BY BoundAnywhere DEF Load, Bound
<1>4. Cardinality(AA) + Cardinality(CC) <= N + faults'.lists
  <2>1. CASE Shrinks(t, i, r)
    <3>1. AA \in SUBSET A /\ CC \in SUBSET C
      BY <2>1 DEF Shrinks
    <3> HIDE DEF A, AA, C, CC, N
    <3>2. Cardinality(AA) <= Cardinality(A) /\ Cardinality(CC) <= Cardinality(C)
      BY <1>1, <3>1, FS_Subset
    <3> QED
      BY <1>1, <1>2, <1>3, <3>2
  <2>2. CASE Creates(t, i, r)
    <3>0. PICK o \in C : \E n : AA \in SUBSET (A \union {n}) /\ CC \in SUBSET (C \ {o})
      BY <2>2 DEF Creates
    <3>1. PICK n : AA \in SUBSET (A \union {n}) /\ CC \in SUBSET (C \ {o})
      BY <3>0
    <3> HIDE DEF A, AA, C, CC, N
    <3>2. Cardinality(AA) <= Cardinality(A) + 1
      BY <1>1, <3>1, OneMore
    <3>3. Cardinality(CC) <= Cardinality(C) - 1
      <4>1. IsFiniteSet(C \ {o}) /\ Cardinality(C \ {o}) = Cardinality(C) - 1
        BY <1>1, FS_RemoveElement
      <4>2. Cardinality(CC) <= Cardinality(C \ {o})
        BY <3>1, <4>1, FS_Subset
      <4> QED
        BY <4>1, <4>2
    <3> QED
      BY <1>1, <1>2, <1>3, <3>2, <3>3
  <2>3. CASE Replaces(t, i, r)
    <3>0. PICK p \in A : \E n : AA \in SUBSET ((A \ {p}) \union {n}) /\ CC \in SUBSET C
      BY <2>3 DEF Replaces
    <3>1. PICK n : AA \in SUBSET ((A \ {p}) \union {n}) /\ CC \in SUBSET C
      BY <3>0
    <3> HIDE DEF A, AA, C, CC, N
    <3>2. IsFiniteSet(A \ {p}) /\ Cardinality(A \ {p}) = Cardinality(A) - 1
      BY <1>1, <3>1, FS_RemoveElement
    <3>3. Cardinality(AA) <= Cardinality(A)
      <4>1. Cardinality(AA) <= Cardinality(A \ {p}) + 1
        BY <3>1, <3>2, OneMore
      <4> QED
        BY <1>1, <1>2, <3>2, <4>1
    <3>4. Cardinality(CC) <= Cardinality(C)
      BY <1>1, <3>1, FS_Subset
    <3> QED
      BY <1>1, <1>2, <1>3, <3>3, <3>4
  <2>4. CASE Misses(t, i, r)
    <3>1. PICK o : /\ AA \in SUBSET A /\ CC \in SUBSET (C \union {o})
                   /\ faults'.lists = faults.lists + 1
      BY <2>4 DEF Misses
    <3> HIDE DEF A, AA, C, CC, N
    <3>2. Cardinality(AA) <= Cardinality(A) /\ Cardinality(CC) <= Cardinality(C) + 1
      BY <1>1, <3>1, FS_Subset, OneMore
    <3> QED
      BY <1>1, <1>2, <1>3, <3>1, <3>2
  <2>5. CASE AA = {}
    <3> HIDE DEF AA, CC, N
    <3> QED
      BY <1>1, <1>2, <2>5, FS_EmptySet
  <2> QED
    BY <2>1, <2>2, <2>3, <2>4, <2>5
<1> QED
  BY <1>4 DEF Load, Bound

(* The number of failed lists never goes down. *)
LEMMA FailedListsGrow ==
  ASSUME IInv, [Next]_vars
  PROVE  faults.lists <= faults'.lists
<1>1. UNCHANGED faults \/ \E k : Fault(k)
  BY DEF Next, Operate, Reconcile, Start, Informed, NewJob, Sync, ObserveDelete, Setup, SetupReplicas,
     StatusUnchanged, StatusWritten, StatusRefused, StatusAnswerLost, SkipEmptySet, ListPods,
     PodCreated, PodNameTaken, CreatePodFailed, PodsSynced, GetService, CreateService,
     CreateServiceFailed, ServicesSynced, GetPod, ListReplica, SetRead, ReportStatus,
     DeleteResources, Panic, Crash, ListerHasJob, NoFault, Kubelet, PodStarts, PodSucceeds,
     ContainerRestarts, PodFails, PodRemoved, User, UserEdits, UserCleansUp, UserDeletes,
     CollectGarbage, vars
<1>2. faults.lists \in Nat
  BY DEF IInv, TypeOK, FaultCounts
<1> QED
  BY <1>1, <1>2 DEF Fault

(* What a step of operator o leaves of the memories. *)
LEMMA MemoryAfter ==
  ASSUME TypeOK, NEW o \in Operators, NEW m, mem' = [mem EXCEPT ![o] = m]
  PROVE  \A q \in Operators : mem'[q] = IF q = o THEN m ELSE mem[q]
BY DEF TypeOK

(* A step of an operator that neither lists nor creates pods. *)
LEMMA BoundQuiet ==
  ASSUME IInv, IInv', BoundInv, faults.lists <= faults'.lists, UNCHANGED spec,
         NEW o \in Operators, NEW m, mem' = [mem EXCEPT ![o] = m], m.pc # "createPod",
         pods' \subseteq pods
  PROVE  BoundInv'
<1> SUFFICES ASSUME NEW t, NEW i, NEW r PROVE Load(t, i, r)' <= Bound'
  BY DEF BoundInv
<1>1. Creating(t, i, r)' \subseteq Creating(t, i, r)
  <2>1. \A q \in Operators : mem'[q] = IF q = o THEN m ELSE mem[q]
    BY MemoryAfter DEF IInv
  <2> QED
    BY <2>1 DEF Creating, ReplicaSet
<1>2. ActivePods(t, i, r)' \subseteq ActivePods(t, i, r)
  BY DEF ActivePods
<1> QED
  BY <1>1, <1>2, BoundStep DEF Shrinks

(* SyncPods is about to create a pod only if it has seen none, or if the   *)
(* List failed.                                                            *)
LEMMA BoundListPods ==
  ASSUME IInv, IInv', BoundInv, faults.lists <= faults'.lists, NEW o \in Operators, ListPods(o)
  PROVE  BoundInv'
<1>0. /\ mem[o] \in Memories /\ mem[o].pc = "listPods" /\ UNCHANGED <<spec, pods>>
  BY DEF ListPods, IInv, TypeOK
<1>1. CASE mem' = [mem EXCEPT ![o] = NextTask(mem[o])]
  <2>1. NextTask(mem[o]).pc = "listPods"
    BY <1>0, KeepsJob DEF PCs
  <2> QED
    BY <1>0, <1>1, <2>1, BoundQuiet
<1>2. CASE mem' = [mem EXCEPT ![o] = [mem[o] EXCEPT !.pc = "createPod"]]
  <2> DEFINE m == [mem[o] EXCEPT !.pc = "createPod"]
             noActive == {p \in PodsAt(mem[o], mem[o].pos.idx) : Active(p)} = {}
  <2>1. m.pos = mem[o].pos /\ m.job = mem[o].job
    BY <1>0 DEF Memories
  <2>2. noActive \/ faults'.lists = faults.lists + 1
    <3>1. "listPods" # "createPod" /\ \A n : [mem[o] EXCEPT !.pc = "createPod"].pc = "createPod"
      BY <1>0 DEF Memories
    <3>2. CASE Fault("list")
      BY <3>2 DEF Fault
    <3>3. CASE ~Fault("list")
      <4>1. NextTask(mem[o]).pc = "listPods"
        BY <1>0, KeepsJob DEF PCs
      <4>2. mem'[o].pc = "createPod"
        BY <1>0, <1>2 DEF Memories, IInv, TypeOK
      <4>3. mem' # [mem EXCEPT ![o] = NextTask(mem[o])]
        BY <4>1, <4>2 DEF IInv, TypeOK
      <4> QED
        BY <3>3, <4>3 DEF ListPods, Become
    <3> QED
      BY <3>2, <3>3
  <2> HIDE DEF m
  <2> SUFFICES ASSUME NEW t, NEW i, NEW r PROVE Load(t, i, r)' <= Bound'
    BY DEF BoundInv
  <2>3. ActivePods(t, i, r)' = ActivePods(t, i, r)
    BY <1>0 DEF ActivePods
  <2>4. /\ Creating(t, i, r)' \subseteq Creating(t, i, r) \union {o}
        /\ o \in Creating(t, i, r)' =>
             ReplicaSet(m).type = t /\ m.pos.idx = i /\ m.job.rid = r
    <3>1. \A q \in Operators : mem'[q] = IF q = o THEN m ELSE mem[q]
      BY <1>2, MemoryAfter DEF IInv, m
    <3> QED
      BY <1>0, <3>1 DEF Creating, ReplicaSet
  <2>5. CASE o \notin Creating(t, i, r)'
    BY <2>3, <2>4, <2>5, BoundStep DEF Shrinks
  <2>6. CASE o \in Creating(t, i, r)' /\ noActive
    <3>1. ReplicaSet(mem[o]).type = t /\ mem[o].pos.idx = i /\ mem[o].job.rid = r
      BY <2>1, <2>4, <2>6 DEF ReplicaSet
    <3>2. ActivePods(t, i, r) = {}
      BY <2>6, <3>1 DEF PodsAt, Active, ActivePods
    <3> QED
      BY <2>3, <3>2, BoundStep
  <2>7. CASE faults'.lists = faults.lists + 1
    BY <2>3, <2>4, <2>7, BoundStep DEF Misses
  <2> QED
    BY <2>2, <2>5, <2>6, <2>7
<1> QED
  BY <1>1, <1>2 DEF ListPods, Become

(* Whoever creates a pod was counted before. *)
LEMMA BoundPodCreated ==
  ASSUME IInv, IInv', BoundInv, faults.lists <= faults'.lists, NEW o \in Operators,
         PodCreated(o) \/ CreatePodFailed(o)
  PROVE  BoundInv'
<1>1. LoopAction(o) /\ ~ListPods(o) /\ mem[o].pc = "createPod" /\ UNCHANGED spec
  BY DEF LoopAction, PodCreated, CreatePodFailed, CreatingPod, ListPods
<1>2. PICK m : mem' = [mem EXCEPT ![o] = m] /\ m.pc # "createPod"
  BY <1>1, LoopEffect DEF GoesTo
<1>3. CASE UNCHANGED pods
  BY <1>1, <1>2, <1>3, BoundQuiet
<1>4. ASSUME NEW x, pods' = pods \union {NewPod(mem[o], x)}
      PROVE  BoundInv'
  <2> SUFFICES ASSUME NEW t, NEW i, NEW r PROVE Load(t, i, r)' <= Bound'
    BY DEF BoundInv
  <2> DEFINE n == NewPod(mem[o], x)
  <2>1. /\ n.type = ReplicaSet(mem[o]).type /\ n.idx = mem[o].pos.idx
        /\ n.rid = mem[o].job.rid
    BY DEF NewPod
  <2> HIDE DEF n
  <2>2. Creating(t, i, r)' \subseteq Creating(t, i, r) \ {o}
    <3>1. \A q \in Operators : mem'[q] = IF q = o THEN m ELSE mem[q]
      BY <1>2, MemoryAfter DEF IInv
    <3> QED
      BY <1>1, <1>2, <3>1 DEF Creating, ReplicaSet
  <2>3. ActivePods(t, i, r)' \subseteq ActivePods(t, i, r) \union {n}
    BY <1>4 DEF ActivePods, n
  <2>4. CASE o \in Creating(t, i, r)
    BY <2>2, <2>3, <2>4, BoundStep DEF Creates
  <2>5. CASE o \notin Creating(t, i, r)
    <3>1. ~(n.type = t /\ n.idx = i /\ n.rid = r)
      BY <1>1, <2>1, <2>5 DEF Creating
    <3>2. ActivePods(t, i, r)' \subseteq ActivePods(t, i, r)
      BY <1>4, <3>1 DEF ActivePods, n
    <3> QED
      BY <2>2, <3>2, BoundStep DEF Shrinks
  <2> QED
    BY <2>4, <2>5
<1> QED
  BY <1>3, <1>4 DEF PodCreated, CreatePodFailed

(* Every step of an operator. *)
LEMMA BoundOperate ==
  ASSUME IInv, IInv', BoundInv, faults.lists <= faults'.lists, NEW o \in Operators, Operate(o)
  PROVE  BoundInv'
<1>1. CASE LoopAction(o) /\ ~(ListPods(o) \/ PodCreated(o) \/ CreatePodFailed(o))
  <2>1. PICK m : mem' = [mem EXCEPT ![o] = m] /\ m.pc # "createPod"
    BY <1>1, LoopEffect DEF GoesTo
  <2>2. pods' \subseteq pods
    BY <1>1 DEF LoopAction, SetupReplicas, SkipEmptySet, PodNameTaken, PodsSynced, GetService,
       CreateService, CreateServiceFailed, ServicesSynced, GetPod, ListReplica, SetRead,
       ReportStatus, DeleteResources
  <2>3. UNCHANGED spec
    BY <1>1, LoopEffect
  <2> QED
    BY <2>1, <2>2, <2>3, BoundQuiet
<1>2. CASE ~LoopAction(o)
  <2>1. PICK m : mem' = [mem EXCEPT ![o] = m] /\ Resumes(m)
    BY <1>2, OutsideEffect
  <2>2. UNCHANGED <<spec, pods>>
    BY <1>2, OutsideEffect
  <2> QED
    BY <2>1, <2>2, BoundQuiet DEF Resumes
<1> QED
  BY <1>1, <1>2, BoundListPods, BoundPodCreated

(* A pod that the kubelet changes takes the place of the one it was. *)
LEMMA BoundKubelet ==
  ASSUME IInv, IInv', BoundInv, faults.lists <= faults'.lists, NEW p \in pods, Kubelet(p)
  PROVE  BoundInv'
<1> SUFFICES ASSUME NEW t, NEW i, NEW r PROVE Load(t, i, r)' <= Bound'
  BY DEF BoundInv
<1>1. /\ UNCHANGED <<spec, mem>>
      /\ \A n \in pods' : n \in pods \/ /\ n.type = p.type /\ n.idx = p.idx /\ n.rid = p.rid
                                        /\ p \notin pods' \/ n = p
                                        /\ p.phase # "Failed"
      /\ \A n, q \in pods' : n \notin pods /\ q \notin pods => n = q
  BY KubeletEffect
<1>2. Creating(t, i, r)' \subseteq Creating(t, i, r)
  BY <1>1 DEF Creating, ReplicaSet
<1>3. CASE ActivePods(t, i, r)' \subseteq ActivePods(t, i, r)
  BY <1>2, <1>3, BoundStep DEF Shrinks
<1>4. CASE ~(ActivePods(t, i, r)' \subseteq ActivePods(t, i, r))
  <2>1. PICK n \in pods' : n \notin pods /\ n.type = t /\ n.idx = i /\ n.rid = r
    BY <1>4 DEF ActivePods
  <2>2. p \in ActivePods(t, i, r) /\ p \notin pods'
    BY <1>1, <2>1 DEF ActivePods
  <2>3. ActivePods(t, i, r)' \subseteq (ActivePods(t, i, r) \ {p}) \union {n}
    BY <1>1, <2>1, <2>2 DEF ActivePods
  <2> QED
    BY <1>2, <2>2, <2>3, BoundStep DEF Replaces
<1> QED
  BY <1>3, <1>4

(* Users create no pods, and the garbage collector takes them all. *)
LEMMA BoundCluster ==
  ASSUME IInv, IInv', BoundInv, faults.lists <= faults'.lists,
         User \/ CollectGarbage \/ UNCHANGED vars
  PROVE  BoundInv'
<1> SUFFICES ASSUME NEW t, NEW i, NEW r PROVE Load(t, i, r)' <= Bound'
  BY DEF BoundInv
<1>1. UNCHANGED <<spec, mem>> /\ pods' \subseteq pods
  BY DEF User, UserEdits, UserCleansUp, UserDeletes, CollectGarbage, vars
<1>2. Creating(t, i, r)' \subseteq Creating(t, i, r)
  BY <1>1 DEF Creating, ReplicaSet
<1>3. ActivePods(t, i, r)' \subseteq ActivePods(t, i, r)
  BY <1>1 DEF ActivePods
<1> QED
  BY <1>2, <1>3, BoundStep DEF Shrinks

(* A job of an earlier release has one pod per task. *)
LEMMA BoundInit == Init => BoundInv
<1> SUFFICES ASSUME Init, NEW p \in pods PROVE Load(p.type, p.idx, p.rid) <= Bound
  BY DEF BoundInv
<1> DEFINE A == ActivePods(p.type, p.idx, p.rid)
           C == Creating(p.type, p.idx, p.rid)
<1>1. C = {}
  BY DEF Init, NoMemory, Creating
<1>2. A \subseteq {p}
  <2>1. InitUpgraded
    BY DEF Init, InitNew
  <2>2. PICK r : pods = {[type |-> t.type, idx |-> t.idx, rid |-> r, sfx |-> 0,
                          phase |-> "Running", exit |-> "none"] : t \in TaskSet(spec)}
    BY <2>1 DEF InitUpgraded
  <2> QED
    BY <2>2 DEF ActivePods
<1>3. faults.lists \in Nat
  BY DEF Init
<1> HIDE DEF A, C
<1>4. Cardinality(A) \in Nat /\ Cardinality(A) <= 1
  <2>1. A \in SUBSET {p}
    BY <1>2
  <2>2. IsFiniteSet({p}) /\ Cardinality({p}) = 1
    BY FS_Singleton
  <2>3. IsFiniteSet(A) /\ Cardinality(A) <= Cardinality({p})
    BY <2>1, <2>2, FS_Subset
  <2> QED
    BY <2>2, <2>3, FS_CardinalityType
<1>5. Cardinality(C) = 0
  BY <1>1, FS_EmptySet
<1>6. Cardinality(Operators) \in Nat /\ Cardinality(Operators) # 0
  BY OperatorsAssumption, FS_EmptySet, FS_CardinalityType
<1> QED
  BY <1>3, <1>4, <1>5, <1>6 DEF Load, Bound, A, C

(* However many processes reconcile the job at once, and whatever crashes, *)
(* is lost or is tried again: a task has no more pods that are not Failed  *)
(* than there are processes, and one more for each List of SyncPods that   *)
(* failed (SyncPods, CreatePodWithIndex).                                  *)
THEOREM PodsPerTask == Spec => []PodsBounded
<1>1. IInv /\ BoundInv /\ [Next]_vars => BoundInv'
  <2> SUFFICES ASSUME IInv, BoundInv, [Next]_vars PROVE BoundInv'
    OBVIOUS
  <2>1. IInv' /\ faults.lists <= faults'.lists
    BY Inductive, FailedListsGrow
  <2>2. CASE \E o \in Operators : Operate(o)
    BY <2>1, <2>2, BoundOperate
  <2>3. CASE \E p \in pods : Kubelet(p)
    BY <2>1, <2>3, BoundKubelet
  <2>4. CASE User \/ CollectGarbage \/ UNCHANGED vars
    BY <2>1, <2>4, BoundCluster
  <2> QED
    BY <2>2, <2>3, <2>4 DEF Next
<1>2. IInv /\ BoundInv => PodsBounded
  <2> SUFFICES ASSUME IInv, BoundInv, NEW p \in pods
               PROVE  Cardinality(ActivePods(p.type, p.idx, p.rid)) <=
                        Cardinality(Operators) + faults.lists
    BY DEF PodsBounded
  <2>1. TypeOK
    BY DEF IInv
  <2>2. Load(p.type, p.idx, p.rid) <= Bound
    BY DEF BoundInv
  <2> QED
    BY <2>1, <2>2, LoadType DEF Load, Bound
<1> QED
  BY <1>1, <1>2, BoundInit, Invariant, PTL DEF Spec

-----------------------------------------------------------------------------
(***************************************************************************)
(* What GetStatus reports of a chief that is not a task of the job, or of  *)
(* pods that have a suffix: nothing.  It does not even list them.          *)
(***************************************************************************)
(* GetSingleReplicaStatus finds the chief only under the name of a pod of  *)
(* an earlier release.                                                     *)
CanReport == ChiefIsTask /\ "upgraded" \in Origins

(* A job of an earlier release may be Running from the start. *)
Says(phase) == /\ phase = "Done" => CanReport
               /\ phase = "Running" => "upgraded" \in Origins

BareAreTasks ==
  \A p \in pods : p.sfx = 0 => /\ [type |-> p.type, idx |-> p.idx] \in TaskSet(spec)
                               /\ "upgraded" \in Origins

(* Between the steps of GetStatus nothing else is known of the chief. *)
Justified(m) ==
  /\ m.pc \in {"getChief", "listChief"} =>
       spec.chief # <<>> /\ AtSet(m) /\ ReplicaSet(m).type = spec.chief[1].name
  /\ m.pc = "listReplica" => "upgraded" \in Origins
  /\ m.pc = "listChief" => CanReport
  /\ m.chief # "Unknown" => CanReport
  /\ Says(m.status.phase) /\ Says(m.job.status.phase)

ReportInv == /\ BareAreTasks
             /\ Says(crd.status.phase)
             /\ \A o \in Operators : Justified(mem[o])

(* A step of operator o that makes no pod without a suffix. *)
LEMMA ReportStep ==
  ASSUME IInv, ReportInv, NEW o \in Operators, NEW m, mem' = [mem EXCEPT ![o] = m],
         UNCHANGED spec, Justified(m),
         crd'.status.phase \in {crd.status.phase, mem[o].status.phase},
         \A p \in pods' : p \in pods \/ p.sfx # 0
  PROVE  ReportInv'
<1>1. \A q \in Operators : mem'[q] = IF q = o THEN m ELSE mem[q]
  BY DEF IInv, TypeOK
<1>0. TaskSet(spec)' = TaskSet(spec)
  BY DEF TaskSet
<1>2. BareAreTasks'
  BY <1>0 DEF ReportInv, BareAreTasks
<1>3. CanReport' = CanReport
  BY <1>0 DEF CanReport, ChiefIsTask
<1>4. \A ph : Says(ph)' <=> Says(ph)
  BY <1>3 DEF Says
<1>5. Says(crd'.status.phase)
  BY DEF ReportInv, Justified
<1>6. ASSUME NEW q \in Operators PROVE Justified(mem[q])'
  <2>1. Justified(mem'[q])
    BY <1>1 DEF ReportInv
  <2> QED
    BY <1>3, <2>1 DEF Justified, Says, AtSet, Sets, ReplicaSet
<1> QED
  BY <1>2, <1>3, <1>5, <1>6 DEF ReportInv, Says

(* A step that learns nothing of the chief. *)
LEMMA ReportKept ==
  ASSUME IInv, ReportInv, NEW o \in Operators, NEW m, mem' = [mem EXCEPT ![o] = m],
         UNCHANGED spec, m.pc \notin {"listReplica", "getChief", "listChief"},
         m.chief \in {"Unknown", mem[o].chief},
         m.status.phase \in {"None", "Creating", "Failed", mem[o].status.phase,
                             mem[o].job.status.phase},
         m.job.status.phase \in {"None", crd.status.phase, mem[o].status.phase,
                                 mem[o].job.status.phase},
         crd'.status.phase \in {crd.status.phase, mem[o].status.phase},
         \A p \in pods' : p \in pods \/ p.sfx # 0
  PROVE  ReportInv'
<1>1. Justified(mem[o]) /\ Says(crd.status.phase)
  BY DEF ReportInv
<1>2. Says(m.status.phase) /\ Says(m.job.status.phase)
  <2>1. Says("None") /\ Says("Creating") /\ Says("Failed")
    BY DEF Says
  <2> QED
    BY <1>1, <2>1 DEF Justified
<1>3. Justified(m)
  BY <1>1, <1>2 DEF Justified
<1> QED
  BY <1>3, ReportStep

(* GetSingleReplicaStatus returns s. *)
LEMMA ReportAnswer ==
  ASSUME IInv, ReportInv, NEW o \in Operators, NEW s \in ReplicaStates,
         mem' = [mem EXCEPT ![o] = Answer(mem[o], s)], UNCHANGED <<spec, crd, pods>>,
         mem[o].pc \in {"getReplica", "listReplica", "getChief", "listChief"},
         mem[o].pc \in {"getChief", "listChief"} /\ s # "Unknown" => CanReport
  PROVE  ReportInv'
<1> DEFINE m == Answer(mem[o], s)
<1>0. mem[o] \in Memories /\ Justified(mem[o])
  BY DEF IInv, TypeOK, ReportInv
<1>1. CASE mem[o].pc \in {"getReplica", "listReplica"}
  <2>1. Quiet(mem[o], m)
    BY <1>0, <1>1 DEF Answer, Quiet, Memories
  <2> HIDE DEF m
  <2> QED
    BY <2>1, ReportKept DEF Quiet, m
<1>2. CASE mem[o].pc \in {"getChief", "listChief"}
  <2> DEFINE n == NextSet(mem[o])
  <2>1. n \in Memories /\ n.status = mem[o].status /\ n.job = mem[o].job
    BY <1>0, LoopMemory DEF PCs
  <2> HIDE DEF n
  <2>2. m.pc = "getReplica" /\ m.chief = s /\ m.status = mem[o].status /\ m.job = mem[o].job
    BY <1>2, <2>1 DEF Answer, Memories, n
  <2> HIDE DEF m
  <2>3. Justified(m)
    BY <1>0, <1>2, <2>2 DEF Justified
  <2> QED
    BY <2>3, ReportStep DEF m
<1> QED
  BY <1>1, <1>2

(* The chief is found by its name: it is one of the tasks. *)
LEMMA ReportGetPod ==
  ASSUME IInv, ReportInv, NEW o \in Operators, GetPod(o) \/ ListReplica(o)
  PROVE  ReportInv'
<1> DEFINE named == {p \in PodsAt(mem[o], Probed(mem[o])) : p.sfx = 0}
<1>0. /\ mem[o] \in Memories /\ Justified(mem[o]) /\ UNCHANGED <<spec, crd, pods>>
      /\ mem[o].pc \in {"getReplica", "listReplica", "getChief", "listChief"}
  BY DEF GetPod, ReadsReplica, ListReplica, IInv, TypeOK, ReportInv
<1>5. named # {} => "upgraded" \in Origins
  BY DEF PodsAt, ReportInv, BareAreTasks
<1>1. ASSUME mem[o].pc = "getChief", named # {}
      PROVE  CanReport
  <2>1. PICK p \in pods : /\ p.type = ReplicaSet(mem[o]).type /\ p.idx = spec.chief[1].index
                          /\ p.sfx = 0
    BY <1>1 DEF PodsAt, Probed
  <2>2. p.type = spec.chief[1].name /\ spec.chief # <<>>
    BY <1>0, <1>1, <2>1 DEF Justified
  <2>3. [type |-> p.type, idx |-> p.idx] \in TaskSet(spec) /\ "upgraded" \in Origins
    BY <2>1 DEF ReportInv, BareAreTasks
  <2> QED
    BY <2>1, <2>2, <2>3 DEF CanReport, ChiefIsTask
<1>2. CASE mem' = [mem EXCEPT ![o] = Answer(mem[o], "Unknown")]
  BY <1>0, <1>2, ReportAnswer DEF ReplicaStates
<1>3. CASE GetPod(o) /\ ~(mem' = [mem EXCEPT ![o] = Answer(mem[o], "Unknown")])
  <2>1. mem[o].pc \in {"getReplica", "getChief"} /\ AtSet(mem[o])
    BY <1>3 DEF GetPod, ReadsReplica, IInv, LoopsOK, AtSet, Sets
  <2>2. named # {}
    BY <1>3 DEF GetPod, Become
  <2>3. CASE mem' = [mem EXCEPT ![o] = Answer(mem[o], "Succeeded")]
    BY <1>0, <1>1, <2>1, <2>2, <2>3, ReportAnswer DEF ReplicaStates
  <2>4. CASE mem' = [mem EXCEPT ![o] =
                 [mem[o] EXCEPT !.pc = IF @ = "getChief" THEN "listChief" ELSE "listReplica"]]
    <3> DEFINE pc == IF mem[o].pc = "getChief" THEN "listChief" ELSE "listReplica"
               m == [mem[o] EXCEPT !.pc = IF @ = "getChief" THEN "listChief" ELSE "listReplica"]
    <3>1. /\ m.pc = pc /\ m.status = mem[o].status /\ m.job = mem[o].job
          /\ m.chief = mem[o].chief /\ m.pos = mem[o].pos
      BY <1>0 DEF Memories
    <3> HIDE DEF m
    <3>2. Justified(m)
      BY <1>0, <1>1, <1>5, <2>1, <2>2, <3>1 DEF Justified, AtSet, ReplicaSet
    <3> QED
      BY <1>0, <2>4, <3>2, ReportStep DEF m
  <2> QED
    BY <1>3, <2>3, <2>4 DEF GetPod, Become
<1>4. CASE ListReplica(o)
  <2>1. mem[o].pc = "listChief" => CanReport
    BY <1>0 DEF Justified
  <2>2. PICK s \in ReplicaStates : mem' = [mem EXCEPT ![o] = Answer(mem[o], s)]
    <3>1. "Failed" \in ReplicaStates
      BY DEF ReplicaStates
    <3> QED
      BY <1>4, <3>1, PodListState DEF ListReplica, Become
  <2>3. mem[o].pc # "getChief"
    BY <1>4 DEF ListReplica
  <2> QED
    BY <1>0, <2>1, <2>2, <2>3, ReportAnswer
<1> QED
  BY <1>2, <1>3, <1>4

(* The replicas of a set are read: the chief is looked for next if it has  *)
(* this type, which only a job with a chief has.                           *)
LEMMA ReportSetRead ==
  ASSUME IInv, ReportInv, NEW o \in Operators, SetRead(o)
  PROVE  ReportInv'
<1> DEFINE read == [mem[o] EXCEPT !.reps = Append(@, SetStatus(mem[o].seen)), !.seen = <<>>]
           type == ReplicaSet(mem[o]).type
<1>0. /\ mem[o] \in Memories /\ mem[o].pc = "getReplica" /\ AtSet(mem[o]) /\ Justified(mem[o])
      /\ UNCHANGED <<spec, crd, pods>>
      /\ mem' = [mem EXCEPT ![o] = IF type = spec.chief[1].name
                                   THEN [read EXCEPT !.pc = "getChief"] ELSE NextSet(read)]
  BY DEF SetRead, Become, IInv, TypeOK, ReportInv
<1>1. spec.chief # <<>>
  <2>1. ~DereferencesNilChief(spec) /\ DOMAIN spec.replicaSpecs # {}
    BY <1>0 DEF SetRead, AtSet, Sets
  <2> QED
    BY <2>1 DEF DereferencesNilChief
<1>2. /\ read \in Memories /\ read.pc = "getReplica" /\ read.job = mem[o].job
      /\ read.status = mem[o].status /\ read.chief = mem[o].chief /\ read.pos = mem[o].pos
  <2>1. mem[o].reps \in Seq(SetStatuses) /\ SetStatus(mem[o].seen) \in SetStatuses
    BY <1>0, SetStatusType DEF Memories
  <2>2. Append(mem[o].reps, SetStatus(mem[o].seen)) \in Seq(SetStatuses) /\ <<>> \in Seq(ReplicaStates)
    BY <2>1
  <2>3. ASSUME NEW rs \in Seq(SetStatuses)
        PROVE  LET r == [mem[o] EXCEPT !.reps = rs, !.seen = <<>>]
               IN  /\ r \in Memories /\ r.pc = mem[o].pc /\ r.job = mem[o].job
                   /\ r.status = mem[o].status /\ r.chief = mem[o].chief /\ r.pos = mem[o].pos
    BY <1>0, <2>2 DEF Memories
  <2> QED
    BY <1>0, <2>2, <2>3
<1> HIDE DEF read
<1>3. CASE type = spec.chief[1].name
  <2> DEFINE m == [read EXCEPT !.pc = "getChief"]
  <2>1. /\ m.pc = "getChief" /\ m.status = mem[o].status /\ m.job = mem[o].job
        /\ m.chief = mem[o].chief /\ m.pos = mem[o].pos
    BY <1>2 DEF Memories
  <2> HIDE DEF m
  <2>2. Justified(m)
    BY <1>0, <1>1, <1>3, <2>1 DEF Justified, AtSet, ReplicaSet
  <2> QED
    BY <1>0, <1>3, <2>2, ReportStep DEF m
<1>4. CASE type # spec.chief[1].name
  <2>1. Quiet(mem[o], NextSet(read))
    BY <1>2, LoopMemory DEF Quiet, PCs
  <2> HIDE DEF type
  <2>2. mem' = [mem EXCEPT ![o] = NextSet(read)]
    BY <1>0, <1>4
  <2> QED
    BY <1>0, <2>1, <2>2, ReportKept DEF Quiet
<1> QED
  BY <1>3, <1>4

(* The phase changes only if the chief was found. *)
LEMMA ReportReported ==
  ASSUME IInv, ReportInv, NEW o \in Operators, ReportStatus(o)
  PROVE  ReportInv'
<1> DEFINE r == Reported([mem[o].status EXCEPT !.reps = mem[o].reps], mem[o].chief)
           g == Goto(mem[o], "updateStatus")
           m == [g EXCEPT !.status = Reported([@ EXCEPT !.reps = mem[o].reps], mem[o].chief),
                          !.reps = <<>>, !.chief = "Unknown"]
<1>0. /\ mem[o] \in Memories /\ UNCHANGED <<spec, crd, pods>> /\ mem' = [mem EXCEPT ![o] = m]
      /\ Justified(mem[o])
  BY DEF ReportStatus, Become, IInv, TypeOK, ReportInv
<1>1. /\ r.phase \in {mem[o].status.phase, "Running", "Done"}
      /\ mem[o].chief = "Unknown" => r.phase = mem[o].status.phase
  <2>1. mem[o].status \in Statuses /\ mem[o].reps \in Seq(SetStatuses) /\ mem[o].chief \in ReplicaStates
    BY <1>0 DEF Memories
  <2> QED
    BY <2>1, ReportedStatus
<1> HIDE DEF r
<1>2. g \in Memories /\ g.pc = "updateStatus" /\ g.job = mem[o].job /\ g.status = mem[o].status
  BY <1>0, JumpMemory DEF PCs, UpdateSites
<1> HIDE DEF g
<1>3. m.pc = "updateStatus" /\ m.job = mem[o].job /\ m.status = r /\ m.chief = "Unknown"
  BY <1>2 DEF Memories, r
<1> HIDE DEF m
<1>4. Says(r.phase)
  BY <1>0, <1>1 DEF Justified, Says, CanReport
<1>5. Justified(m)
  BY <1>0, <1>3, <1>4 DEF Justified
<1> QED
  BY <1>0, <1>5, ReportStep

(* updateCRDStatus stores the phase in memory. *)
LEMMA ReportUpdate ==
  ASSUME IInv, ReportInv, NEW o \in Operators,
         StatusUnchanged(o) \/ StatusWritten(o) \/ StatusRefused(o) \/ StatusAnswerLost(o)
  PROVE  ReportInv'
<1>0. /\ mem[o] \in Memories /\ UNCHANGED <<spec, pods>> /\ mem[o].pc \in UpdateSites
      /\ crd \in [live : BOOLEAN, rid : Ids, status : Statuses]
  BY DEF StatusUnchanged, StatusWritten, StatusRefused, StatusAnswerLost, Unwritten, IInv, TypeOK
<1>1. crd'.status \in {crd.status, mem[o].status}
  BY <1>0 DEF StatusUnchanged, StatusWritten, StatusRefused, StatusAnswerLost, Stored
<1>2. PICK n \in {mem[o], Aliased(mem[o])}, pc \in PCs :
        /\ mem' = [mem EXCEPT ![o] = Goto(n, pc)]
        /\ pc \notin {"listReplica", "getChief", "listChief"}
  BY DEF StatusUnchanged, StatusWritten, StatusRefused, StatusAnswerLost, Become, Updated, PCs,
     UpdateSites
<1>3. /\ n \in Memories /\ n.chief = mem[o].chief /\ n.status = mem[o].status
      /\ n.job.status \in {mem[o].job.status, mem[o].status}
  BY <1>0, AtUpdate
<1> DEFINE m == Goto(n, pc)
<1>4. m.pc = pc /\ m.status = n.status /\ m.job = n.job /\ m.chief = n.chief
  BY <1>3, JumpMemory
<1> HIDE DEF m
<1> QED
  BY <1>0, <1>1, <1>2, <1>3, <1>4, ReportKept DEF m

(* syncMXJob, setup and the end of a process: the phases are those of the  *)
(* stored job, Creating or Failed.                                         *)
LEMMA ReportOutside ==
  ASSUME IInv, ReportInv, NEW o \in Operators,
         Start(o) \/ Informed(o) \/ NewJob(o) \/ Sync(o) \/ ObserveDelete(o) \/ Setup(o)
           \/ Panic(o) \/ Crash(o)
  PROVE  ReportInv'
<1>0. mem[o] \in Memories /\ UNCHANGED <<spec, crd, pods>>
  BY DEF Start, Informed, NewJob, Sync, ObserveDelete, Setup, Panic, Crash, Exit, IInv, TypeOK
<1>1. CASE Start(o)
  <2> DEFINE m == [NoMemory EXCEPT !.pc = "synced",
                                   !.job = [rid |-> crd.rid, status |-> crd.status]]
  <2>1. /\ m.pc = "synced" /\ m.chief = "Unknown" /\ m.status.phase = "None"
        /\ m.job.status.phase = crd.status.phase
    BY DEF NoMemory, NoStatus
  <2>2. mem' = [mem EXCEPT ![o] = m]
    BY <1>1 DEF Start, Become
  <2> HIDE DEF m
  <2> QED
    BY <1>0, <2>1, <2>2, ReportKept
<1>2. CASE Informed(o)
  <2> DEFINE m == [mem[o] EXCEPT !.job = [rid |-> crd.rid, status |-> crd.status]]
  <2>1. /\ m.pc = "synced" /\ m.chief = mem[o].chief /\ m.status = mem[o].status
        /\ m.job.status = crd.status
    BY <1>0, <1>2 DEF Informed, Memories
  <2>2. mem' = [mem EXCEPT ![o] = m]
    BY <1>2 DEF Informed, Become
  <2> HIDE DEF m
  <2> QED
    BY <1>0, <2>1, <2>2, ReportKept
<1>3. ASSUME NEW n \in Memories, NEW pc \in {"setup", "replicas", "gone"},
             mem' = [mem EXCEPT ![o] = Goto(n, pc)], n.chief = mem[o].chief, n.job = mem[o].job,
             n.status \in {mem[o].status, mem[o].job.status}
      PROVE  ReportInv'
  <2> DEFINE m == Goto(n, pc)
  <2>1. m.pc = pc /\ m.chief = n.chief /\ m.status = n.status /\ m.job = n.job
    BY JumpMemory DEF PCs
  <2> HIDE DEF m
  <2> QED
    BY <1>0, <1>3, <2>1, ReportKept DEF m
<1>4. Entry(mem[o]) \in {"setup", "replicas"}
  BY DEF Entry
<1>5. CASE NewJob(o)
  <2> DEFINE n == [mem[o] EXCEPT !.status = mem[o].job.status]
  <2>1. /\ n \in Memories /\ n.chief = mem[o].chief /\ n.status = mem[o].job.status
        /\ n.job = mem[o].job
    BY <1>0 DEF Memories
  <2>2. mem' = [mem EXCEPT ![o] = Goto(n, Entry(mem[o]))]
    BY <1>5 DEF NewJob, Become
  <2> HIDE DEF n
  <2> QED
    BY <1>3, <1>4, <2>1, <2>2
<1>6. CASE Sync(o) \/ ObserveDelete(o)
  BY <1>0, <1>3, <1>4, <1>6 DEF Sync, ObserveDelete, Become
<1>7. CASE Setup(o)
  <2>1. CASE mem' = [mem EXCEPT ![o] = Reject(mem[o])]
    <3> DEFINE m == Reject(mem[o])
    <3>1. /\ m.pc = "updateSetup" /\ m.chief = mem[o].chief /\ m.status.phase = "Failed"
          /\ m.job = mem[o].job
      BY <1>0 DEF Reject, Memories, Statuses
    <3> HIDE DEF m
    <3> QED
      BY <1>0, <2>1, <3>1, ReportKept DEF m
  <2>2. ASSUME NEW r, mem' = [mem EXCEPT ![o] = Admit(mem[o], r)] PROVE ReportInv'
    <3> DEFINE m == Admit(mem[o], r)
    <3>1. /\ m.pc = "updateSetup" /\ m.chief = mem[o].chief /\ m.status.phase = "Creating"
          /\ m.job.status = mem[o].job.status
      BY <1>0 DEF Admit, Memories, Statuses
    <3> HIDE DEF m
    <3> QED
      BY <1>0, <2>2, <3>1, ReportKept DEF m
  <2> QED
    BY <1>7, <2>1, <2>2 DEF Setup, Become
<1>8. CASE Panic(o) \/ Crash(o)
  <2>1. /\ NoMemory.pc = "down" /\ NoMemory.chief = "Unknown" /\ NoMemory.status.phase = "None"
        /\ NoMemory.job.status.phase = "None"
    BY DEF NoMemory, NoStatus
  <2>2. mem' = [mem EXCEPT ![o] = NoMemory]
    BY <1>8 DEF Panic, Crash, Exit, Become
  <2> QED
    BY <1>0, <2>1, <2>2, ReportKept
<1> QED
  BY <1>1, <1>2, <1>5, <1>6, <1>7, <1>8

(* Every step of an operator. *)
LEMMA ReportOperate ==
  ASSUME IInv, ReportInv, NEW o \in Operators, Operate(o)
  PROVE  ReportInv'
<1>1. CASE SkipEmptySet(o) \/ ListPods(o) \/ PodCreated(o) \/ PodNameTaken(o) \/ CreatePodFailed(o)
             \/ PodsSynced(o) \/ GetService(o) \/ CreateService(o) \/ CreateServiceFailed(o)
             \/ ServicesSynced(o) \/ SetupReplicas(o)
  <2>1. PICK m : mem' = [mem EXCEPT ![o] = m] /\ Quiet(mem[o], m)
    BY <1>1, SyncIsQuiet
  <2>2. UNCHANGED <<spec, crd>>
    BY <1>1, SyncIsQuiet
  <2>3. \A p \in pods' : p \in pods \/ p.sfx # 0
    BY <1>1, PodSuffixesAssumption
       DEF SkipEmptySet, ListPods, PodCreated, PodNameTaken, CreatePodFailed, PodsSynced,
           GetService, CreateService, CreateServiceFailed, ServicesSynced, SetupReplicas, NewPod
  <2> QED
    BY <2>1, <2>2, <2>3, ReportKept DEF Quiet
<1>2. CASE DeleteResources(o)
  <2>1. PICK n \in {NextSet(mem[o]), Goto(mem[o], "idle")} : mem' = [mem EXCEPT ![o] = n]
    BY <1>2 DEF DeleteResources, Become
  <2>2. /\ n.status = mem[o].status /\ n.job = mem[o].job /\ n.chief = mem[o].chief
        /\ n.pc \in {"deleteResources", "idle"}
    <3>1. mem[o] \in Memories /\ mem[o].pc = "deleteResources"
      BY <1>2 DEF DeleteResources, IInv, TypeOK
    <3>2. CASE n = NextSet(mem[o])
      BY <3>1, <3>2, LoopMemory DEF PCs
    <3>3. CASE n = Goto(mem[o], "idle")
      BY <3>1, <3>3, JumpMemory DEF PCs
    <3> QED
      BY <2>1, <3>2, <3>3
  <2>3. UNCHANGED <<spec, crd>> /\ pods' \subseteq pods
    BY <1>2 DEF DeleteResources
  <2> QED
    BY <2>1, <2>2, <2>3, ReportKept
<1> QED
  BY <1>1, <1>2, ReportGetPod, ReportSetRead, ReportReported, ReportUpdate, ReportOutside
     DEF Operate, Reconcile

(* The kubelet renames no pod, and no user reports a phase but CleanUp. *)
LEMMA ReportCluster ==
  ASSUME IInv, ReportInv,
         (\E p \in pods : Kubelet(p)) \/ User \/ CollectGarbage \/ UNCHANGED vars
  PROVE  ReportInv'
<1>1. UNCHANGED <<spec, mem>> /\ crd'.status.phase \in {crd.status.phase, "CleanUp"}
  <2>1. crd \in [live : BOOLEAN, rid : Ids, status : Statuses]
    BY DEF IInv, TypeOK
  <2> QED
    BY <2>1, KubeletEffect
       DEF User, UserEdits, UserCleansUp, UserDeletes, CollectGarbage, vars, Statuses
<1>2. \A p \in pods' : \E q \in pods : q.type = p.type /\ q.idx = p.idx /\ q.sfx = p.sfx
  <2>1. CASE \E p \in pods : Kubelet(p)
    <3>1. PICK p \in pods : Kubelet(p)
      BY <2>1
    <3>2. CASE pods' \subseteq pods
      BY <3>2
    <3>3. ASSUME NEW ph, NEW e, PodBecomes(p, ph, e)
          PROVE  \A n \in pods' : \E q \in pods : q.type = n.type /\ q.idx = n.idx /\ q.sfx = n.sfx
      <4> DEFINE n == [p EXCEPT !.phase = ph, !.exit = e]
      <4>1. pods' = (pods \ {p}) \union {n}
        BY <3>3 DEF PodBecomes
      <4>2. n.type = p.type /\ n.idx = p.idx /\ n.sfx = p.sfx
        BY DEF IInv, TypeOK, Pods
      <4> HIDE DEF n
      <4> QED
        BY <4>1, <4>2
    <3> QED
      BY <3>1, <3>2, <3>3
         DEF Kubelet, PodStarts, PodSucceeds, ContainerRestarts, PodFails, PodRemoved
  <2>2. CASE User \/ CollectGarbage \/ UNCHANGED vars
    BY <2>2 DEF User, UserEdits, UserCleansUp, UserDeletes, CollectGarbage, vars
  <2> QED
    BY <2>1, <2>2
<1>3. BareAreTasks'
  BY <1>1, <1>2 DEF ReportInv, BareAreTasks
<1>4. CanReport' = CanReport
  BY <1>1 DEF CanReport, ChiefIsTask, TaskSet
<1>5. Says(crd.status.phase)'
  BY <1>1, <1>4 DEF ReportInv, Says
<1>6. \A o \in Operators : Justified(mem[o])'
  BY <1>1, <1>4 DEF ReportInv, Justified, Says, AtSet, Sets, ReplicaSet
<1> QED
  BY <1>3, <1>5, <1>6 DEF ReportInv

(* Only a job of an earlier release has pods, and is Running. *)
LEMMA ReportInit == Init => ReportInv
<1> SUFFICES ASSUME Init PROVE ReportInv
  OBVIOUS
<1>1. \A o \in Operators : Justified(mem[o])
  BY DEF Init, NoMemory, NoStatus, Justified, Says
<1>2. CASE "submitted" \in Origins /\ InitNew
  BY <1>1, <1>2 DEF InitNew, NoStatus, ReportInv, BareAreTasks, Says
<1>3. CASE "upgraded" \in Origins /\ InitUpgraded
  <2>1. PICK r \in RuntimeIds, ph \in {"Creating", "Running"} :
          /\ crd = [live |-> TRUE, rid |-> r,
                    status |-> [NoStatus EXCEPT !.phase = ph, !.state = "Running"]]
          /\ pods = {[type |-> t.type, idx |-> t.idx, rid |-> r, sfx |-> 0,
                      phase |-> "Running", exit |-> "none"] : t \in TaskSet(spec)}
    BY <1>3 DEF InitUpgraded
  <2>2. crd.status.phase = ph
    BY <2>1 DEF NoStatus
  <2>3. BareAreTasks
    <3>1. \A t \in TaskSet(spec) : t = [type |-> t.type, idx |-> t.idx]
      BY DEF TaskSet
    <3> QED
      BY <1>3, <2>1, <3>1 DEF BareAreTasks
  <2> QED
    BY <1>1, <1>3, <2>2, <2>3 DEF ReportInv, Says
<1> QED
  BY <1>2, <1>3 DEF Init

(* Whatever the processes do at the same time. *)
LEMMA Report == Spec => []ReportInv
<1>1. IInv /\ ReportInv /\ [Next]_vars => ReportInv'
  BY ReportOperate, ReportCluster DEF Next
<1> QED
  BY <1>1, ReportInit, Invariant, PTL DEF Spec

(* A job whose chief is not one of its tasks is never Done, with any       *)
(* number of processes and whatever fails: a failed List of the chief's    *)
(* pods, for which GetSingleReplicaStatus answers Failed, included         *)
(* (ValidateTFJobSpec, GetStatus).                                         *)
THEOREM DoneIsOfATask == Spec => []DoneHasChief
<1>1. ReportInv => DoneHasChief
  BY DEF ReportInv, Says, CanReport, DoneHasChief
<1> QED
  BY <1>1, Report, PTL

(* The phase of a job submitted to this release never becomes Running or   *)
(* Done: its pods have a suffix, and GetSingleReplicaStatus asks for the   *)
(* pod without one first (CreatePodWithIndex, genPodName, genName).        *)
THEOREM SubmittedIsNeverReported ==
  ASSUME "upgraded" \notin Origins
  PROVE  Spec => [](crd.status.phase \notin {"Running", "Done"})
<1>1. ReportInv => crd.status.phase \notin {"Running", "Done"}
  BY DEF ReportInv, Says, CanReport
<1> QED
  BY <1>1, Report, PTL

(* A job submitted to this release that was set up never makes the         *)
(* operator dereference nil, with any number of processes and wherever the *)
(* loops of Reconcile are: it was validated, and the pods whose start      *)
(* times replicaStatusFromPodList compares are never listed                *)
(* (ValidateTFJobSpec, CreatePodWithIndex, GetStatus).                     *)
THEOREM AcceptedSafe ==
  ASSUME "upgraded" \notin Origins
  PROVE  Spec => []AcceptedNeverPanics
<1>1. IInv /\ ReportInv => AcceptedNeverPanics
  <2> SUFFICES ASSUME IInv, ReportInv, NEW o \in Operators, mem[o].job.rid # NoId, Panics(mem[o])
               PROVE  FALSE
    BY DEF AcceptedNeverPanics
  <2>1. mem[o].pc \in {"createPod", "getReplica"} => Accepted(spec)
    BY DEF IInv, MemoryOK, Started, Consistent
  <2>2. CASE UnsetPanics(mem[o])
    BY <2>2 DEF UnsetPanics, NotSetUp
  <2>3. CASE mem[o].pc = "createPod" /\ DereferencesNilTemplate(ReplicaSet(mem[o]))
    <3>1. mem[o].pos.set \in DOMAIN spec.replicaSpecs
      BY <2>3 DEF IInv, LoopsOK
    <3>2. ReplicaSet(mem[o]).template = "mxnet"
      BY <2>1, <2>3, <3>1 DEF Accepted, ValidateTFJobSpec, ValidReplicaSpec, ReplicaSet
    <3> QED
      BY <2>3, <3>2 DEF DereferencesNilTemplate
  <2>4. CASE mem[o].pc \in {"listReplica", "listChief"}
    BY <2>4 DEF ReportInv, Justified, CanReport
  <2>5. CASE mem[o].pc = "getReplica" /\ DereferencesNilChief(spec)
    BY <2>1, <2>5 DEF DereferencesNilChief, Accepted, ValidateTFJobSpec
  <2> QED
    BY <2>2, <2>3, <2>4, <2>5 DEF Panics
<1> QED
  BY <1>1, Report, Invariant, PTL
=============================================================================
