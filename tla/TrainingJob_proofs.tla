-------------------------- MODULE TrainingJob_proofs --------------------------
(***************************************************************************)
(* Proofs about TrainingJob, for any number of operators, specs, runtime   *)
(* ids, suffixes and disturbances: IInv is an inductive invariant, and the *)
(* properties that follow from it.                                         *)
(***************************************************************************)
EXTENDS TrainingJob, FiniteSetTheorems, TLAPS

-----------------------------------------------------------------------------
(***************************************************************************)
(* The operators on memories return memories.                              *)
(***************************************************************************)
(* A loop that ends leaves a memory. *)
LEMMA GotoType ==
  ASSUME NEW m \in Memories, NEW pc \in PCs
  PROVE  Goto(m, pc) \in Memories
<1>1. Start0 \in Positions
  BY DEF Start0, Positions
<1> QED
  BY <1>1 DEF Goto, Memories

(* Going on to the next replica set leaves a memory. *)
LEMMA NextSetType ==
  ASSUME NEW m \in Memories
  PROVE  NextSet(m) \in Memories
<1>1. [set |-> m.pos.set + 1, idx |-> 0] \in Positions
  BY DEF Memories, Positions
<1> QED
  BY <1>1 DEF NextSet, Memories

(* Going on to the next task leaves a memory. *)
LEMMA NextTaskType ==
  ASSUME NEW m \in Memories
  PROVE  NextTask(m) \in Memories
<1>1. CASE m.pos.idx + 1 < ReplicaSet(m).replicas
  BY <1>1 DEF NextTask, Memories, Positions
<1>2. CASE ~(m.pos.idx + 1 < ReplicaSet(m).replicas)
  BY <1>2, NextSetType DEF NextTask
<1> QED
  BY <1>1, <1>2

(* Another program counter leaves a memory. *)
LEMMA PcType ==
  ASSUME NEW m \in Memories, NEW pc \in PCs
  PROVE  [m EXCEPT !.pc = pc] \in Memories
BY DEF Memories

(* The aliased status leaves a memory. *)
LEMMA AliasedType ==
  ASSUME NEW m \in Memories
  PROVE  Aliased(m) \in Memories
BY DEF Aliased, Memories

(* updateCRDStatus leaves a memory. *)
LEMMA UpdatedType ==
  ASSUME NEW m \in Memories
  PROVE  Updated(m) \in Memories
<1>1. {"replicas", "getReplica", "deleteResources", "updateFinal", "idle"} \subseteq PCs
  BY DEF PCs, UpdateSites
<1> QED
  BY <1>1, GotoType DEF Updated

(* A process that is down has a memory. *)
LEMMA NoMemoryType == NoMemory \in Memories
<1>1. NoStatus \in Statuses
  BY DEF NoStatus, Statuses, Phases, States, Reasons
<1>2. Start0 \in Positions
  BY DEF Start0, Positions
<1> QED
  BY <1>1, <1>2 DEF NoMemory, Memories, PCs, Ids, ReplicaStates

(* The state of a replica is added to what was seen, or is the chief's. *)
LEMMA AnswerType ==
  ASSUME NEW m \in Memories, NEW s \in ReplicaStates
  PROVE  Answer(m, s) \in Memories
<1>1. "getReplica" \in PCs
  BY DEF PCs
<1>2. CASE m.pc \in {"getReplica", "listReplica"}
  <2>1. Append(m.seen, s) \in Seq(ReplicaStates)
    BY DEF Memories
  <2> QED
    BY <1>1, <1>2, <2>1 DEF Answer, Memories
<1>3. CASE m.pc \notin {"getReplica", "listReplica"}
  <2>1. NextSet(m) \in Memories
    BY NextSetType
  <2>2. [NextSet(m) EXCEPT !.pc = "getReplica", !.chief = s] \in Memories
    BY <1>1, <2>1 DEF Memories
  <2> QED
    BY <1>3, <2>2 DEF Answer
<1> QED
  BY <1>2, <1>3

(* A list of pods has a replica state, whatever the list. *)
LEMMA PodListState ==
  ASSUME NEW l
  PROVE  replicaStatusFromPodList(l) \in ReplicaStates
BY DEF replicaStatusFromPodList, PodState, ReplicaStates

(* The status of a replica set counts its replicas. *)
LEMMA SetStatusType ==
  ASSUME NEW seen \in Seq(ReplicaStates)
  PROVE  SetStatus(seen) \in SetStatuses
<1>1. \A s \in ReplicaStates : Count(seen, s) \in Nat
  <2> TAKE s \in ReplicaStates
  <2>1. IsFiniteSet(1..Len(seen))
    BY FS_Interval
  <2>2. DOMAIN seen = 1..Len(seen)
    OBVIOUS
  <2>3. {i \in DOMAIN seen : seen[i] = s} \subseteq 1..Len(seen)
    BY <2>2
  <2> QED
    BY <2>1, <2>3, FS_Subset, FS_CardinalityType DEF Count
<1>2. SetState(seen) \in ReplicaStates
  BY DEF SetState, ReplicaStates
<1> QED
  BY <1>1, <1>2 DEF SetStatus, SetStatuses

(* A disturbance keeps their number within its bound. *)
LEMMA FaultType ==
  ASSUME TypeOK, NoFault \/ \E k : Fault(k)
  PROVE  faults' \in FaultCounts
<1>1. ASSUME NEW k, Fault(k) PROVE faults' \in FaultCounts
  <2>1. /\ faults.all \in 0..MaxFaults /\ faults.lists \in Nat /\ faults.all < MaxFaults
        /\ faults' = [all |-> faults.all + 1,
                      lists |-> faults.lists + (IF k = "list" THEN 1 ELSE 0)]
    BY <1>1 DEF Fault, TypeOK, FaultCounts
  <2>2. faults.all + 1 \in 0..MaxFaults /\ faults.lists + (IF k = "list" THEN 1 ELSE 0) \in Nat
    BY <2>1, FaultsAssumption
  <2> QED
    BY <2>1, <2>2 DEF FaultCounts
<1> QED
  BY <1>1 DEF TypeOK, NoFault

-----------------------------------------------------------------------------
(***************************************************************************)
(* Steps of one operator.                                                  *)
(***************************************************************************)
(* A step of operator o that leaves the stored job alone keeps IInv if the *)
(* new memory is one IInv allows.                                          *)
LEMMA MemoryStep ==
  ASSUME IInv, NEW o \in Operators, NEW m \in Memories,
         mem' = [mem EXCEPT ![o] = m],
         UNCHANGED <<spec, crd>>,
         pods' \subseteq Pods, BareOK(pods'), services' \subseteq Services,
         faults' \in FaultCounts,
         fresh' \subseteq Operators,
         \A q \in Operators : q # o /\ q \in fresh' => q \in fresh,
         LoopsOK(spec, m), MemoryOK(spec, m), ViewOK(crd, fresh', o, m)
  PROVE  IInv'
<1>1. TypeOK'
  BY DEF IInv, TypeOK
<1>2. \A q \in Operators : mem'[q] = IF q = o THEN m ELSE mem[q]
  BY DEF IInv, TypeOK
<1>3. ASSUME NEW q \in Operators
      PROVE  LoopsOK(spec', mem'[q]) /\ MemoryOK(spec', mem'[q]) /\ ViewOK(crd', fresh', q, mem'[q])
  <2>1. CASE q = o
    BY <1>2, <2>1
  <2>2. CASE q # o
    <3>1. /\ LoopsOK(spec, mem[q]) /\ MemoryOK(spec, mem[q]) /\ ViewOK(crd, fresh, q, mem[q])
      BY DEF IInv
    <3>2. ViewOK(crd, fresh', q, mem[q])
      BY <2>2, <3>1 DEF ViewOK
    <3> QED
      BY <1>2, <2>2, <3>1, <3>2
  <2> QED
    BY <2>1, <2>2
<1>4. Consistent(spec', crd'.rid, crd'.status.phase)
  BY DEF IInv
<1> QED
  BY <1>1, <1>3, <1>4 DEF IInv

(* So does a step that changes neither copy of the status, between two     *)
(* calls of updateCRDStatus.                                               *)
LEMMA QuietStep ==
  ASSUME IInv, NEW o \in Operators, NEW m \in Memories,
         mem' = [mem EXCEPT ![o] = m],
         UNCHANGED <<spec, crd, fresh>>,
         pods' \subseteq Pods, BareOK(pods'), services' \subseteq Services,
         faults' \in FaultCounts,
         Started(mem[o]), Started(m),
         m.job = mem[o].job, m.status = mem[o].status,
         m.job.rid = NoId => m.chief = "Unknown",
         mem[o].pc # "setup", m.pc # "setup",
         mem[o].pc \notin {"updateSetup", "updateReason", "updateStatus"},
         m.pc \in {"listReplica", "listChief"} => m.job.rid # NoId,
         LoopsOK(spec, m)
  PROVE  IInv'
<1>1. MemoryOK(spec, mem[o]) /\ ViewOK(crd, fresh, o, mem[o])
  BY DEF IInv
<1>2. MemoryOK(spec, m)
  BY <1>1 DEF MemoryOK, Started
<1>3. ViewOK(crd, fresh, o, m)
  BY <1>1 DEF ViewOK, Started
<1>4. fresh' \subseteq Operators
  BY DEF IInv, TypeOK
<1> QED
  BY <1>2, <1>3, <1>4, MemoryStep

(* The process starts and its informer lists the job. *)
LEMMA StartStep == ASSUME IInv, NEW o \in Operators, Start(o) PROVE IInv'
<1> DEFINE m == [NoMemory EXCEPT !.pc = "synced", !.job = [rid |-> crd.rid, status |-> crd.status]]
<1>1. m \in Memories
  BY NoMemoryType DEF IInv, TypeOK, Memories, PCs
<1>2. /\ m.pc = "synced" /\ m.job = [rid |-> crd.rid, status |-> crd.status]
      /\ ~m.built /\ m.chief = "Unknown"
  BY DEF NoMemory
<1> HIDE DEF m
<1>3. LoopsOK(spec, m) /\ MemoryOK(spec, m)
  BY <1>2 DEF LoopsOK, MemoryOK, Started, IInv
<1>4. ViewOK(crd, fresh', o, m)
  BY <1>2 DEF ViewOK, Started
<1> QED
  BY <1>1, <1>3, <1>4, MemoryStep DEF Start, Become, m, IInv, TypeOK

(* The informer's copy is replaced. *)
LEMMA InformedStep == ASSUME IInv, NEW o \in Operators, Informed(o) PROVE IInv'
<1> DEFINE m == [mem[o] EXCEPT !.job = [rid |-> crd.rid, status |-> crd.status]]
<1>0. mem[o] \in Memories /\ mem[o].pc = "synced" /\ LoopsOK(spec, mem[o]) /\ MemoryOK(spec, mem[o])
  BY DEF Informed, IInv, TypeOK
<1>1. m \in Memories
  BY <1>0 DEF IInv, TypeOK, Memories
<1>2. /\ m.pc = "synced" /\ m.job = [rid |-> crd.rid, status |-> crd.status]
      /\ m.built = mem[o].built /\ m.chief = mem[o].chief
  BY <1>0 DEF Memories
<1>3. mem' = [mem EXCEPT ![o] = m]
  BY DEF Informed, Become
<1> HIDE DEF m
<1>4. LoopsOK(spec, m) /\ MemoryOK(spec, m)
  BY <1>0, <1>2 DEF LoopsOK, MemoryOK, Started, IInv
<1>5. ViewOK(crd, fresh', o, m)
  BY <1>2 DEF ViewOK, Started
<1> QED
  BY <1>1, <1>3, <1>4, <1>5, MemoryStep DEF Informed, IInv, TypeOK

(* NewJob. *)
LEMMA NewJobStep == ASSUME IInv, NEW o \in Operators, NewJob(o) PROVE IInv'
<1> DEFINE n == [mem[o] EXCEPT !.status = mem[o].job.status]
           m == Goto(n, Entry(mem[o]))
<1>0. /\ mem[o] \in Memories /\ mem[o].pc = "synced"
      /\ LoopsOK(spec, mem[o]) /\ MemoryOK(spec, mem[o]) /\ ViewOK(crd, fresh, o, mem[o])
  BY DEF NewJob, IInv, TypeOK
<1>1. Entry(mem[o]) \in {"setup", "replicas"}
  BY DEF Entry
<1>2. n \in Memories /\ {"setup", "replicas"} \subseteq PCs
  BY <1>0 DEF Memories, PCs
<1>3. m \in Memories
  BY <1>1, <1>2, GotoType
<1>4. /\ m.pc = Entry(mem[o]) /\ m.job = mem[o].job /\ m.status = mem[o].job.status
      /\ m.built = mem[o].built /\ m.chief = mem[o].chief
  BY <1>0 DEF Memories, Goto
<1>5. mem' = [mem EXCEPT ![o] = m]
  BY DEF NewJob, Become
<1> HIDE DEF m
<1>6. LoopsOK(spec, m)
  BY <1>0, <1>1, <1>4 DEF LoopsOK
<1>7. MemoryOK(spec, m)
  BY <1>0, <1>4 DEF MemoryOK, Started, Entry
<1>8. ViewOK(crd, fresh, o, m)
  BY <1>0, <1>1, <1>4 DEF ViewOK, Started
<1>9. faults' \in FaultCounts
  BY FaultType DEF NewJob, ListerHasJob, IInv
<1> QED
  BY <1>3, <1>5, <1>6, <1>7, <1>8, <1>9, MemoryStep DEF NewJob, IInv, TypeOK

(* Another sync of the same TrainingJob. *)
LEMMA SyncStep == ASSUME IInv, NEW o \in Operators, Sync(o) PROVE IInv'
<1> DEFINE m == Goto(mem[o], Entry(mem[o]))
<1>0. /\ mem[o] \in Memories /\ mem[o].pc = "idle"
      /\ LoopsOK(spec, mem[o]) /\ MemoryOK(spec, mem[o])
  BY DEF Sync, IInv, TypeOK
<1>1. Entry(mem[o]) = "replicas"
  BY <1>0 DEF Entry, MemoryOK, Started
<1>2. m \in Memories
  BY <1>0, <1>1, GotoType DEF PCs
<1>3. /\ m.pc = "replicas" /\ m.job = mem[o].job /\ m.status = mem[o].status
      /\ m.built = mem[o].built /\ m.chief = mem[o].chief
  BY <1>0, <1>1 DEF Memories, Goto
<1>4. mem' = [mem EXCEPT ![o] = m]
  BY DEF Sync, Become
<1> HIDE DEF m
<1>5. LoopsOK(spec, m)
  BY <1>0, <1>3 DEF LoopsOK
<1>6. m.job.rid = NoId => m.chief = "Unknown"
  BY <1>0, <1>3 DEF MemoryOK
<1>7. faults' \in FaultCounts
  BY FaultType DEF Sync, ListerHasJob, IInv
<1>8. Started(mem[o]) /\ Started(m)
  BY <1>0, <1>3 DEF Started
<1> QED
  BY <1>0, <1>2, <1>3, <1>4, <1>5, <1>6, <1>7, <1>8, QuietStep DEF Sync, IInv, TypeOK

(* syncMXJob finds no job. *)
LEMMA ObserveDeleteStep == ASSUME IInv, NEW o \in Operators, ObserveDelete(o) PROVE IInv'
<1> DEFINE m == Goto(mem[o], "gone")
<1>0. /\ mem[o] \in Memories /\ LoopsOK(spec, mem[o]) /\ MemoryOK(spec, mem[o])
  BY DEF IInv, TypeOK
<1>1. m \in Memories
  BY <1>0, GotoType DEF PCs
<1>2. /\ m.pc = "gone" /\ m.job = mem[o].job
      /\ m.built = mem[o].built /\ m.chief = mem[o].chief
  BY <1>0 DEF Memories, Goto
<1>3. mem' = [mem EXCEPT ![o] = m]
  BY DEF ObserveDelete, Become
<1> HIDE DEF m
<1>4. LoopsOK(spec, m) /\ MemoryOK(spec, m) /\ ViewOK(crd, fresh, o, m)
  BY <1>0, <1>2 DEF LoopsOK, MemoryOK, ViewOK, Started
<1> QED
  BY <1>1, <1>3, <1>4, MemoryStep DEF ObserveDelete, IInv, TypeOK

-----------------------------------------------------------------------------
(***************************************************************************)
(* setup, setupReplicas and updateCRDStatus.                               *)
(***************************************************************************)
(* setup. *)
LEMMA SetupStep == ASSUME IInv, NEW o \in Operators, Setup(o) PROVE IInv'
<1>0. /\ mem[o] \in Memories /\ mem[o].pc = "setup"
      /\ LoopsOK(spec, mem[o]) /\ MemoryOK(spec, mem[o]) /\ ViewOK(crd, fresh, o, mem[o])
  BY DEF Setup, IInv, TypeOK
<1>1. /\ mem[o].status.phase = "None" /\ mem[o].job.rid = NoId /\ mem[o].chief = "Unknown"
      /\ o \in fresh => crd.status.phase = "None"
  <2>1. Started(mem[o]) /\ mem[o].status.phase = "None"
    BY <1>0 DEF MemoryOK, Started
  <2>2. mem[o].job.rid = NoId /\ mem[o].chief = "Unknown"
    BY <1>0, <2>1 DEF MemoryOK, Consistent
  <2>3. o \in fresh => crd.status.phase = "None"
    BY <1>0, <2>1 DEF ViewOK
  <2> QED
    BY <2>1, <2>2, <2>3
<1>2. {"Creating", "Failed"} \subseteq Phases /\ {"Running", "Failed"} \subseteq States
      /\ "invalid" \in Reasons /\ "updateSetup" \in PCs
  BY DEF Phases, States, Reasons, PCs, UpdateSites
<1>3. ASSUME NEW m \in Memories, mem' = [mem EXCEPT ![o] = m],
             m.pc = "updateSetup", m.built = mem[o].built, m.chief = mem[o].chief,
             m.status.phase \in {"Creating", "Failed"},
             Consistent(spec, m.job.rid, m.status.phase)
      PROVE  IInv'
  <2>1. LoopsOK(spec, m)
    BY <1>0, <1>3 DEF LoopsOK
  <2>2. MemoryOK(spec, m)
    BY <1>1, <1>3 DEF MemoryOK, Started
  <2>3. ViewOK(crd, fresh, o, m)
    BY <1>1, <1>3 DEF ViewOK, Started
  <2> QED
    BY <1>3, <2>1, <2>2, <2>3, MemoryStep DEF Setup, IInv, TypeOK
<1>4. CASE Rejects(mem[o]) /\ Become(o, Reject(mem[o]))
  <2> DEFINE m == Reject(mem[o])
  <2>1. m \in Memories
    BY <1>0, <1>2 DEF Reject, Memories, Statuses
  <2>2. /\ m.pc = "updateSetup" /\ m.built = mem[o].built /\ m.chief = mem[o].chief
        /\ m.status.phase = "Failed" /\ m.job.rid = NoId
    BY <1>0, <1>1 DEF Reject, Memories, Statuses
  <2>3. Consistent(spec, m.job.rid, m.status.phase)
    BY <2>2 DEF Consistent
  <2> QED
    BY <1>3, <1>4, <2>1, <2>2, <2>3 DEF Become
<1>5. CASE ~Rejects(mem[o])
  <2>1. PICK r \in RuntimeIds : Become(o, Admit(mem[o], r))
    BY <1>1, <1>5 DEF Setup
  <2> DEFINE m == Admit(mem[o], r)
  <2>2. m \in Memories
    BY <1>0, <1>2 DEF Admit, Memories, Statuses, Ids
  <2>3. /\ m.pc = "updateSetup" /\ m.built = mem[o].built /\ m.chief = mem[o].chief
        /\ m.status.phase = "Creating" /\ m.job.rid = r
    BY <1>0 DEF Admit, Memories, Statuses
  <2>4. Accepted(spec) /\ r # NoId
    BY <1>1, <1>5, RuntimeIdsAssumption DEF Rejects
  <2>5. Consistent(spec, m.job.rid, m.status.phase)
    BY <2>3, <2>4 DEF Consistent
  <2> QED
    BY <1>3, <2>1, <2>2, <2>3, <2>5 DEF Become
<1> QED
  BY <1>4, <1>5 DEF Setup

(* setupReplicas. *)
LEMMA SetupReplicasStep == ASSUME IInv, NEW o \in Operators, SetupReplicas(o) PROVE IInv'
<1>0. /\ mem[o] \in Memories /\ mem[o].pc = "replicas"
      /\ LoopsOK(spec, mem[o]) /\ MemoryOK(spec, mem[o]) /\ ViewOK(crd, fresh, o, mem[o])
  BY DEF SetupReplicas, IInv, TypeOK
<1>1. {"listPods", "updateReason"} \subseteq PCs /\ {"replicas", "unset"} \subseteq Reasons
  BY DEF PCs, UpdateSites, Reasons
<1>2. CASE Builds(mem[o])
  <2>0. mem[o].built \/ Buildable(spec)
    BY <1>2 DEF Builds, BuildableAsWritten, BuildsAsWritten, Buildable
  <2> DEFINE g == Goto(mem[o], "listPods")
             m == [g EXCEPT !.built = TRUE]
  <2>1. g \in Memories
    BY <1>0, <1>1, GotoType
  <2>2. m \in Memories
    BY <2>1 DEF Memories
  <2>3. /\ m.pc = "listPods" /\ m.job = mem[o].job /\ m.status = mem[o].status
        /\ m.built /\ m.chief = mem[o].chief
    BY <1>0 DEF Goto, Memories
  <2>4. mem' = [mem EXCEPT ![o] = m]
    BY <1>2 DEF SetupReplicas, Become
  <2> HIDE DEF m
  <2>5. LoopsOK(spec, m)
    BY <1>0, <2>0, <2>3 DEF LoopsOK
  <2>6. Started(mem[o]) /\ Started(m)
    BY <1>0, <2>3 DEF Started
  <2>7. m.job.rid = NoId => m.chief = "Unknown"
    BY <1>0, <2>3 DEF MemoryOK
  <2> QED
    BY <1>0, <2>2, <2>3, <2>4, <2>5, <2>6, <2>7, QuietStep DEF SetupReplicas, IInv, TypeOK
<1>3. CASE ~Builds(mem[o])
  <2> DEFINE m == Unbuilt(mem[o])
  <2>1. m \in Memories
    BY <1>0, <1>1 DEF Unbuilt, Memories, Statuses
  <2>2. /\ m.pc = "updateReason" /\ m.job = mem[o].job /\ m.status.phase = mem[o].status.phase
        /\ m.built = mem[o].built /\ m.chief = mem[o].chief
    BY <1>0 DEF Unbuilt, Memories, Statuses
  <2>3. mem' = [mem EXCEPT ![o] = m]
    BY <1>3 DEF SetupReplicas, Become
  <2> HIDE DEF m
  <2>4. LoopsOK(spec, m) /\ MemoryOK(spec, m) /\ ViewOK(crd, fresh, o, m)
    BY <1>0, <2>2 DEF LoopsOK, MemoryOK, ViewOK, Started
  <2> QED
    BY <2>1, <2>3, <2>4, MemoryStep DEF SetupReplicas, IInv, TypeOK
<1> QED
  BY <1>2, <1>3

(* Where Reconcile goes after an update that succeeded, from any memory    *)
(* whose two statuses agree.                                               *)
LEMMA UpdatedMemory ==
  ASSUME NEW m \in Memories, m.pc \in UpdateSites, m.job.status = m.status,
         LoopsOK(spec, m),
         Consistent(spec, m.job.rid, m.status.phase), m.status.phase # "None",
         m.job.rid = NoId => m.chief = "Unknown"
  PROVE  /\ LoopsOK(spec, Updated(m)) /\ MemoryOK(spec, Updated(m))
         /\ Started(Updated(m))
         /\ Updated(m).job = m.job /\ Updated(m).status = m.status
<1>1. PICK pc \in {"replicas", "getReplica", "deleteResources", "updateFinal", "idle"} :
         /\ Updated(m) = Goto(m, pc)
         /\ pc \in {"getReplica", "deleteResources", "updateFinal"} =>
              m.pc \in {"updateServices", "updateStatus"}
  BY DEF Updated
<1>2. /\ Goto(m, pc).pc = pc /\ Goto(m, pc).job = m.job /\ Goto(m, pc).status = m.status
      /\ Goto(m, pc).built = m.built /\ Goto(m, pc).chief = m.chief
  BY DEF Goto, Memories
<1>3. LoopsOK(spec, Goto(m, pc))
  BY <1>1, <1>2 DEF LoopsOK
<1>4. Started(Goto(m, pc))
  BY <1>2 DEF Started
<1>5. MemoryOK(spec, Goto(m, pc))
  BY <1>2 DEF MemoryOK, Started
<1> QED
  BY <1>1, <1>2, <1>3, <1>4, <1>5

(* And what it does when the update failed. *)
LEMMA FailedMemory ==
  ASSUME NEW m \in Memories, m.job.status = m.status,
         LoopsOK(spec, m),
         Consistent(spec, m.job.rid, m.status.phase), m.status.phase # "None",
         m.job.rid = NoId => m.chief = "Unknown"
  PROVE  /\ Goto(m, "idle") \in Memories
         /\ LoopsOK(spec, Goto(m, "idle")) /\ MemoryOK(spec, Goto(m, "idle"))
         /\ Started(Goto(m, "idle"))
         /\ Goto(m, "idle").job = m.job /\ Goto(m, "idle").status = m.status
<1>1. Goto(m, "idle") \in Memories
  BY GotoType DEF PCs
<1>2. /\ Goto(m, "idle").pc = "idle" /\ Goto(m, "idle").job = m.job
      /\ Goto(m, "idle").status = m.status
      /\ Goto(m, "idle").built = m.built /\ Goto(m, "idle").chief = m.chief
  BY DEF Goto, Memories
<1> QED
  BY <1>1, <1>2 DEF LoopsOK, MemoryOK, Started

(* What is known at a call of updateCRDStatus, before and after j.job      *)
(* takes over the status.                                                  *)
LEMMA AtUpdate ==
  ASSUME IInv, NEW o \in Operators, mem[o].pc \in UpdateSites
  PROVE  /\ mem[o] \in Memories /\ Started(mem[o]) /\ LoopsOK(spec, mem[o])
         /\ Consistent(spec, mem[o].job.rid, mem[o].status.phase)
         /\ mem[o].status.phase # "None"
         /\ mem[o].job.rid = NoId => mem[o].chief = "Unknown"
         /\ Aliased(mem[o]) \in Memories /\ LoopsOK(spec, Aliased(mem[o]))
         /\ Aliased(mem[o]).pc = mem[o].pc /\ Aliased(mem[o]).chief = mem[o].chief
         /\ Aliased(mem[o]).job.rid = mem[o].job.rid
         /\ Aliased(mem[o]).status = mem[o].status
         /\ Aliased(mem[o]).job.status = mem[o].status
<1>1. mem[o] \in Memories /\ LoopsOK(spec, mem[o]) /\ MemoryOK(spec, mem[o])
  BY DEF IInv, TypeOK
<1>2. Started(mem[o]) /\ mem[o].pc # "setup"
  BY DEF Started, UpdateSites
<1>3. /\ Consistent(spec, mem[o].job.rid, mem[o].status.phase) /\ mem[o].status.phase # "None"
      /\ mem[o].job.rid = NoId => mem[o].chief = "Unknown"
  BY <1>1, <1>2 DEF MemoryOK
<1>4. /\ Aliased(mem[o]).pc = mem[o].pc /\ Aliased(mem[o]).chief = mem[o].chief
      /\ Aliased(mem[o]).job.rid = mem[o].job.rid
      /\ Aliased(mem[o]).status = mem[o].status
      /\ Aliased(mem[o]).job.status = mem[o].status
      /\ Aliased(mem[o]).built = mem[o].built /\ Aliased(mem[o]).pos = mem[o].pos
  BY <1>1 DEF Aliased, Memories
<1>5. LoopsOK(spec, Aliased(mem[o]))
  BY <1>1, <1>4 DEF LoopsOK
<1> QED
  BY <1>1, <1>2, <1>3, <1>4, <1>5, AliasedType

(* updateCRDStatus with nothing to write. *)
LEMMA StatusUnchangedStep == ASSUME IInv, NEW o \in Operators, StatusUnchanged(o) PROVE IInv'
<1> DEFINE m == Updated(mem[o])
<1>0. /\ mem[o].pc \in UpdateSites /\ mem[o].job.status = mem[o].status
      /\ mem' = [mem EXCEPT ![o] = m]
  BY DEF StatusUnchanged, Become
<1>1. m \in Memories
  BY <1>0, AtUpdate, UpdatedType
<1>2. /\ LoopsOK(spec, m) /\ MemoryOK(spec, m) /\ Started(m)
      /\ m.job = mem[o].job /\ m.status = mem[o].status
  BY <1>0, AtUpdate, UpdatedMemory
<1> HIDE DEF m
<1>3. ViewOK(crd, fresh, o, mem[o]) /\ Started(mem[o])
  BY <1>0, AtUpdate DEF IInv
<1>4. ViewOK(crd, fresh, o, m)
  BY <1>2, <1>3 DEF ViewOK, Started
<1> QED
  BY <1>0, <1>1, <1>2, <1>4, MemoryStep DEF StatusUnchanged, IInv, TypeOK

(* updateCRDStatus whose request is refused. *)
LEMMA StatusRefusedStep == ASSUME IInv, NEW o \in Operators, StatusRefused(o) PROVE IInv'
<1> DEFINE m == Goto(Aliased(mem[o]), "idle")
<1>0. /\ mem[o].pc \in UpdateSites
      /\ mem' = [mem EXCEPT ![o] = m]
  BY DEF StatusRefused, Become, Unwritten
<1>1. /\ m \in Memories /\ LoopsOK(spec, m) /\ MemoryOK(spec, m) /\ Started(m)
      /\ m.job.rid = mem[o].job.rid /\ m.status = mem[o].status
  <2>1. /\ Aliased(mem[o]) \in Memories /\ LoopsOK(spec, Aliased(mem[o]))
        /\ Aliased(mem[o]).job.status = Aliased(mem[o]).status
        /\ Consistent(spec, Aliased(mem[o]).job.rid, Aliased(mem[o]).status.phase)
        /\ Aliased(mem[o]).status.phase # "None"
        /\ Aliased(mem[o]).job.rid = NoId => Aliased(mem[o]).chief = "Unknown"
        /\ Aliased(mem[o]).job.rid = mem[o].job.rid
        /\ Aliased(mem[o]).status = mem[o].status
    BY <1>0, AtUpdate
  <2> QED
    BY <2>1, FailedMemory
<1> HIDE DEF m
<1>2. ViewOK(crd, fresh, o, mem[o]) /\ Started(mem[o])
  BY <1>0, AtUpdate DEF IInv
<1>3. ViewOK(crd, fresh, o, m)
  BY <1>1, <1>2 DEF ViewOK, Started
<1>4. faults' \in FaultCounts
  BY FaultType DEF StatusRefused, IInv
<1> QED
  BY <1>0, <1>1, <1>3, <1>4, MemoryStep DEF StatusRefused, IInv, TypeOK

(* A step that stores what operator o remembers. *)
LEMMA StoreStep ==
  ASSUME IInv, NEW o \in Operators, NEW m \in Memories,
         mem' = [mem EXCEPT ![o] = m],
         mem[o].pc \in UpdateSites,
         crd' = Stored(mem[o]), fresh' \subseteq {o}, faults' \in FaultCounts,
         UNCHANGED <<spec, pods, services>>,
         LoopsOK(spec, m), MemoryOK(spec, m), Started(m),
         m.job.rid = mem[o].job.rid, m.status = mem[o].status
  PROVE  IInv'
<1>1. /\ mem[o] \in Memories /\ Consistent(spec, mem[o].job.rid, mem[o].status.phase)
      /\ mem[o].status.phase # "None"
  BY AtUpdate
<1>2. crd' \in [live : BOOLEAN, rid : Ids, status : Statuses]
      /\ crd'.rid = mem[o].job.rid /\ crd'.status = mem[o].status
  BY <1>1 DEF Stored, IInv, TypeOK, Memories
<1>3. TypeOK'
  BY <1>2 DEF IInv, TypeOK
<1>4. ASSUME NEW q \in Operators
      PROVE  LoopsOK(spec', mem'[q]) /\ MemoryOK(spec', mem'[q]) /\ ViewOK(crd', fresh', q, mem'[q])
  <2>1. mem'[q] = IF q = o THEN m ELSE mem[q]
    BY DEF IInv, TypeOK
  <2>2. CASE q = o
    <3>1. ViewOK(crd', fresh', o, m)
      BY <1>1, <1>2 DEF ViewOK, Started
    <3> QED
      BY <2>1, <2>2, <3>1
  <2>3. CASE q # o
    <3>1. q \notin fresh'
      BY <2>3
    <3>2. ViewOK(crd', fresh', q, mem[q])
      BY <1>1, <1>2, <3>1 DEF ViewOK
    <3> QED
      BY <2>1, <2>3, <3>2 DEF IInv
  <2> QED
    BY <2>2, <2>3
<1>5. Consistent(spec', crd'.rid, crd'.status.phase)
  BY <1>1, <1>2
<1>6. BareOK(pods')
  BY DEF IInv
<1> QED
  BY <1>3, <1>4, <1>5, <1>6 DEF IInv

(* updateCRDStatus that succeeds. *)
LEMMA StatusWrittenStep == ASSUME IInv, NEW o \in Operators, StatusWritten(o) PROVE IInv'
<1> DEFINE m == Updated(Aliased(mem[o]))
<1>0. /\ mem[o].pc \in UpdateSites
      /\ mem' = [mem EXCEPT ![o] = m]
  BY DEF StatusWritten, Become, Unwritten
<1>1. /\ m \in Memories /\ LoopsOK(spec, m) /\ MemoryOK(spec, m) /\ Started(m)
      /\ m.job.rid = mem[o].job.rid /\ m.status = mem[o].status
  <2>1. /\ Aliased(mem[o]) \in Memories /\ LoopsOK(spec, Aliased(mem[o]))
        /\ Aliased(mem[o]).pc \in UpdateSites
        /\ Aliased(mem[o]).job.status = Aliased(mem[o]).status
        /\ Consistent(spec, Aliased(mem[o]).job.rid, Aliased(mem[o]).status.phase)
        /\ Aliased(mem[o]).status.phase # "None"
        /\ Aliased(mem[o]).job.rid = NoId => Aliased(mem[o]).chief = "Unknown"
        /\ Aliased(mem[o]).job.rid = mem[o].job.rid
        /\ Aliased(mem[o]).status = mem[o].status
    BY <1>0, AtUpdate
  <2> QED
    BY <2>1, UpdatedMemory, UpdatedType
<1> HIDE DEF m
<1>2. faults' \in FaultCounts
  BY DEF StatusWritten, IInv, TypeOK
<1> QED
  BY <1>0, <1>1, <1>2, StoreStep DEF StatusWritten

(* updateCRDStatus that succeeds and does not know. *)
LEMMA StatusAnswerLostStep == ASSUME IInv, NEW o \in Operators, StatusAnswerLost(o) PROVE IInv'
<1> DEFINE m == Goto(Aliased(mem[o]), "idle")
<1>0. /\ mem[o].pc \in UpdateSites
      /\ mem' = [mem EXCEPT ![o] = m]
  BY DEF StatusAnswerLost, Become, Unwritten
<1>1. /\ m \in Memories /\ LoopsOK(spec, m) /\ MemoryOK(spec, m) /\ Started(m)
      /\ m.job.rid = mem[o].job.rid /\ m.status = mem[o].status
  <2>1. /\ Aliased(mem[o]) \in Memories /\ LoopsOK(spec, Aliased(mem[o]))
        /\ Aliased(mem[o]).job.status = Aliased(mem[o]).status
        /\ Consistent(spec, Aliased(mem[o]).job.rid, Aliased(mem[o]).status.phase)
        /\ Aliased(mem[o]).status.phase # "None"
        /\ Aliased(mem[o]).job.rid = NoId => Aliased(mem[o]).chief = "Unknown"
        /\ Aliased(mem[o]).job.rid = mem[o].job.rid
        /\ Aliased(mem[o]).status = mem[o].status
    BY <1>0, AtUpdate
  <2> QED
    BY <2>1, FailedMemory
<1> HIDE DEF m
<1>2. faults' \in FaultCounts
  BY FaultType DEF StatusAnswerLost, IInv
<1> QED
  BY <1>0, <1>1, <1>2, StoreStep DEF StatusAnswerLost

-----------------------------------------------------------------------------
(***************************************************************************)
(* SyncPods and SyncServices.                                              *)
(***************************************************************************)
(* What is known of an operator at some step of a loop, and what holds of  *)
(* the memory it has after the step.                                       *)
LEMMA LoopStep ==
  ASSUME IInv, NEW o \in Operators, NEW m \in Memories, mem' = [mem EXCEPT ![o] = m],
         UNCHANGED <<spec, crd, fresh>>,
         pods' \subseteq Pods, BareOK(pods'), services' \subseteq Services,
         faults' \in FaultCounts,
         mem[o].pc \in {"listPods", "createPod", "getService", "createService", "deleteResources"},
         m.job = mem[o].job, m.status = mem[o].status, m.built = mem[o].built,
         m.chief = mem[o].chief,
         m.pc \in {"listPods", "createPod", "getService", "createService", "deleteResources",
                   "idle", "updateServices"},
         m.pc \in {"createPod", "createService"} => m.pos.set \in DOMAIN spec.replicaSpecs
  PROVE  IInv'
<1>1. LoopsOK(spec, mem[o]) /\ MemoryOK(spec, mem[o])
  BY DEF IInv
<1>2. LoopsOK(spec, m)
  BY <1>1 DEF LoopsOK
<1>3. Started(mem[o]) /\ Started(m)
  BY DEF Started
<1>4. m.job.rid = NoId => m.chief = "Unknown"
  BY <1>1 DEF MemoryOK
<1> QED
  BY <1>2, <1>3, <1>4, QuietStep

(* The steps of the loops keep all of a memory but pc and pos. *)
LEMMA LoopMemory ==
  ASSUME NEW m \in Memories, NEW n \in {NextSet(m), NextTask(m)}, NEW pc \in PCs
  PROVE  /\ n \in Memories /\ [n EXCEPT !.pc = pc] \in Memories
         /\ n.pc = m.pc /\ n.job = m.job /\ n.status = m.status /\ n.built = m.built
         /\ n.chief = m.chief
         /\ [n EXCEPT !.pc = pc].pc = pc
         /\ [n EXCEPT !.pc = pc].job = m.job
         /\ [n EXCEPT !.pc = pc].status = m.status
         /\ [n EXCEPT !.pc = pc].built = m.built
         /\ [n EXCEPT !.pc = pc].chief = m.chief
<1>1. n \in Memories
  BY NextSetType, NextTaskType
<1>2. /\ n.pc = m.pc /\ n.job = m.job /\ n.status = m.status /\ n.built = m.built
      /\ n.chief = m.chief
  BY DEF NextSet, NextTask, Memories, Positions
<1>3. [n EXCEPT !.pc = pc] \in Memories
  BY <1>1, PcType
<1> QED
  BY <1>1, <1>2, <1>3 DEF Memories

(* So do the jumps. *)
LEMMA JumpMemory ==
  ASSUME NEW m \in Memories, NEW pc \in PCs
  PROVE  /\ Goto(m, pc) \in Memories /\ [m EXCEPT !.pc = pc] \in Memories
         /\ Goto(m, pc).pc = pc /\ Goto(m, pc).job = m.job /\ Goto(m, pc).status = m.status
         /\ Goto(m, pc).built = m.built /\ Goto(m, pc).chief = m.chief
         /\ [m EXCEPT !.pc = pc].pc = pc
         /\ [m EXCEPT !.pc = pc].job = m.job
         /\ [m EXCEPT !.pc = pc].status = m.status
         /\ [m EXCEPT !.pc = pc].built = m.built
         /\ [m EXCEPT !.pc = pc].chief = m.chief
         /\ [m EXCEPT !.pc = pc].pos = m.pos
<1>1. Goto(m, pc) \in Memories /\ [m EXCEPT !.pc = pc] \in Memories
  BY GotoType, PcType
<1> QED
  BY <1>1 DEF Goto, Memories

(* What SyncPods and SyncServices know of the current set. *)
LEMMA SetType ==
  ASSUME IInv, NEW o \in Operators, mem[o].built, mem[o].pos.set \in DOMAIN spec.replicaSpecs
  PROVE  /\ ReplicaSet(mem[o]).type \in ReplicaTypes
         /\ ServiceAt(mem[o]) \in Services
         /\ \A x \in PodSuffixes : NewPod(mem[o], x) \in Pods /\ NewPod(mem[o], x).sfx # 0
<1>1. /\ mem[o] \in Memories /\ Buildable(spec)
  BY DEF IInv, TypeOK, LoopsOK
<1>2. ReplicaSet(mem[o]).type \in ReplicaTypes
  BY <1>1 DEF Buildable, NewTFReplicaSet, ReplicaSet
<1>3. mem[o].pos.idx \in Nat /\ mem[o].job.rid \in Ids
  BY <1>1 DEF Memories, Positions
<1>4. ServiceAt(mem[o]) \in Services
  BY <1>2, <1>3 DEF ServiceAt, Services
<1>5. ASSUME NEW x \in PodSuffixes PROVE NewPod(mem[o], x) \in Pods /\ NewPod(mem[o], x).sfx # 0
  BY <1>2, <1>3, PodSuffixesAssumption DEF NewPod, Pods, PodPhases, Exits
<1> QED
  BY <1>2, <1>4, <1>5

(* A created pod keeps the types of the pods. *)
LEMMA PodAdded ==
  ASSUME IInv, NEW o \in Operators, NEW x \in PodSuffixes,
         mem[o].built, mem[o].pos.set \in DOMAIN spec.replicaSpecs,
         pods' = pods \union {NewPod(mem[o], x)}
  PROVE  pods' \subseteq Pods /\ BareOK(pods')
<1>1. NewPod(mem[o], x) \in Pods /\ NewPod(mem[o], x).sfx # 0
  BY SetType
<1> QED
  BY <1>1 DEF IInv, TypeOK, BareOK

(* SkipEmptySet. *)
LEMMA SkipEmptySetStep == ASSUME IInv, NEW o \in Operators, SkipEmptySet(o) PROVE IInv'
<1>0. /\ mem[o] \in Memories /\ mem[o].pc \in {"listPods", "getService"}
      /\ mem' = [mem EXCEPT ![o] = NextSet(mem[o])]
  BY DEF SkipEmptySet, Become, IInv, TypeOK
<1> DEFINE m == NextSet(mem[o])
<1>1. "idle" \in PCs
  BY DEF PCs
<1>2. /\ m \in Memories /\ m.pc = mem[o].pc /\ m.job = mem[o].job /\ m.status = mem[o].status
      /\ m.built = mem[o].built /\ m.chief = mem[o].chief
  BY <1>0, <1>1, LoopMemory
<1> HIDE DEF m
<1>3. /\ UNCHANGED <<spec, crd, fresh>> /\ pods' \subseteq Pods /\ BareOK(pods')
      /\ services' \subseteq Services /\ faults' \in FaultCounts
  BY DEF SkipEmptySet, IInv, TypeOK
<1> QED
  BY <1>0, <1>2, <1>3, LoopStep DEF m

(* ListPods. *)
LEMMA ListPodsStep == ASSUME IInv, NEW o \in Operators, ListPods(o) PROVE IInv'
<1>0. /\ mem[o] \in Memories /\ mem[o].pc = "listPods"
      /\ mem[o].pos.set \in DOMAIN spec.replicaSpecs
      /\ pods' \subseteq Pods /\ BareOK(pods') /\ services' \subseteq Services
  BY DEF ListPods, AtTask, Sets, IInv, TypeOK
<1>1. "createPod" \in PCs
  BY DEF PCs
<1>2. faults' \in FaultCounts
  BY FaultType DEF ListPods, IInv
<1>3. CASE Become(o, NextTask(mem[o]))
  BY <1>0, <1>1, <1>2, <1>3, LoopMemory, LoopStep DEF ListPods, Become
<1>4. CASE Become(o, [mem[o] EXCEPT !.pc = "createPod"])
  BY <1>0, <1>1, <1>2, <1>4, JumpMemory, LoopStep DEF ListPods, Become
<1> QED
  BY <1>3, <1>4 DEF ListPods

(* What is known when a pod is created. *)
LEMMA AtCreatePod ==
  ASSUME IInv, NEW o \in Operators, CreatingPod(mem[o])
  PROVE  /\ mem[o] \in Memories /\ mem[o].pc = "createPod" /\ mem[o].built
         /\ mem[o].pos.set \in DOMAIN spec.replicaSpecs
         /\ "listPods" \in PCs
BY DEF CreatingPod, IInv, TypeOK, LoopsOK, PCs

(* PodCreated. *)
LEMMA PodCreatedStep == ASSUME IInv, NEW o \in Operators, PodCreated(o) PROVE IInv'
<1> DEFINE m == [NextTask(mem[o]) EXCEPT !.pc = "listPods"]
<1>0. mem' = [mem EXCEPT ![o] = m]
  BY DEF PodCreated, Become
<1>1. pods' \subseteq Pods /\ BareOK(pods')
  BY AtCreatePod, PodAdded DEF PodCreated
<1>2. /\ m \in Memories /\ m.pc = "listPods" /\ m.job = mem[o].job /\ m.status = mem[o].status
      /\ m.built = mem[o].built /\ m.chief = mem[o].chief
  BY AtCreatePod, LoopMemory DEF PodCreated
<1> HIDE DEF m
<1> QED
  BY <1>0, <1>1, <1>2, AtCreatePod, LoopStep DEF PodCreated, IInv, TypeOK

(* PodNameTaken. *)
LEMMA PodNameTakenStep == ASSUME IInv, NEW o \in Operators, PodNameTaken(o) PROVE IInv'
<1> DEFINE m == [NextTask(mem[o]) EXCEPT !.pc = "listPods"]
<1>0. mem' = [mem EXCEPT ![o] = m]
  BY DEF PodNameTaken, Become
<1>1. /\ m \in Memories /\ m.pc = "listPods" /\ m.job = mem[o].job /\ m.status = mem[o].status
      /\ m.built = mem[o].built /\ m.chief = mem[o].chief
  BY AtCreatePod, LoopMemory DEF PodNameTaken
<1> HIDE DEF m
<1> QED
  BY <1>0, <1>1, AtCreatePod, LoopStep DEF PodNameTaken, IInv, TypeOK

(* CreatePodFailed. *)
LEMMA CreatePodFailedStep == ASSUME IInv, NEW o \in Operators, CreatePodFailed(o) PROVE IInv'
<1> DEFINE m == [NextSet(mem[o]) EXCEPT !.pc = "listPods"]
<1>0. mem' = [mem EXCEPT ![o] = m]
  BY DEF CreatePodFailed, Become
<1>1. pods' \subseteq Pods /\ BareOK(pods')
  <2>1. CASE UNCHANGED pods
    BY <2>1 DEF IInv, TypeOK
  <2>2. CASE \E x \in PodSuffixes : pods' = pods \union {NewPod(mem[o], x)}
    BY <2>2, AtCreatePod, PodAdded DEF CreatePodFailed
  <2> QED
    BY <2>1, <2>2 DEF CreatePodFailed
<1>2. /\ m \in Memories /\ m.pc = "listPods" /\ m.job = mem[o].job /\ m.status = mem[o].status
      /\ m.built = mem[o].built /\ m.chief = mem[o].chief
  BY AtCreatePod, LoopMemory DEF CreatePodFailed
<1> HIDE DEF m
<1>3. faults' \in FaultCounts
  BY FaultType DEF CreatePodFailed, IInv
<1> QED
  BY <1>0, <1>1, <1>2, <1>3, AtCreatePod, LoopStep DEF CreatePodFailed, IInv, TypeOK

(* PodsSynced and ServicesSynced. *)
LEMMA SyncedStep ==
  ASSUME IInv, NEW o \in Operators, PodsSynced(o) \/ ServicesSynced(o)
  PROVE  IInv'
<1>0. /\ mem[o] \in Memories /\ mem[o].pc \in {"listPods", "getService"}
      /\ UNCHANGED <<spec, crd, fresh, pods, services, faults>>
  BY DEF PodsSynced, ServicesSynced, IInv, TypeOK
<1>1. PICK pc \in {"getService", "updateServices"} : mem' = [mem EXCEPT ![o] = Goto(mem[o], pc)]
  BY DEF PodsSynced, ServicesSynced, Become
<1>2. pc \in PCs
  BY DEF PCs, UpdateSites
<1> DEFINE m == Goto(mem[o], pc)
<1>3. /\ m \in Memories /\ m.pc = pc /\ m.job = mem[o].job /\ m.status = mem[o].status
      /\ m.built = mem[o].built /\ m.chief = mem[o].chief
  BY <1>0, <1>2, JumpMemory
<1> HIDE DEF m
<1>4. /\ pods' \subseteq Pods /\ BareOK(pods') /\ services' \subseteq Services
      /\ faults' \in FaultCounts
  BY <1>0 DEF IInv, TypeOK
<1> QED
  BY <1>0, <1>1, <1>3, <1>4, LoopStep DEF m

(* GetService. *)
LEMMA GetServiceStep == ASSUME IInv, NEW o \in Operators, GetService(o) PROVE IInv'
<1>0. /\ mem[o] \in Memories /\ mem[o].pc = "getService"
      /\ mem[o].pos.set \in DOMAIN spec.replicaSpecs
      /\ pods' \subseteq Pods /\ BareOK(pods') /\ services' \subseteq Services
  BY DEF GetService, AtTask, Sets, IInv, TypeOK
<1>1. "createService" \in PCs
  BY DEF PCs
<1>2. faults' \in FaultCounts
  BY FaultType DEF GetService, IInv
<1>3. CASE Become(o, NextTask(mem[o]))
  <2> DEFINE m == NextTask(mem[o])
  <2>1. /\ m \in Memories /\ m.pc = "getService" /\ m.job = mem[o].job
        /\ m.status = mem[o].status /\ m.built = mem[o].built /\ m.chief = mem[o].chief
    BY <1>0, <1>1, LoopMemory
  <2>2. mem' = [mem EXCEPT ![o] = m] /\ UNCHANGED <<spec, crd, fresh>>
    BY <1>3 DEF GetService, Become
  <2> HIDE DEF m
  <2> QED
    BY <1>0, <1>2, <2>1, <2>2, LoopStep
<1>4. CASE Become(o, [mem[o] EXCEPT !.pc = "createService"])
  <2> DEFINE m == [mem[o] EXCEPT !.pc = "createService"]
  <2>1. /\ m \in Memories /\ m.pc = "createService" /\ m.job = mem[o].job
        /\ m.status = mem[o].status /\ m.built = mem[o].built /\ m.chief = mem[o].chief
        /\ m.pos = mem[o].pos
    BY <1>0, <1>1, JumpMemory
  <2>2. mem' = [mem EXCEPT ![o] = m] /\ UNCHANGED <<spec, crd, fresh>>
    BY <1>4 DEF GetService, Become
  <2> HIDE DEF m
  <2> QED
    BY <1>0, <1>2, <2>1, <2>2, LoopStep
<1> QED
  BY <1>3, <1>4 DEF GetService

(* CreateService and CreateServiceFailed. *)
LEMMA CreateServiceStep ==
  ASSUME IInv, NEW o \in Operators, CreateService(o) \/ CreateServiceFailed(o)
  PROVE  IInv'
<1>0. /\ mem[o] \in Memories /\ mem[o].pc = "createService" /\ mem[o].built
      /\ mem[o].pos.set \in DOMAIN spec.replicaSpecs
      /\ UNCHANGED <<spec, crd, fresh, pods>>
  BY DEF CreateService, CreateServiceFailed, IInv, TypeOK, LoopsOK
<1>1. "getService" \in PCs
  BY DEF PCs
<1>2. services' \subseteq Services
  BY <1>0, SetType DEF CreateService, CreateServiceFailed, IInv, TypeOK
<1>3. faults' \in FaultCounts
  BY FaultType DEF CreateService, CreateServiceFailed, NoFault, IInv
<1>4. PICK n \in {NextSet(mem[o]), NextTask(mem[o])} :
        mem' = [mem EXCEPT ![o] = [n EXCEPT !.pc = "getService"]]
  BY DEF CreateService, CreateServiceFailed, Become
<1> DEFINE m == [n EXCEPT !.pc = "getService"]
<1>5. /\ m \in Memories /\ m.pc = "getService" /\ m.job = mem[o].job
      /\ m.status = mem[o].status /\ m.built = mem[o].built /\ m.chief = mem[o].chief
  <2>1. /\ n \in Memories /\ n.job = mem[o].job /\ n.status = mem[o].status
        /\ n.built = mem[o].built /\ n.chief = mem[o].chief
    BY <1>0, <1>1, LoopMemory
  <2> QED
    BY <1>1, <2>1, PcType DEF Memories
<1> HIDE DEF m
<1>6. pods' \subseteq Pods /\ BareOK(pods')
  BY <1>0 DEF IInv, TypeOK
<1> QED
  BY <1>0, <1>2, <1>3, <1>4, <1>5, <1>6, LoopStep DEF m

-----------------------------------------------------------------------------
(***************************************************************************)
(* GetStatus and deleteResources.                                          *)
(***************************************************************************)
(* GetSingleReplicaStatus returns.  Only an operator with an id gets more  *)
(* than Unknown.                                                           *)
LEMMA AnswerStep ==
  ASSUME IInv, NEW o \in Operators, NEW s \in ReplicaStates,
         mem' = [mem EXCEPT ![o] = Answer(mem[o], s)],
         UNCHANGED <<spec, crd, fresh, pods, services>>,
         faults' \in FaultCounts,
         mem[o].pc \in {"getReplica", "listReplica", "getChief", "listChief"},
         mem[o].job.rid = NoId => s = "Unknown"
  PROVE  IInv'
<1> DEFINE m == Answer(mem[o], s)
<1>0. mem[o] \in Memories /\ LoopsOK(spec, mem[o]) /\ MemoryOK(spec, mem[o])
  BY DEF IInv, TypeOK
<1>1. m \in Memories
  BY <1>0, AnswerType
<1>2. /\ m.pc = "getReplica" /\ m.job = mem[o].job /\ m.status = mem[o].status
      /\ m.built = mem[o].built /\ m.chief \in {mem[o].chief, s}
  <2>1. NextSet(mem[o]) \in Memories
    BY <1>0, NextSetType
  <2>2. /\ NextSet(mem[o]).job = mem[o].job /\ NextSet(mem[o]).status = mem[o].status
        /\ NextSet(mem[o]).built = mem[o].built
    BY <1>0 DEF NextSet, Memories
  <2> QED
    BY <1>0, <2>1, <2>2 DEF Answer, Memories
<1> HIDE DEF m
<1>3. LoopsOK(spec, m)
  BY <1>0, <1>2 DEF LoopsOK
<1>4. Started(mem[o]) /\ Started(m)
  BY <1>2 DEF Started
<1>5. m.job.rid = NoId => m.chief = "Unknown"
  BY <1>0, <1>2 DEF MemoryOK
<1> QED
  BY <1>1, <1>2, <1>3, <1>4, <1>5, QuietStep DEF m, IInv, TypeOK

(* GetPod. *)
LEMMA GetPodStep == ASSUME IInv, NEW o \in Operators, GetPod(o) PROVE IInv'
<1>0. /\ mem[o] \in Memories /\ mem[o].pc \in {"getReplica", "getChief"}
      /\ LoopsOK(spec, mem[o]) /\ MemoryOK(spec, mem[o])
      /\ mem[o].pos.set \in DOMAIN spec.replicaSpecs
  BY DEF GetPod, ReadsReplica, AtSet, Sets, LoopsOK, IInv, TypeOK
<1>1. UNCHANGED <<spec, crd, fresh, pods, services>> /\ faults' \in FaultCounts
  BY FaultType DEF GetPod, IInv
<1>2. (\E p \in PodsAt(mem[o], Probed(mem[o])) : p.sfx = 0) => mem[o].job.rid # NoId
  BY DEF PodsAt, IInv, BareOK
<1>3. CASE Become(o, Answer(mem[o], "Unknown"))
  BY <1>0, <1>1, <1>3, AnswerStep DEF Become, ReplicaStates
<1>4. CASE mem[o].job.rid # NoId /\ Become(o, Answer(mem[o], "Succeeded"))
  BY <1>0, <1>1, <1>4, AnswerStep DEF Become, ReplicaStates
<1>5. CASE /\ mem[o].job.rid # NoId
           /\ Become(o, [mem[o] EXCEPT !.pc = IF @ = "getChief" THEN "listChief" ELSE "listReplica"])
  <2> DEFINE pc == IF mem[o].pc = "getChief" THEN "listChief" ELSE "listReplica"
             m == [mem[o] EXCEPT !.pc = pc]
  <2>1. pc \in PCs
    BY DEF PCs
  <2>2. /\ m \in Memories /\ m.pc = pc /\ m.job = mem[o].job /\ m.status = mem[o].status
        /\ m.built = mem[o].built /\ m.chief = mem[o].chief /\ m.pos = mem[o].pos
    BY <1>0, <2>1, JumpMemory
  <2>3. mem' = [mem EXCEPT ![o] = m]
    BY <1>0, <1>5 DEF Become, Memories
  <2> HIDE DEF m
  <2>4. LoopsOK(spec, m)
    BY <1>0, <2>2 DEF LoopsOK
  <2>5. Started(mem[o]) /\ Started(m)
    BY <1>0, <2>2 DEF Started
  <2> QED
    BY <1>0, <1>1, <1>5, <2>2, <2>3, <2>4, <2>5, QuietStep DEF IInv, TypeOK
<1> QED
  BY <1>2, <1>3, <1>4, <1>5 DEF GetPod

(* ListReplica. *)
LEMMA ListReplicaStep == ASSUME IInv, NEW o \in Operators, ListReplica(o) PROVE IInv'
<1>0. /\ mem[o] \in Memories /\ mem[o].pc \in {"listReplica", "listChief"}
      /\ UNCHANGED <<spec, crd, fresh, pods, services>> /\ faults' \in FaultCounts
  BY FaultType DEF ListReplica, IInv, TypeOK
<1>1. mem[o].job.rid # NoId
  BY <1>0 DEF IInv, MemoryOK
<1>2. PICK s \in ReplicaStates : mem' = [mem EXCEPT ![o] = Answer(mem[o], s)]
  <2>1. "Failed" \in ReplicaStates
    BY DEF ReplicaStates
  <2>2. replicaStatusFromPodList(PodsAt(mem[o], Probed(mem[o]))) \in ReplicaStates
    BY PodListState
  <2> QED
    BY <2>1, <2>2 DEF ListReplica, Become
<1> QED
  BY <1>0, <1>1, <1>2, AnswerStep

(* SetRead. *)
LEMMA SetReadStep == ASSUME IInv, NEW o \in Operators, SetRead(o) PROVE IInv'
<1> DEFINE read == [mem[o] EXCEPT !.reps = Append(@, SetStatus(mem[o].seen)), !.seen = <<>>]
           m == IF ReplicaSet(mem[o]).type = spec.chief[1].name
                THEN [read EXCEPT !.pc = "getChief"] ELSE NextSet(read)
<1>0. /\ mem[o] \in Memories /\ LoopsOK(spec, mem[o]) /\ MemoryOK(spec, mem[o])
      /\ mem[o].pc = "getReplica" /\ mem[o].pos.set \in DOMAIN spec.replicaSpecs
      /\ mem' = [mem EXCEPT ![o] = m]
  BY DEF SetRead, AtSet, Sets, Become, IInv, TypeOK
<1>1. /\ read \in Memories /\ read.pc = "getReplica" /\ read.job = mem[o].job
      /\ read.status = mem[o].status /\ read.built = mem[o].built
      /\ read.chief = mem[o].chief /\ read.pos = mem[o].pos
  <2>1. Append(mem[o].reps, SetStatus(mem[o].seen)) \in Seq(SetStatuses)
    <3>1. mem[o].reps \in Seq(SetStatuses) /\ SetStatus(mem[o].seen) \in SetStatuses
      BY <1>0, SetStatusType DEF Memories
    <3> QED
      BY <3>1
  <2>2. <<>> \in Seq(ReplicaStates)
    OBVIOUS
  <2>3. ASSUME NEW rs \in Seq(SetStatuses)
        PROVE  LET r == [mem[o] EXCEPT !.reps = rs, !.seen = <<>>]
               IN  /\ r \in Memories /\ r.pc = mem[o].pc /\ r.job = mem[o].job
                   /\ r.status = mem[o].status /\ r.built = mem[o].built
                   /\ r.chief = mem[o].chief /\ r.pos = mem[o].pos
    BY <1>0, <2>2 DEF Memories
  <2> QED
    BY <1>0, <2>1, <2>3
<1> HIDE DEF read
<1>2. /\ m \in Memories /\ m.pc \in {"getReplica", "getChief"} /\ m.job = mem[o].job
      /\ m.status = mem[o].status /\ m.built = mem[o].built /\ m.chief = mem[o].chief
      /\ m.pc = "getChief" => m.pos = mem[o].pos
  <2>1. CASE ReplicaSet(mem[o]).type = spec.chief[1].name
    <3>1. "getChief" \in PCs
      BY DEF PCs
    <3> QED
      BY <1>1, <2>1, <3>1, JumpMemory
  <2>2. CASE ReplicaSet(mem[o]).type # spec.chief[1].name
    <3>1. "idle" \in PCs
      BY DEF PCs
    <3> QED
      BY <1>1, <2>2, <3>1, LoopMemory
  <2> QED
    BY <2>1, <2>2
<1> HIDE DEF m
<1>3. LoopsOK(spec, m)
  BY <1>0, <1>2 DEF LoopsOK
<1>4. Started(mem[o]) /\ Started(m) /\ (m.job.rid = NoId => m.chief = "Unknown")
  BY <1>0, <1>2 DEF Started, MemoryOK
<1> QED
  BY <1>0, <1>2, <1>3, <1>4, QuietStep DEF SetRead, IInv, TypeOK

(* What GetStatus may report. *)
LEMMA ReportedStatus ==
  ASSUME NEW status \in Statuses, NEW reps \in Seq(SetStatuses), NEW chief \in ReplicaStates
  PROVE  LET r == Reported([status EXCEPT !.reps = reps], chief)
         IN  /\ r \in Statuses
             /\ r.phase \in {status.phase, "Running", "Done"}
             /\ chief = "Unknown" => r.phase = status.phase
             /\ chief # "Unknown" => r.phase \in {"Running", "Done"}
<1> DEFINE s == [status EXCEPT !.reps = reps]
<1>1. s \in Statuses /\ s.phase = status.phase
  BY DEF Statuses
<1> HIDE DEF s
<1>2. {"Done", "Running"} \subseteq Phases /\ {"Failed", "Succeeded", "Running"} \subseteq States
  BY DEF Phases, States
<1>3. /\ Reported(s, chief) \in Statuses
      /\ Reported(s, chief).phase \in {s.phase, "Running", "Done"}
      /\ chief = "Unknown" => Reported(s, chief).phase = s.phase
      /\ chief # "Unknown" => Reported(s, chief).phase \in {"Running", "Done"}
  BY <1>1, <1>2 DEF Reported, Statuses, ReplicaStates
<1> QED
  BY <1>1, <1>3 DEF s

(* ReportStatus: only the chief of an operator with an id changes the      *)
(* phase.                                                                  *)
LEMMA ReportStatusStep == ASSUME IInv, NEW o \in Operators, ReportStatus(o) PROVE IInv'
<1> DEFINE r == Reported([mem[o].status EXCEPT !.reps = mem[o].reps], mem[o].chief)
           m == [Goto(mem[o], "updateStatus") EXCEPT
                   !.status = Reported([@ EXCEPT !.reps = mem[o].reps], mem[o].chief),
                   !.reps = <<>>, !.chief = "Unknown"]
<1>0. /\ mem[o] \in Memories /\ LoopsOK(spec, mem[o]) /\ MemoryOK(spec, mem[o])
      /\ ViewOK(crd, fresh, o, mem[o])
      /\ mem[o].pc = "getReplica"
      /\ mem' = [mem EXCEPT ![o] = m]
  BY DEF ReportStatus, Become, IInv, TypeOK
<1>1. mem[o].status \in Statuses /\ mem[o].reps \in Seq(SetStatuses) /\ mem[o].chief \in ReplicaStates
  BY <1>0 DEF Memories
<1>2. /\ r \in Statuses /\ r.phase \in {mem[o].status.phase, "Running", "Done"}
      /\ mem[o].chief = "Unknown" => r.phase = mem[o].status.phase
      /\ mem[o].chief # "Unknown" => r.phase \in {"Running", "Done"}
  BY <1>1, ReportedStatus
<1> HIDE DEF r
<1>3. /\ m \in Memories /\ m.pc = "updateStatus" /\ m.job = mem[o].job /\ m.status = r
      /\ m.built = mem[o].built /\ m.chief = "Unknown"
  <2>1. "updateStatus" \in PCs /\ "Unknown" \in ReplicaStates /\ <<>> \in Seq(SetStatuses)
    BY DEF PCs, UpdateSites, ReplicaStates
  <2> DEFINE g == Goto(mem[o], "updateStatus")
  <2>2. /\ g \in Memories /\ g.pc = "updateStatus" /\ g.job = mem[o].job
        /\ g.status = mem[o].status /\ g.built = mem[o].built
    BY <1>0, <2>1, JumpMemory
  <2> HIDE DEF g
  <2>3. m = [g EXCEPT !.status = r, !.reps = <<>>, !.chief = "Unknown"]
    BY <2>2 DEF r, g, Memories
  <2> HIDE DEF m
  <2> QED
    BY <1>2, <2>1, <2>2, <2>3 DEF Memories
<1> HIDE DEF m
<1>4. LoopsOK(spec, m)
  BY <1>0, <1>3 DEF LoopsOK
<1>5. Started(mem[o]) /\ Started(m)
  BY <1>0, <1>3 DEF Started
<1>6. MemoryOK(spec, m)
  <2>1. /\ Consistent(spec, mem[o].job.rid, mem[o].status.phase)
        /\ mem[o].job.rid = NoId => mem[o].chief = "Unknown"
        /\ mem[o].status.phase # "None"
    BY <1>0, <1>5 DEF MemoryOK
  <2>2. Consistent(spec, m.job.rid, m.status.phase) /\ m.status.phase # "None"
    BY <1>2, <1>3, <2>1 DEF Consistent
  <2> QED
    BY <1>3, <1>5, <2>2 DEF MemoryOK
<1>7. ViewOK(crd, fresh, o, m)
  BY <1>0, <1>2, <1>3, <1>5 DEF ViewOK
<1>8. /\ pods' \subseteq Pods /\ BareOK(pods') /\ services' \subseteq Services
      /\ faults' \in FaultCounts /\ fresh' \subseteq Operators /\ fresh' = fresh
      /\ UNCHANGED <<spec, crd>>
  BY DEF ReportStatus, IInv, TypeOK
<1> QED
  BY <1>0, <1>3, <1>4, <1>6, <1>7, <1>8, MemoryStep

(* DeleteResources. *)
LEMMA DeleteResourcesStep == ASSUME IInv, NEW o \in Operators, DeleteResources(o) PROVE IInv'
<1>0. /\ mem[o] \in Memories /\ mem[o].pc = "deleteResources"
      /\ UNCHANGED <<spec, crd, fresh>>
  BY DEF DeleteResources, IInv, TypeOK
<1>1. faults' \in FaultCounts
  BY FaultType DEF DeleteResources, IInv
<1>2. pods' \subseteq pods /\ services' \subseteq services
  BY DEF DeleteResources
<1>3. pods' \subseteq Pods /\ BareOK(pods') /\ services' \subseteq Services
  BY <1>2 DEF IInv, TypeOK, BareOK
<1>4. PICK m \in {NextSet(mem[o]), Goto(mem[o], "idle")} : mem' = [mem EXCEPT ![o] = m]
  BY DEF DeleteResources, Become
<1>5. "idle" \in PCs
  BY DEF PCs
<1>6. /\ m \in Memories /\ m.pc \in {"deleteResources", "idle"} /\ m.job = mem[o].job
      /\ m.status = mem[o].status /\ m.built = mem[o].built /\ m.chief = mem[o].chief
  <2>1. CASE m = NextSet(mem[o])
    BY <1>0, <1>5, <2>1, LoopMemory
  <2>2. CASE m = Goto(mem[o], "idle")
    BY <1>0, <1>5, <2>2, JumpMemory
  <2> QED
    BY <2>1, <2>2
<1> QED
  BY <1>0, <1>1, <1>3, <1>4, <1>6, LoopStep

-----------------------------------------------------------------------------
(***************************************************************************)
(* The end of a process, and the rest of the cluster.                      *)
(***************************************************************************)
(* Panic and Crash. *)
LEMMA ExitStep == ASSUME IInv, NEW o \in Operators, Panic(o) \/ Crash(o) PROVE IInv'
<1>1. /\ mem' = [mem EXCEPT ![o] = NoMemory] /\ fresh' = fresh \ {o}
      /\ UNCHANGED <<spec, crd, pods, services>>
  BY DEF Panic, Crash, Exit, Become
<1>2. faults' \in FaultCounts
  BY FaultType DEF Panic, Crash, IInv
<1>3. NoMemory.pc = "down" /\ ~NoMemory.built /\ NoMemory.chief = "Unknown"
  BY DEF NoMemory
<1>4. LoopsOK(spec, NoMemory) /\ MemoryOK(spec, NoMemory) /\ ViewOK(crd, fresh', o, NoMemory)
  BY <1>3 DEF LoopsOK, MemoryOK, ViewOK, Started
<1>5. /\ pods' \subseteq Pods /\ BareOK(pods') /\ services' \subseteq Services
      /\ fresh' \subseteq Operators
  BY <1>1 DEF IInv, TypeOK
<1> QED
  BY <1>1, <1>2, <1>4, <1>5, NoMemoryType, MemoryStep

(* A step that leaves the memories and the stored job alone. *)
LEMMA ClusterStep ==
  ASSUME IInv, UNCHANGED <<spec, crd, mem>>, fresh' \subseteq fresh,
         pods' \subseteq Pods, BareOK(pods'), services' \subseteq services,
         faults' \in FaultCounts
  PROVE  IInv'
<1>1. TypeOK'
  BY DEF IInv, TypeOK
<1>2. ASSUME NEW q \in Operators
      PROVE  LoopsOK(spec', mem'[q]) /\ MemoryOK(spec', mem'[q]) /\ ViewOK(crd', fresh', q, mem'[q])
  <2>1. LoopsOK(spec, mem[q]) /\ MemoryOK(spec, mem[q]) /\ ViewOK(crd, fresh, q, mem[q])
    BY DEF IInv
  <2>2. ViewOK(crd, fresh', q, mem[q])
    BY <2>1 DEF ViewOK
  <2> QED
    BY <2>1, <2>2
<1>3. Consistent(spec', crd'.rid, crd'.status.phase)
  BY DEF IInv
<1> QED
  BY <1>1, <1>2, <1>3 DEF IInv

(* The kubelet changes the phase and the last termination of a pod. *)
LEMMA KubeletStep == ASSUME IInv, NEW p \in pods, Kubelet(p) PROVE IInv'
<1>1. /\ UNCHANGED <<spec, crd, fresh, services, mem>>
      /\ faults' \in FaultCounts
  BY FaultType DEF Kubelet, PodStarts, PodSucceeds, ContainerRestarts, PodFails, PodRemoved,
     PodBecomes, IInv
<1>2. p \in Pods /\ p.exit \in Exits
  BY DEF IInv, TypeOK, Pods
<1>3. \/ pods' \subseteq pods
      \/ \E ph \in PodPhases, e \in Exits :
           pods' = (pods \ {p}) \union {[p EXCEPT !.phase = ph, !.exit = e]}
  BY <1>2 DEF Kubelet, PodStarts, PodSucceeds, ContainerRestarts, PodFails, PodRemoved,
     PodBecomes, PodPhases, Exits, FailedExits
<1>4. pods' \subseteq Pods /\ BareOK(pods')
  <2>1. ASSUME NEW ph \in PodPhases, NEW e \in Exits
        PROVE  LET n == [p EXCEPT !.phase = ph, !.exit = e]
               IN  n \in Pods /\ n.sfx = p.sfx /\ n.rid = p.rid
    BY <1>2 DEF Pods
  <2> QED
    BY <1>3, <2>1 DEF IInv, TypeOK, BareOK
<1> QED
  BY <1>1, <1>4, ClusterStep

(* The user edits or deletes the job: no copy is fresh any more. *)
LEMMA UserStep == ASSUME IInv, User PROVE IInv'
<1>1. faults' \in FaultCounts
  BY FaultType DEF User, UserEdits, UserCleansUp, UserDeletes, IInv
<1>2. CASE UserEdits
  BY <1>1, <1>2, ClusterStep DEF UserEdits, IInv, TypeOK
<1>3. ASSUME fresh' = {}, UNCHANGED <<spec, pods, services, mem>>,
             crd' \in [live : BOOLEAN, rid : Ids, status : Statuses],
             crd'.rid = crd.rid,
             crd'.status.phase \in {crd.status.phase, "CleanUp"},
             crd'.status.phase = "None" => crd.status.phase = "None"
      PROVE  IInv'
  <2>1. TypeOK'
    BY <1>1, <1>3 DEF IInv, TypeOK
  <2>2. ASSUME NEW q \in Operators
        PROVE  LoopsOK(spec', mem'[q]) /\ MemoryOK(spec', mem'[q]) /\ ViewOK(crd', fresh', q, mem'[q])
    <3>1. LoopsOK(spec, mem[q]) /\ MemoryOK(spec, mem[q]) /\ ViewOK(crd, fresh, q, mem[q])
      BY DEF IInv
    <3>2. ViewOK(crd', fresh', q, mem[q])
      BY <1>3, <3>1 DEF ViewOK
    <3> QED
      BY <1>3, <3>1, <3>2
  <2>3. Consistent(spec', crd'.rid, crd'.status.phase)
    BY <1>3 DEF IInv, Consistent
  <2> QED
    BY <1>3, <2>1, <2>2, <2>3 DEF IInv
<1>4. crd \in [live : BOOLEAN, rid : Ids, status : Statuses] /\ "CleanUp" \in Phases
  BY DEF IInv, TypeOK, Phases
<1>5. CASE UserCleansUp
  <2>1. /\ crd' \in [live : BOOLEAN, rid : Ids, status : Statuses]
        /\ crd'.rid = crd.rid /\ crd'.status.phase = "CleanUp"
    BY <1>4, <1>5 DEF UserCleansUp, Statuses
  <2> QED
    BY <1>3, <1>5, <2>1 DEF UserCleansUp
<1>6. CASE UserDeletes
  <2>1. /\ crd' \in [live : BOOLEAN, rid : Ids, status : Statuses]
        /\ crd'.rid = crd.rid /\ crd'.status = crd.status
    BY <1>4, <1>6 DEF UserDeletes
  <2> QED
    BY <1>3, <1>6, <2>1 DEF UserDeletes
<1> QED
  BY <1>2, <1>5, <1>6 DEF User

(* The garbage collector only removes. *)
LEMMA CollectStep == ASSUME IInv, CollectGarbage PROVE IInv'
<1>1. BareOK({})
  BY DEF BareOK
<1> QED
  BY <1>1, ClusterStep DEF CollectGarbage, IInv, TypeOK

-----------------------------------------------------------------------------
(***************************************************************************)
(* The initial states.                                                     *)
(***************************************************************************)
(* SetDefaultsMXJob returns a spec. *)
LEMMA DefaultsType ==
  ASSUME NEW s \in WrittenSpecs
  PROVE  SetDefaultsMXJob(s) \in Specs
<1>1. ASSUME NEW r \in WrittenReplicaSpecs
      PROVE  SetDefaultsReplica(r) \in ReplicaSpecs
  <2>1. r.type = "" \/ r.type \in ReplicaTypes \union {"UNKNOWN"}
    BY DEF WrittenReplicaSpecs, WrittenTypes
  <2>2. r.replicas # <<>> => r.replicas[1] \in Nat
    BY DEF WrittenReplicaSpecs, Optional
  <2>3. r.template \in Templates
    BY DEF WrittenReplicaSpecs
  <2> QED
    BY <2>1, <2>2, <2>3 DEF SetDefaultsReplica, ReplicaSpecs, ReplicaTypes
<1>2. s.replicaSpecs \in Seq(WrittenReplicaSpecs) /\ s.policy \in Optional(Optional(Chiefs))
  BY DEF WrittenSpecs
<1>3. [i \in 1..Len(s.replicaSpecs) |-> SetDefaultsReplica(s.replicaSpecs[i])] \in Seq(ReplicaSpecs)
  BY <1>1, <1>2
<1>4. << DefaultChief >> \in Optional(Chiefs)
  <2>1. DefaultChief \in Chiefs
    BY DEF DefaultChief, Chiefs, WrittenTypes, ReplicaTypes
  <2> QED
    BY <2>1 DEF Optional
<1>5. s.policy # <<>> => s.policy[1] \in Optional(Chiefs)
  BY <1>2 DEF Optional
<1> QED
  BY <1>3, <1>4, <1>5 DEF SetDefaultsMXJob, Specs

(* The tasks of a spec that can be built have a type and an index. *)
LEMMA TaskSetType ==
  ASSUME spec \in Specs, Buildable(spec), NEW t \in TaskSet(spec)
  PROVE  t.type \in ReplicaTypes /\ t.idx \in Nat
<1>1. PICK i \in DOMAIN spec.replicaSpecs :
        \E k \in 0..(spec.replicaSpecs[i].replicas - 1) :
          t = [type |-> spec.replicaSpecs[i].type, idx |-> k]
  BY DEF TaskSet
<1>2. spec.replicaSpecs[i].type \in ReplicaTypes
  BY DEF Buildable, NewTFReplicaSet
<1> QED
  BY <1>1, <1>2

(* A job that was just submitted. *)
LEMMA InitNewType ==
  ASSUME InitNew
  PROVE  /\ crd \in [live : BOOLEAN, rid : Ids, status : Statuses]
         /\ pods \subseteq Pods /\ services \subseteq Services /\ BareOK(pods)
         /\ Consistent(spec, crd.rid, crd.status.phase)
<1>1. NoStatus \in Statuses /\ NoId \in Ids
  BY DEF NoStatus, Statuses, Phases, States, Reasons, Ids
<1>2. crd.rid = NoId /\ crd.status.phase = "None"
  BY DEF InitNew, NoStatus
<1> QED
  BY <1>1, <1>2 DEF InitNew, BareOK, Consistent

(* A job that an earlier release set up. *)
LEMMA InitUpgradedType ==
  ASSUME spec \in Specs, InitUpgraded
  PROVE  /\ crd \in [live : BOOLEAN, rid : Ids, status : Statuses]
         /\ pods \subseteq Pods /\ services \subseteq Services /\ BareOK(pods)
         /\ Consistent(spec, crd.rid, crd.status.phase)
<1>1. PICK r \in RuntimeIds, ph \in {"Creating", "Running"} :
        /\ crd = [live |-> TRUE, rid |-> r,
                  status |-> [NoStatus EXCEPT !.phase = ph, !.state = "Running"]]
        /\ pods = {[type |-> t.type, idx |-> t.idx, rid |-> r, sfx |-> 0,
                    phase |-> "Running", exit |-> "none"] : t \in TaskSet(spec)}
        /\ services = {[type |-> t.type, idx |-> t.idx, rid |-> r] : t \in TaskSet(spec)}
  BY DEF InitUpgraded
<1>2. r \in Ids /\ r # NoId
  BY RuntimeIdsAssumption DEF Ids
<1>3. \A t \in TaskSet(spec) : t.type \in ReplicaTypes /\ t.idx \in Nat
  BY TaskSetType DEF InitUpgraded
<1>4. [NoStatus EXCEPT !.phase = ph, !.state = "Running"] \in Statuses
      /\ [NoStatus EXCEPT !.phase = ph, !.state = "Running"].phase = ph
  <2>1. NoStatus \in Statuses
    BY DEF NoStatus, Statuses, Phases, States, Reasons
  <2>2. ph \in Phases /\ "Running" \in States
    BY DEF Phases, States
  <2> QED
    BY <2>1, <2>2 DEF Statuses
<1>5. pods \subseteq Pods
  BY <1>1, <1>2, <1>3 DEF Pods, PodPhases, Exits
<1>6. services \subseteq Services
  BY <1>1, <1>2, <1>3 DEF Services
<1>7. BareOK(pods)
  BY <1>1, <1>2 DEF BareOK
<1>8. Consistent(spec, crd.rid, crd.status.phase)
  BY <1>1, <1>2, <1>4 DEF Consistent, InitUpgraded
<1> QED
  BY <1>1, <1>2, <1>4, <1>5, <1>6, <1>7, <1>8

(* The initial states satisfy the invariant. *)
THEOREM InitInv == Init => IInv
<1> SUFFICES ASSUME Init PROVE IInv
  OBVIOUS
<1>1. spec \in Specs
  BY DefaultsType, UserSpecsAssumption DEF Init
<1>2. /\ crd \in [live : BOOLEAN, rid : Ids, status : Statuses]
      /\ pods \subseteq Pods /\ services \subseteq Services /\ BareOK(pods)
      /\ Consistent(spec, crd.rid, crd.status.phase)
  BY <1>1, InitNewType, InitUpgradedType DEF Init
<1>3. TypeOK
  BY <1>1, <1>2, NoMemoryType, FaultsAssumption DEF Init, TypeOK, FaultCounts
<1>4. ASSUME NEW o \in Operators
      PROVE  LoopsOK(spec, mem[o]) /\ MemoryOK(spec, mem[o]) /\ ViewOK(crd, fresh, o, mem[o])
  <2>1. mem[o].pc = "down" /\ ~mem[o].built /\ mem[o].chief = "Unknown"
    BY DEF Init, NoMemory
  <2> QED
    BY <2>1 DEF LoopsOK, MemoryOK, ViewOK, Started
<1> QED
  BY <1>2, <1>3, <1>4 DEF IInv

-----------------------------------------------------------------------------
(***************************************************************************)
(* Induction.                                                              *)
(***************************************************************************)
(* A step of Reconcile keeps the invariant. *)
LEMMA ReconcileStep == ASSUME IInv, NEW o \in Operators, Reconcile(o) PROVE IInv'
<1>1. CASE Setup(o)                BY <1>1, SetupStep
<1>2. CASE SetupReplicas(o)        BY <1>2, SetupReplicasStep
<1>3. CASE StatusUnchanged(o)      BY <1>3, StatusUnchangedStep
<1>4. CASE StatusWritten(o)        BY <1>4, StatusWrittenStep
<1>5. CASE StatusRefused(o)        BY <1>5, StatusRefusedStep
<1>6. CASE StatusAnswerLost(o)     BY <1>6, StatusAnswerLostStep
<1>7. CASE SkipEmptySet(o)         BY <1>7, SkipEmptySetStep
<1>8. CASE ListPods(o)             BY <1>8, ListPodsStep
<1>9. CASE PodCreated(o)           BY <1>9, PodCreatedStep
<1>10. CASE PodNameTaken(o)        BY <1>10, PodNameTakenStep
<1>11. CASE CreatePodFailed(o)     BY <1>11, CreatePodFailedStep
<1>12. CASE PodsSynced(o)          BY <1>12, SyncedStep
<1>13. CASE GetService(o)          BY <1>13, GetServiceStep
<1>14. CASE CreateService(o)       BY <1>14, CreateServiceStep
<1>15. CASE CreateServiceFailed(o) BY <1>15, CreateServiceStep
<1>16. CASE ServicesSynced(o)      BY <1>16, SyncedStep
<1>17. CASE GetPod(o)              BY <1>17, GetPodStep
<1>18. CASE ListReplica(o)         BY <1>18, ListReplicaStep
<1>19. CASE SetRead(o)             BY <1>19, SetReadStep
<1>20. CASE ReportStatus(o)        BY <1>20, ReportStatusStep
<1>21. CASE DeleteResources(o)     BY <1>21, DeleteResourcesStep
<1> QED
  BY <1>1, <1>2, <1>3, <1>4, <1>5, <1>6, <1>7, <1>8, <1>9, <1>10, <1>11, <1>12, <1>13, <1>14,
     <1>15, <1>16, <1>17, <1>18, <1>19, <1>20, <1>21 DEF Reconcile

(* A step of an operator keeps the invariant. *)
LEMMA OperateStep == ASSUME IInv, NEW o \in Operators, Operate(o) PROVE IInv'
<1>1. CASE Start(o)            BY <1>1, StartStep
<1>2. CASE Informed(o)         BY <1>2, InformedStep
<1>3. CASE NewJob(o)           BY <1>3, NewJobStep
<1>4. CASE Sync(o)             BY <1>4, SyncStep
<1>5. CASE ObserveDelete(o)    BY <1>5, ObserveDeleteStep
<1>6. CASE Reconcile(o)        BY <1>6, ReconcileStep
<1>7. CASE Panic(o)            BY <1>7, ExitStep
<1>8. CASE Crash(o)            BY <1>8, ExitStep
<1> QED
  BY <1>1, <1>2, <1>3, <1>4, <1>5, <1>6, <1>7, <1>8 DEF Operate

(* Every step keeps the invariant. *)
THEOREM Inductive == IInv /\ [Next]_vars => IInv'
<1> SUFFICES ASSUME IInv, [Next]_vars PROVE IInv'
  OBVIOUS
<1>1. CASE \E o \in Operators : Operate(o)
  BY <1>1, OperateStep
<1>2. CASE \E p \in pods : Kubelet(p)
  BY <1>2, KubeletStep
<1>3. CASE User
  BY <1>3, UserStep
<1>4. CASE CollectGarbage
  BY <1>4, CollectStep
<1>5. CASE UNCHANGED vars
  BY <1>5, ClusterStep DEF vars, IInv, TypeOK
<1> QED
  BY <1>1, <1>2, <1>3, <1>4, <1>5 DEF Next

(* The invariant holds in every reachable state: of every number of        *)
(* operators, and whatever fails (Reconcile, setup, updateCRDStatus).      *)
THEOREM Invariant == Spec => []IInv
BY InitInv, Inductive, PTL DEF Spec

(* All variables have their types. *)
THEOREM TypeCorrect == Spec => []TypeOK
<1>1. IInv => TypeOK
  BY DEF IInv
<1> QED
  BY <1>1, Invariant, PTL

(* A job that validation rejects is never reported as admitted, whatever   *)
(* number of operators race, crash and lose answers.                       *)
THEOREM RejectedNeverAdmitted == Spec => []NeverAdmitRejected
<1>1. IInv => NeverAdmitRejected
  BY DEF IInv, Consistent, NeverAdmitRejected
<1> QED
  BY <1>1, Invariant, PTL

(* The calls of updateCRDStatus after SyncServices and at the end of       *)
(* Reconcile never send a request.                                         *)
THEOREM LateUpdates == Spec => []LateUpdatesAreNoOps
<1>1. IInv => LateUpdatesAreNoOps
  BY DEF IInv, MemoryOK, Started, LateUpdatesAreNoOps
<1> QED
  BY <1>1, Invariant, PTL

-----------------------------------------------------------------------------
(***************************************************************************)
(* The stored job implements JobLifecycle.                                 *)
(***************************************************************************)
(* What a write that the API server accepts does to the stored job.        *)
LEMMA StoreLifecycle ==
  ASSUME IInv, NEW o \in Operators, Unwritten(mem[o]), Accepts(o), crd' = Stored(mem[o])
  PROVE  /\ crd.rid # NoId => crd'.rid = crd.rid
         /\ Lifecycle!Next \/ UNCHANGED Lifecycle!vars
<1>1. /\ mem[o].pc \in UpdateSites /\ Started(mem[o]) /\ o \in fresh
      /\ mem[o].status.phase # "None"
      /\ Consistent(spec, mem[o].job.rid, mem[o].status.phase)
      /\ ViewOK(crd, fresh, o, mem[o])
      /\ Consistent(spec, crd.rid, crd.status.phase)
  BY AtUpdate DEF Unwritten, Accepts, IInv, Started, UpdateSites
<1>2. /\ crd'.rid = mem[o].job.rid /\ crd'.status = mem[o].status
      /\ mem[o].job.rid \in RuntimeIds \union {NoId} /\ mem[o].status.phase \in Phases
  BY DEF Stored, IInv, TypeOK, Memories, Statuses, Ids
<1>3. CASE crd.status.phase = "None"
  <2>1. crd.rid = NoId /\ mem[o].status.phase # "CleanUp"
    BY <1>1, <1>3 DEF Consistent, ViewOK
  <2>2. CASE mem[o].status.phase = "Failed"
    <3>1. crd'.rid = crd.rid /\ crd'.status.phase = "Failed"
      BY <1>1, <1>2, <2>1, <2>2 DEF Consistent
    <3>2. Lifecycle!TakeUp
      BY <1>3, <3>1 DEF Lifecycle!TakeUp
    <3> QED
      BY <2>1, <3>2 DEF Lifecycle!Next
  <2>3. CASE mem[o].status.phase # "Failed"
    <3>1. crd'.status.phase \in {"Creating", "Running", "Done"} /\ crd'.rid \in RuntimeIds
      BY <1>1, <1>2, <2>1, <2>3 DEF Consistent, Phases
    <3>2. Lifecycle!TakeUp
      BY <1>3, <3>1 DEF Lifecycle!TakeUp
    <3> QED
      BY <2>1, <3>2 DEF Lifecycle!Next
  <2> QED
    BY <2>2, <2>3
<1>4. CASE crd.status.phase # "None"
  <2>1. crd'.rid = crd.rid /\ crd'.status.phase \in {crd.status.phase, "Running", "Done"}
    BY <1>1, <1>2, <1>4 DEF ViewOK
  <2>2. CASE crd'.status.phase = crd.status.phase
    BY <2>1, <2>2 DEF Lifecycle!vars
  <2>3. CASE crd'.status.phase # crd.status.phase
    <3>1. crd'.status.phase \in {"Running", "Done"} /\ crd.rid # NoId
      BY <1>1, <1>2, <2>1, <2>3 DEF Consistent
    <3>2. Lifecycle!Report
      BY <1>4, <2>1, <3>1 DEF Lifecycle!Report
    <3> QED
      BY <2>1, <3>2 DEF Lifecycle!Next
  <2> QED
    BY <2>1, <2>2, <2>3
<1> QED
  BY <1>3, <1>4

(* All other steps leave the stored id and phase alone, except CleanUp.    *)
LEMMA NextLifecycle ==
  ASSUME IInv, [Next]_vars
  PROVE  /\ crd.rid # NoId => crd'.rid = crd.rid
         /\ Lifecycle!Next \/ UNCHANGED Lifecycle!vars
<1>1. ASSUME UNCHANGED crd
      PROVE  (crd.rid # NoId => crd'.rid = crd.rid) /\ UNCHANGED Lifecycle!vars
  BY <1>1 DEF Lifecycle!vars
<1>2. ASSUME NEW o \in Operators, Operate(o)
      PROVE  \/ UNCHANGED crd
             \/ Unwritten(mem[o]) /\ Accepts(o) /\ crd' = Stored(mem[o])
  <2>1. CASE Start(o) \/ Informed(o) \/ NewJob(o) \/ Sync(o) \/ ObserveDelete(o)
    BY <2>1 DEF Start, Informed, NewJob, Sync, ObserveDelete
  <2>2. CASE Panic(o) \/ Crash(o)
    BY <2>2 DEF Panic, Crash, Exit
  <2>3. CASE StatusWritten(o) \/ StatusAnswerLost(o)
    BY <2>3 DEF StatusWritten, StatusAnswerLost
  <2>4. CASE Reconcile(o) /\ ~StatusWritten(o) /\ ~StatusAnswerLost(o)
    BY <2>4 DEF Reconcile, Setup, SetupReplicas, StatusUnchanged, StatusRefused, SkipEmptySet,
       ListPods, PodCreated, PodNameTaken, CreatePodFailed, PodsSynced, GetService, CreateService,
       CreateServiceFailed, ServicesSynced, GetPod, ListReplica, SetRead, ReportStatus,
       DeleteResources
  <2> QED
    BY <1>2, <2>1, <2>2, <2>3, <2>4 DEF Operate
<1>3. CASE \E o \in Operators : Operate(o)
  BY <1>1, <1>2, <1>3, StoreLifecycle
<1>4. CASE \E p \in pods : Kubelet(p)
  <2>1. UNCHANGED crd
    BY <1>4 DEF Kubelet, PodStarts, PodSucceeds, ContainerRestarts, PodFails, PodRemoved, PodBecomes
  <2> QED
    BY <1>1, <2>1
<1>5. CASE UserEdits \/ CollectGarbage \/ UNCHANGED vars
  BY <1>1, <1>5 DEF UserEdits, CollectGarbage, vars
<1>6. CASE UserCleansUp
  <2>1. crd'.rid = crd.rid /\ crd'.status.phase = "CleanUp"
    BY <1>6 DEF UserCleansUp, IInv, TypeOK, Statuses
  <2>2. Lifecycle!CleanUp
    BY <2>1 DEF Lifecycle!CleanUp
  <2> QED
    BY <2>1, <2>2 DEF Lifecycle!Next
<1>7. CASE UserDeletes
  <2>1. crd'.rid = crd.rid /\ crd'.status.phase = crd.status.phase
    BY <1>7 DEF UserDeletes, IInv, TypeOK
  <2> QED
    BY <2>1 DEF Lifecycle!vars
<1> QED
  BY <1>3, <1>4, <1>5, <1>6, <1>7 DEF Next, User

(* Once stored, the RuntimeId is never replaced, by any number of          *)
(* operators that race, crash and lose answers (setup, updateCRDStatus).   *)
THEOREM IdWrittenOnce == Spec => RuntimeIdWriteOnce
<1>1. IInv /\ [Next]_vars => [crd.rid # NoId => crd'.rid = crd.rid]_vars
  BY NextLifecycle
<1> QED
  BY <1>1, Invariant, PTL DEF Spec, RuntimeIdWriteOnce

(* The initial states are initial states of JobLifecycle. *)
LEMMA InitLifecycle == Init => Lifecycle!Init
<1> SUFFICES ASSUME Init PROVE Lifecycle!Init
  OBVIOUS
<1>1. CASE InitNew
  BY <1>1 DEF InitNew, NoStatus, Lifecycle!Init
<1>2. CASE InitUpgraded
  <2>1. PICK r \in RuntimeIds, ph \in {"Creating", "Running"} :
          crd = [live |-> TRUE, rid |-> r,
                 status |-> [NoStatus EXCEPT !.phase = ph, !.state = "Running"]]
    BY <1>2 DEF InitUpgraded
  <2>2. crd.rid = r /\ crd.status.phase = ph
    BY <2>1 DEF NoStatus
  <2> QED
    BY <2>2 DEF Lifecycle!Init
<1> QED
  BY <1>1, <1>2 DEF Init

(* The stored job implements JobLifecycle: whichever operators write to    *)
(* it, it is set up once, and reported on only if it was admitted.         *)
THEOREM Implements == Spec => FollowsLifecycle
<1>1. IInv /\ [Next]_vars => [Lifecycle!Next]_(Lifecycle!vars)
  BY NextLifecycle
<1> QED
  BY <1>1, InitLifecycle, Invariant, PTL DEF Spec, FollowsLifecycle, Lifecycle!Spec

=============================================================================
