-------------------------- MODULE Reconcile_proofs --------------------------
(***************************************************************************)
(* Lemmas about the steps of TrainingJob: where a step of an operator      *)
(* leads and what it leaves alone, for any number of operators and         *)
(* whichever disturbances occur.                                           *)
(***************************************************************************)
EXTENDS TrainingJob_proofs, WellFoundedInduction

(* These disturbances do not happen. *)
Without(kinds) == Faults \cap kinds = {}

-----------------------------------------------------------------------------
(***************************************************************************)
(* Steps of the operator.                                                  *)
(***************************************************************************)
(* Reconcile past the setup of the job. *)
SetUp(m) == Started(m) /\ m.pc \notin {"setup", "updateSetup"}

(* The steps of Reconcile after setup that are not updateCRDStatus. *)
LoopAction(o) ==
  \/ SetupReplicas(o) \/ SkipEmptySet(o) \/ ListPods(o) \/ PodCreated(o) \/ PodNameTaken(o)
  \/ CreatePodFailed(o) \/ PodsSynced(o) \/ GetService(o) \/ CreateService(o)
  \/ CreateServiceFailed(o) \/ ServicesSynced(o) \/ GetPod(o) \/ ListReplica(o) \/ SetRead(o)
  \/ ReportStatus(o) \/ DeleteResources(o)

(* Operator o goes on from a job that is set up with the same id, to one   *)
(* of the places pcs.                                                      *)
GoesTo(o, m, pcs) == /\ mem' = [mem EXCEPT ![o] = m]
                     /\ m.pc \in pcs /\ m.job.rid = mem[o].job.rid

(* The places of Reconcile after setup. *)
LoopPCs == PCs \ {"down", "synced", "gone", "setup", "updateSetup"}

(* Another program counter keeps the job. *)
LEMMA KeepsJob ==
  ASSUME NEW m \in Memories, NEW n \in {m, NextSet(m), NextTask(m)}, NEW pc \in PCs
  PROVE  /\ n.job = m.job /\ n.pc = m.pc
         /\ [n EXCEPT !.pc = pc].job = m.job /\ [n EXCEPT !.pc = pc].pc = pc
<1>1. CASE n = m
  BY <1>1, JumpMemory
<1>2. ASSUME NEW k \in {NextSet(m), NextTask(m)}
      PROVE  /\ k.job = m.job /\ k.pc = m.pc
             /\ [k EXCEPT !.pc = pc].job = m.job /\ [k EXCEPT !.pc = pc].pc = pc
  <2>1. k \in Memories /\ k.job = m.job /\ k.pc = m.pc
    BY LoopMemory
  <2>2. [k EXCEPT !.pc = pc].job = k.job /\ [k EXCEPT !.pc = pc].pc = pc
    BY <2>1 DEF Memories
  <2> QED
    BY <2>1, <2>2
<1> QED
  BY <1>1, <1>2

(* Where SyncPods and SyncServices go. *)
LEMMA SyncEffect ==
  ASSUME IInv, NEW o \in Operators,
         SkipEmptySet(o) \/ ListPods(o) \/ PodCreated(o) \/ PodNameTaken(o) \/ CreatePodFailed(o)
           \/ PodsSynced(o) \/ GetService(o) \/ CreateService(o) \/ CreateServiceFailed(o)
           \/ ServicesSynced(o)
  PROVE  \E m : /\ GoesTo(o, m, {"listPods", "createPod", "getService", "createService",
                                 "updateServices"})
                /\ m.pc = "createPod" => ListPods(o)
                /\ m.pc = "createService" => GetService(o)
<1>0. /\ mem[o] \in Memories
      /\ {"listPods", "createPod", "getService", "createService", "updateServices"} \subseteq PCs
  BY DEF IInv, TypeOK, PCs, UpdateSites
<1>1. CASE SkipEmptySet(o)
  <2>1. mem[o].pc \in {"listPods", "getService"} /\ mem' = [mem EXCEPT ![o] = NextSet(mem[o])]
    BY <1>1 DEF SkipEmptySet, Become
  <2>2. NextSet(mem[o]).pc = mem[o].pc /\ NextSet(mem[o]).job = mem[o].job
    BY <1>0, <2>1, KeepsJob
  <2> QED
    BY <2>1, <2>2 DEF GoesTo
<1>2. CASE ListPods(o)
  <2>1. mem[o].pc = "listPods"
    BY <1>2 DEF ListPods
  <2>2. CASE mem' = [mem EXCEPT ![o] = NextTask(mem[o])]
    <3>1. NextTask(mem[o]).pc = mem[o].pc /\ NextTask(mem[o]).job = mem[o].job
      BY <1>0, KeepsJob
    <3> QED
      BY <2>1, <2>2, <3>1 DEF GoesTo
  <2>3. CASE mem' = [mem EXCEPT ![o] = [mem[o] EXCEPT !.pc = "createPod"]]
    <3>1. /\ [mem[o] EXCEPT !.pc = "createPod"].pc = "createPod"
          /\ [mem[o] EXCEPT !.pc = "createPod"].job = mem[o].job
      BY <1>0, KeepsJob
    <3> QED
      BY <1>2, <2>3, <3>1 DEF GoesTo
  <2> QED
    BY <1>2, <2>2, <2>3 DEF ListPods, Become
<1>3. CASE PodCreated(o) \/ PodNameTaken(o) \/ CreatePodFailed(o)
  <2>1. PICK n \in {NextSet(mem[o]), NextTask(mem[o])} :
          mem' = [mem EXCEPT ![o] = [n EXCEPT !.pc = "listPods"]]
    BY <1>3 DEF PodCreated, PodNameTaken, CreatePodFailed, Become
  <2>2. /\ [n EXCEPT !.pc = "listPods"].pc = "listPods"
        /\ [n EXCEPT !.pc = "listPods"].job = mem[o].job
    BY <1>0, <2>1, KeepsJob
  <2> QED
    BY <2>1, <2>2 DEF GoesTo
<1>4. CASE PodsSynced(o) \/ ServicesSynced(o)
  <2>1. PICK pc \in {"getService", "updateServices"} : mem' = [mem EXCEPT ![o] = Goto(mem[o], pc)]
    BY <1>4 DEF PodsSynced, ServicesSynced, Become
  <2>2. pc \in PCs
    BY <2>1 DEF PCs, UpdateSites
  <2>3. Goto(mem[o], pc).pc = pc /\ Goto(mem[o], pc).job = mem[o].job
    BY <1>0, <2>2, JumpMemory
  <2> QED
    BY <2>1, <2>3 DEF GoesTo
<1>5. CASE GetService(o)
  <2>1. mem[o].pc = "getService"
    BY <1>5 DEF GetService
  <2>2. CASE mem' = [mem EXCEPT ![o] = NextTask(mem[o])]
    <3>1. NextTask(mem[o]).pc = mem[o].pc /\ NextTask(mem[o]).job = mem[o].job
      BY <1>0, KeepsJob
    <3> QED
      BY <2>1, <2>2, <3>1 DEF GoesTo
  <2>3. CASE mem' = [mem EXCEPT ![o] = [mem[o] EXCEPT !.pc = "createService"]]
    <3>1. /\ [mem[o] EXCEPT !.pc = "createService"].pc = "createService"
          /\ [mem[o] EXCEPT !.pc = "createService"].job = mem[o].job
      BY <1>0, KeepsJob
    <3> QED
      BY <1>5, <2>3, <3>1 DEF GoesTo
  <2> QED
    BY <1>5, <2>2, <2>3 DEF GetService, Become
<1>6. CASE CreateService(o) \/ CreateServiceFailed(o)
  <2>1. PICK n \in {NextSet(mem[o]), NextTask(mem[o])} :
          mem' = [mem EXCEPT ![o] = [n EXCEPT !.pc = "getService"]]
    BY <1>6 DEF CreateService, CreateServiceFailed, Become
  <2>2. /\ [n EXCEPT !.pc = "getService"].pc = "getService"
        /\ [n EXCEPT !.pc = "getService"].job = mem[o].job
    BY <1>0, <2>1, KeepsJob
  <2> QED
    BY <2>1, <2>2 DEF GoesTo
<1> QED
  BY <1>1, <1>2, <1>3, <1>4, <1>5, <1>6

(* Where setupReplicas, GetStatus and deleteResources go. *)
LEMMA StatusEffect ==
  ASSUME IInv, NEW o \in Operators,
         SetupReplicas(o) \/ GetPod(o) \/ ListReplica(o) \/ SetRead(o) \/ ReportStatus(o)
           \/ DeleteResources(o)
  PROVE  \E m : /\ GoesTo(o, m, {"listPods", "updateReason", "getReplica", "listReplica", "getChief",
                                 "listChief", "updateStatus", "deleteResources", "idle"})
                /\ m.pc = "deleteResources" => DeleteResources(o)
<1>0. mem[o] \in Memories
  BY DEF IInv, TypeOK
<1>1. CASE SetupReplicas(o)
  <2>1. CASE mem' = [mem EXCEPT ![o] = [Goto(mem[o], "listPods") EXCEPT !.built = TRUE]]
    <3> DEFINE g == Goto(mem[o], "listPods")
               m == [g EXCEPT !.built = TRUE]
    <3>1. g \in Memories /\ g.pc = "listPods" /\ g.job = mem[o].job
      BY <1>0, JumpMemory DEF PCs
    <3> HIDE DEF g
    <3>2. m.pc = "listPods" /\ m.job = mem[o].job
      BY <3>1 DEF Memories
    <3> HIDE DEF m
    <3> QED
      BY <2>1, <3>2 DEF GoesTo, m, g
  <2>2. CASE mem' = [mem EXCEPT ![o] = Unbuilt(mem[o])]
    <3> DEFINE m == Unbuilt(mem[o])
    <3>1. m.pc = "updateReason" /\ m.job = mem[o].job
      BY <1>0 DEF Unbuilt, Memories
    <3> HIDE DEF m
    <3> QED
      BY <2>2, <3>1 DEF GoesTo, m
  <2> QED
    BY <1>1, <2>1, <2>2 DEF SetupReplicas, Become
<1>2. ASSUME NEW s \in ReplicaStates, mem' = [mem EXCEPT ![o] = Answer(mem[o], s)]
      PROVE  \E m : GoesTo(o, m, {"getReplica"})
  <2> DEFINE n == NextSet(mem[o])
             m == Answer(mem[o], s)
  <2>1. n \in Memories /\ n.job = mem[o].job
    BY <1>0, NextSetType, KeepsJob DEF PCs
  <2> HIDE DEF n
  <2>2. m.pc = "getReplica" /\ m.job = mem[o].job
    BY <1>0, <2>1 DEF Answer, Memories, n
  <2> HIDE DEF m
  <2> QED
    BY <1>2, <2>2 DEF GoesTo, m
<1>3. CASE GetPod(o)
  <2>1. CASE \E s \in ReplicaStates : mem' = [mem EXCEPT ![o] = Answer(mem[o], s)]
    BY <1>2, <2>1 DEF GoesTo
  <2>2. CASE mem' = [mem EXCEPT ![o] = [mem[o] EXCEPT !.pc =
                       IF @ = "getChief" THEN "listChief" ELSE "listReplica"]]
    <3> DEFINE m == [mem[o] EXCEPT !.pc = IF @ = "getChief" THEN "listChief" ELSE "listReplica"]
    <3>1. m.pc \in {"listChief", "listReplica"} /\ m.job = mem[o].job
      BY <1>0 DEF Memories
    <3> HIDE DEF m
    <3> QED
      BY <2>2, <3>1 DEF GoesTo, m
  <2> QED
    BY <1>3, <2>1, <2>2 DEF GetPod, Become, ReplicaStates
<1>4. CASE ListReplica(o)
  <2>1. \E s \in ReplicaStates : mem' = [mem EXCEPT ![o] = Answer(mem[o], s)]
    BY <1>4, PodListState DEF ListReplica, Become, ReplicaStates
  <2> QED
    BY <1>2, <2>1 DEF GoesTo
<1>5. CASE SetRead(o)
  <2> DEFINE read == [mem[o] EXCEPT !.reps = Append(@, SetStatus(mem[o].seen)), !.seen = <<>>]
  <2>1. read \in Memories /\ read.pc = "getReplica" /\ read.job = mem[o].job
    <3>1. mem[o].reps \in Seq(SetStatuses) /\ SetStatus(mem[o].seen) \in SetStatuses
      BY <1>0, SetStatusType DEF Memories
    <3>2. mem[o].pc = "getReplica"
      BY <1>5 DEF SetRead
    <3>3. Append(mem[o].reps, SetStatus(mem[o].seen)) \in Seq(SetStatuses)
      BY <3>1
    <3>4. <<>> \in Seq(ReplicaStates)
      OBVIOUS
    <3>5. ASSUME NEW rs \in Seq(SetStatuses)
          PROVE  LET r == [mem[o] EXCEPT !.reps = rs, !.seen = <<>>]
                 IN  r \in Memories /\ r.pc = mem[o].pc /\ r.job = mem[o].job
      BY <1>0, <3>4 DEF Memories
    <3> QED
      BY <1>0, <3>2, <3>3, <3>5
  <2>2. mem' = [mem EXCEPT ![o] = IF ReplicaSet(mem[o]).type = spec.chief[1].name
                                  THEN [read EXCEPT !.pc = "getChief"] ELSE NextSet(read)]
    BY <1>5 DEF SetRead, Become
  <2> HIDE DEF read
  <2>3. /\ [read EXCEPT !.pc = "getChief"].pc = "getChief"
        /\ [read EXCEPT !.pc = "getChief"].job = mem[o].job
        /\ NextSet(read).pc = "getReplica" /\ NextSet(read).job = mem[o].job
    <3>1. "getChief" \in PCs
      BY DEF PCs
    <3> QED
      BY <2>1, <3>1, KeepsJob
  <2>4. CASE mem' = [mem EXCEPT ![o] = [read EXCEPT !.pc = "getChief"]]
    BY <2>3, <2>4 DEF GoesTo
  <2>5. CASE mem' = [mem EXCEPT ![o] = NextSet(read)]
    BY <2>3, <2>5 DEF GoesTo
  <2> QED
    BY <2>2, <2>4, <2>5
<1>6. CASE ReportStatus(o)
  <2> DEFINE g == Goto(mem[o], "updateStatus")
             m == [g EXCEPT !.status = Reported([@ EXCEPT !.reps = mem[o].reps], mem[o].chief),
                            !.reps = <<>>, !.chief = "Unknown"]
  <2>1. g \in Memories /\ g.pc = "updateStatus" /\ g.job = mem[o].job
    BY <1>0, JumpMemory DEF PCs, UpdateSites
  <2>2. mem' = [mem EXCEPT ![o] = m]
    BY <1>6 DEF ReportStatus, Become
  <2> HIDE DEF g
  <2>3. m.pc = "updateStatus" /\ m.job = mem[o].job
    BY <2>1 DEF Memories
  <2> HIDE DEF m
  <2> QED
    BY <2>2, <2>3 DEF GoesTo
<1>7. CASE DeleteResources(o)
  <2>1. mem[o].pc = "deleteResources"
    BY <1>7 DEF DeleteResources
  <2>2. CASE mem' = [mem EXCEPT ![o] = NextSet(mem[o])]
    <3>1. NextSet(mem[o]).pc = mem[o].pc /\ NextSet(mem[o]).job = mem[o].job
      BY <1>0, KeepsJob DEF PCs
    <3> QED
      BY <1>7, <2>1, <2>2, <3>1 DEF GoesTo
  <2>3. CASE mem' = [mem EXCEPT ![o] = Goto(mem[o], "idle")]
    <3>1. Goto(mem[o], "idle").pc = "idle" /\ Goto(mem[o], "idle").job = mem[o].job
      BY <1>0, JumpMemory DEF PCs
    <3> QED
      BY <2>3, <3>1 DEF GoesTo
  <2> QED
    BY <1>7, <2>2, <2>3 DEF DeleteResources, Become
<1> QED
  BY <1>1, <1>2, <1>3, <1>4, <1>5, <1>6, <1>7

(* Where updateCRDStatus goes. *)
LEMMA UpdatedEffect ==
  ASSUME NEW m \in Memories, m.pc \in UpdateSites
  PROVE  /\ Updated(m).pc \in {"replicas", "getReplica", "deleteResources", "updateFinal", "idle"}
         /\ Updated(m).job = m.job /\ Updated(m).pos = Start0
<1>1. PICK pc \in {"replicas", "getReplica", "deleteResources", "updateFinal", "idle"} :
         Updated(m) = Goto(m, pc)
  BY DEF Updated
<1>2. Goto(m, pc).pc = pc /\ Goto(m, pc).job = m.job /\ Goto(m, pc).pos = Start0
  BY DEF Goto, Memories
<1> QED
  BY <1>1, <1>2

(* Where it goes when the request failed. *)
LEMMA GivenUpEffect ==
  ASSUME IInv, NEW o \in Operators, mem[o].pc \in UpdateSites
  PROVE  /\ Goto(Aliased(mem[o]), "idle").pc = "idle"
         /\ Goto(Aliased(mem[o]), "idle").job.rid = mem[o].job.rid
<1>1. Aliased(mem[o]) \in Memories /\ Aliased(mem[o]).job.rid = mem[o].job.rid
  BY AtUpdate
<1>2. "idle" \in PCs
  BY DEF PCs
<1> QED
  BY <1>1, <1>2, JumpMemory

(* What the steps after setup have in common: they keep the stored job and *)
(* the id, and what they create carries the id.                            *)
LEMMA LoopEffect ==
  ASSUME IInv, NEW o \in Operators, LoopAction(o)
  PROVE  /\ UNCHANGED <<spec, crd, fresh>>
         /\ SetUp(mem[o])
         /\ \E m : /\ GoesTo(o, m, LoopPCs)
                   /\ m.pc = "createPod" => ListPods(o)
                   /\ m.pc = "createService" => GetService(o)
                   /\ m.pc = "deleteResources" => DeleteResources(o)
         /\ \A p \in pods' : p \in pods \/ p.rid = mem[o].job.rid
         /\ \A s \in services' : s \in services \/ s.rid = mem[o].job.rid
<1>1. UNCHANGED <<spec, crd, fresh>> /\ SetUp(mem[o])
  BY DEF LoopAction, SetUp, Started, SetupReplicas, SkipEmptySet, ListPods, PodCreated, PodNameTaken,
     CreatePodFailed, CreatingPod, PodsSynced, GetService, CreateService, CreateServiceFailed,
     ServicesSynced, GetPod, ReadsReplica, ListReplica, SetRead, ReportStatus, DeleteResources
<1>2. \A p \in pods' : p \in pods \/ p.rid = mem[o].job.rid
  BY DEF LoopAction, SetupReplicas, SkipEmptySet, ListPods, PodCreated, PodNameTaken,
     CreatePodFailed, NewPod, PodsSynced, GetService, CreateService, CreateServiceFailed,
     ServicesSynced, GetPod, ListReplica, SetRead, ReportStatus, DeleteResources
<1>3. \A s \in services' : s \in services \/ s.rid = mem[o].job.rid
  BY DEF LoopAction, SetupReplicas, SkipEmptySet, ListPods, PodCreated, PodNameTaken,
     CreatePodFailed, PodsSynced, GetService, CreateService, CreateServiceFailed, ServiceAt,
     ServicesSynced, GetPod, ListReplica, SetRead, ReportStatus, DeleteResources
<1>4. \E m : /\ GoesTo(o, m, LoopPCs)
             /\ m.pc = "createPod" => ListPods(o)
             /\ m.pc = "createService" => GetService(o)
             /\ m.pc = "deleteResources" => DeleteResources(o)
  <2>1. CASE SkipEmptySet(o) \/ ListPods(o) \/ PodCreated(o) \/ PodNameTaken(o)
              \/ CreatePodFailed(o) \/ PodsSynced(o) \/ GetService(o) \/ CreateService(o)
              \/ CreateServiceFailed(o) \/ ServicesSynced(o)
    <3>1. PICK m : /\ GoesTo(o, m, {"listPods", "createPod", "getService", "createService",
                                    "updateServices"})
                   /\ m.pc = "createPod" => ListPods(o)
                   /\ m.pc = "createService" => GetService(o)
      BY <2>1, SyncEffect
    <3>2. GoesTo(o, m, LoopPCs) /\ m.pc # "deleteResources"
      BY <3>1 DEF GoesTo, LoopPCs, PCs, UpdateSites
    <3> QED
      BY <3>1, <3>2
  <2>2. CASE SetupReplicas(o) \/ GetPod(o) \/ ListReplica(o) \/ SetRead(o) \/ ReportStatus(o)
              \/ DeleteResources(o)
    <3>1. PICK m : /\ GoesTo(o, m, {"listPods", "updateReason", "getReplica", "listReplica",
                                    "getChief", "listChief", "updateStatus", "deleteResources",
                                    "idle"})
                   /\ m.pc = "deleteResources" => DeleteResources(o)
      BY <2>2, StatusEffect
    <3>2. GoesTo(o, m, LoopPCs) /\ m.pc \notin {"createPod", "createService"}
      BY <3>1 DEF GoesTo, LoopPCs, PCs, UpdateSites
    <3> QED
      BY <3>1, <3>2
  <2> QED
    BY <2>1, <2>2 DEF LoopAction
<1> QED
  BY <1>1, <1>2, <1>3, <1>4

(* A place in Reconcile before the loops, or at the start of the last one, *)
(* or the end of the process, which forgets everything.                    *)
Resumes(m) == /\ m.pc \notin {"createPod", "createService"}
              /\ m.pc = "deleteResources" => m.pos = Start0
              /\ m.pc = "down" => m = NoMemory

(* The other steps of the operator touch no pod and no service, and do not *)
(* lead into the middle of a loop.                                         *)
LEMMA OutsideEffect ==
  ASSUME IInv, NEW o \in Operators, Operate(o), ~LoopAction(o)
  PROVE  /\ UNCHANGED <<spec, pods, services>> /\ crd'.live = crd.live
         /\ \E m : mem' = [mem EXCEPT ![o] = m] /\ Resumes(m)
<1>0. mem[o] \in Memories /\ crd \in [live : BOOLEAN, rid : Ids, status : Statuses]
  BY DEF IInv, TypeOK
<1>1. UNCHANGED <<spec, pods, services>> /\ crd'.live = crd.live
  BY <1>0 DEF Operate, Start, Informed, NewJob, Sync, ObserveDelete, Reconcile, LoopAction,
     Setup, StatusUnchanged, StatusWritten, StatusRefused, StatusAnswerLost, Stored, Panic, Crash,
     Exit
<1>2. \E m : mem' = [mem EXCEPT ![o] = m] /\ Resumes(m)
  <2>1. CASE Start(o)
    <3> DEFINE m == [NoMemory EXCEPT !.pc = "synced",
                                     !.job = [rid |-> crd.rid, status |-> crd.status]]
    <3>1. m.pc = "synced"
      BY DEF NoMemory
    <3> HIDE DEF m
    <3> QED
      BY <2>1, <3>1 DEF Start, Become, Resumes, m
  <2>2. CASE Informed(o)
    <3> DEFINE m == [mem[o] EXCEPT !.job = [rid |-> crd.rid, status |-> crd.status]]
    <3>1. m.pc = "synced"
      BY <1>0, <2>2 DEF Informed, Memories
    <3> HIDE DEF m
    <3> QED
      BY <2>2, <3>1 DEF Informed, Become, Resumes, m
  <2>3. ASSUME NEW n \in Memories, NEW pc \in {"setup", "replicas", "gone", "idle"},
               mem' = [mem EXCEPT ![o] = Goto(n, pc)]
        PROVE  \E m : mem' = [mem EXCEPT ![o] = m] /\ Resumes(m)
    <3>1. pc \in PCs
      BY <2>3 DEF PCs
    <3>2. Goto(n, pc).pc = pc
      BY <3>1, JumpMemory
    <3> QED
      BY <2>3, <3>2 DEF Resumes
  <2>4. Entry(mem[o]) \in {"setup", "replicas"}
    BY DEF Entry
  <2>5. CASE NewJob(o)
    <3>1. [mem[o] EXCEPT !.status = mem[o].job.status] \in Memories
      BY <1>0 DEF Memories
    <3> QED
      BY <2>3, <2>4, <2>5, <3>1 DEF NewJob, Become
  <2>6. CASE Sync(o)
    BY <1>0, <2>3, <2>4, <2>6 DEF Sync, Become
  <2>7. CASE ObserveDelete(o)
    BY <1>0, <2>3, <2>7 DEF ObserveDelete, Become
  <2>8. CASE Setup(o)
    <3>1. CASE mem' = [mem EXCEPT ![o] = Reject(mem[o])]
      <4>1. Reject(mem[o]).pc = "updateSetup"
        BY <1>0 DEF Reject, Memories
      <4> QED
        BY <3>1, <4>1 DEF Resumes
    <3>2. ASSUME NEW r, mem' = [mem EXCEPT ![o] = Admit(mem[o], r)]
          PROVE  \E m : mem' = [mem EXCEPT ![o] = m] /\ Resumes(m)
      <4>1. Admit(mem[o], r).pc = "updateSetup"
        BY <1>0 DEF Admit, Memories
      <4> QED
        BY <3>2, <4>1 DEF Resumes
    <3> QED
      BY <2>8, <3>1, <3>2 DEF Setup, Become
  <2>9. CASE StatusUnchanged(o) \/ StatusWritten(o)
    <3>1. PICK n \in {mem[o], Aliased(mem[o])} : mem' = [mem EXCEPT ![o] = Updated(n)]
      BY <2>9 DEF StatusUnchanged, StatusWritten, Become
    <3>2. n \in Memories /\ n.pc \in UpdateSites
      BY <2>9, <3>1, AtUpdate DEF StatusUnchanged, StatusWritten, Unwritten
    <3>3. Resumes(Updated(n))
      BY <3>2, UpdatedEffect DEF Resumes
    <3> QED
      BY <3>1, <3>3
  <2>10. CASE StatusRefused(o) \/ StatusAnswerLost(o)
    <3>1. mem[o].pc \in UpdateSites /\ mem' = [mem EXCEPT ![o] = Goto(Aliased(mem[o]), "idle")]
      BY <2>10 DEF StatusRefused, StatusAnswerLost, Become, Unwritten
    <3>2. Goto(Aliased(mem[o]), "idle").pc = "idle"
      BY <3>1, GivenUpEffect
    <3> QED
      BY <3>1, <3>2 DEF Resumes
  <2>11. CASE Panic(o) \/ Crash(o)
    <3>1. NoMemory.pc = "down"
      BY DEF NoMemory
    <3> QED
      BY <2>11, <3>1 DEF Panic, Crash, Exit, Become, Resumes
  <2> QED
    BY <2>1, <2>2, <2>5, <2>6, <2>7, <2>8, <2>9, <2>10, <2>11
       DEF Operate, Reconcile, LoopAction
<1> QED
  BY <1>1, <1>2

(* The kubelet keeps the type, the index and the id of a pod, and never    *)
(* brings a Failed one back.                                               *)
LEMMA KubeletEffect ==
  ASSUME IInv, NEW p \in pods, Kubelet(p)
  PROVE  /\ UNCHANGED <<spec, crd, fresh, services, mem>>
         /\ \A n \in pods' : n \in pods \/ /\ n.type = p.type /\ n.idx = p.idx /\ n.rid = p.rid
                                           /\ p \notin pods' \/ n = p
                                           /\ p.phase # "Failed"
         /\ \A n, q \in pods' : n \notin pods /\ q \notin pods => n = q
<1>1. UNCHANGED <<spec, crd, fresh, services, mem>>
  BY DEF Kubelet, PodStarts, PodSucceeds, ContainerRestarts, PodFails, PodRemoved, PodBecomes
<1>2. CASE pods' \subseteq pods
  BY <1>1, <1>2
<1>3. ASSUME NEW ph, NEW e, PodBecomes(p, ph, e), p.phase # "Failed"
      PROVE  /\ \A n \in pods' : n \in pods \/ /\ n.type = p.type /\ n.idx = p.idx /\ n.rid = p.rid
                                               /\ p \notin pods' \/ n = p
                                               /\ p.phase # "Failed"
             /\ \A n, q \in pods' : n \notin pods /\ q \notin pods => n = q
  <2> DEFINE n == [p EXCEPT !.phase = ph, !.exit = e]
  <2>1. pods' = (pods \ {p}) \union {n}
    BY <1>3 DEF PodBecomes
  <2>2. n.type = p.type /\ n.idx = p.idx /\ n.rid = p.rid
    BY DEF IInv, TypeOK, Pods
  <2> HIDE DEF n
  <2> QED
    BY <1>3, <2>1, <2>2
<1>4. CASE PodRemoved(p)
  BY <1>2, <1>4 DEF PodRemoved
<1>5. CASE PodStarts(p) \/ PodSucceeds(p) \/ ContainerRestarts(p) \/ PodFails(p)
  BY <1>1, <1>3, <1>5 DEF PodStarts, PodSucceeds, ContainerRestarts, PodFails
<1> QED
  BY <1>4, <1>5 DEF Kubelet

(* A replica set has a number of replicas. *)
LEMMA ReplicasType ==
  ASSUME TypeOK, NEW i \in Sets
  PROVE  i \in Nat \ {0} /\ spec.replicaSpecs[i].replicas \in Nat
<1>1. spec.replicaSpecs \in Seq(ReplicaSpecs)
  BY DEF TypeOK, Specs
<1>2. i \in 1..Len(spec.replicaSpecs) /\ spec.replicaSpecs[i] \in ReplicaSpecs
  BY <1>1 DEF Sets
<1> QED
  BY <1>2 DEF ReplicaSpecs

(* Whatever operator o does, it runs before or after the step, and a       *)
(* process that ended has forgotten everything.                            *)
LEMMA RunsOrEnds ==
  ASSUME IInv, NEW o \in Operators, Operate(o)
  PROVE  /\ mem[o].pc = "down" => Start(o)
         /\ \E m : mem' = [mem EXCEPT ![o] = m] /\ (m.pc = "down" => m = NoMemory)
<1>1. mem[o].pc = "down" => Start(o)
  BY DEF Operate, Start, Informed, NewJob, Sync, ObserveDelete, Reconcile, Setup, SetupReplicas,
     StatusUnchanged, StatusWritten, StatusRefused, StatusAnswerLost, Unwritten, UpdateSites,
     SkipEmptySet, ListPods, PodCreated, PodNameTaken, CreatePodFailed, CreatingPod, PodsSynced,
     GetService, CreateService, CreateServiceFailed, ServicesSynced, GetPod, ReadsReplica,
     ListReplica, SetRead, ReportStatus, DeleteResources, Panic, Panics, UnsetPanics, Crash
<1>2. CASE LoopAction(o)
  <2>1. PICK m : GoesTo(o, m, LoopPCs)
    BY <1>2, LoopEffect
  <2> QED
    BY <1>1, <2>1 DEF GoesTo, LoopPCs
<1>3. CASE ~LoopAction(o)
  BY <1>1, <1>3, OutsideEffect DEF Resumes
<1> QED
  BY <1>2, <1>3

(* A process that does not run remembers nothing. *)
DownInv == \A o \in Operators : mem[o].pc = "down" => mem[o] = NoMemory

(* A crash and a panic lose j.job, j.status and the loops of Reconcile.    *)
LEMMA DownForgets == Spec => []DownInv
<1>1. Init => DownInv
  BY DEF Init, DownInv
<1>2. IInv /\ DownInv /\ [Next]_vars => DownInv'
  <2> SUFFICES ASSUME IInv, DownInv, [Next]_vars PROVE DownInv'
    OBVIOUS
  <2>1. CASE \E o \in Operators : Operate(o)
    <3>1. PICK o \in Operators : Operate(o)
      BY <2>1
    <3>2. PICK m : mem' = [mem EXCEPT ![o] = m] /\ (m.pc = "down" => m = NoMemory)
      BY <3>1, RunsOrEnds
    <3>3. \A q \in Operators : mem'[q] = IF q = o THEN m ELSE mem[q]
      BY <3>2 DEF IInv, TypeOK
    <3> QED
      BY <3>2, <3>3 DEF DownInv
  <2>2. CASE \E p \in pods : Kubelet(p)
    <3>1. UNCHANGED mem
      BY <2>2, KubeletEffect
    <3> QED
      BY <3>1 DEF DownInv
  <2>3. CASE User \/ CollectGarbage
    <3>1. UNCHANGED mem
      BY <2>3 DEF User, UserEdits, UserCleansUp, UserDeletes, CollectGarbage
    <3> QED
      BY <3>1 DEF DownInv
  <2>4. CASE UNCHANGED vars
    BY <2>4 DEF vars, DownInv
  <2> QED
    BY <2>1, <2>2, <2>3, <2>4 DEF Next
<1> QED
  BY <1>1, <1>2, Invariant, PTL DEF Spec

-----------------------------------------------------------------------------
(***************************************************************************)
(* Steps that have nothing to do with the chief's status.                  *)
(***************************************************************************)
(* What the operator knows of the chief stays the same, and it is neither  *)
(* listing a replica's pods, nor reading the chief's replica, nor          *)
(* reporting, nor deleting.                                                *)
Quiet(m, n) == /\ n.status.phase = m.status.phase
               /\ n.job.status = m.job.status /\ n.chief = m.chief
               /\ n.pc \notin {"listReplica", "getChief", "listChief", "updateStatus", "deleteResources"}

(* Another place that has to do neither with the chief nor with deleting.  *)
LEMMA ElsewhereIsQuiet ==
  ASSUME NEW m \in Memories, NEW n \in {m, NextSet(m), NextTask(m)}, NEW pc \in PCs,
         pc \notin {"listReplica", "getChief", "listChief", "updateStatus", "deleteResources"}
  PROVE  Quiet(m, [n EXCEPT !.pc = pc])
<1>1. CASE n = m
  BY <1>1, JumpMemory DEF Quiet
<1>2. ASSUME NEW k \in {NextSet(m), NextTask(m)}
      PROVE  Quiet(m, [k EXCEPT !.pc = pc])
  <2> DEFINE r == [k EXCEPT !.pc = pc]
  <2>0. k \in Memories /\ k.job = m.job /\ k.status = m.status /\ k.chief = m.chief
    BY LoopMemory
  <2>1. r.pc = pc /\ r.job = m.job /\ r.status = m.status /\ r.chief = m.chief
    BY <2>0 DEF Memories
  <2> HIDE DEF r
  <2>2. Quiet(m, r)
    BY <2>1 DEF Quiet
  <2> QED
    BY <2>2 DEF r
<1> QED
  BY <1>1, <1>2

(* SyncPods and SyncServices, and setupReplicas before them, delete        *)
(* nothing and do not touch what is known of the chief.                    *)
LEMMA SyncIsQuiet ==
  ASSUME IInv, NEW o \in Operators,
         SkipEmptySet(o) \/ ListPods(o) \/ PodCreated(o) \/ PodNameTaken(o) \/ CreatePodFailed(o)
           \/ PodsSynced(o) \/ GetService(o) \/ CreateService(o) \/ CreateServiceFailed(o)
           \/ ServicesSynced(o) \/ SetupReplicas(o)
  PROVE  /\ UNCHANGED <<spec, crd>> /\ pods \subseteq pods'
         /\ \E m : mem' = [mem EXCEPT ![o] = m] /\ Quiet(mem[o], m)
<1> DEFINE Elsewhere == {"listPods", "createPod", "getService", "createService", "updateServices"}
<1>0. mem[o] \in Memories /\ Elsewhere \subseteq PCs
  BY DEF IInv, TypeOK, PCs, UpdateSites
<1>1. UNCHANGED <<spec, crd>> /\ pods \subseteq pods'
  BY DEF SkipEmptySet, ListPods, PodCreated, PodNameTaken, CreatePodFailed, PodsSynced, GetService,
     CreateService, CreateServiceFailed, ServicesSynced, SetupReplicas
<1> SUFFICES \E m : mem' = [mem EXCEPT ![o] = m] /\ Quiet(mem[o], m)
  BY <1>1
<1>2. ASSUME NEW n \in {mem[o], NextSet(mem[o]), NextTask(mem[o])}, NEW pc \in Elsewhere,
             mem' = [mem EXCEPT ![o] = [n EXCEPT !.pc = pc]]
      PROVE  \E m : mem' = [mem EXCEPT ![o] = m] /\ Quiet(mem[o], m)
  <2>0. pc \in PCs
    BY <1>0
  <2>1. pc \notin {"listReplica", "getChief", "listChief", "updateStatus", "deleteResources"}
    OBVIOUS
  <2>2. Quiet(mem[o], [n EXCEPT !.pc = pc])
    BY <1>0, <2>0, <2>1, ElsewhereIsQuiet
  <2> QED
    BY <1>2, <2>2
<1>3. ASSUME NEW n \in {NextSet(mem[o]), NextTask(mem[o])}, mem[o].pc \in Elsewhere,
             mem' = [mem EXCEPT ![o] = n]
      PROVE  \E m : mem' = [mem EXCEPT ![o] = m] /\ Quiet(mem[o], m)
  <2>1. Quiet(mem[o], n)
    BY <1>0, <1>3, LoopMemory DEF Quiet
  <2> QED
    BY <1>3, <2>1
<1>4. ASSUME NEW pc \in Elsewhere, mem' = [mem EXCEPT ![o] = Goto(mem[o], pc)]
      PROVE  \E m : mem' = [mem EXCEPT ![o] = m] /\ Quiet(mem[o], m)
  <2>0. pc \in PCs
    BY <1>0
  <2>1. Quiet(mem[o], Goto(mem[o], pc))
    <3> DEFINE m == Goto(mem[o], pc)
    <3>1. m.pc = pc /\ m.job = mem[o].job /\ m.status = mem[o].status /\ m.chief = mem[o].chief
      BY <1>0, <2>0, JumpMemory
    <3> HIDE DEF m
    <3> QED
      BY <3>1 DEF Quiet, m
  <2> QED
    BY <1>4, <2>1
<1>5. CASE SkipEmptySet(o)
  BY <1>3, <1>5 DEF SkipEmptySet, Become
<1>6. CASE ListPods(o)
  <2>1. CASE mem' = [mem EXCEPT ![o] = NextTask(mem[o])]
    BY <1>3, <1>6, <2>1 DEF ListPods
  <2>2. CASE mem' = [mem EXCEPT ![o] = [mem[o] EXCEPT !.pc = "createPod"]]
    BY <1>2, <2>2
  <2> QED
    BY <1>6, <2>1, <2>2 DEF ListPods, Become
<1>7. CASE PodCreated(o) \/ PodNameTaken(o) \/ CreatePodFailed(o)
  <2>1. \E n \in {NextSet(mem[o]), NextTask(mem[o])} :
          mem' = [mem EXCEPT ![o] = [n EXCEPT !.pc = "listPods"]]
    BY <1>7 DEF PodCreated, PodNameTaken, CreatePodFailed, Become
  <2> QED
    BY <1>2, <2>1
<1>8. CASE PodsSynced(o) \/ ServicesSynced(o)
  BY <1>4, <1>8 DEF PodsSynced, ServicesSynced, Become
<1>9. CASE GetService(o)
  <2>1. CASE mem' = [mem EXCEPT ![o] = NextTask(mem[o])]
    BY <1>3, <1>9, <2>1 DEF GetService
  <2>2. CASE mem' = [mem EXCEPT ![o] = [mem[o] EXCEPT !.pc = "createService"]]
    BY <1>2, <2>2
  <2> QED
    BY <1>9, <2>1, <2>2 DEF GetService, Become
<1>10. CASE CreateService(o) \/ CreateServiceFailed(o)
  <2>1. \E n \in {NextSet(mem[o]), NextTask(mem[o])} :
          mem' = [mem EXCEPT ![o] = [n EXCEPT !.pc = "getService"]]
    BY <1>10 DEF CreateService, CreateServiceFailed, Become
  <2> QED
    BY <1>2, <2>1
<1>11. CASE SetupReplicas(o)
  <2>1. CASE mem' = [mem EXCEPT ![o] = [Goto(mem[o], "listPods") EXCEPT !.built = TRUE]]
    <3> DEFINE g == Goto(mem[o], "listPods")
               m == [g EXCEPT !.built = TRUE]
    <3>1. g \in Memories /\ Quiet(mem[o], g)
      BY <1>0, JumpMemory DEF Quiet
    <3> HIDE DEF g
    <3>2. Quiet(mem[o], m)
      BY <3>1 DEF Quiet, Memories
    <3> HIDE DEF m
    <3> QED
      BY <2>1, <3>2 DEF m, g
  <2>2. CASE mem' = [mem EXCEPT ![o] = Unbuilt(mem[o])]
    <3> DEFINE m == Unbuilt(mem[o])
    <3>1. Quiet(mem[o], m)
      BY <1>0 DEF Unbuilt, Quiet, Memories, Statuses
    <3> HIDE DEF m
    <3> QED
      BY <2>2, <3>1 DEF m
  <2> QED
    BY <1>11, <2>1, <2>2 DEF SetupReplicas, Become
<1> QED
  BY <1>5, <1>6, <1>7, <1>8, <1>9, <1>10, <1>11

-----------------------------------------------------------------------------
(***************************************************************************)
(* One process leads at a time.  Which one may change at any step, and a   *)
(* process may lead again.                                                 *)
(***************************************************************************)
OneLeads == \A o, q \in Operators : mem[o].pc # "down" /\ mem[q].pc # "down" => o = q

OthersDown(o) == \A q \in Operators : q # o => mem[q].pc = "down"

(* Then the process that takes a step is the one that leads. *)
LEMMA StepOfTheLeader ==
  ASSUME IInv, OneLeads, OneLeads', NEW o \in Operators, Operate(o)
  PROVE  OthersDown(o)
<1>1. CASE mem[o].pc # "down"
  BY <1>1 DEF OneLeads, OthersDown
<1>2. CASE mem[o].pc = "down"
  <2> DEFINE m == [NoMemory EXCEPT !.pc = "synced",
                                   !.job = [rid |-> crd.rid, status |-> crd.status]]
  <2>1. m.pc = "synced"
    BY DEF NoMemory
  <2>2. mem' = [mem EXCEPT ![o] = m]
    BY <1>2, RunsOrEnds DEF Start, Become
  <2> HIDE DEF m
  <2>3. \A q \in Operators : mem'[q] = IF q = o THEN m ELSE mem[q]
    BY <2>2 DEF IInv, TypeOK
  <2> QED
    BY <2>1, <2>3 DEF OneLeads, OthersDown
<1> QED
  BY <1>1, <1>2
=============================================================================
