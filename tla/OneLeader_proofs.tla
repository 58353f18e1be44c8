--------------------------- MODULE OneLeader_proofs ---------------------------
(***************************************************************************)
(* Proofs about TrainingJob as long as one process leads at a time, which  *)
(* is what LeaderElection_proofs proves of the election, for any specs,    *)
(* ids, suffixes and bounds: which pods the operators can make, that a     *)
(* clean-up which ends has deleted everything, and that Done is true of    *)
(* the chief.                                                              *)
(* Any number of processes may lead one after the other: each may crash at *)
(* any step, and another one or the same one takes over.  Each theorem     *)
(* names the disturbances without which it holds.                          *)
(***************************************************************************)
EXTENDS Reconcile_proofs

-----------------------------------------------------------------------------
(* What an operator remembers of the id and the phase of the stored job:   *)
(* only between setup and its Update it is ahead, and then the Update will *)
(* not be refused.                                                         *)
RemembersOK(c, fs, o, m) ==
  /\ m.pc = "synced" => /\ m.job.rid = c.rid
                        /\ m.job.status.phase = "None" <=> c.status.phase = "None"
                        /\ c.status.phase = "None" => o \in fs
  /\ m.pc \in {"setup", "updateSetup"} =>
       c.status.phase = "None" /\ m.job.status.phase = "None" /\ o \in fs
  /\ Started(m) /\ m.pc \notin {"setup", "updateSetup"} =>
       c.status.phase # "None" /\ m.job.rid = c.rid

(* Pods and services carry the stored id, and come after it. *)
CarryId(c, ps, ss) ==
  /\ \A p \in ps \union ss : p.rid = c.rid
  /\ c.status.phase = "None" => ps = {} /\ ss = {}

IdInv == crd.live => /\ CarryId(crd, pods, services)
                     /\ \A o \in Operators : RemembersOK(crd, fresh, o, mem[o])

(* A pod is about to be created for a task all of whose pods have failed.  *)
MayCreate(m, ps) ==
  m.pc = "createPod" =>
    \A p \in ps : p.type = ReplicaSet(m).type /\ p.idx = m.pos.idx => p.phase = "Failed"

UniqueInv == OnePodPerTask /\ (crd.live => \A o \in Operators : MayCreate(mem[o], pods))

(* Pods and services belong to replica sets of the spec. *)
InSet(t, i) == t.type = spec.replicaSpecs[i].type /\ t.idx < spec.replicaSpecs[i].replicas

OfSpec(ps, ss) == /\ \A p \in ps : \E i \in Sets : p.type = spec.replicaSpecs[i].type
                  /\ \A s \in ss : \E i \in Sets : InSet(s, i)

(* deleteResources has deleted what belongs to the sets it has passed. *)
Deleted(m, ps, ss) ==
  m.pc = "deleteResources" =>
    \A i \in Sets : i < m.pos.set =>
      /\ \A p \in ps : p.type # spec.replicaSpecs[i].type
      /\ \A s \in ss : ~InSet(s, i)

DeleteInv ==
  /\ crd.live
  /\ OfSpec(pods, services)
  /\ \A o \in Operators : /\ mem[o].pc = "createService" => AtTask(mem[o])
                          /\ Deleted(mem[o], pods, services)

-----------------------------------------------------------------------------
(***************************************************************************)
(* Pods and services carry the stored id.                                  *)
(***************************************************************************)
(* A step of the operator that leads keeps IdInv if its new memory goes    *)
(* with the new state.                                                     *)
LEMMA IdStep ==
  ASSUME IInv, NEW o \in Operators, OthersDown(o), NEW m, mem' = [mem EXCEPT ![o] = m],
         CarryId(crd', pods', services'), RemembersOK(crd', fresh', o, m)
  PROVE  IdInv'
<1>1. mem'[o] = m /\ \A q \in Operators : q # o => mem'[q].pc = "down"
  BY DEF OthersDown, IInv, TypeOK
<1>2. \A q \in Operators : RemembersOK(crd', fresh', q, mem'[q])
  BY <1>1 DEF RemembersOK, Started
<1> QED
  BY <1>2 DEF IdInv

(* A step of Reconcile. *)
LEMMA IdReconcile ==
  ASSUME Without({"update", "edit", "earlyCleanUp"}), IInv, IdInv, NEW o \in Operators, OthersDown(o), Reconcile(o),
         crd'.live
  PROVE  IdInv'
<1>0. /\ mem[o] \in Memories /\ MemoryOK(spec, mem[o])
      /\ crd \in [live : BOOLEAN, rid : Ids, status : Statuses]
  BY DEF IInv, TypeOK
<1>1. CASE LoopAction(o)
  <2>1. PICK m : GoesTo(o, m, LoopPCs)
    BY <1>1, LoopEffect
  <2>2. UNCHANGED <<spec, crd, fresh>> /\ SetUp(mem[o]) /\ SetUp(m)
    BY <1>1, <2>1, LoopEffect DEF GoesTo, LoopPCs, SetUp, Started
  <2>3. RemembersOK(crd, fresh, o, mem[o]) /\ CarryId(crd, pods, services)
    BY <2>2 DEF IdInv
  <2>4. crd.status.phase # "None" /\ mem[o].job.rid = crd.rid
    BY <2>2, <2>3 DEF RemembersOK, SetUp
  <2>5. RemembersOK(crd, fresh, o, m)
    BY <2>1, <2>2, <2>4 DEF RemembersOK, SetUp, Started, GoesTo
  <2>6. CarryId(crd, pods', services')
    BY <1>1, <2>3, <2>4, LoopEffect DEF CarryId
  <2> QED
    BY <2>1, <2>2, <2>5, <2>6, IdStep DEF GoesTo
<1>2. CASE Setup(o)
  <2>1. PICK m \in {Reject(mem[o])} \union {Admit(mem[o], r) : r \in RuntimeIds \union {mem[o].job.rid}} :
          mem' = [mem EXCEPT ![o] = m]
    BY <1>2 DEF Setup, Become
  <2>2. m.pc = "updateSetup" /\ m.job.status = mem[o].job.status
    <3>1. CASE m = Reject(mem[o])
      BY <1>0, <3>1 DEF Reject, Memories
    <3>2. ASSUME NEW r, m = Admit(mem[o], r)
          PROVE  m.pc = "updateSetup" /\ m.job.status = mem[o].job.status
      BY <1>0, <3>2 DEF Admit, Memories
    <3> QED
      BY <2>1, <3>1, <3>2
  <2>3. mem[o].pc = "setup" /\ UNCHANGED <<crd, fresh, pods, services>>
    BY <1>2 DEF Setup
  <2>4. RemembersOK(crd, fresh, o, mem[o]) /\ CarryId(crd, pods, services)
    BY <2>3 DEF IdInv
  <2>5. RemembersOK(crd, fresh, o, m)
    BY <2>2, <2>3, <2>4 DEF RemembersOK
  <2> QED
    BY <2>1, <2>3, <2>4, <2>5, IdStep
<1>3. CASE StatusUnchanged(o)
  <2>1. /\ mem[o].pc \in UpdateSites /\ UNCHANGED <<crd, fresh, pods, services>>
        /\ mem' = [mem EXCEPT ![o] = Updated(mem[o])] /\ mem[o].job.status = mem[o].status
    BY <1>3 DEF StatusUnchanged, Become
  <2>2. RemembersOK(crd, fresh, o, mem[o]) /\ CarryId(crd, pods, services)
    BY <2>1 DEF IdInv
  <2>3. mem[o].pc # "updateSetup"
    BY <2>1, <2>2, AtUpdate DEF RemembersOK
  <2>4. SetUp(mem[o])
    BY <2>1, <2>3 DEF SetUp, Started, UpdateSites
  <2> DEFINE m == Updated(mem[o])
  <2>5. SetUp(m) /\ m.job = mem[o].job /\ m.pc # "synced"
    BY <1>0, <2>1, UpdatedEffect DEF SetUp, Started
  <2> HIDE DEF m
  <2>6. RemembersOK(crd, fresh, o, m)
    BY <2>2, <2>4, <2>5 DEF RemembersOK, SetUp
  <2> QED
    BY <2>1, <2>2, <2>6, IdStep DEF m
<1>4. CASE StatusRefused(o)
  <2> DEFINE m == Goto(Aliased(mem[o]), "idle")
  <2>1. /\ mem[o].pc \in UpdateSites /\ UNCHANGED <<crd, fresh, pods, services>>
        /\ mem' = [mem EXCEPT ![o] = m] /\ o \notin fresh
    BY <1>4 DEF StatusRefused, Become, Unwritten, Without, Fault, Accepts
  <2>2. RemembersOK(crd, fresh, o, mem[o]) /\ CarryId(crd, pods, services)
    BY <2>1 DEF IdInv
  <2>3. SetUp(mem[o])
    BY <2>1, <2>2 DEF RemembersOK, SetUp, Started, UpdateSites
  <2>4. m.pc = "idle" /\ m.job.rid = mem[o].job.rid
    BY <2>1, GivenUpEffect
  <2> HIDE DEF m
  <2>5. RemembersOK(crd, fresh, o, m)
    BY <2>2, <2>3, <2>4 DEF RemembersOK, SetUp
  <2> QED
    BY <2>1, <2>2, <2>5, IdStep
<1>5. CASE StatusWritten(o) \/ StatusAnswerLost(o)
  <2>1. /\ mem[o].pc \in UpdateSites /\ crd' = Stored(mem[o]) /\ UNCHANGED <<pods, services>>
        /\ crd.live
    BY <1>5 DEF StatusWritten, StatusAnswerLost, Unwritten, Accepts
  <2>2. RemembersOK(crd, fresh, o, mem[o]) /\ CarryId(crd, pods, services)
    BY <2>1 DEF IdInv
  <2>3. crd'.rid = mem[o].job.rid /\ crd'.status.phase # "None"
    BY <1>0, <2>1, AtUpdate DEF Stored
  <2>4. CarryId(crd', pods', services')
    <3>1. CASE mem[o].pc = "updateSetup"
      BY <2>1, <2>2, <2>3, <3>1 DEF CarryId, RemembersOK
    <3>2. CASE mem[o].pc # "updateSetup"
      <4>1. SetUp(mem[o])
        BY <2>1, <3>2 DEF SetUp, Started, UpdateSites
      <4> QED
        BY <2>1, <2>2, <2>3, <4>1 DEF CarryId, RemembersOK, SetUp
    <3> QED
      BY <3>1, <3>2
  <2>5. PICK m \in {Updated(Aliased(mem[o])), Goto(Aliased(mem[o]), "idle")} :
          mem' = [mem EXCEPT ![o] = m]
    BY <1>5 DEF StatusWritten, StatusAnswerLost, Become
  <2>6. SetUp(m) /\ m.pc # "synced" /\ m.job.rid = mem[o].job.rid
    <3>1. CASE m = Updated(Aliased(mem[o]))
      BY <2>1, <3>1, AtUpdate, UpdatedEffect DEF SetUp, Started
    <3>2. CASE m = Goto(Aliased(mem[o]), "idle")
      BY <2>1, <3>2, GivenUpEffect DEF SetUp, Started
    <3> QED
      BY <2>5, <3>1, <3>2
  <2>7. RemembersOK(crd', fresh', o, m)
    BY <2>3, <2>6 DEF RemembersOK, SetUp
  <2> QED
    BY <2>4, <2>5, <2>7, IdStep
<1> QED
  BY <1>1, <1>2, <1>3, <1>4, <1>5 DEF Reconcile, LoopAction

(* A step of the operator. *)
LEMMA IdOperate ==
  ASSUME Without({"update", "edit", "earlyCleanUp"}), IInv, IdInv, NEW o \in Operators, OthersDown(o), Operate(o),
         crd'.live
  PROVE  IdInv'
<1>0. mem[o] \in Memories /\ MemoryOK(spec, mem[o])
  BY DEF IInv, TypeOK
<1>1. CASE Start(o)
  <2> DEFINE m == [NoMemory EXCEPT !.pc = "synced", !.job = [rid |-> crd.rid, status |-> crd.status]]
  <2>1. /\ m.pc = "synced" /\ m.job.rid = crd.rid /\ m.job.status = crd.status
    BY DEF NoMemory
  <2>2. /\ mem' = [mem EXCEPT ![o] = m] /\ fresh' = fresh \union {o} /\ UNCHANGED <<crd, pods, services>>
    BY <1>1 DEF Start, Become
  <2> HIDE DEF m
  <2>3. RemembersOK(crd, fresh', o, m)
    BY <2>1, <2>2 DEF RemembersOK, Started
  <2>4. CarryId(crd, pods, services)
    BY <2>2 DEF IdInv
  <2> QED
    BY <2>2, <2>3, <2>4, IdStep
<1>2. CASE Informed(o)
  <2> DEFINE m == [mem[o] EXCEPT !.job = [rid |-> crd.rid, status |-> crd.status]]
  <2>1. /\ m.pc = "synced" /\ m.job.rid = crd.rid /\ m.job.status = crd.status
    BY <1>0, <1>2 DEF Informed, Memories
  <2>2. /\ mem' = [mem EXCEPT ![o] = m] /\ fresh' = fresh \union {o} /\ UNCHANGED <<crd, pods, services>>
    BY <1>2 DEF Informed, Become
  <2> HIDE DEF m
  <2>3. RemembersOK(crd, fresh', o, m)
    BY <2>1, <2>2 DEF RemembersOK, Started
  <2>4. CarryId(crd, pods, services)
    BY <2>2 DEF IdInv
  <2> QED
    BY <2>2, <2>3, <2>4, IdStep
<1>3. CASE NewJob(o)
  <2> DEFINE n == [mem[o] EXCEPT !.status = mem[o].job.status]
             m == Goto(n, Entry(mem[o]))
  <2>1. n \in Memories /\ n.job = mem[o].job
    BY <1>0 DEF Memories
  <2>2. Entry(mem[o]) \in PCs
    BY DEF Entry, PCs
  <2>3. m.pc = Entry(mem[o]) /\ m.job = mem[o].job
    BY <2>1, <2>2, JumpMemory
  <2>4. /\ mem' = [mem EXCEPT ![o] = m] /\ UNCHANGED <<crd, fresh, pods, services>>
        /\ mem[o].pc = "synced"
    BY <1>3 DEF NewJob, Become
  <2> HIDE DEF m
  <2>5. RemembersOK(crd, fresh, o, mem[o]) /\ CarryId(crd, pods, services)
    BY <2>4 DEF IdInv
  <2>6. RemembersOK(crd, fresh, o, m)
    BY <2>3, <2>4, <2>5 DEF RemembersOK, Entry
  <2> QED
    BY <2>4, <2>5, <2>6, IdStep
<1>4. CASE Sync(o)
  <2> DEFINE m == Goto(mem[o], "replicas")
  <2>1. mem[o].pc = "idle" /\ UNCHANGED <<crd, fresh, pods, services>>
    BY <1>4 DEF Sync
  <2>2. mem[o].job.status.phase # "None"
    BY <1>0, <2>1 DEF MemoryOK, Started
  <2>3. mem' = [mem EXCEPT ![o] = m]
    BY <1>4, <2>2 DEF Sync, Become, Entry
  <2>4. m.pc = "replicas" /\ m.job = mem[o].job
    BY <1>0, JumpMemory DEF PCs
  <2> HIDE DEF m
  <2>5. RemembersOK(crd, fresh, o, mem[o]) /\ CarryId(crd, pods, services)
    BY <2>1 DEF IdInv
  <2>6. RemembersOK(crd, fresh, o, m)
    BY <2>1, <2>4, <2>5 DEF RemembersOK, Started
  <2> QED
    BY <2>1, <2>3, <2>5, <2>6, IdStep
<1>5. CASE ObserveDelete(o)
  BY <1>5 DEF ObserveDelete
<1>6. CASE Reconcile(o)
  BY <1>6, IdReconcile
<1>7. CASE Panic(o) \/ Crash(o)
  <2>1. mem' = [mem EXCEPT ![o] = NoMemory] /\ UNCHANGED <<crd, pods, services>>
    BY <1>7 DEF Panic, Crash, Exit, Become
  <2>2. RemembersOK(crd, fresh', o, NoMemory)
    BY DEF RemembersOK, NoMemory, Started
  <2>3. CarryId(crd, pods, services)
    BY <2>1 DEF IdInv
  <2> QED
    BY <2>1, <2>2, <2>3, IdStep
<1> QED
  BY <1>1, <1>2, <1>3, <1>4, <1>5, <1>6, <1>7 DEF Operate

(* A step of the rest of the cluster. *)
LEMMA IdCluster ==
  ASSUME Without({"update", "edit", "earlyCleanUp"}), IInv, IdInv, crd'.live,
         (\E p \in pods : Kubelet(p)) \/ User \/ CollectGarbage \/ UNCHANGED vars
  PROVE  IdInv'
<1>0. crd \in [live : BOOLEAN, rid : Ids, status : Statuses]
  BY DEF IInv, TypeOK
<1>1. CASE \E p \in pods : Kubelet(p)
  <2>1. PICK p \in pods : Kubelet(p)
    BY <1>1
  <2>2. UNCHANGED <<crd, fresh, services, mem>>
    BY <2>1, KubeletEffect
  <2>3. \A n \in pods' : n \in pods \/ n.rid = p.rid
    BY <2>1, KubeletEffect
  <2>4. CarryId(crd, pods', services)
    BY <2>2, <2>3 DEF IdInv, CarryId
  <2> QED
    BY <2>2, <2>4 DEF IdInv
<1>2. CASE User
  <2>1. CASE UserEdits
    BY <2>1 DEF UserEdits, Fault, Without
  <2>2. CASE UserDeletes
    BY <1>0, <2>2 DEF UserDeletes
  <2>3. CASE UserCleansUp
    <3>1. /\ UNCHANGED <<pods, services, mem>> /\ crd.live
          /\ crd'.rid = crd.rid /\ crd.status.phase # "None" /\ crd'.status.phase = "CleanUp"
      BY <1>0, <2>3 DEF UserCleansUp, Statuses, Without
    <3>2. CarryId(crd', pods, services)
      BY <3>1 DEF IdInv, CarryId
    <3>3. ASSUME NEW o \in Operators PROVE RemembersOK(crd', fresh', o, mem[o])
      <4>1. RemembersOK(crd, fresh, o, mem[o])
        BY <3>1 DEF IdInv
      <4> QED
        BY <3>1, <4>1 DEF RemembersOK
    <3> QED
      BY <3>1, <3>2, <3>3 DEF IdInv
  <2> QED
    BY <1>2, <2>1, <2>2, <2>3 DEF User
<1>3. CASE CollectGarbage
  BY <1>3 DEF CollectGarbage
<1>4. CASE UNCHANGED vars
  BY <1>4 DEF vars, IdInv
<1> QED
  BY <1>1, <1>2, <1>3, <1>4

(* Initially no pod and no service comes without the stored id. *)
LEMMA IdInit == Init => IdInv
<1> SUFFICES ASSUME Init PROVE IdInv
  OBVIOUS
<1>1. \A o \in Operators : RemembersOK(crd, fresh, o, mem[o])
  BY DEF Init, RemembersOK, NoMemory, Started
<1>2. CASE InitNew
  BY <1>1, <1>2 DEF InitNew, IdInv, CarryId
<1>3. CASE InitUpgraded
  <2>1. PICK r \in RuntimeIds, ph \in {"Creating", "Running"} :
          /\ crd = [live |-> TRUE, rid |-> r,
                    status |-> [NoStatus EXCEPT !.phase = ph, !.state = "Running"]]
          /\ pods = {[type |-> t.type, idx |-> t.idx, rid |-> r, sfx |-> 0,
                      phase |-> "Running", exit |-> "none"] : t \in TaskSet(spec)}
          /\ services = {[type |-> t.type, idx |-> t.idx, rid |-> r] : t \in TaskSet(spec)}
    BY <1>3 DEF InitUpgraded
  <2>2. crd.rid = r /\ crd.status.phase = ph
    BY <2>1 DEF NoStatus
  <2>3. \A p \in pods \union services : p.rid = r
    BY <2>1
  <2> QED
    BY <1>1, <2>2, <2>3 DEF IdInv, CarryId
<1> QED
  BY <1>2, <1>3 DEF Init

(* Every step keeps IdInv. *)
LEMMA IdInductive ==
  ASSUME OneLeads, OneLeads', Without({"update", "edit", "earlyCleanUp"}), IInv, IdInv, [Next]_vars
  PROVE  IdInv'
<1>1. CASE ~crd'.live
  BY <1>1 DEF IdInv
<1>2. CASE crd'.live
  BY <1>2, IdOperate, IdCluster, StepOfTheLeader DEF Next
<1> QED
  BY <1>1, <1>2

(* As long as one process leads at a time and its writes are not refused,  *)
(* no pod gets an id that the next leader would not find: whichever        *)
(* answers a leader loses, wherever it crashes, whoever takes over (setup, *)
(* updateCRDStatus).                                                       *)
THEOREM StoredIdCarried ==
  ASSUME Without({"update", "edit", "earlyCleanUp"})
  PROVE  Spec /\ []OneLeads => []PodsCarryStoredId
<1>1. IInv /\ IdInv /\ OneLeads /\ OneLeads' /\ [Next]_vars => IdInv'
  BY IdInductive
<1>2. IdInv => PodsCarryStoredId
  BY DEF IdInv, CarryId, PodsCarryStoredId
<1> QED
  BY <1>1, <1>2, IdInit, Invariant, PTL DEF Spec

-----------------------------------------------------------------------------
(***************************************************************************)
(* A task has one pod that is not Failed.                                  *)
(***************************************************************************)
(* No two of the pods are for the same task, Failed ones aside. *)
Unique(ps) ==
  \A p, q \in ps :
    (p.phase # "Failed" /\ q.phase # "Failed" /\ p.type = q.type /\ p.idx = q.idx) => p = q

(* A step of the operator that leads. *)
LEMMA UniqueStep ==
  ASSUME IInv, NEW o \in Operators, OthersDown(o), NEW m, mem' = [mem EXCEPT ![o] = m],
         UNCHANGED spec, Unique(pods'), MayCreate(m, pods')
  PROVE  UniqueInv'
<1>1. mem'[o] = m /\ \A q \in Operators : q # o => mem'[q].pc = "down"
  BY DEF OthersDown, IInv, TypeOK
<1>2. \A q \in Operators : MayCreate(mem'[q], pods')
  BY <1>1 DEF MayCreate
<1>3. \A q \in Operators : MayCreate(mem[q], pods)'
  BY <1>2 DEF MayCreate, ReplicaSet
<1> QED
  BY <1>3 DEF UniqueInv, OnePodPerTask, Unique

(* SyncPods creates a pod only for a task whose pods have all failed. *)
LEMMA UniqueOperate ==
  ASSUME Without({"list"}), IInv, IdInv, UniqueInv, crd.live,
         NEW o \in Operators, OthersDown(o), Operate(o)
  PROVE  UniqueInv'
<1>0. /\ mem[o] \in Memories /\ Unique(pods) /\ MayCreate(mem[o], pods)
      /\ CarryId(crd, pods, services) /\ RemembersOK(crd, fresh, o, mem[o])
  BY DEF IInv, TypeOK, UniqueInv, OnePodPerTask, Unique, IdInv
<1>1. ASSUME NEW m, mem' = [mem EXCEPT ![o] = m], m.pc # "createPod", pods' \subseteq pods,
             UNCHANGED spec
      PROVE  UniqueInv'
  <2>1. Unique(pods') /\ MayCreate(m, pods')
    BY <1>0, <1>1 DEF Unique, MayCreate
  <2> QED
    BY <1>1, <2>1, UniqueStep
<1>2. CASE ListPods(o)
  <2>1. /\ mem[o].pc = "listPods" /\ UNCHANGED <<spec, pods>>
        /\ \/ mem' = [mem EXCEPT ![o] = NextTask(mem[o])]
           \/ /\ {p \in PodsAt(mem[o], mem[o].pos.idx) : Active(p)} = {}
              /\ mem' = [mem EXCEPT ![o] = [mem[o] EXCEPT !.pc = "createPod"]]
    BY <1>2 DEF ListPods, Become, Fault, Without
  <2>2. CASE mem' = [mem EXCEPT ![o] = NextTask(mem[o])]
    <3>1. NextTask(mem[o]).pc = mem[o].pc
      BY <1>0, KeepsJob DEF PCs
    <3> QED
      BY <1>1, <2>1, <2>2, <3>1
  <2>3. CASE /\ {p \in PodsAt(mem[o], mem[o].pos.idx) : Active(p)} = {}
             /\ mem' = [mem EXCEPT ![o] = [mem[o] EXCEPT !.pc = "createPod"]]
    <3> DEFINE m == [mem[o] EXCEPT !.pc = "createPod"]
    <3>1. m.pos = mem[o].pos
      BY <1>0 DEF Memories
    <3> HIDE DEF m
    <3>2. mem[o].job.rid = crd.rid
      BY <1>0, <2>1 DEF RemembersOK, Started
    <3>3. \A p \in pods : p.rid = mem[o].job.rid
      BY <1>0, <3>2 DEF CarryId
    <3>4. \A p \in pods : p.type = ReplicaSet(mem[o]).type /\ p.idx = mem[o].pos.idx
                            => p.phase = "Failed"
      BY <2>3, <3>3 DEF PodsAt, Active
    <3>5. MayCreate(m, pods')
      BY <2>1, <3>1, <3>4 DEF MayCreate, ReplicaSet
    <3> QED
      BY <1>0, <2>1, <2>3, <3>5, UniqueStep DEF m
  <2> QED
    BY <2>1, <2>2, <2>3
<1>3. CASE PodCreated(o) \/ CreatePodFailed(o)
  <2>1. LoopAction(o) /\ ~ListPods(o) /\ mem[o].pc = "createPod"
    BY <1>3 DEF LoopAction, PodCreated, CreatePodFailed, CreatingPod, ListPods
  <2>2. PICK m : GoesTo(o, m, LoopPCs) /\ m.pc # "createPod"
    BY <2>1, LoopEffect
  <2>3. Unique(pods')
    <3>1. CASE UNCHANGED pods
      BY <1>0, <3>1
    <3>2. ASSUME NEW x, pods' = pods \union {NewPod(mem[o], x)}
          PROVE  Unique(pods')
      <4>1. /\ NewPod(mem[o], x).type = ReplicaSet(mem[o]).type
            /\ NewPod(mem[o], x).idx = mem[o].pos.idx
        BY DEF NewPod
      <4>2. \A p \in pods : p.type = ReplicaSet(mem[o]).type /\ p.idx = mem[o].pos.idx
                              => p.phase = "Failed"
        BY <1>0, <2>1 DEF MayCreate
      <4> HIDE DEF NewPod
      <4> QED
        BY <1>0, <3>2, <4>1, <4>2 DEF Unique
    <3> QED
      BY <1>3, <3>1, <3>2 DEF PodCreated, CreatePodFailed
  <2>4. MayCreate(m, pods')
    BY <2>2 DEF MayCreate
  <2>5. UNCHANGED spec
    BY <2>1, LoopEffect
  <2> QED
    BY <2>2, <2>3, <2>4, <2>5, UniqueStep DEF GoesTo
<1>4. CASE LoopAction(o) /\ ~(ListPods(o) \/ PodCreated(o) \/ CreatePodFailed(o))
  <2>1. PICK m : GoesTo(o, m, LoopPCs) /\ m.pc # "createPod"
    BY <1>4, LoopEffect
  <2>2. pods' \subseteq pods
    BY <1>4 DEF LoopAction, SetupReplicas, SkipEmptySet, PodNameTaken, PodsSynced, GetService,
       CreateService, CreateServiceFailed, ServicesSynced, GetPod, ListReplica, SetRead,
       ReportStatus, DeleteResources
  <2>3. UNCHANGED spec
    BY <1>4, LoopEffect
  <2> QED
    BY <1>1, <2>1, <2>2, <2>3 DEF GoesTo
<1>5. CASE ~LoopAction(o)
  <2>1. PICK m : mem' = [mem EXCEPT ![o] = m] /\ Resumes(m)
    BY <1>5, OutsideEffect
  <2>2. UNCHANGED <<spec, pods>>
    BY <1>5, OutsideEffect
  <2> QED
    BY <1>1, <2>1, <2>2 DEF Resumes
<1> QED
  BY <1>2, <1>3, <1>4, <1>5

(* Kubelets do not bring a Failed pod back, nor make a second one. *)
LEMMA UniqueCluster ==
  ASSUME IInv, UniqueInv, crd'.live,
         (\E p \in pods : Kubelet(p)) \/ User \/ CollectGarbage \/ UNCHANGED vars
  PROVE  UniqueInv'
<1>1. CASE \E p \in pods : Kubelet(p)
  <2>1. PICK p \in pods : Kubelet(p)
    BY <1>1
  <2>2. UNCHANGED <<spec, crd, mem>>
    BY <2>1, KubeletEffect
  <2>3. Unique(pods) /\ \A o \in Operators : MayCreate(mem[o], pods)
    BY <2>2 DEF UniqueInv, OnePodPerTask, Unique
  <2>4. \A n \in pods' : n \in pods \/ /\ n.type = p.type /\ n.idx = p.idx
                                       /\ p \notin pods' \/ n = p
                                       /\ p.phase # "Failed"
    BY <2>1, KubeletEffect
  <2>5. \A n, q \in pods' : n \notin pods /\ q \notin pods => n = q
    BY <2>1, KubeletEffect
  <2>6. ASSUME NEW n \in pods', NEW q \in pods',
               n.phase # "Failed", q.phase # "Failed", n.type = q.type, n.idx = q.idx
        PROVE  n = q
    <3>1. CASE n \in pods /\ q \in pods
      BY <2>3, <2>6, <3>1 DEF Unique
    <3>2. CASE n \notin pods /\ q \notin pods
      BY <2>5, <3>2
    <3>3. CASE n \in pods /\ q \notin pods
      <4>1. n = p
        BY <2>3, <2>4, <2>6, <3>3 DEF Unique
      <4> QED
        BY <2>4, <3>3, <4>1
    <3>4. CASE n \notin pods /\ q \in pods
      <4>1. q = p
        BY <2>3, <2>4, <2>6, <3>4 DEF Unique
      <4> QED
        BY <2>4, <3>4, <4>1
    <3> QED
      BY <3>1, <3>2, <3>3, <3>4
  <2>7. ASSUME NEW o \in Operators PROVE MayCreate(mem[o], pods')
    <3>1. MayCreate(mem[o], pods)
      BY <2>3
    <3> QED
      BY <2>4, <3>1 DEF MayCreate
  <2>8. \A o \in Operators : MayCreate(mem[o], pods)'
    BY <2>2, <2>7 DEF MayCreate, ReplicaSet
  <2> QED
    BY <2>6, <2>8 DEF UniqueInv, OnePodPerTask
<1>2. CASE User
  <2>1. UNCHANGED <<spec, pods, mem>> /\ crd.live
    BY <1>2 DEF User, UserEdits, UserCleansUp, UserDeletes
  <2> QED
    BY <2>1 DEF UniqueInv, OnePodPerTask, MayCreate, ReplicaSet
<1>3. CASE CollectGarbage
  BY <1>3 DEF CollectGarbage
<1>4. CASE UNCHANGED vars
  BY <1>4 DEF vars, UniqueInv, OnePodPerTask, MayCreate, ReplicaSet
<1> QED
  BY <1>1, <1>2, <1>3, <1>4

(* Initially every task has one pod, or none. *)
LEMMA UniqueInit == Init => UniqueInv
<1> SUFFICES ASSUME Init PROVE UniqueInv
  OBVIOUS
<1>1. \A o \in Operators : MayCreate(mem[o], pods)
  BY DEF Init, MayCreate, NoMemory
<1>2. CASE InitNew
  BY <1>1, <1>2 DEF InitNew, UniqueInv, OnePodPerTask
<1>3. CASE InitUpgraded
  <2>1. PICK r : pods = {[type |-> t.type, idx |-> t.idx, rid |-> r, sfx |-> 0,
                          phase |-> "Running", exit |-> "none"] : t \in TaskSet(spec)}
    BY <1>3 DEF InitUpgraded
  <2>2. \A p \in pods : p = [type |-> p.type, idx |-> p.idx, rid |-> r, sfx |-> 0,
                           phase |-> "Running", exit |-> "none"]
    BY <2>1
  <2>3. \A p, q \in pods : p.type = q.type /\ p.idx = q.idx => p = q
    BY <2>2
  <2> QED
    BY <1>1, <2>3 DEF UniqueInv, OnePodPerTask
<1> QED
  BY <1>2, <1>3 DEF Init

(* Every step keeps UniqueInv. *)
LEMMA UniqueInductive ==
  ASSUME OneLeads, OneLeads', Without({"list"}), IInv, IdInv, UniqueInv, [Next]_vars
  PROVE  UniqueInv'
<1>1. CASE ~crd'.live
  BY <1>1 DEF UniqueInv, OnePodPerTask
<1>2. CASE crd'.live /\ \E o \in Operators : Operate(o)
  <2>1. PICK o \in Operators : Operate(o)
    BY <1>2
  <2>2. crd.live
    <3>1. CASE LoopAction(o)
      BY <1>2, <2>1, <3>1, LoopEffect
    <3>2. CASE ~LoopAction(o)
      BY <1>2, <2>1, <3>2, OutsideEffect
    <3> QED
      BY <3>1, <3>2
  <2> QED
    BY <2>1, <2>2, UniqueOperate, StepOfTheLeader
<1>3. CASE crd'.live /\ ~\E o \in Operators : Operate(o)
  BY <1>3, UniqueCluster DEF Next
<1> QED
  BY <1>1, <1>2, <1>3

(* Leaders that follow one another never make two pods that are not Failed *)
(* for a task: not by crashing between the list and the create, by losing  *)
(* the answer of a create, or by trying again (SyncPods).                  *)
THEOREM TaskHasOnePod ==
  ASSUME Without({"update", "edit", "earlyCleanUp"}), Without({"list"})
  PROVE  Spec /\ []OneLeads => []OnePodPerTask
<1>1. IInv /\ IdInv /\ OneLeads /\ OneLeads' /\ [Next]_vars => IdInv'
  BY IdInductive
<1>2. IInv /\ IdInv /\ UniqueInv /\ OneLeads /\ OneLeads' /\ [Next]_vars => UniqueInv'
  BY UniqueInductive
<1>3. UniqueInv => OnePodPerTask
  BY DEF UniqueInv
<1> QED
  BY <1>1, <1>2, <1>3, IdInit, UniqueInit, Invariant, PTL DEF Spec

-----------------------------------------------------------------------------
(***************************************************************************)
(* A clean-up that ends has deleted everything.                            *)
(***************************************************************************)
(* A step of the operator that leads. *)
LEMMA DeleteStep ==
  ASSUME IInv, NEW o \in Operators, OthersDown(o), NEW m, mem' = [mem EXCEPT ![o] = m],
         UNCHANGED spec, crd'.live, OfSpec(pods', services'),
         m.pc = "createService" => AtTask(m),
         Deleted(m, pods', services')
  PROVE  DeleteInv'
<1>1. mem'[o] = m /\ \A q \in Operators : q # o => mem'[q].pc = "down"
  BY DEF OthersDown, IInv, TypeOK
<1>2. OfSpec(pods, services)'
  BY DEF OfSpec, Sets, InSet
<1>3. ASSUME NEW q \in Operators
      PROVE  (mem[q].pc = "createService" => AtTask(mem[q]))' /\ Deleted(mem[q], pods, services)'
  BY <1>1 DEF AtTask, ReplicaSet, Deleted, Sets, InSet
<1> QED
  BY <1>2, <1>3 DEF DeleteInv

(* What SyncPods and SyncServices create is of the spec. *)
LEMMA CreatesOfSpec ==
  ASSUME IInv, DeleteInv, NEW o \in Operators, LoopAction(o)
  PROVE  OfSpec(pods', services')
<1>0. OfSpec(pods, services)
  BY DEF DeleteInv
<1>1. CASE pods' \subseteq pods /\ services' \subseteq services
  BY <1>0, <1>1 DEF OfSpec
<1>2. CASE PodCreated(o) \/ CreatePodFailed(o)
  <2>1. CreatingPod(mem[o]) /\ UNCHANGED services
    BY <1>2 DEF PodCreated, CreatePodFailed
  <2>2. mem[o].pos.set \in Sets
    BY <2>1, AtCreatePod DEF Sets
  <2>3. \A p \in pods' : p \in pods \/ p.type = ReplicaSet(mem[o]).type
    BY <1>2 DEF PodCreated, CreatePodFailed, NewPod
  <2>4. \A p \in pods' : \E i \in Sets : p.type = spec.replicaSpecs[i].type
    BY <1>0, <2>2, <2>3 DEF OfSpec, ReplicaSet
  <2> QED
    BY <1>0, <2>1, <2>4 DEF OfSpec
<1>3. CASE CreateService(o) \/ CreateServiceFailed(o)
  <2>1. AtTask(mem[o]) /\ UNCHANGED pods
    BY <1>3 DEF CreateService, CreateServiceFailed, DeleteInv
  <2>2. \A s \in services' : s \in services \/ s = ServiceAt(mem[o])
    BY <1>3 DEF CreateService, CreateServiceFailed
  <2>3. InSet(ServiceAt(mem[o]), mem[o].pos.set) /\ mem[o].pos.set \in Sets
    BY <2>1 DEF InSet, ServiceAt, AtTask, ReplicaSet
  <2>4. \A s \in services' : \E i \in Sets : InSet(s, i)
    BY <1>0, <2>2, <2>3 DEF OfSpec
  <2> QED
    BY <1>0, <2>1, <2>4 DEF OfSpec
<1> QED
  BY <1>1, <1>2, <1>3 DEF LoopAction, SetupReplicas, SkipEmptySet, ListPods, PodNameTaken,
     PodsSynced, GetService, ServicesSynced, GetPod, ListReplica, SetRead, ReportStatus,
     DeleteResources

(* deleteResources deletes the pods of a set whatever their index, and the *)
(* services of all its indices; it only goes on if none was missing.       *)
LEMMA DeleteResourcesKeeps ==
  ASSUME IInv, IdInv, DeleteInv, NEW o \in Operators, OthersDown(o), DeleteResources(o)
  PROVE  DeleteInv'
<1>0. /\ mem[o] \in Memories /\ mem[o].pc = "deleteResources" /\ UNCHANGED <<spec, crd>>
      /\ services \subseteq Services /\ crd.live
      /\ Deleted(mem[o], pods, services) /\ OfSpec(pods', services')
  BY CreatesOfSpec DEF DeleteResources, IInv, TypeOK, DeleteInv, LoopAction
<1>1. CASE mem' = [mem EXCEPT ![o] = Goto(mem[o], "idle")]
  <2>1. Goto(mem[o], "idle").pc = "idle"
    BY <1>0, JumpMemory DEF PCs
  <2>2. Deleted(Goto(mem[o], "idle"), pods', services')
    BY <2>1 DEF Deleted
  <2> QED
    BY <1>0, <1>1, <2>1, <2>2, DeleteStep
<1>2. CASE AtSet(mem[o]) /\ mem' = [mem EXCEPT ![o] = NextSet(mem[o])]
           /\ pods' = pods \ PodsOfSet(mem[o])
           /\ services' = services \ {[type |-> ReplicaSet(mem[o]).type, idx |-> k,
                                       rid |-> mem[o].job.rid] :
                                        k \in 0..(ReplicaSet(mem[o]).replicas - 1)}
  <2> DEFINE m == NextSet(mem[o])
             j == mem[o].pos.set
  <2>1. m.pc = "deleteResources" /\ m.pos.set = j + 1 /\ j \in Nat
    BY <1>0 DEF NextSet, Memories, Positions
  <2> HIDE DEF m
  <2>2. /\ \A p \in pods : p.rid = mem[o].job.rid
        /\ \A s \in services : s.rid = mem[o].job.rid
    <3>1. RemembersOK(crd, fresh, o, mem[o]) /\ CarryId(crd, pods, services)
      BY <1>0 DEF IdInv
    <3>2. mem[o].job.rid = crd.rid
      BY <1>0, <3>1 DEF RemembersOK, Started
    <3> QED
      BY <3>1, <3>2 DEF CarryId
  <2>3. \A p \in pods' : p.type # spec.replicaSpecs[j].type
    BY <1>2, <2>2 DEF PodsOfSet, ReplicaSet
  <2>4. \A s \in services' : ~InSet(s, j)
    <3> SUFFICES ASSUME NEW s \in services, InSet(s, j)
                 PROVE  s \notin services'
      BY <1>2
    <3>1. s \in Services /\ s.rid = mem[o].job.rid
      BY <1>0, <2>2
    <3>2. s = [type |-> s.type, idx |-> s.idx, rid |-> s.rid] /\ s.idx \in Nat
      BY <3>1 DEF Services
    <3>3. s.type = ReplicaSet(mem[o]).type /\ s.idx < ReplicaSet(mem[o]).replicas
      BY DEF InSet, ReplicaSet
    <3>4. ReplicaSet(mem[o]).replicas \in Nat
      BY <1>2, ReplicasType DEF AtSet, ReplicaSet, IInv
    <3>5. s.idx \in 0..(ReplicaSet(mem[o]).replicas - 1)
      BY <3>2, <3>3, <3>4
    <3> QED
      BY <1>2, <3>1, <3>2, <3>3, <3>5
  <2>5. Deleted(m, pods', services')
    <3> SUFFICES ASSUME NEW i \in Sets, i < m.pos.set
                 PROVE  /\ \A p \in pods' : p.type # spec.replicaSpecs[i].type
                        /\ \A s \in services' : ~InSet(s, i)
      BY DEF Deleted
    <3>1. CASE i = j
      BY <2>3, <2>4, <3>1
    <3>2. CASE i # j
      <4>1. i \in Nat
        BY DEF Sets, IInv, TypeOK, Specs
      <4>2. i < j
        BY <2>1, <3>2, <4>1
      <4>3. /\ \A p \in pods : p.type # spec.replicaSpecs[i].type
            /\ \A s \in services : ~InSet(s, i)
        BY <1>0, <4>2 DEF Deleted
      <4> QED
        BY <1>2, <4>3
    <3> QED
      BY <3>1, <3>2
  <2> QED
    BY <1>0, <1>2, <2>1, <2>5, DeleteStep DEF m
<1> QED
  BY <1>1, <1>2 DEF DeleteResources, Become

(* Every step of the operator keeps DeleteInv. *)
LEMMA DeleteOperate ==
  ASSUME IInv, IdInv, DeleteInv, NEW o \in Operators, OthersDown(o), Operate(o)
  PROVE  DeleteInv'
<1>0. mem[o] \in Memories /\ crd.live /\ OfSpec(pods, services)
  BY DEF IInv, TypeOK, DeleteInv
<1>1. CASE DeleteResources(o)
  BY <1>1, DeleteResourcesKeeps
<1>2. CASE GetService(o)
  <2>1. /\ mem[o].pc = "getService" /\ AtTask(mem[o]) /\ UNCHANGED <<spec, crd, pods, services>>
        /\ \/ mem' = [mem EXCEPT ![o] = NextTask(mem[o])]
           \/ mem' = [mem EXCEPT ![o] = [mem[o] EXCEPT !.pc = "createService"]]
    BY <1>2 DEF GetService, Become
  <2>2. CASE mem' = [mem EXCEPT ![o] = NextTask(mem[o])]
    <3>1. NextTask(mem[o]).pc = "getService"
      BY <1>0, <2>1, KeepsJob DEF PCs
    <3>2. Deleted(NextTask(mem[o]), pods', services')
      BY <3>1 DEF Deleted
    <3> QED
      BY <1>0, <2>1, <2>2, <3>1, <3>2, DeleteStep
  <2>3. CASE mem' = [mem EXCEPT ![o] = [mem[o] EXCEPT !.pc = "createService"]]
    <3> DEFINE m == [mem[o] EXCEPT !.pc = "createService"]
    <3>1. m.pos = mem[o].pos /\ m.pc = "createService"
      BY <1>0 DEF Memories
    <3> HIDE DEF m
    <3>2. AtTask(m) /\ Deleted(m, pods', services')
      BY <2>1, <3>1 DEF AtTask, ReplicaSet, Deleted
    <3> QED
      BY <1>0, <2>1, <2>3, <3>2, DeleteStep DEF m
  <2> QED
    BY <2>1, <2>2, <2>3
<1>3. CASE LoopAction(o) /\ ~DeleteResources(o) /\ ~GetService(o)
  <2>1. PICK m : /\ GoesTo(o, m, LoopPCs)
                 /\ m.pc \notin {"createService", "deleteResources"}
    BY <1>3, LoopEffect
  <2>2. UNCHANGED <<spec, crd>>
    BY <1>3, LoopEffect
  <2>3. OfSpec(pods', services')
    BY <1>3, CreatesOfSpec
  <2>4. Deleted(m, pods', services')
    BY <2>1 DEF Deleted
  <2> QED
    BY <1>0, <2>1, <2>2, <2>3, <2>4, DeleteStep DEF GoesTo
<1>4. CASE ~LoopAction(o)
  <2>1. PICK m : mem' = [mem EXCEPT ![o] = m] /\ Resumes(m)
    BY <1>4, OutsideEffect
  <2>2. UNCHANGED <<spec, pods, services>> /\ crd'.live
    BY <1>0, <1>4, OutsideEffect
  <2>3. \A i \in Sets : ~(i < 1)
    BY DEF Sets, IInv, TypeOK, Specs
  <2>4. Deleted(m, pods', services')
    BY <2>1, <2>3 DEF Resumes, Deleted, Start0
  <2> QED
    BY <1>0, <2>1, <2>2, <2>4, DeleteStep DEF Resumes
<1> QED
  BY <1>1, <1>2, <1>3, <1>4

(* The rest of the cluster neither deletes the job nor makes a pod of a    *)
(* type that the spec has not.                                             *)
LEMMA DeleteCluster ==
  ASSUME Without({"jobDelete"}), IInv, DeleteInv,
         (\E p \in pods : Kubelet(p)) \/ User \/ CollectGarbage \/ UNCHANGED vars
  PROVE  DeleteInv'
<1>1. ASSUME UNCHANGED <<spec, services, mem>>, crd'.live,
             \A n \in pods' : \E p \in pods : n.type = p.type
      PROVE  DeleteInv'
  <2>1. OfSpec(pods', services')
    BY <1>1 DEF DeleteInv, OfSpec
  <2>2. OfSpec(pods, services)'
    BY <1>1, <2>1 DEF OfSpec, Sets, InSet
  <2>3. ASSUME NEW o \in Operators
        PROVE  (mem[o].pc = "createService" => AtTask(mem[o]))' /\ Deleted(mem[o], pods, services)'
    <3>1. (mem[o].pc = "createService" => AtTask(mem[o])) /\ Deleted(mem[o], pods, services)
      BY DEF DeleteInv
    <3>2. Deleted(mem[o], pods', services')
      BY <1>1, <3>1 DEF Deleted
    <3> QED
      BY <1>1, <3>1, <3>2 DEF AtTask, ReplicaSet, Deleted, Sets, InSet
  <2> QED
    BY <1>1, <2>2, <2>3 DEF DeleteInv
<1>2. crd.live /\ crd \in [live : BOOLEAN, rid : Ids, status : Statuses]
  BY DEF DeleteInv, IInv, TypeOK
<1>3. CASE \E p \in pods : Kubelet(p)
  <2>1. PICK p \in pods : Kubelet(p)
    BY <1>3
  <2>2. UNCHANGED <<spec, crd, services, mem>> /\ \A n \in pods' : n \in pods \/ n.type = p.type
    BY <2>1, KubeletEffect
  <2> QED
    BY <1>1, <1>2, <2>2
<1>4. CASE User
  <2>1. UNCHANGED <<spec, pods, services, mem>> /\ crd'.live
    BY <1>2, <1>4 DEF User, UserEdits, UserCleansUp, UserDeletes, Without
  <2> QED
    BY <1>1, <2>1
<1>5. CASE CollectGarbage
  BY <1>2, <1>5 DEF CollectGarbage
<1>6. CASE UNCHANGED vars
  BY <1>1, <1>2, <1>6 DEF vars
<1> QED
  BY <1>3, <1>4, <1>5, <1>6

(* Initially the pods and services, if any, are those of the spec. *)
LEMMA DeleteInit == Init => DeleteInv
<1> SUFFICES ASSUME Init PROVE DeleteInv
  OBVIOUS
<1>1. \A o \in Operators : mem[o].pc # "createService" /\ Deleted(mem[o], pods, services)
  BY DEF Init, Deleted, NoMemory
<1>2. CASE InitNew
  BY <1>1, <1>2 DEF InitNew, DeleteInv, OfSpec
<1>3. CASE InitUpgraded
  <2>1. PICK r : /\ pods = {[type |-> t.type, idx |-> t.idx, rid |-> r, sfx |-> 0,
                             phase |-> "Running", exit |-> "none"] : t \in TaskSet(spec)}
                 /\ services = {[type |-> t.type, idx |-> t.idx, rid |-> r] : t \in TaskSet(spec)}
                 /\ crd.live
    BY <1>3 DEF InitUpgraded
  <2>2. TypeOK
    BY InitInv DEF IInv
  <2>3. ASSUME NEW t \in TaskSet(spec)
        PROVE  \E i \in Sets : InSet(t, i)
    <3>1. PICK i \in Sets : \E k \in 0..(spec.replicaSpecs[i].replicas - 1) :
            t = [type |-> spec.replicaSpecs[i].type, idx |-> k]
      BY DEF TaskSet, Sets
    <3>2. spec.replicaSpecs[i].replicas \in Nat
      BY <2>2, ReplicasType
    <3> QED
      BY <3>1, <3>2 DEF InSet
  <2>4. OfSpec(pods, services)
    BY <2>1, <2>3 DEF OfSpec, InSet
  <2> QED
    BY <1>1, <2>1, <2>4 DEF DeleteInv
<1> QED
  BY <1>2, <1>3 DEF Init

(* Every step keeps DeleteInv. *)
LEMMA DeleteInductive ==
  ASSUME OneLeads, OneLeads', Without({"jobDelete"}), IInv, IdInv, DeleteInv, [Next]_vars
  PROVE  DeleteInv'
BY DeleteOperate, DeleteCluster, StepOfTheLeader DEF Next

(* deleteResources is past the last set only if nothing is left.           *)
LEMMA DeletedAll ==
  ASSUME IInv, DeleteInv
  PROVE  CleanUpDeletesAll
<1> SUFFICES ASSUME NEW o \in Operators, mem[o].pc = "deleteResources", ~AtSet(mem[o])
             PROVE  pods = {} /\ services = {}
  BY DEF CleanUpDeletesAll
<1>1. mem[o].pos.set \in Nat \ {0}
  BY DEF IInv, TypeOK, Memories, Positions
<1>2. Sets = 1..Len(spec.replicaSpecs) /\ Len(spec.replicaSpecs) \in Nat
  BY DEF Sets, IInv, TypeOK, Specs
<1>3. \A i \in Sets : i < mem[o].pos.set
  BY <1>1, <1>2 DEF AtSet
<1>4. Deleted(mem[o], pods, services) /\ OfSpec(pods, services)
  BY DEF DeleteInv
<1> QED
  BY <1>3, <1>4 DEF Deleted, OfSpec

(* When the leader ends the clean-up of a job without an error, no pod and *)
(* no service of the job is left, whatever failed or crashed before under  *)
(* this leader or an earlier one, and whatever the spec (deleteResources,  *)
(* MXReplicaSet.Delete).                                                   *)
THEOREM CleanUpComplete ==
  ASSUME Without({"update", "edit", "earlyCleanUp"}), Without({"jobDelete"})
  PROVE  Spec /\ []OneLeads => []CleanUpDeletesAll
<1>1. IInv /\ IdInv /\ OneLeads /\ OneLeads' /\ [Next]_vars => IdInv'
  BY IdInductive
<1>2. IInv /\ IdInv /\ DeleteInv /\ OneLeads /\ OneLeads' /\ [Next]_vars => DeleteInv'
  BY DeleteInductive
<1>3. IInv /\ DeleteInv => CleanUpDeletesAll
  BY DeletedAll
<1> QED
  BY <1>1, <1>2, <1>3, IdInit, DeleteInit, Invariant, PTL DEF Spec
-----------------------------------------------------------------------------
(***************************************************************************)
(* A job that is Done has a chief whose container has terminated.          *)
(***************************************************************************)
(* A container of the pod has terminated. *)
Ended(p) == p.phase \in {"Succeeded", "Failed"} \/ p.exit # "none"

ChiefEnded == \E p \in pods : IsChief(p) /\ Ended(p)

(* The replica that is read for the chief is the chief's.  A job in the    *)
(* operator's memory is in CleanUp only if the stored one is, and only     *)
(* then pods are deleted; by then nothing is known of the chief.           *)
KnowsChief(m, phase) ==
  /\ m.pc \in {"getChief", "listChief"} => AtSet(m) /\ ReplicaSet(m).type = spec.chief[1].name
  /\ m.pc \in {"updateStatus", "deleteResources"} => m.chief = "Unknown"
  /\ m.pc = "deleteResources" => m.status.phase = "CleanUp" /\ m.job.status.phase = "CleanUp"
  /\ m.status.phase = "CleanUp" \/ m.job.status.phase = "CleanUp" => phase = "CleanUp"

(* The operator has read that the chief has ended, has to report it, or    *)
(* has reported it.                                                        *)
ClaimsEnd(m) == \/ m.chief \in {"Failed", "Succeeded"}
                \/ m.status.phase = "Done" \/ m.job.status.phase = "Done"

DoneInv ==
  /\ crd.live
  /\ crd.status.phase = "Done" => ChiefEnded
  /\ \A o \in Operators : /\ KnowsChief(mem[o], crd.status.phase)
                          /\ ClaimsEnd(mem[o]) => ChiefEnded

(* A finite set of numbers has a greatest one.  Of the sets that have none *)
(* one has the fewest elements; without any of them it has a greatest one. *)
LEMMA FiniteMax ==
  ASSUME NEW S \in SUBSET Nat, IsFiniteSet(S), S # {}
  PROVE  \E x \in S : \A y \in S : y <= x
<1> DEFINE Greatest(T) == {x \in T : \A y \in T : y <= x}
           NoGreatest == {T \in SUBSET S : T # {} /\ Greatest(T) = {}}
           Sizes == {Cardinality(T) : T \in NoGreatest}
<1> SUFFICES ASSUME S \in NoGreatest PROVE FALSE
  OBVIOUS
<1>1. \A T \in SUBSET S : IsFiniteSet(T) /\ Cardinality(T) \in Nat
  BY FS_Subset, FS_CardinalityType
<1>2. Sizes \subseteq Nat /\ Sizes # {}
  BY <1>1
<1>3. PICK n \in Sizes : \A k \in Sizes : ~(<<k, n>> \in OpToRel(<, Nat))
  <2> HIDE DEF Sizes
  <2> QED
    BY <1>2, NatLessThanWellFounded, WFMin
<1>4. PICK T \in NoGreatest : Cardinality(T) = n
  BY <1>3
<1>5. PICK x : x \in T
  OBVIOUS
<1>6. IsFiniteSet(T) /\ Cardinality(T \ {x}) = n - 1 /\ n \in Nat
  BY <1>1, <1>4, <1>5, FS_RemoveElement
<1>7. T \ {x} \notin NoGreatest
  <2> SUFFICES ASSUME T \ {x} \in NoGreatest PROVE FALSE
    OBVIOUS
  <2>1. n - 1 \in Sizes /\ n - 1 \in Nat
    BY <1>2, <1>6
  <2>2. <<n - 1, n>> \in OpToRel(<, Nat)
    BY <1>6, <2>1 DEF OpToRel
  <2> QED
    BY <1>3, <2>1, <2>2
<1>8. CASE T \ {x} = {}
  BY <1>5, <1>8
<1>9. CASE T \ {x} # {}
  <2>1. PICK y \in T \ {x} : \A z \in T \ {x} : z <= y
    BY <1>7, <1>9
  <2>2. x \in Nat /\ \A z \in T : z \in Nat
    BY <1>5
  <2>3. CASE x <= y
    BY <2>1, <2>2, <2>3
  <2>4. CASE y < x
    BY <1>5, <2>1, <2>2, <2>4
  <2> QED
    BY <2>2, <2>1, <2>3, <2>4
<1> QED
  BY <1>8, <1>9

(* The pod that replicaStatusFromPodList settles on is one of the listed.  *)
LEMMA LatestIsListed ==
  ASSUME TypeOK, NEW ps \in SUBSET pods, ps # {}
  PROVE  LatestPod(ps) \in ps
<1> DEFINE Suffixes == {p.sfx : p \in ps}
<1>1. \A p \in ps : p.sfx \in {0} \union PodSuffixes
  BY DEF TypeOK, Pods
<1>2. IsFiniteSet({0} \union PodSuffixes) /\ {0} \union PodSuffixes \subseteq Nat
  BY PodSuffixesAssumption, FS_AddElement
<1>3. IsFiniteSet(Suffixes) /\ Suffixes \subseteq Nat /\ Suffixes # {}
  BY <1>1, <1>2, FS_Subset
<1>4. PICK x \in Suffixes : \A y \in Suffixes : y <= x
  <2> HIDE DEF Suffixes
  <2> QED
    BY <1>3, FiniteMax
<1>5. \E p \in ps : \A q \in ps : q.sfx <= p.sfx
  BY <1>4
<1> QED
  BY <1>5 DEF LatestPod

(* A replica with a pod is read as ended only if a pod of it has. *)
LEMMA EndIsRead ==
  ASSUME TypeOK, NEW ps \in SUBSET pods, replicaStatusFromPodList(ps) \in {"Failed", "Succeeded"}
  PROVE  \E p \in ps : Ended(p)
<1>1. ps # {} /\ PodState(LatestPod(ps)) \in {"Failed", "Succeeded"}
  BY DEF replicaStatusFromPodList
<1>2. LatestPod(ps) \in ps
  BY <1>1, LatestIsListed
<1> HIDE DEF LatestPod
<1>3. PICK p \in ps : PodState(p) \in {"Failed", "Succeeded"}
  BY <1>1, <1>2
<1>4. p.exit \in Exits /\ p.phase \in PodPhases
  BY DEF TypeOK, Pods
<1>5. Ended(p)
  BY <1>3, <1>4 DEF PodState, Ended, Exits, FailedExits, PodPhases
<1> QED
  BY <1>5

(* The pods of the replica that is read for the chief are the chief's.     *)
LEMMA ChiefIsProbed ==
  ASSUME NEW m, m.pc \in {"getChief", "listChief"}, KnowsChief(m, crd.status.phase),
         m.job.rid = crd.rid, NEW p \in PodsAt(m, Probed(m)), Ended(p)
  PROVE  ChiefEnded
BY DEF KnowsChief, PodsAt, Probed, ChiefEnded, IsChief

(* A step of the operator that leads. *)
LEMMA DoneStep ==
  ASSUME IInv, NEW o \in Operators, OthersDown(o), DownInv, NEW m, mem' = [mem EXCEPT ![o] = m],
         UNCHANGED spec, crd'.live, crd'.status.phase = "Done" => ChiefEnded',
         KnowsChief(m, crd'.status.phase), ClaimsEnd(m) => ChiefEnded'
  PROVE  DoneInv'
<1>1. mem'[o] = m /\ \A q \in Operators : q # o => mem'[q] = NoMemory
  BY DEF OthersDown, DownInv, IInv, TypeOK
<1>2. ASSUME NEW q \in Operators
      PROVE  KnowsChief(mem[q], crd.status.phase)' /\ (ClaimsEnd(mem[q])' => ChiefEnded')
  <2>1. KnowsChief(NoMemory, crd.status.phase)' /\ ~ClaimsEnd(NoMemory)
    BY DEF KnowsChief, ClaimsEnd, NoMemory, NoStatus
  <2>2. CASE q = o
    BY <1>1, <2>2 DEF KnowsChief, ClaimsEnd, AtSet, Sets, ReplicaSet
  <2>3. CASE q # o
    BY <1>1, <2>1, <2>3 DEF KnowsChief, ClaimsEnd
  <2> QED
    BY <2>2, <2>3
<1> QED
  BY <1>2 DEF DoneInv

(* A step that keeps what the leader knows of the chief. *)
LEMMA DoneQuiet ==
  ASSUME IInv, DoneInv, NEW o \in Operators, OthersDown(o), DownInv, NEW m, mem' = [mem EXCEPT ![o] = m],
         Quiet(mem[o], m), UNCHANGED <<spec, crd>>, ChiefEnded => ChiefEnded'
  PROVE  DoneInv'
<1>1. KnowsChief(m, crd'.status.phase) /\ (ClaimsEnd(m) => ChiefEnded')
  BY DEF DoneInv, KnowsChief, ClaimsEnd, Quiet
<1>2. crd'.live /\ (crd'.status.phase = "Done" => ChiefEnded')
  BY DEF DoneInv
<1> QED
  BY <1>1, <1>2, DoneStep

(* No pod goes: the chief's pod that has ended is still there. *)
LEMMA EndedKept ==
  ASSUME UNCHANGED <<spec, crd>>, pods \subseteq pods'
  PROVE  ChiefEnded => ChiefEnded'
BY DEF ChiefEnded, IsChief

(* The id the operator reconciles with is the stored one. *)
LEMMA ReconcilesStoredId ==
  ASSUME IdInv, DoneInv, NEW o \in Operators, SetUp(mem[o])
  PROVE  mem[o].job.rid = crd.rid
BY DEF IdInv, DoneInv, RemembersOK, SetUp

(* GetSingleReplicaStatus returns s: for the chief's replica only with a   *)
(* pod of the chief that has ended, if s says so.                          *)
LEMMA DoneAnswer ==
  ASSUME IInv, DoneInv, NEW o \in Operators, OthersDown(o), DownInv, NEW s \in ReplicaStates,
         mem' = [mem EXCEPT ![o] = Answer(mem[o], s)], UNCHANGED <<spec, crd, pods>>,
         mem[o].pc \in {"getReplica", "listReplica", "getChief", "listChief"},
         mem[o].pc \in {"getChief", "listChief"} /\ s \in {"Failed", "Succeeded"} => ChiefEnded
  PROVE  DoneInv'
<1> DEFINE m == Answer(mem[o], s)
<1>0. mem[o] \in Memories
  BY DEF IInv, TypeOK
<1>1. ChiefEnded => ChiefEnded'
  BY EndedKept
<1>2. CASE mem[o].pc \in {"getReplica", "listReplica"}
  <2>1. Quiet(mem[o], m)
    BY <1>0, <1>2 DEF Answer, Quiet, Memories
  <2> HIDE DEF m
  <2> QED
    BY <1>1, <2>1, DoneQuiet DEF m
<1>3. CASE mem[o].pc \in {"getChief", "listChief"}
  <2> DEFINE n == NextSet(mem[o])
  <2>1. n \in Memories /\ n.status = mem[o].status /\ n.job = mem[o].job
    BY <1>0, LoopMemory DEF PCs
  <2> HIDE DEF n
  <2>2. m.pc = "getReplica" /\ m.chief = s /\ m.status = mem[o].status /\ m.job = mem[o].job
    BY <1>3, <2>1 DEF Answer, Memories, n
  <2> HIDE DEF m
  <2>3. KnowsChief(m, crd'.status.phase) /\ (ClaimsEnd(m) => ChiefEnded')
    BY <1>1, <1>3, <2>2 DEF DoneInv, KnowsChief, ClaimsEnd
  <2>4. crd'.live /\ (crd'.status.phase = "Done" => ChiefEnded')
    BY <1>1 DEF DoneInv
  <2> QED
    BY <2>3, <2>4, DoneStep DEF m
<1> QED
  BY <1>2, <1>3

LEMMA DoneGetPod ==
  ASSUME IInv, IdInv, DoneInv, NEW o \in Operators, OthersDown(o), DownInv, GetPod(o)
  PROVE  DoneInv'
<1> DEFINE named == {p \in PodsAt(mem[o], Probed(mem[o])) : p.sfx = 0}
<1>0. /\ mem[o] \in Memories /\ mem[o].pc \in {"getReplica", "getChief"}
      /\ UNCHANGED <<spec, crd, pods>>
  BY DEF GetPod, ReadsReplica, IInv, TypeOK
<1>1. mem[o].job.rid = crd.rid
  BY <1>0, ReconcilesStoredId DEF SetUp, Started
<1>2. CASE mem' = [mem EXCEPT ![o] = Answer(mem[o], "Unknown")]
  BY <1>0, <1>2, DoneAnswer DEF ReplicaStates
<1>3. CASE mem' = [mem EXCEPT ![o] = Answer(mem[o], "Succeeded")] /\ \E p \in named : p.phase = "Succeeded"
  <2>1. PICK p \in PodsAt(mem[o], Probed(mem[o])) : Ended(p)
    BY <1>3 DEF Ended
  <2>2. mem[o].pc = "getChief" => ChiefEnded
    <3>1. KnowsChief(mem[o], crd.status.phase)
      BY DEF DoneInv
    <3> QED
      BY <1>1, <2>1, <3>1, ChiefIsProbed
  <2> QED
    BY <1>0, <1>3, <2>2, DoneAnswer DEF ReplicaStates
<1>4. CASE mem' = [mem EXCEPT ![o] = [mem[o] EXCEPT !.pc =
                     IF @ = "getChief" THEN "listChief" ELSE "listReplica"]]
  <2> DEFINE m == [mem[o] EXCEPT !.pc = IF @ = "getChief" THEN "listChief" ELSE "listReplica"]
  <2>1. /\ m.pc \in {"listChief", "listReplica"}
        /\ m.pc = "listChief" => mem[o].pc = "getChief"
        /\ m.status = mem[o].status /\ m.job = mem[o].job /\ m.chief = mem[o].chief
        /\ m.pos = mem[o].pos
    BY <1>0 DEF Memories
  <2> HIDE DEF m
  <2>2. KnowsChief(m, crd'.status.phase)
    BY <1>0, <2>1 DEF DoneInv, KnowsChief, AtSet, ReplicaSet
  <2>3. /\ ClaimsEnd(m) => ChiefEnded'
        /\ crd'.live /\ (crd'.status.phase = "Done" => ChiefEnded')
    BY <1>0, <2>1, EndedKept DEF DoneInv, ClaimsEnd
  <2> QED
    BY <1>0, <1>4, <2>2, <2>3, DoneStep DEF m
<1> QED
  BY <1>2, <1>3, <1>4 DEF GetPod, Become

LEMMA DoneListReplica ==
  ASSUME Without({"listReplica", "podRemove", "jobDelete"}), IInv, IdInv, DoneInv,
         NEW o \in Operators, OthersDown(o), DownInv, ListReplica(o)
  PROVE  DoneInv'
<1> DEFINE listed == PodsAt(mem[o], Probed(mem[o]))
           s == replicaStatusFromPodList(listed)
<1>0. /\ mem[o] \in Memories /\ mem[o].pc \in {"listReplica", "listChief"}
      /\ UNCHANGED <<spec, crd, pods>> /\ mem' = [mem EXCEPT ![o] = Answer(mem[o], s)]
  BY DEF ListReplica, Become, Fault, Without, IInv, TypeOK
<1>1. mem[o].job.rid = crd.rid
  BY <1>0, ReconcilesStoredId DEF SetUp, Started
<1>2. s \in ReplicaStates
  BY PodListState
<1>3. mem[o].pc = "listChief" /\ s \in {"Failed", "Succeeded"} => ChiefEnded
  <2> SUFFICES ASSUME mem[o].pc = "listChief", s \in {"Failed", "Succeeded"} PROVE ChiefEnded
    OBVIOUS
  <2>1. listed \subseteq pods /\ TypeOK
    BY DEF PodsAt, IInv
  <2>2. PICK p \in listed : Ended(p)
    BY <2>1, EndIsRead
  <2>3. KnowsChief(mem[o], crd.status.phase)
    BY DEF DoneInv
  <2> QED
    BY <1>1, <2>2, <2>3, ChiefIsProbed
<1> HIDE DEF s
<1> QED
  BY <1>0, <1>2, <1>3, DoneAnswer

(* After the replicas of a set of the chief's type, the chief's is read.   *)
LEMMA DoneSetRead ==
  ASSUME IInv, DoneInv, NEW o \in Operators, OthersDown(o), DownInv, SetRead(o)
  PROVE  DoneInv'
<1> DEFINE read == [mem[o] EXCEPT !.reps = Append(@, SetStatus(mem[o].seen)), !.seen = <<>>]
           type == ReplicaSet(mem[o]).type
<1>0. /\ mem[o] \in Memories /\ mem[o].pc = "getReplica" /\ AtSet(mem[o])
      /\ UNCHANGED <<spec, crd, pods>>
      /\ mem' = [mem EXCEPT ![o] = IF type = spec.chief[1].name
                                   THEN [read EXCEPT !.pc = "getChief"] ELSE NextSet(read)]
  BY DEF SetRead, Become, IInv, TypeOK
<1>1. /\ read \in Memories /\ read.pc = "getReplica" /\ read.job = mem[o].job
      /\ read.status = mem[o].status /\ read.chief = mem[o].chief /\ read.pos = mem[o].pos
  <2>1. mem[o].reps \in Seq(SetStatuses) /\ SetStatus(mem[o].seen) \in SetStatuses
    BY <1>0, SetStatusType DEF Memories
  <2>2. Append(mem[o].reps, SetStatus(mem[o].seen)) \in Seq(SetStatuses) /\ <<>> \in Seq(ReplicaStates)
    BY <2>1
  <2>3. ASSUME NEW rs \in Seq(SetStatuses)
        PROVE  LET r == [mem[o] EXCEPT !.reps = rs, !.seen = <<>>]
               IN  /\ r \in Memories /\ r.pc = mem[o].pc /\ r.job = mem[o].job
                   /\ r.status = mem[o].status /\ r.chief = mem[o].chief /\ r.pos = mem[o].pos
    BY <1>0, <2>2 DEF Memories
  <2> QED
    BY <1>0, <2>2, <2>3
<1> HIDE DEF read
<1>2. ChiefEnded => ChiefEnded'
  BY <1>0, EndedKept
<1>3. CASE type = spec.chief[1].name
  <2> DEFINE m == [read EXCEPT !.pc = "getChief"]
  <2>1. /\ m.pc = "getChief" /\ m.status = mem[o].status /\ m.job = mem[o].job
        /\ m.chief = mem[o].chief /\ m.pos = mem[o].pos
    BY <1>1 DEF Memories
  <2> HIDE DEF m
  <2>2. KnowsChief(m, crd'.status.phase)
    BY <1>0, <1>3, <2>1 DEF DoneInv, KnowsChief, AtSet, ReplicaSet
  <2>3. /\ ClaimsEnd(m) => ChiefEnded'
        /\ crd'.live /\ (crd'.status.phase = "Done" => ChiefEnded')
    BY <1>0, <1>2, <2>1 DEF DoneInv, ClaimsEnd
  <2> QED
    BY <1>0, <1>3, <2>2, <2>3, DoneStep DEF m
<1>4. CASE type # spec.chief[1].name
  <2>1. Quiet(mem[o], NextSet(read))
    BY <1>1, LoopMemory DEF Quiet, PCs
  <2> QED
    BY <1>0, <1>2, <1>4, <2>1, DoneQuiet
<1> QED
  BY <1>3, <1>4

(* The job becomes Done in memory only if the chief was read as ended.     *)
LEMMA DoneReportStatus ==
  ASSUME IInv, DoneInv, NEW o \in Operators, OthersDown(o), DownInv, ReportStatus(o)
  PROVE  DoneInv'
<1> DEFINE r == Reported([mem[o].status EXCEPT !.reps = mem[o].reps], mem[o].chief)
           g == Goto(mem[o], "updateStatus")
           m == [g EXCEPT !.status = Reported([@ EXCEPT !.reps = mem[o].reps], mem[o].chief),
                          !.reps = <<>>, !.chief = "Unknown"]
<1>0. /\ mem[o] \in Memories /\ UNCHANGED <<spec, crd, pods>> /\ mem' = [mem EXCEPT ![o] = m]
  BY DEF ReportStatus, Become, IInv, TypeOK
<1>1. /\ r.phase \in {mem[o].status.phase, "Running", "Done"}
      /\ r.phase = "Done" => mem[o].status.phase = "Done" \/ mem[o].chief \in {"Failed", "Succeeded"}
  <2>1. mem[o].status \in Statuses /\ mem[o].reps \in Seq(SetStatuses) /\ mem[o].chief \in ReplicaStates
    BY <1>0 DEF Memories
  <2>2. [mem[o].status EXCEPT !.reps = mem[o].reps].phase = mem[o].status.phase
    BY <2>1 DEF Statuses
  <2> QED
    BY <2>1, <2>2 DEF Reported, ReplicaStates, Statuses
<1> HIDE DEF r
<1>2. g \in Memories /\ g.pc = "updateStatus" /\ g.job = mem[o].job /\ g.status = mem[o].status
  BY <1>0, JumpMemory DEF PCs, UpdateSites
<1> HIDE DEF g
<1>3. m.pc = "updateStatus" /\ m.job = mem[o].job /\ m.status = r /\ m.chief = "Unknown"
  BY <1>2 DEF Memories, r
<1> HIDE DEF m
<1>4. KnowsChief(m, crd'.status.phase) /\ (ClaimsEnd(m) => ChiefEnded')
  BY <1>0, <1>1, <1>3, EndedKept DEF DoneInv, KnowsChief, ClaimsEnd
<1>5. crd'.live /\ (crd'.status.phase = "Done" => ChiefEnded')
  BY <1>0, EndedKept DEF DoneInv
<1> QED
  BY <1>0, <1>4, <1>5, DoneStep

(* Pods are deleted only while the stored job is in CleanUp. *)
LEMMA DoneDeleteResources ==
  ASSUME IInv, DoneInv, NEW o \in Operators, OthersDown(o), DownInv, DeleteResources(o)
  PROVE  DoneInv'
<1>0. mem[o] \in Memories /\ mem[o].pc = "deleteResources" /\ UNCHANGED <<spec, crd>>
  BY DEF DeleteResources, IInv, TypeOK
<1>1. /\ crd.live /\ crd.status.phase = "CleanUp" /\ mem[o].chief = "Unknown"
      /\ mem[o].status.phase = "CleanUp" /\ mem[o].job.status.phase = "CleanUp"
  BY <1>0 DEF DoneInv, KnowsChief
<1>2. PICK m : /\ mem' = [mem EXCEPT ![o] = m] /\ m.pc \in {"deleteResources", "idle"}
               /\ m.job = mem[o].job /\ m.status = mem[o].status /\ m.chief = mem[o].chief
  <2>1. /\ NextSet(mem[o]).pc = "deleteResources" /\ NextSet(mem[o]).job = mem[o].job
        /\ NextSet(mem[o]).status = mem[o].status /\ NextSet(mem[o]).chief = mem[o].chief
    BY <1>0, LoopMemory DEF PCs
  <2>2. /\ Goto(mem[o], "idle").pc = "idle" /\ Goto(mem[o], "idle").job = mem[o].job
        /\ Goto(mem[o], "idle").status = mem[o].status /\ Goto(mem[o], "idle").chief = mem[o].chief
    BY <1>0, JumpMemory DEF PCs
  <2>3. mem' = [mem EXCEPT ![o] = NextSet(mem[o])] \/ mem' = [mem EXCEPT ![o] = Goto(mem[o], "idle")]
    BY DEF DeleteResources, Become
  <2> QED
    BY <2>1, <2>2, <2>3
<1>3. KnowsChief(m, crd'.status.phase) /\ ~ClaimsEnd(m)
  BY <1>0, <1>1, <1>2 DEF KnowsChief, ClaimsEnd
<1> QED
  BY <1>0, <1>1, <1>2, <1>3, DoneStep

(* A process that starts, learns of the job, syncs it or ends.             *)
LEMMA DoneOutside ==
  ASSUME IInv, DoneInv, NEW o \in Operators, OthersDown(o), DownInv,
         Start(o) \/ Informed(o) \/ NewJob(o) \/ Sync(o) \/ ObserveDelete(o) \/ Setup(o)
           \/ Panic(o) \/ Crash(o)
  PROVE  DoneInv'
<1>0. /\ mem[o] \in Memories /\ UNCHANGED <<spec, crd, pods>>
      /\ KnowsChief(mem[o], crd.status.phase) /\ (ClaimsEnd(mem[o]) => ChiefEnded)
      /\ crd.live /\ (crd.status.phase = "Done" => ChiefEnded)
  BY DEF Start, Informed, NewJob, Sync, ObserveDelete, Setup, Panic, Crash, Exit, IInv, TypeOK,
     DoneInv
<1>1. ChiefEnded => ChiefEnded'
  BY <1>0, EndedKept
<1>2. ASSUME NEW m, mem' = [mem EXCEPT ![o] = m],
             m.pc \notin {"getChief", "listChief", "updateStatus", "deleteResources"},
             m.chief \in {"Unknown", mem[o].chief},
             m.status.phase \in {"None", "Creating", "Failed", mem[o].status.phase,
                                 mem[o].job.status.phase},
             m.job.status.phase \in {"None", crd.status.phase, mem[o].job.status.phase}
      PROVE  DoneInv'
  <2>1. KnowsChief(m, crd'.status.phase) /\ (ClaimsEnd(m) => ChiefEnded')
    BY <1>0, <1>1, <1>2 DEF KnowsChief, ClaimsEnd
  <2> QED
    BY <1>0, <1>1, <1>2, <2>1, DoneStep
<1>3. CASE Start(o)
  <2> DEFINE m == [NoMemory EXCEPT !.pc = "synced",
                                   !.job = [rid |-> crd.rid, status |-> crd.status]]
  <2>1. /\ m.pc = "synced" /\ m.chief = "Unknown" /\ m.status.phase = "None"
        /\ m.job.status.phase = crd.status.phase
    BY DEF NoMemory, NoStatus
  <2>2. mem' = [mem EXCEPT ![o] = m]
    BY <1>3 DEF Start, Become
  <2> HIDE DEF m
  <2> QED
    BY <1>2, <2>1, <2>2
<1>4. CASE Informed(o)
  <2> DEFINE m == [mem[o] EXCEPT !.job = [rid |-> crd.rid, status |-> crd.status]]
  <2>1. /\ m.pc = "synced" /\ m.chief = mem[o].chief /\ m.status = mem[o].status
        /\ m.job.status = crd.status
    BY <1>0, <1>4 DEF Informed, Memories
  <2>2. mem' = [mem EXCEPT ![o] = m]
    BY <1>4 DEF Informed, Become
  <2> HIDE DEF m
  <2> QED
    BY <1>2, <2>1, <2>2
<1>5. CASE NewJob(o)
  <2> DEFINE n == [mem[o] EXCEPT !.status = mem[o].job.status]
             m == Goto(n, Entry(mem[o]))
  <2>1. /\ n \in Memories /\ n.chief = mem[o].chief /\ n.status = mem[o].job.status
        /\ n.job = mem[o].job
    BY <1>0 DEF Memories
  <2>2. Entry(mem[o]) \in {"setup", "replicas"} /\ Entry(mem[o]) \in PCs
    BY DEF Entry, PCs
  <2>3. mem' = [mem EXCEPT ![o] = m]
    BY <1>5 DEF NewJob, Become
  <2> HIDE DEF n
  <2>4. m.pc = Entry(mem[o]) /\ m.chief = n.chief /\ m.status = n.status /\ m.job = n.job
    BY <2>1, <2>2, JumpMemory
  <2> HIDE DEF m
  <2> QED
    BY <1>2, <2>1, <2>2, <2>3, <2>4
<1>6. CASE Sync(o) \/ ObserveDelete(o)
  <2>1. PICK pc \in {"setup", "replicas", "gone"} : mem' = [mem EXCEPT ![o] = Goto(mem[o], pc)]
    BY <1>6 DEF Sync, ObserveDelete, Become, Entry
  <2> DEFINE m == Goto(mem[o], pc)
  <2>2. m.pc = pc /\ m.chief = mem[o].chief /\ m.status = mem[o].status /\ m.job = mem[o].job
    BY <1>0, JumpMemory DEF PCs
  <2> HIDE DEF m
  <2> QED
    BY <1>2, <2>1, <2>2 DEF m
<1>7. CASE Setup(o)
  <2>1. CASE mem' = [mem EXCEPT ![o] = Reject(mem[o])]
    <3> DEFINE m == Reject(mem[o])
    <3>1. /\ m.pc = "updateSetup" /\ m.chief = mem[o].chief /\ m.status.phase = "Failed"
          /\ m.job = mem[o].job
      BY <1>0 DEF Reject, Memories, Statuses
    <3> HIDE DEF m
    <3> QED
      BY <1>2, <2>1, <3>1 DEF m
  <2>2. ASSUME NEW r, mem' = [mem EXCEPT ![o] = Admit(mem[o], r)] PROVE DoneInv'
    <3> DEFINE m == Admit(mem[o], r)
    <3>1. /\ m.pc = "updateSetup" /\ m.chief = mem[o].chief /\ m.status.phase = "Creating"
          /\ m.job.status = mem[o].job.status
      BY <1>0 DEF Admit, Memories, Statuses
    <3> HIDE DEF m
    <3> QED
      BY <1>2, <2>2, <3>1 DEF m
  <2> QED
    BY <1>7, <2>1, <2>2 DEF Setup, Become
<1>8. CASE Panic(o) \/ Crash(o)
  <2>1. /\ NoMemory.pc = "down" /\ NoMemory.chief = "Unknown" /\ NoMemory.status.phase = "None"
        /\ NoMemory.job.status.phase = "None"
    BY DEF NoMemory, NoStatus
  <2>2. mem' = [mem EXCEPT ![o] = NoMemory]
    BY <1>8 DEF Panic, Crash, Exit, Become
  <2> QED
    BY <1>2, <2>1, <2>2
<1> QED
  BY <1>3, <1>4, <1>5, <1>6, <1>7, <1>8

(* updateCRDStatus stores another id only when there are no pods. *)
LEMMA EndedStaysWritten ==
  ASSUME IInv, IdInv, DoneInv, NEW o \in Operators, mem[o].pc \in UpdateSites,
         crd' \in {crd, Stored(mem[o])}, UNCHANGED <<spec, pods>>
  PROVE  /\ crd'.live /\ (ChiefEnded => ChiefEnded')
         /\ crd'.status \in {crd.status, mem[o].status}
         /\ crd' = crd \/ crd'.status = mem[o].status
<1>0. /\ crd.live /\ crd \in [live : BOOLEAN, rid : Ids, status : Statuses]
      /\ CarryId(crd, pods, services) /\ RemembersOK(crd, fresh, o, mem[o])
  BY DEF IInv, TypeOK, IdInv, DoneInv
<1>1. CASE crd' = crd
  BY <1>0, <1>1, EndedKept
<1>2. CASE crd' = Stored(mem[o])
  <2>1. crd'.live /\ crd'.rid = mem[o].job.rid /\ crd'.status = mem[o].status
    BY <1>0, <1>2 DEF Stored
  <2>2. CASE mem[o].pc = "updateSetup"
    <3>1. pods = {}
      BY <1>0, <2>2 DEF CarryId, RemembersOK
    <3> QED
      BY <2>1, <3>1 DEF ChiefEnded
  <2>3. CASE mem[o].pc # "updateSetup"
    <3>1. crd'.rid = crd.rid
      BY <1>0, <2>1, <2>3 DEF RemembersOK, Started, UpdateSites
    <3>2. ChiefEnded => ChiefEnded'
      BY <3>1 DEF ChiefEnded, IsChief
    <3> QED
      BY <2>1, <3>2
  <2> QED
    BY <2>2, <2>3
<1> QED
  BY <1>1, <1>2

(* Where updateCRDStatus returns to.  Only a status in CleanUp that both   *)
(* copies have leads to deleteResources.                                   *)
LEMMA DoneAfterUpdate ==
  ASSUME IInv, NEW o \in Operators, mem[o].pc \in UpdateSites, NEW n \in {mem[o], Aliased(mem[o])},
         n.job.status = n.status, KnowsChief(mem[o], crd.status.phase),
         NEW m \in {Updated(n), Goto(n, "idle")}
  PROVE  /\ m.status = mem[o].status /\ m.job.status = mem[o].status /\ m.chief = mem[o].chief
         /\ m.pc \notin {"getChief", "listChief", "updateStatus"}
         /\ m.pc = "deleteResources" => m.chief = "Unknown" /\ m.status.phase = "CleanUp"
<1>1. /\ n \in Memories /\ n.pc = mem[o].pc /\ n.chief = mem[o].chief
      /\ n.status = mem[o].status
  BY AtUpdate
<1>2. PICK pc \in {"replicas", "getReplica", "deleteResources", "updateFinal", "idle"} :
        /\ m = Goto(n, pc)
        /\ pc = "deleteResources" => n.pc = "updateStatus" /\ n.job.status.phase = "CleanUp"
  BY DEF Updated
<1>3. m.pc = pc /\ m.status = n.status /\ m.job = n.job /\ m.chief = n.chief
  BY <1>1, <1>2, JumpMemory DEF PCs, UpdateSites
<1> QED
  BY <1>1, <1>2, <1>3 DEF KnowsChief

(* updateCRDStatus. *)
LEMMA DoneUpdate ==
  ASSUME IInv, IdInv, DoneInv, NEW o \in Operators, OthersDown(o), DownInv,
         StatusUnchanged(o) \/ StatusWritten(o) \/ StatusRefused(o) \/ StatusAnswerLost(o)
  PROVE  DoneInv'
<1>0. /\ mem[o].pc \in UpdateSites /\ crd' \in {crd, Stored(mem[o])} /\ UNCHANGED <<spec, pods>>
      /\ KnowsChief(mem[o], crd.status.phase) /\ (ClaimsEnd(mem[o]) => ChiefEnded)
      /\ crd.status.phase = "Done" => ChiefEnded
  BY DEF StatusUnchanged, StatusWritten, StatusRefused, StatusAnswerLost, Unwritten, DoneInv
<1>1. PICK n \in {mem[o], Aliased(mem[o])} :
        /\ n.job.status = n.status
        /\ \E m \in {Updated(n), Goto(n, "idle")} : mem' = [mem EXCEPT ![o] = m]
  <2>1. Aliased(mem[o]).job.status = Aliased(mem[o]).status
    BY <1>0, AtUpdate
  <2>2. CASE StatusUnchanged(o)
    BY <2>2 DEF StatusUnchanged, Become
  <2>3. CASE StatusWritten(o)
    BY <2>1, <2>3 DEF StatusWritten, Become
  <2>4. CASE StatusRefused(o) \/ StatusAnswerLost(o)
    BY <2>1, <2>4 DEF StatusRefused, StatusAnswerLost, Become
  <2> QED
    BY <2>2, <2>3, <2>4
<1> PICK m \in {Updated(n), Goto(n, "idle")} : mem' = [mem EXCEPT ![o] = m]
  BY <1>1
<1>2. /\ m.status = mem[o].status /\ m.job.status = mem[o].status /\ m.chief = mem[o].chief
      /\ m.pc \notin {"getChief", "listChief", "updateStatus"}
      /\ m.pc = "deleteResources" => m.chief = "Unknown" /\ m.status.phase = "CleanUp"
  BY <1>0, <1>1, DoneAfterUpdate
<1>3. /\ crd'.live /\ (ChiefEnded => ChiefEnded')
      /\ crd' = crd \/ crd'.status = mem[o].status
  BY <1>0, EndedStaysWritten
<1>4. KnowsChief(m, crd'.status.phase) /\ (ClaimsEnd(m) => ChiefEnded')
  BY <1>0, <1>2, <1>3 DEF KnowsChief, ClaimsEnd
<1>5. crd'.status.phase = "Done" => ChiefEnded'
  BY <1>0, <1>3 DEF ClaimsEnd
<1> QED
  BY <1>0, <1>1, <1>3, <1>4, <1>5, DoneStep

(* Every step of the operator keeps DoneInv. *)
LEMMA DoneOperate ==
  ASSUME Without({"listReplica", "podRemove", "jobDelete"}), IInv, IdInv, DoneInv,
         NEW o \in Operators, OthersDown(o), DownInv, Operate(o)
  PROVE  DoneInv'
<1>1. CASE SkipEmptySet(o) \/ ListPods(o) \/ PodCreated(o) \/ PodNameTaken(o) \/ CreatePodFailed(o)
           \/ PodsSynced(o) \/ GetService(o) \/ CreateService(o) \/ CreateServiceFailed(o)
           \/ ServicesSynced(o) \/ SetupReplicas(o)
  <2>1. UNCHANGED <<spec, crd>> /\ pods \subseteq pods'
    BY <1>1, SyncIsQuiet
  <2>2. PICK m : mem' = [mem EXCEPT ![o] = m] /\ Quiet(mem[o], m)
    BY <1>1, SyncIsQuiet
  <2> QED
    BY <2>1, <2>2, EndedKept, DoneQuiet
<1> QED
  BY <1>1, DoneGetPod, DoneListReplica, DoneSetRead, DoneReportStatus, DoneDeleteResources,
     DoneOutside, DoneUpdate DEF Operate, Reconcile

(* A pod that has ended stays so, with its type, index and id. *)
LEMMA KubeletKeepsEnd ==
  ASSUME Without({"podRemove"}), IInv, NEW p \in pods, Kubelet(p)
  PROVE  ChiefEnded => ChiefEnded'
<1>1. UNCHANGED <<spec, crd>>
  BY KubeletEffect
<1>2. ASSUME NEW ph, NEW e, PodBecomes(p, ph, e), Ended(p) => ph \in {"Succeeded", "Failed"} \/ e # "none"
      PROVE  ChiefEnded => ChiefEnded'
  <2> DEFINE n == [p EXCEPT !.phase = ph, !.exit = e]
  <2>1. pods' = (pods \ {p}) \union {n}
    BY <1>2 DEF PodBecomes
  <2>2. n.type = p.type /\ n.idx = p.idx /\ n.rid = p.rid /\ n.phase = ph /\ n.exit = e
    BY DEF IInv, TypeOK, Pods
  <2> HIDE DEF n
  <2>3. Ended(p) => Ended(n)
    BY <1>2, <2>2 DEF Ended
  <2> SUFFICES ASSUME NEW q \in pods, IsChief(q), Ended(q) PROVE ChiefEnded'
    BY DEF ChiefEnded
  <2>4. CASE q = p
    BY <1>1, <2>1, <2>2, <2>3, <2>4 DEF ChiefEnded, IsChief
  <2>5. CASE q # p
    BY <1>1, <2>1, <2>5 DEF ChiefEnded, IsChief
  <2> QED
    BY <2>4, <2>5
<1>3. CASE PodStarts(p)
  BY <1>2, <1>3 DEF PodStarts, Ended
<1>4. CASE PodSucceeds(p)
  BY <1>2, <1>4 DEF PodSucceeds
<1>5. CASE ContainerRestarts(p)
  BY <1>2, <1>5 DEF ContainerRestarts
<1>6. CASE PodFails(p)
  BY <1>2, <1>6 DEF PodFails
<1>7. CASE PodRemoved(p)
  BY <1>7 DEF PodRemoved, Fault, Without
<1> QED
  BY <1>3, <1>4, <1>5, <1>6, <1>7 DEF Kubelet

(* The rest of the cluster, as long as it removes no pod and no job. *)
LEMMA DoneCluster ==
  ASSUME Without({"listReplica", "podRemove", "jobDelete"}), IInv, DoneInv,
         (\E p \in pods : Kubelet(p)) \/ User \/ CollectGarbage \/ UNCHANGED vars
  PROVE  DoneInv'
<1>0. crd.live /\ crd \in [live : BOOLEAN, rid : Ids, status : Statuses]
  BY DEF DoneInv, IInv, TypeOK
<1>1. ASSUME UNCHANGED <<spec, mem>>, ChiefEnded => ChiefEnded', crd'.live,
             crd'.status.phase \in {crd.status.phase, "CleanUp"}
      PROVE  DoneInv'
  <2>1. ASSUME NEW o \in Operators
        PROVE  KnowsChief(mem[o], crd.status.phase)' /\ (ClaimsEnd(mem[o])' => ChiefEnded')
    <3>1. KnowsChief(mem[o], crd.status.phase) /\ (ClaimsEnd(mem[o]) => ChiefEnded)
      BY DEF DoneInv
    <3> QED
      BY <1>1, <3>1 DEF KnowsChief, ClaimsEnd, AtSet, Sets, ReplicaSet
  <2>2. crd'.status.phase = "Done" => ChiefEnded'
    BY <1>1 DEF DoneInv
  <2> QED
    BY <1>1, <2>1, <2>2 DEF DoneInv
<1>2. CASE \E p \in pods : Kubelet(p)
  <2>1. PICK p \in pods : Kubelet(p)
    BY <1>2
  <2>2. UNCHANGED <<spec, crd, mem>>
    BY <2>1, KubeletEffect
  <2>3. ChiefEnded => ChiefEnded'
    BY <2>1, KubeletKeepsEnd DEF Without
  <2> QED
    BY <1>0, <1>1, <2>2, <2>3
<1>3. CASE User
  <2>1. /\ UNCHANGED <<spec, pods, mem>> /\ crd'.live /\ crd'.rid = crd.rid
        /\ crd'.status.phase \in {crd.status.phase, "CleanUp"}
    BY <1>0, <1>3 DEF User, UserEdits, UserCleansUp, UserDeletes, Without, Statuses
  <2>2. ChiefEnded => ChiefEnded'
    BY <2>1 DEF ChiefEnded, IsChief
  <2> QED
    BY <1>1, <2>1, <2>2
<1>4. CASE CollectGarbage
  BY <1>0, <1>4 DEF CollectGarbage
<1>5. CASE UNCHANGED vars
  BY <1>0, <1>1, <1>5, EndedKept DEF vars
<1> QED
  BY <1>2, <1>3, <1>4, <1>5

(* Initially no job is Done, and nobody knows of a chief. *)
LEMMA DoneInit == Init => DoneInv
<1> SUFFICES ASSUME Init PROVE DoneInv
  OBVIOUS
<1>1. \A o \in Operators : KnowsChief(mem[o], crd.status.phase) /\ ~ClaimsEnd(mem[o])
  BY DEF Init, KnowsChief, ClaimsEnd, NoMemory, NoStatus
<1>2. crd.live /\ crd.status.phase # "Done"
  <2>1. CASE InitNew
    BY <2>1 DEF InitNew, NoStatus
  <2>2. CASE InitUpgraded
    <3>1. PICK r \in RuntimeIds, ph \in {"Creating", "Running"} :
            crd = [live |-> TRUE, rid |-> r,
                   status |-> [NoStatus EXCEPT !.phase = ph, !.state = "Running"]]
      BY <2>2 DEF InitUpgraded
    <3>2. crd.live /\ crd.status.phase = ph
      BY <3>1 DEF NoStatus
    <3> QED
      BY <3>2
  <2> QED
    BY <2>1, <2>2 DEF Init
<1> QED
  BY <1>1, <1>2 DEF DoneInv

(* Every step keeps DoneInv. *)
LEMMA DoneInductive ==
  ASSUME OneLeads, OneLeads', DownInv, Without({"listReplica", "podRemove", "jobDelete"}), IInv, IdInv, DoneInv, [Next]_vars
  PROVE  DoneInv'
BY DoneOperate, DoneCluster, StepOfTheLeader DEF Next

(* Done is never reported of a chief none of whose containers has ended:   *)
(* not after a crash, a new leader, an answer that was lost, a pod that    *)
(* failed and was replaced, or a clean-up that ran in between              *)
(* (GetSingleReplicaStatus, Reconcile).                                    *)
THEOREM DoneIsTrue ==
  ASSUME Without({"update", "edit", "earlyCleanUp"}), Without({"listReplica", "podRemove", "jobDelete"})
  PROVE  Spec /\ []OneLeads => []DoneMeansTerminated
<1>1. IInv /\ IdInv /\ OneLeads /\ OneLeads' /\ [Next]_vars => IdInv'
  BY IdInductive
<1>2. IInv /\ IdInv /\ DownInv /\ DoneInv /\ OneLeads /\ OneLeads' /\ [Next]_vars => DoneInv'
  BY DoneInductive
<1>3. DoneInv => DoneMeansTerminated
  BY DEF DoneInv, ChiefEnded, Ended, DoneMeansTerminated
<1> QED
  BY <1>1, <1>2, <1>3, IdInit, DoneInit, Invariant, DownForgets, PTL DEF Spec
=============================================================================
