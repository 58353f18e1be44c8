----------------------------- MODULE TrainingJob -----------------------------
(***************************************************************************)
(* One MXJob and the operator processes that reconcile it: the TrainingJob *)
(* and MXReplicaSet of pkg/trainer, driven by syncMXJob of pkg/controller, *)
(* against the API server's copy of the job, its pods and its services.    *)
(*                                                                         *)
(* Every request to the API server is a step of its own, so anything can   *)
(* happen between two of them: pods start and fail, users edit or delete   *)
(* the job, the process crashes, another process that also believes it     *)
(* leads reconciles the same job.  A request may fail, and a write may     *)
(* fail after it took effect.                                              *)
(*                                                                         *)
(* Not covered here: how keys reach syncMXJob (workqueue, informer), how   *)
(* a leader is elected, jobs deleted and created again under one name, and *)
(* what is in a pod beside its labels.                                     *)
(***************************************************************************)
EXTENDS JobSpec, ReplicaStatus

CONSTANTS
  Operators,    \* processes that believe they lead
  UserSpecs,    \* the specs a user may submit, not defaulted
  RuntimeIds,   \* values of RandString(4)
  NoId,         \* a RuntimeId that is not set
  PodSuffixes,  \* values of RandString(5), as positive numbers in name order
  Origins,      \* where the job may come from
  Faults,       \* the kinds of disturbance that may occur
  MaxFaults     \* how many of them may occur

(* "list" is the List of SyncPods, "listReplica" that of                   *)
(* GetSingleReplicaStatus; "earlyCleanUp" is a CleanUp asked for before    *)
(* the job was set up.                                                     *)
FaultKinds == {"update", "lostUpdate", "list", "listReplica", "get", "create", "lostCreate",
               "delete", "crash", "stale", "restart", "podFail", "podRemove", "edit", "cleanUp",
               "earlyCleanUp", "jobDelete"}

ASSUME OperatorsAssumption == IsFiniteSet(Operators) /\ Operators # {}
ASSUME RuntimeIdsAssumption == NoId \notin RuntimeIds
ASSUME PodSuffixesAssumption == PodSuffixes \subseteq Nat \ {0} /\ IsFiniteSet(PodSuffixes)
ASSUME OriginsAssumption == Origins \subseteq {"submitted", "upgraded"}
ASSUME FaultsAssumption == Faults \subseteq FaultKinds /\ MaxFaults \in Nat
ASSUME UserSpecsAssumption == UserSpecs \subseteq WrittenSpecs

VARIABLES
  spec,      \* the job's spec, once defaulted; nobody changes it
  crd,       \* the stored MXJob: does it exist, its RuntimeId, its status
  fresh,     \* the operators whose copy has the stored resourceVersion
  pods,      \* the pods that exist
  services,  \* the services that exist
  mem,       \* the memory of each operator
  faults     \* disturbances so far, and how many of them were a failed "list"

vars == <<spec, crd, fresh, pods, services, mem, faults>>

-----------------------------------------------------------------------------
(***************************************************************************)
(* Data.                                                                   *)
(***************************************************************************)
Phases == {"None", "Creating", "Running", "CleanUp", "Failed", "Done"}

States == {"", "Unknown", "Running", "Succeeded", "Failed"}

(* The Reasons setup and setupReplicas write; "unset" is that of a job     *)
(* that setupReplicas could not build because it was never set up.         *)
Reasons == {"", "invalid", "replicas", "unset"}

Statuses == [phase : Phases, state : States, reason : Reasons, reps : Seq(SetStatuses)]

NoStatus == [phase |-> "None", state |-> "", reason |-> "", reps |-> <<>>]

Ids == RuntimeIds \union {NoId}

(* A pod's name is genName(idx), followed by its suffix unless that is 0.  *)
Pods == [type : ReplicaTypes, idx : Nat, rid : Ids, sfx : {0} \union PodSuffixes,
         phase : PodPhases, exit : Exits]

Services == [type : ReplicaTypes, idx : Nat, rid : Ids]

(* Where in Reconcile an operator is.  "idle": between two syncs.          *)
(* "synced": the informer has the job, no sync has seen it yet.  "gone":   *)
(* syncMXJob found that the job does not exist.                            *)
UpdateSites == {"updateSetup", "updateReason", "updateServices", "updateStatus", "updateFinal"}

PCs == {"down", "synced", "idle", "gone", "setup", "replicas", "listPods", "createPod",
        "getService", "createService", "getReplica", "listReplica", "getChief", "listChief",
        "deleteResources"} \union UpdateSites

(* job is j.job, status is j.status, built says that j.Replicas is there;  *)
(* pos, seen, reps and chief are the local variables of the loops.         *)
Positions == [set : Nat \ {0}, idx : Nat]

Memories == [pc : PCs, job : [rid : Ids, status : Statuses], status : Statuses,
             built : BOOLEAN, pos : Positions,
             seen : Seq(ReplicaStates), reps : Seq(SetStatuses), chief : ReplicaStates]

Start0 == [set |-> 1, idx |-> 0]

NoMemory == [pc |-> "down", job |-> [rid |-> NoId, status |-> NoStatus], status |-> NoStatus,
             built |-> FALSE, pos |-> Start0, seen |-> <<>>, reps |-> <<>>, chief |-> "Unknown"]

-----------------------------------------------------------------------------
(***************************************************************************)
(* Helpers.                                                                *)
(***************************************************************************)
Become(o, m) == mem' = [mem EXCEPT ![o] = m]

(* A disturbance of kind k happens in this step. *)
Fault(k) ==
  /\ k \in Faults /\ faults.all < MaxFaults
  /\ faults' = [all |-> faults.all + 1, lists |-> faults.lists + (IF k = "list" THEN 1 ELSE 0)]

NoFault == UNCHANGED faults

FaultCounts == [all : 0..MaxFaults, lists : Nat]

Sets == DOMAIN spec.replicaSpecs

ReplicaSet(m) == spec.replicaSpecs[m.pos.set]

(* The loops "for each set, for each index" have a task to do. *)
AtTask(m) == m.pos.set \in Sets /\ m.pos.idx < ReplicaSet(m).replicas

AtSet(m) == m.pos.set \in Sets

NextSet(m) == [m EXCEPT !.pos = [set |-> @.set + 1, idx |-> 0]]

NextTask(m) == IF m.pos.idx + 1 < ReplicaSet(m).replicas
               THEN [m EXCEPT !.pos.idx = @ + 1] ELSE NextSet(m)

Goto(m, pc) == [m EXCEPT !.pc = pc, !.pos = Start0]

(* Variant of Entry: Reconcile calls setup whatever the phase. *)
EntryAlwaysSetup(m) == "setup"

(* Reconcile starts with setup if the job has no phase. *)
Entry(m) == IF m.job.status.phase = "None" THEN "setup" ELSE "replicas"

(* A user put the job in CleanUp before it was set up.  Its defaults were  *)
(* not set then, nor are they ever: Reconcile calls setup only for a job   *)
(* without a phase.                                                        *)
NotSetUp(m) ==
  /\ m.job.rid = NoId
  /\ m.job.status.phase = "CleanUp" /\ m.job.status.reason \in {"", "unset"}

(* Of a job that was never set up, setupReplicas and SyncPods dereference  *)
(* Replicas, and GetStatus the termination policy.                         *)
UnsetPanics(m) ==
  /\ NotSetUp(m)
  /\ \/ m.pc = "replicas" /\ ~m.built /\ BuildDereferencesNil(spec)
     \/ m.pc = "listPods" /\ AtSet(m) /\ NilReplicas(spec, m.pos.set)
     \/ m.pc = "getReplica" /\ spec.written.policy = <<>>

(* Variant of PodsAt: Labels() without job_type. *)
PodsAtAnyType(m, i) == {p \in pods : p.rid = m.job.rid /\ p.idx = i}

(* The pods Labels() and task_index select, for index i of the current set. *)
PodsAt(m, i) == {p \in pods : /\ p.type = ReplicaSet(m).type
                              /\ p.rid = m.job.rid
                              /\ p.idx = i}

ServiceAt(m) == [type |-> ReplicaSet(m).type, idx |-> m.pos.idx, rid |-> m.job.rid]

NewPod(m, x) == [type |-> ReplicaSet(m).type, idx |-> m.pos.idx, rid |-> m.job.rid,
                 sfx |-> x, phase |-> "Pending", exit |-> "none"]

(* The name of the pod NewPod(m, x) is taken. *)
NameTaken(m, x) == \E p \in PodsAt(m, m.pos.idx) : p.sfx = x

-----------------------------------------------------------------------------
(***************************************************************************)
(* Initially no operator has seen the job.  It was just submitted, or it   *)
(* was set up by an earlier release, whose pods had genName for a name     *)
(* (SyncPods still expects that a pod may exist already, and GetStatus     *)
(* that it has this name); its pods run.                                   *)
(***************************************************************************)
TaskSet(s) == UNION { {[type |-> s.replicaSpecs[i].type, idx |-> k] :
                         k \in 0..(s.replicaSpecs[i].replicas - 1)} : i \in DOMAIN s.replicaSpecs }

InitNew == /\ crd = [live |-> TRUE, rid |-> NoId, status |-> NoStatus]
           /\ pods = {}
           /\ services = {}

InitUpgraded ==
  /\ Accepted(spec) /\ Buildable(spec)
  /\ \E r \in RuntimeIds, ph \in {"Creating", "Running"} :
       /\ crd = [live |-> TRUE, rid |-> r,
                 status |-> [NoStatus EXCEPT !.phase = ph, !.state = "Running"]]
       /\ pods = {[type |-> t.type, idx |-> t.idx, rid |-> r, sfx |-> 0,
                   phase |-> "Running", exit |-> "none"] : t \in TaskSet(spec)}
       /\ services = {[type |-> t.type, idx |-> t.idx, rid |-> r] : t \in TaskSet(spec)}

Init == /\ spec \in {SetDefaultsMXJob(s) : s \in UserSpecs}
        /\ \/ "submitted" \in Origins /\ InitNew
           \/ "upgraded" \in Origins /\ InitUpgraded
        /\ fresh = {}
        /\ mem = [o \in Operators |-> NoMemory]
        /\ faults = [all |-> 0, lists |-> 0]

-----------------------------------------------------------------------------
(***************************************************************************)
(* An operator starts, learns of the job and syncs it (syncMXJob).         *)
(***************************************************************************)
(* The process starts leading: its informer lists the job. *)
Start(o) ==
  /\ mem[o].pc = "down"
  /\ crd.live
  /\ Become(o, [NoMemory EXCEPT !.pc = "synced", !.job = [rid |-> crd.rid, status |-> crd.status]])
  /\ fresh' = fresh \union {o}
  /\ UNCHANGED <<spec, crd, pods, services, faults>>

(* The informer may not have heard yet that the job is deleted. *)
ListerHasJob == \/ crd.live /\ NoFault
                \/ ~crd.live /\ Fault("stale")

(* An update event replaces the informer's copy before the first sync. *)
Informed(o) ==
  /\ mem[o].pc = "synced"
  /\ crd.live
  /\ o \notin fresh
  /\ Become(o, [mem[o] EXCEPT !.job = [rid |-> crd.rid, status |-> crd.status]])
  /\ fresh' = fresh \union {o}
  /\ UNCHANGED <<spec, crd, pods, services, faults>>

(* NewJob keeps the informer's object as j.job for good: no later event    *)
(* reaches it.  Reconcile follows.                                         *)
NewJob(o) ==
  /\ mem[o].pc = "synced"
  /\ ListerHasJob
  /\ Become(o, Goto([mem[o] EXCEPT !.status = mem[o].job.status], Entry(mem[o])))
  /\ UNCHANGED <<spec, crd, fresh, pods, services>>

(* The next sync of a job that has a TrainingJob: an event, a resync or a  *)
(* retry.                                                                  *)
Sync(o) ==
  /\ mem[o].pc = "idle"
  /\ ListerHasJob
  /\ Become(o, Goto(mem[o], Entry(mem[o])))
  /\ UNCHANGED <<spec, crd, fresh, pods, services>>

(* The lister does not find the job: there is nothing left to do for it. *)
ObserveDelete(o) ==
  /\ mem[o].pc \in {"synced", "idle"}
  /\ ~crd.live
  /\ Become(o, Goto(mem[o], "gone"))
  /\ UNCHANGED <<spec, crd, fresh, pods, services, faults>>

-----------------------------------------------------------------------------
(***************************************************************************)
(* setup and setupReplicas.                                                *)
(***************************************************************************)
(* setup: a phase means that the job was set up before; otherwise the job  *)
(* is rejected, or gets a RuntimeId unless it has one.  The new status and *)
(* the RuntimeId are in memory only until updateCRDStatus.                 *)
Rejects(m) == m.status.phase = "None" /\ ~Accepted(spec)

Admit(m, r) == [m EXCEPT !.pc = "updateSetup", !.job.rid = r,
                         !.status.phase = "Creating", !.status.state = "Running"]

Reject(m) == [m EXCEPT !.pc = "updateSetup", !.status.phase = "Failed",
                       !.status.state = "Failed", !.status.reason = "invalid"]

Setup(o) ==
  LET m == mem[o]
  IN /\ m.pc = "setup"
     /\ \/ Rejects(m) /\ Become(o, Reject(m))
        \/ /\ ~Rejects(m)
           /\ \E r \in IF m.status.phase = "None" /\ m.job.rid = NoId THEN RuntimeIds ELSE {m.job.rid} :
                Become(o, Admit(m, r))
     /\ UNCHANGED <<spec, crd, fresh, pods, services, faults>>

(* setupReplicas: builds j.Replicas, unless it did so in an earlier sync. *)
Builds(m) == m.built \/ (IF NotSetUp(m) THEN BuildableAsWritten(spec) ELSE Buildable(spec))

Unbuilt(m) == [m EXCEPT !.pc = "updateReason",
                        !.status.reason = IF NotSetUp(m) THEN "unset" ELSE "replicas"]

SetupReplicas(o) ==
  LET m == mem[o]
  IN /\ m.pc = "replicas" /\ ~UnsetPanics(m)
     /\ Become(o, IF Builds(m)
                  THEN [Goto(m, "listPods") EXCEPT !.built = TRUE]
                  ELSE Unbuilt(m))
     /\ UNCHANGED <<spec, crd, fresh, pods, services, faults>>

-----------------------------------------------------------------------------
(***************************************************************************)
(* updateCRDStatus, at each place Reconcile calls it.  newJob := j.job     *)
(* copies a pointer: j.job has the new status before the request is sent,  *)
(* and keeps it when the request fails.                                    *)
(***************************************************************************)
(* Variant of Aliased: newJob is a copy. *)
AliasedNot(m) == m

Aliased(m) == [m EXCEPT !.job.status = m.status]

Unwritten(m) == m.pc \in UpdateSites /\ m.job.status # m.status

(* Where Reconcile goes on after updateCRDStatus returned nil. *)
Updated(m) ==
  CASE m.pc = "updateSetup"    -> Goto(m, "replicas")
    [] m.pc = "updateServices" -> Goto(m, "getReplica")
    [] m.pc = "updateStatus"   ->
         Goto(m, IF m.job.status.phase = "CleanUp" THEN "deleteResources" ELSE "updateFinal")
    [] OTHER                   -> Goto(m, "idle")

StatusUnchanged(o) ==
  /\ mem[o].pc \in UpdateSites
  /\ mem[o].job.status = mem[o].status
  /\ Become(o, Updated(mem[o]))
  /\ UNCHANGED <<spec, crd, fresh, pods, services, faults>>

(* Variant of Accepts: an object built without its resourceVersion. *)
AcceptsAnyVersion(o) == crd.live

(* The API server accepts an object with the stored resourceVersion. *)
Accepts(o) == crd.live /\ o \in fresh

(* Variant of Stored: only the status of the object is updated. *)
StoredStatusOnly(m) == [crd EXCEPT !.status = m.status]

(* The whole object is updated, its spec with the RuntimeId included. *)
Stored(m) == [crd EXCEPT !.rid = m.job.rid, !.status = m.status]

StatusWritten(o) ==
  /\ Unwritten(mem[o]) /\ Accepts(o)
  /\ crd' = Stored(mem[o])
  /\ fresh' = {o}
  /\ Become(o, Updated(Aliased(mem[o])))
  /\ UNCHANGED <<spec, pods, services, faults>>

(* A conflict, a job that is gone, or a request that never arrived. *)
StatusRefused(o) ==
  /\ Unwritten(mem[o])
  /\ \/ ~Accepts(o) /\ NoFault
     \/ Fault("update")
  /\ Become(o, Goto(Aliased(mem[o]), "idle"))
  /\ UNCHANGED <<spec, crd, fresh, pods, services>>

(* The object is stored but the answer is lost: j.job is never refreshed,  *)
(* so from now on it carries an old resourceVersion.                       *)
StatusAnswerLost(o) ==
  /\ Unwritten(mem[o]) /\ Accepts(o)
  /\ Fault("lostUpdate")
  /\ crd' = Stored(mem[o])
  /\ fresh' = {}
  /\ Become(o, Goto(Aliased(mem[o]), "idle"))
  /\ UNCHANGED <<spec, pods, services>>

-----------------------------------------------------------------------------
(***************************************************************************)
(* SyncPods and SyncServices of every replica set.                         *)
(***************************************************************************)
(* A replica set of no replicas. *)
SkipEmptySet(o) ==
  LET m == mem[o]
  IN /\ m.pc \in {"listPods", "getService"} /\ ~UnsetPanics(m)
     /\ AtSet(m) /\ ReplicaSet(m).replicas = 0
     /\ Become(o, NextSet(m))
     /\ UNCHANGED <<spec, crd, fresh, pods, services, faults>>

(* Variants of Active: other field selectors. *)
ActiveIfRunning(p) == p.phase = "Running"

ActiveAlways(p) == TRUE

(* The field selector status.phase!=Failed. *)
Active(p) == p.phase # "Failed"

(* The pods that are not Failed are listed; a failed List answers with an  *)
(* empty list, and the error is looked at only when the list is not empty. *)
ListPods(o) ==
  LET m == mem[o]
      active == {p \in PodsAt(m, m.pos.idx) : Active(p)}
  IN /\ m.pc = "listPods" /\ AtTask(m) /\ ~UnsetPanics(m)
     /\ \/ active # {} /\ NoFault /\ Become(o, NextTask(m))
        \/ active = {} /\ NoFault /\ Become(o, [m EXCEPT !.pc = "createPod"])
        \/ Fault("list") /\ Become(o, [m EXCEPT !.pc = "createPod"])
     /\ UNCHANGED <<spec, crd, fresh, pods, services>>

CreatingPod(m) == m.pc = "createPod" /\ ~DereferencesNilTemplate(ReplicaSet(m))

PodCreated(o) ==
  LET m == mem[o]
  IN /\ CreatingPod(m)
     /\ \E x \in PodSuffixes : ~NameTaken(m, x) /\ pods' = pods \union {NewPod(m, x)}
     /\ Become(o, [NextTask(m) EXCEPT !.pc = "listPods"])
     /\ UNCHANGED <<spec, crd, fresh, services, faults>>

(* AlreadyExists: RandString drew the suffix of a pod that exists. *)
PodNameTaken(o) ==
  LET m == mem[o]
  IN /\ CreatingPod(m)
     /\ \E x \in PodSuffixes : NameTaken(m, x)
     /\ Become(o, [NextTask(m) EXCEPT !.pc = "listPods"])
     /\ UNCHANGED <<spec, crd, fresh, pods, services, faults>>

(* Any other error ends SyncPods of this set, whether or not the pod is    *)
(* there; Reconcile logs it and goes on with the next set.                 *)
CreatePodFailed(o) ==
  LET m == mem[o]
  IN /\ CreatingPod(m)
     /\ \/ Fault("create") /\ UNCHANGED pods
        \/ /\ Fault("lostCreate")
           /\ \E x \in PodSuffixes : ~NameTaken(m, x) /\ pods' = pods \union {NewPod(m, x)}
     /\ Become(o, [NextSet(m) EXCEPT !.pc = "listPods"])
     /\ UNCHANGED <<spec, crd, fresh, services>>

PodsSynced(o) ==
  /\ mem[o].pc = "listPods" /\ ~AtSet(mem[o])
  /\ Become(o, Goto(mem[o], "getService"))
  /\ UNCHANGED <<spec, crd, fresh, pods, services, faults>>

(* Any error but NotFound skips the service. *)
GetService(o) ==
  LET m == mem[o]
  IN /\ m.pc = "getService" /\ AtTask(m)
     /\ \/ ServiceAt(m) \in services /\ NoFault /\ Become(o, NextTask(m))
        \/ ServiceAt(m) \notin services /\ NoFault /\ Become(o, [m EXCEPT !.pc = "createService"])
        \/ Fault("get") /\ Become(o, NextTask(m))
     /\ UNCHANGED <<spec, crd, fresh, pods, services>>

(* The service is created, or AlreadyExists. *)
CreateService(o) ==
  LET m == mem[o]
  IN /\ m.pc = "createService"
     /\ services' = services \union {ServiceAt(m)}
     /\ Become(o, [NextTask(m) EXCEPT !.pc = "getService"])
     /\ UNCHANGED <<spec, crd, fresh, pods, faults>>

CreateServiceFailed(o) ==
  LET m == mem[o]
  IN /\ m.pc = "createService"
     /\ \/ Fault("create") /\ UNCHANGED services
        \/ Fault("lostCreate") /\ services' = services \union {ServiceAt(m)}
     /\ Become(o, [NextSet(m) EXCEPT !.pc = "getService"])
     /\ UNCHANGED <<spec, crd, fresh, pods>>

ServicesSynced(o) ==
  /\ mem[o].pc = "getService" /\ ~AtSet(mem[o])
  /\ Become(o, Goto(mem[o], "updateServices"))
  /\ UNCHANGED <<spec, crd, fresh, pods, services, faults>>

-----------------------------------------------------------------------------
(***************************************************************************)
(* GetStatus: the replicas of each set, one by one, and after the set of   *)
(* the chief's type the chief's replica.  GetSingleReplicaStatus is two    *)
(* requests: the pod named genName, then the list of the labelled pods.    *)
(***************************************************************************)
(* Variant of Probed: the chief is taken for the first replica of its set. *)
ProbedFirst(m) == IF m.pc \in {"getReplica", "listReplica"} THEN Len(m.seen) ELSE 0

(* The replica whose status is being read. *)
Probed(m) == IF m.pc \in {"getReplica", "listReplica"} THEN Len(m.seen) ELSE spec.chief[1].index

(* GetSingleReplicaStatus returns s. *)
Answer(m, s) ==
  IF m.pc \in {"getReplica", "listReplica"}
  THEN [m EXCEPT !.pc = "getReplica", !.seen = Append(@, s)]
  ELSE [NextSet(m) EXCEPT !.pc = "getReplica", !.chief = s]

ReadsReplica(m) ==
  \/ m.pc = "getReplica" /\ AtSet(m) /\ Len(m.seen) < ReplicaSet(m).replicas
  \/ m.pc = "getChief"

(* The pod with the bare name, whatever its labels. *)
GetPod(o) ==
  LET m == mem[o]
      named == {p \in PodsAt(m, Probed(m)) : p.sfx = 0}
  IN /\ ReadsReplica(m) /\ ~UnsetPanics(m)
     /\ \/ named = {} /\ NoFault /\ Become(o, Answer(m, "Unknown"))
        \/ Fault("get") /\ Become(o, Answer(m, "Unknown"))
        \/ /\ \E p \in named : p.phase = "Succeeded"
           /\ NoFault
           /\ Become(o, Answer(m, "Succeeded"))
        \/ /\ \E p \in named : p.phase # "Succeeded"
           /\ NoFault
           /\ Become(o, [m EXCEPT !.pc = IF @ = "getChief" THEN "listChief" ELSE "listReplica"])
     /\ UNCHANGED <<spec, crd, fresh, pods, services>>

(* A failed List is taken for a failed replica. *)
ListReplica(o) ==
  LET m == mem[o]
      listed == PodsAt(m, Probed(m))
  IN /\ m.pc \in {"listReplica", "listChief"}
     /\ \/ /\ ~DereferencesNilStartTime(listed)
           /\ NoFault
           /\ Become(o, Answer(m, replicaStatusFromPodList(listed)))
        \/ Fault("listReplica") /\ Become(o, Answer(m, "Failed"))
     /\ UNCHANGED <<spec, crd, fresh, pods, services>>

(* All replicas of the set are read.  The chief's set is any set of the    *)
(* chief's type.                                                           *)
SetRead(o) ==
  LET m == mem[o]
      read == [m EXCEPT !.reps = Append(@, SetStatus(m.seen)), !.seen = <<>>]
  IN /\ m.pc = "getReplica" /\ AtSet(m) /\ ~UnsetPanics(m)
     /\ Len(m.seen) = ReplicaSet(m).replicas
     /\ ~DereferencesNilChief(spec)
     /\ Become(o, IF ReplicaSet(m).type = spec.chief[1].name
                  THEN [read EXCEPT !.pc = "getChief"]
                  ELSE NextSet(read))
     /\ UNCHANGED <<spec, crd, fresh, pods, services, faults>>

(* Variant of Reported: Succeeded is forgotten. *)
ReportedFailureOnly(status, chief) ==
  CASE chief = "Failed"    -> [status EXCEPT !.phase = "Done", !.state = "Failed"]
    [] chief = "Running"   -> [status EXCEPT !.phase = "Running", !.state = "Running"]
    [] OTHER               -> status

(* The new status: Running, Done, or the phase it had. *)
Reported(status, chief) ==
  CASE chief = "Failed"    -> [status EXCEPT !.phase = "Done", !.state = "Failed"]
    [] chief = "Succeeded" -> [status EXCEPT !.phase = "Done", !.state = "Succeeded"]
    [] chief = "Running"   -> [status EXCEPT !.phase = "Running", !.state = "Running"]
    [] OTHER               -> status

ReportStatus(o) ==
  LET m == mem[o]
  IN /\ m.pc = "getReplica" /\ ~AtSet(m) /\ ~UnsetPanics(m)
     /\ Become(o, [Goto(m, "updateStatus") EXCEPT
                     !.status = Reported([@ EXCEPT !.reps = m.reps], m.chief),
                     !.reps = <<>>, !.chief = "Unknown"])
     /\ UNCHANGED <<spec, crd, fresh, pods, services, faults>>

-----------------------------------------------------------------------------
(***************************************************************************)
(* deleteResources: MXReplicaSet.Delete set by set.  A service that is not *)
(* there is an error as well, and the first set with an error is the last. *)
(* Delete sends all its requests even if some fail, and a request that     *)
(* fails may have had its effect, or part of it.                           *)
(***************************************************************************)
(* Variant of PodsOfSet: a selector that has a task_index. *)
PodsOfSetFirst(m) == PodsAt(m, 0)

(* The pods that Labels() selects. *)
PodsOfSet(m) == {p \in pods : p.type = ReplicaSet(m).type /\ p.rid = m.job.rid}

DeleteResources(o) ==
  LET m == mem[o]
      named == {[type |-> ReplicaSet(m).type, idx |-> k, rid |-> m.job.rid] :
                  k \in 0..(ReplicaSet(m).replicas - 1)}
  IN /\ m.pc = "deleteResources"
     /\ \/ /\ ~AtSet(m) /\ NoFault
           /\ Become(o, Goto(m, "idle"))
           /\ UNCHANGED <<pods, services>>
        \/ /\ AtSet(m) /\ NoFault
           /\ pods' = pods \ PodsOfSet(m)
           /\ services' = services \ named
           /\ Become(o, IF named \subseteq services THEN NextSet(m) ELSE Goto(m, "idle"))
        \/ /\ AtSet(m) /\ Fault("delete")
           /\ \E ps \in SUBSET PodsOfSet(m), ss \in SUBSET named :
                pods' = pods \ ps /\ services' = services \ ss
           /\ Become(o, Goto(m, "idle"))
     /\ UNCHANGED <<spec, crd, fresh>>

-----------------------------------------------------------------------------
(***************************************************************************)
(* The process ends.                                                       *)
(***************************************************************************)
Exit(o) == /\ Become(o, NoMemory)
           /\ fresh' = fresh \ {o}
           /\ UNCHANGED <<spec, crd, pods, services>>

(* A nil dereference: HandleCrash logs it and panics again. *)
Panics(m) ==
  \/ UnsetPanics(m)
  \/ m.pc = "createPod" /\ DereferencesNilTemplate(ReplicaSet(m))
  \/ /\ m.pc \in {"listReplica", "listChief"}
     /\ DereferencesNilStartTime(PodsAt(m, Probed(m)))
  \/ /\ m.pc = "getReplica" /\ AtSet(m)
     /\ Len(m.seen) = ReplicaSet(m).replicas
     /\ DereferencesNilChief(spec)

Panic(o) == Panics(mem[o]) /\ NoFault /\ Exit(o)

(* A crash, an eviction, or a lease that is lost. *)
Crash(o) == mem[o].pc # "down" /\ Fault("crash") /\ Exit(o)

-----------------------------------------------------------------------------
(***************************************************************************)
(* The rest of the cluster: kubelets, users, the garbage collector.        *)
(***************************************************************************)
PodBecomes(p, phase, exit) ==
  /\ pods' = (pods \ {p}) \union {[p EXCEPT !.phase = phase, !.exit = exit]}
  /\ UNCHANGED <<spec, crd, fresh, services, mem>>

PodStarts(p) == /\ p.phase \in {"Pending", "Waiting"}
                /\ PodBecomes(p, IF p.phase = "Pending" THEN "Waiting" ELSE "Running", p.exit)
                /\ NoFault

PodSucceeds(p) == p.phase = "Running" /\ PodBecomes(p, "Succeeded", p.exit) /\ NoFault

(* The container exits and the kubelet restarts it in the same pod. *)
ContainerRestarts(p) ==
  /\ p.phase = "Running" /\ Fault("restart")
  /\ \E e \in Exits \ {"none"} : PodBecomes(p, "Running", e)

(* The container fails for good, or the pod is evicted. *)
PodFails(p) ==
  /\ p.phase \notin {"Succeeded", "Failed"} /\ Fault("podFail")
  /\ \/ PodBecomes(p, "Failed", "none")
     \/ \E e \in FailedExits : p.phase = "Running" /\ PodBecomes(p, "Failed", e)

PodRemoved(p) == /\ Fault("podRemove")
                 /\ pods' = pods \ {p}
                 /\ UNCHANGED <<spec, crd, fresh, services, mem>>

(* A user changes something else about the job, a label for instance. *)
UserEdits == /\ crd.live /\ Fault("edit")
             /\ fresh' = {}
             /\ UNCHANGED <<spec, crd, pods, services, mem>>

(* Not counted by MaxFaults: a job that is in CleanUp stays as it is. *)
UserCleansUp == /\ crd.live /\ crd.status.phase # "CleanUp"
                /\ (IF crd.status.phase = "None" THEN "earlyCleanUp" ELSE "cleanUp") \in Faults
                /\ NoFault
                /\ crd' = [crd EXCEPT !.status.phase = "CleanUp"]
                /\ fresh' = {}
                /\ UNCHANGED <<spec, pods, services, mem>>

(* At most once, so that MaxFaults need not count it. *)
UserDeletes == /\ crd.live /\ "jobDelete" \in Faults /\ NoFault
               /\ crd' = [crd EXCEPT !.live = FALSE]
               /\ fresh' = {}
               /\ UNCHANGED <<spec, pods, services, mem>>

(* Variant of CollectGarbage: services that are created without an owner. *)
CollectPodsOnly == /\ ~crd.live
                   /\ pods # {}
                   /\ pods' = {}
                   /\ UNCHANGED <<spec, crd, fresh, services, mem, faults>>

(* Kubernetes collects everything that AsOwner names the job the owner of. *)
CollectGarbage == /\ ~crd.live
                  /\ pods \union services # {}
                  /\ pods' = {} /\ services' = {}
                  /\ UNCHANGED <<spec, crd, fresh, mem, faults>>

-----------------------------------------------------------------------------
(* The steps of Reconcile. *)
Reconcile(o) ==
  \/ Setup(o) \/ SetupReplicas(o)
  \/ StatusUnchanged(o) \/ StatusWritten(o) \/ StatusRefused(o) \/ StatusAnswerLost(o)
  \/ SkipEmptySet(o) \/ ListPods(o) \/ PodCreated(o) \/ PodNameTaken(o) \/ CreatePodFailed(o)
  \/ PodsSynced(o) \/ GetService(o) \/ CreateService(o) \/ CreateServiceFailed(o)
  \/ ServicesSynced(o) \/ GetPod(o) \/ ListReplica(o) \/ SetRead(o) \/ ReportStatus(o)
  \/ DeleteResources(o)

Operate(o) ==
  \/ Start(o) \/ Informed(o) \/ NewJob(o) \/ Sync(o) \/ ObserveDelete(o)
  \/ Reconcile(o) \/ Panic(o) \/ Crash(o)

Kubelet(p) == PodStarts(p) \/ PodSucceeds(p) \/ ContainerRestarts(p) \/ PodFails(p) \/ PodRemoved(p)

User == UserEdits \/ UserCleansUp \/ UserDeletes

Next == \/ \E o \in Operators : Operate(o)
        \/ \E p \in pods : Kubelet(p)
        \/ User
        \/ CollectGarbage

Spec == Init /\ [][Next]_vars

(***************************************************************************)
(* Fairness.  A process that stopped is started again; the informer        *)
(* delivers what it watches and resyncs every 30 seconds; a worker runs    *)
(* Reconcile to its end; the random suffix is not the taken one for ever;  *)
(* the garbage collector runs.  Nothing is assumed of users, and no        *)
(* disturbance has to happen.                                              *)
(***************************************************************************)
Fairness ==
  /\ \A o \in Operators : /\ WF_vars(Start(o)) /\ WF_vars(NewJob(o) \/ Sync(o) \/ ObserveDelete(o))
                          /\ WF_vars(Reconcile(o) \/ Panic(o))
                          /\ SF_vars(PodCreated(o))
  /\ WF_vars(CollectGarbage)

FairSpec == Spec /\ Fairness

(* Some property needs more: every pod is scheduled some day, and its      *)
(* kubelet acknowledges it.  It need not ever run.                         *)
Acknowledged == \E p \in pods : p.phase = "Pending" /\ PodStarts(p)

KubeletFairSpec == FairSpec /\ WF_vars(Acknowledged)

-----------------------------------------------------------------------------
(***************************************************************************)
(* Properties.                                                             *)
(***************************************************************************)
(* Types of all variables. *)
TypeOK ==
  /\ spec \in Specs
  /\ crd \in [live : BOOLEAN, rid : Ids, status : Statuses]
  /\ fresh \subseteq Operators
  /\ pods \subseteq Pods
  /\ services \subseteq Services
  /\ mem \in [Operators -> Memories]
  /\ faults \in FaultCounts

(* The stored RuntimeId is never replaced by another one, however many     *)
(* operators reconcile the job and whatever fails: the names of all pods   *)
(* and services derive from it (setup, updateCRDStatus).                   *)
RuntimeIdWriteOnce == [][crd.rid # NoId => crd'.rid = crd.rid]_vars

(* Seen from the outside, the stored job follows JobLifecycle.             *)
Lifecycle == INSTANCE JobLifecycle WITH phase <- crd.status.phase, rid <- crd.rid
FollowsLifecycle == Lifecycle!Spec

(* A job that validation rejects is never reported as being created, as    *)
(* running or as done: not when the write of Failed fails and the sync is  *)
(* retried, nor after a restart (setup, updateCRDStatus, Reconcile).       *)
NeverAdmitRejected ==
  crd.status.phase \in {"Creating", "Running", "Done"} => Accepted(spec)

(* What GetStatus and setup did not change is not written: the calls of    *)
(* updateCRDStatus after SyncServices and at the end of Reconcile find     *)
(* nothing to do, in whichever way the calls before them failed.           *)
LateUpdatesAreNoOps ==
  \A o \in Operators :
    mem[o].pc \in {"updateServices", "updateFinal"} => mem[o].job.status = mem[o].status

(* With a single operator whose writes are not refused, a pod never        *)
(* carries a runtime id that a restarted operator would not find again     *)
(* (setup is stored before SyncPods runs).                                 *)
PodsCarryStoredId == crd.live => \A p \in pods : p.rid = crd.rid

(* A task never has two pods that are not Failed: a crash, a lost answer   *)
(* or a retry between SyncPods' list and its create must not duplicate a   *)
(* process of the job.                                                     *)
OnePodPerTask ==
  crd.live =>
    \A p, q \in pods :
      (p.phase # "Failed" /\ q.phase # "Failed" /\ p.type = q.type /\ p.idx = q.idx) => p = q

(* However many processes believe that they lead, a task has no more pods  *)
(* that are not Failed than processes, and one more for each List of       *)
(* SyncPods that failed: whatever crashes, is lost, or is tried again, and *)
(* however often they sync (SyncPods lists before each create, and takes   *)
(* a failed List for an empty one).                                        *)
ActivePods(t, i, r) ==
  {p \in pods : p.type = t /\ p.idx = i /\ p.rid = r /\ p.phase # "Failed"}

PodsBounded ==
  \A p \in pods :
    Cardinality(ActivePods(p.type, p.idx, p.rid)) <= Cardinality(Operators) + faults.lists

(* A job that this release set up never makes the operator panic: what     *)
(* CreatePodWithIndex and GetStatus dereference without a check is what    *)
(* validation asked for, and the start times that Time.Before dereferences *)
(* are those of pods GetSingleReplicaStatus never gets as far as listing.  *)
(* A job of an earlier release may: its pods are listed.                   *)
AcceptedNeverPanics == \A o \in Operators : mem[o].job.rid # NoId => ~Panics(mem[o])

(* Done is reported only when a container of the chief has terminated      *)
(* (GetSingleReplicaStatus selects by type, index and runtime id).         *)
IsChief(p) == /\ p.type = spec.chief[1].name /\ p.idx = spec.chief[1].index
              /\ p.rid = crd.rid

DoneMeansTerminated ==
  crd.status.phase = "Done" =>
    \E p \in pods : IsChief(p) /\ (p.phase \in {"Succeeded", "Failed"} \/ p.exit # "none")

(* Done is only reported of a chief that is one of the job's tasks: a job  *)
(* whose chief is not, which validation lets through, never ends, however  *)
(* many operators reconcile it and whatever fails (ValidateTFJobSpec,      *)
(* GetSingleReplicaStatus).                                                *)
ChiefIsTask ==
  spec.chief # <<>> /\ [type |-> spec.chief[1].name, idx |-> spec.chief[1].index] \in TaskSet(spec)

DoneHasChief == crd.status.phase = "Done" => ChiefIsTask

(* When the clean-up of a job ends without an error, none of its pods and  *)
(* services is left, Failed ones and those of every index included         *)
(* (deleteResources, MXReplicaSet.Delete).                                 *)
CleanUpDeletesAll ==
  \A o \in Operators :
    mem[o].pc = "deleteResources" /\ ~AtSet(mem[o]) => pods = {} /\ services = {}

(* Once disturbances end, every task of an accepted job that is not        *)
(* deleted has an active pod and a service, and keeps them (SyncPods,      *)
(* SyncServices, retries).                                                 *)
TaskServed(t) ==
  \E p \in pods : /\ p.type = t.type /\ p.idx = t.idx /\ p.phase # "Failed"
                  /\ [type |-> p.type, idx |-> p.idx, rid |-> p.rid] \in services

Converges == <>[](crd.live => \A t \in TaskSet(spec) : TaskServed(t))

(* Once the job is deleted its pods and services go away for good: the     *)
(* operator stops creating them (syncMXJob) and all of them have the job   *)
(* as owner (AsOwner).                                                     *)
DeletedJobIsCollected == ~crd.live ~> [](pods = {} /\ services = {})

(***************************************************************************)
(* The invariant from which TrainingJob_proofs derives TypeOK,             *)
(* NeverAdmitRejected, LateUpdatesAreNoOps, RuntimeIdWriteOnce and         *)
(* FollowsLifecycle, for any number of operators.                          *)
(***************************************************************************)
(* NewJob has made a TrainingJob. *)
Started(m) == m.pc \notin {"down", "synced", "gone"}

(* A runtime id goes with the phases of a job that was accepted. *)
Consistent(s, rid, phase) ==
  /\ phase \in {"None", "Failed"} => rid = NoId
  /\ phase \in {"Creating", "Running", "Done"} => rid # NoId
  /\ rid # NoId => Accepted(s)

(* j.Replicas is there from setupReplicas on, and loops stay within it. *)
LoopsOK(s, m) ==
  /\ m.built => Buildable(s)
  /\ m.pc \in {"listPods", "createPod", "getService", "createService", "getReplica", "listReplica",
               "getChief", "listChief", "deleteResources", "updateServices", "updateStatus",
               "updateFinal"} => m.built
  /\ m.pc \in {"createPod", "createService", "listReplica", "getChief", "listChief"} =>
       m.pos.set \in DOMAIN s.replicaSpecs

(* j.status is ahead of j.job.Status only until the next updateCRDStatus,  *)
(* and has a phase once setup ran; a job without an id has no chief.       *)
MemoryOK(s, m) ==
  /\ m.pc = "synced" => Consistent(s, m.job.rid, m.job.status.phase) /\ m.chief = "Unknown"
  /\ Started(m) => /\ Consistent(s, m.job.rid, m.status.phase)
                   /\ m.pc = "setup" <=> m.status.phase = "None"
                   /\ m.pc \notin {"updateSetup", "updateReason", "updateStatus"} =>
                        m.job.status = m.status
  /\ m.pc \in {"listReplica", "listChief"} => m.job.rid # NoId
  /\ m.job.rid = NoId => m.chief = "Unknown"

(* What an operator whose copy is fresh knows of the stored job, and what  *)
(* CleanUp in any memory says of it.                                       *)
ViewOK(c, fs, o, m) ==
  /\ o \in fs /\ m.pc = "synced" => m.job = [rid |-> c.rid, status |-> c.status]
  /\ o \in fs /\ Started(m) /\ c.status.phase # "None" =>
       m.job.rid = c.rid /\ m.status.phase \in {c.status.phase, "Running", "Done"}
  /\ m.pc = "synced" /\ m.job.status.phase = "CleanUp" => c.status.phase # "None"
  /\ Started(m) /\ m.status.phase = "CleanUp" => c.status.phase # "None"

(* A pod without a suffix has the id of a job that was set up. *)
BareOK(ps) == \A p \in ps : p.sfx = 0 => p.rid # NoId

(* The inductive invariant: which memories go with which stored job when   *)
(* operators race, crash and lose answers (setup, updateCRDStatus).        *)
IInv ==
  /\ TypeOK
  /\ Consistent(spec, crd.rid, crd.status.phase)
  /\ \A o \in Operators : /\ LoopsOK(spec, mem[o])
                         /\ MemoryOK(spec, mem[o])
                         /\ ViewOK(crd, fresh, o, mem[o])
  /\ BareOK(pods)

-----------------------------------------------------------------------------
(***************************************************************************)
(* What the documentation and the comments of the code say, and the code   *)
(* does not do.                                                            *)
(***************************************************************************)
(* README.md: the exit code of the scheduler's mxnet container determines  *)
(* the status of the job.  A chief that succeeded gets the job Done.  The  *)
(* code does it for the jobs of an earlier release, once the pods that     *)
(* replaced failed ones of the job have a start time.                      *)
SucceededChiefIsReported ==
  (crd.live /\ \E p \in pods : IsChief(p) /\ p.phase = "Succeeded")
    ~> crd.status.phase \in {"Done", "CleanUp"}

(* training.go: changes of j.status are propagated to the stored status.   *)
StatusIsStored ==
  \A o \in Operators :
    (mem[o].pc = "idle" /\ mem[o].status # crd.status) ~> mem[o].status = crd.status

(* README.md: a job must have 1 and only 1 scheduler.  As running pods,    *)
(* and as what validation lets through.                                    *)
AtMostOneScheduler ==
  \A p, q \in pods : (p.type = "SCHEDULER" /\ q.type = "SCHEDULER" /\
                      p.phase # "Failed" /\ q.phase # "Failed") => p = q

AdmittedHasOneScheduler ==
  crd.status.phase = "Creating" =>
    \E i \in SchedulerSpecs(spec) :
      SchedulerSpecs(spec) = {i} /\ spec.replicaSpecs[i].replicas = 1

(* replicas_test.go: of several pods, the most recent one is read.  It is  *)
(* the one that has not failed: SyncPods made it because all others had.   *)
(* Only of pods that all have a start time, as those of the test have.     *)
MostRecentPodIsRead ==
  \A o \in Operators :
    mem[o].pc \in {"listReplica", "listChief"} =>
      LET listed == PodsAt(mem[o], Probed(mem[o]))
      IN  \A p \in listed :
            (\A q \in listed : q.phase # "Pending") /\ {q \in listed : Active(q)} = {p} =>
              replicaStatusFromPodList(listed) = PodState(p)
=============================================================================
