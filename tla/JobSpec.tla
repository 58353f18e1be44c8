------------------------------- MODULE JobSpec -------------------------------
(***************************************************************************)
(* The specification a user writes in an MXJob, and what the operator does *)
(* with it before it creates anything: the defaults setup fills in, the    *)
(* validation, the accelerator configuration and the construction of one   *)
(* MXReplicaSet per replica spec.                                          *)
(*                                                                         *)
(* An optional (pointer) field is a sequence of at most one element: <<>>  *)
(* is nil.  Images, resources, volumes, environment variables and the      *)
(* value of a port are left out: no decision depends on them.  A template  *)
(* is nil, or has, or has not, a container named "mxnet".                  *)
(***************************************************************************)
EXTENDS Naturals, Sequences

ReplicaTypes == {"SCHEDULER", "SERVER", "WORKER"}

Templates == {"nil", "other", "mxnet"}

(* The types a user may write: the three valid ones, none, or anything. *)
WrittenTypes == ReplicaTypes \union {"", "UNKNOWN"}

(* At most one value of S. *)
Optional(S) == {q \in Seq(S) : Len(q) <= 1}

Chiefs == [name : WrittenTypes, index : Nat]

(* A replica spec as submitted, and after SetDefaultsMXJob. *)
WrittenReplicaSpecs == [type : WrittenTypes, replicas : Optional(Nat),
                        port : BOOLEAN, template : Templates]

ReplicaSpecs == [type : ReplicaTypes \union {"UNKNOWN"}, replicas : Nat,
                 port : BOOLEAN, template : Templates]

(* An MXJobSpec as submitted: its termination policy may be nil, or have no *)
(* chief.                                                                  *)
WrittenSpecs == [replicaSpecs : Seq(WrittenReplicaSpecs), policy : Optional(Optional(Chiefs))]

(* An MXJobSpec once its defaults are set; its policy is never nil.  What  *)
(* was written is kept beside it, for a job whose defaults are never set.  *)
Specs == [replicaSpecs : Seq(ReplicaSpecs), chief : Optional(Chiefs), written : WrittenSpecs]

DefaultChief == [name |-> "SCHEDULER", index |-> 0]

(***************************************************************************)
(* SetDefaultsMXJob, in setup.                                             *)
(***************************************************************************)
(* Variant of SetDefaultsReplica: the type has no default. *)
SetDefaultsUntyped(r) ==
  [ type     |-> r.type,
    replicas |-> IF r.replicas = <<>> THEN 1 ELSE r.replicas[1],
    port     |-> TRUE,
    template |-> r.template ]

SetDefaultsReplica(r) ==
  [ type     |-> IF r.type = "" THEN "SCHEDULER" ELSE r.type,
    replicas |-> IF r.replicas = <<>> THEN 1 ELSE r.replicas[1],
    port     |-> TRUE,
    template |-> r.template ]

SetDefaultsMXJob(s) ==
  [ replicaSpecs |-> [i \in 1..Len(s.replicaSpecs) |-> SetDefaultsReplica(s.replicaSpecs[i])],
    chief        |-> IF s.policy = <<>> THEN << DefaultChief >> ELSE s.policy[1],
    written      |-> s ]

(***************************************************************************)
(* ValidateTFJobSpec: the order of its checks only decides which message   *)
(* is reported.                                                            *)
(***************************************************************************)
ValidReplicaSpec(r) == r.template = "mxnet" /\ r.port /\ r.type \in ReplicaTypes

(* Variant of ValidateTFJobSpec: a policy without a chief is let through. *)
ValidateWithoutChief(s) ==
  /\ \A i \in DOMAIN s.replicaSpecs : ValidReplicaSpec(s.replicaSpecs[i])
  /\ s.chief # <<>> =>
       \E i \in DOMAIN s.replicaSpecs : s.replicaSpecs[i].type = s.chief[1].name

ValidateTFJobSpec(s) ==
  /\ s.chief # <<>>
  /\ \A i \in DOMAIN s.replicaSpecs : ValidReplicaSpec(s.replicaSpecs[i])
  /\ \E i \in DOMAIN s.replicaSpecs : s.replicaSpecs[i].type = s.chief[1].name

(* ConfigureAcceleratorsForTFJobSpec: its only error is a nil template. *)
ConfigureAccelerators(s) ==
  \A i \in DOMAIN s.replicaSpecs : s.replicaSpecs[i].template # "nil"

(* setup finds no error. *)
Accepted(s) == ValidateTFJobSpec(s) /\ ConfigureAccelerators(s)

(***************************************************************************)
(* NewTFReplicaSet returns no error.  It asks more than the validation of  *)
(* a SCHEDULER, and less of the template of a SERVER.                      *)
(***************************************************************************)
NewTFReplicaSet(r) ==
  /\ r.type = "SCHEDULER" => r.replicas = 1
  /\ r.port
  /\ r.template = "nil" => r.type = "SERVER"
  /\ r.type \in ReplicaTypes

Buildable(s) == \A i \in DOMAIN s.replicaSpecs : NewTFReplicaSet(s.replicaSpecs[i])

(***************************************************************************)
(* The same without the defaults: of a replica spec that has no port or no *)
(* type an error, and of a SCHEDULER that does not say how many replicas   *)
(* it has a nil dereference, unless there is an error before it.           *)
(***************************************************************************)
BuildsAsWritten(s, i) ==
  LET r == s.written.replicaSpecs[i]
  IN  r.port /\ r.type # "" /\ NewTFReplicaSet(s.replicaSpecs[i])

NilReplicas(s, i) == s.written.replicaSpecs[i].replicas = <<>>

BuildDereferencesNil(s) ==
  \E i \in DOMAIN s.replicaSpecs :
    /\ s.written.replicaSpecs[i].type = "SCHEDULER" /\ NilReplicas(s, i)
    /\ \A j \in 1..(i - 1) : BuildsAsWritten(s, j)

BuildableAsWritten(s) == \A i \in DOMAIN s.replicaSpecs : BuildsAsWritten(s, i)

(***************************************************************************)
(* The pod template CreatePodWithIndex dereferences without a check.       *)
(***************************************************************************)
DereferencesNilTemplate(r) == r.template = "nil"

(* GetStatus reads Chief.ReplicaName in the loop over the replica sets. *)
DereferencesNilChief(s) == s.chief = <<>> /\ s.replicaSpecs # <<>>

(***************************************************************************)
(* The schedulers a job asks for, over all its replica specs.              *)
(***************************************************************************)
SchedulerSpecs(s) == {i \in DOMAIN s.replicaSpecs : s.replicaSpecs[i].type = "SCHEDULER"}
==============================================================================
