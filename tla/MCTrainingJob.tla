---------------------------- MODULE MCTrainingJob ----------------------------
(* Instances of TrainingJob for TLC: the specs users submit. *)
EXTENDS TrainingJob, TLC

Replica(t, n) == [type |-> t, replicas |-> n, port |-> FALSE, template |-> "mxnet"]

Submit(rs) == [replicaSpecs |-> rs, policy |-> <<>>]

(* One scheduler, as small as a job can be. *)
SchedulerOnly == {Submit(<<Replica("SCHEDULER", <<1>>)>>)}

(* A scheduler and a worker. *)
TwoTasks == {Submit(<<Replica("", <<>>), Replica("WORKER", <<1>>)>>)}

(* Two workers, the first of them the chief. *)
Chief(t, i) == << << [name |-> t, index |-> i] >> >>

TwoWorkers == {[replicaSpecs |-> <<Replica("WORKER", <<2>>)>>, policy |-> Chief("WORKER", 0)]}

(* A job with two types of replicas, or with two replicas of one. *)
TwoOfTypeOrIndex == TwoTasks \union TwoWorkers

(* The same, and a job that validation accepts whose chief's index is out  *)
(* of range.                                                               *)
UpgradedJobs ==
  TwoOfTypeOrIndex \union
  {[replicaSpecs |-> <<Replica("WORKER", <<1>>)>>, policy |-> Chief("WORKER", 1)]}

(* One spec for each thing that setup, setupReplicas, SyncPods and         *)
(* GetStatus may find: no chief, a nil template, an unknown type, two      *)
(* schedulers in one set, an empty set, a chief that is a worker, a chief  *)
(* without a replica set, no replica set at all.                           *)
OddSpecs ==
  {[replicaSpecs |-> <<Replica("SCHEDULER", <<1>>)>>, policy |-> << <<>> >>],
   [replicaSpecs |-> <<Replica("WORKER", <<1>>)>>, policy |-> Chief("WORKER", 0)],
   [replicaSpecs |-> <<Replica("WORKER", <<1>>)>>, policy |-> Chief("SCHEDULER", 1)],
   Submit(<<[Replica("SERVER", <<1>>) EXCEPT !.template = "nil"]>>),
   Submit(<<Replica("UNKNOWN", <<1>>)>>),
   Submit(<<Replica("SCHEDULER", <<2>>)>>),
   Submit(<<Replica("SCHEDULER", <<1>>), Replica("WORKER", <<0>>)>>),
   Submit(<<>>)}

OddSpecsAndTwoTasks == OddSpecs \union TwoTasks

(* Accepted, with two replica sets of one type. *)
TwoSchedulers == {Submit(<<Replica("SCHEDULER", <<1>>), Replica("SCHEDULER", <<1>>)>>)}

(* Nothing is left to the defaults: it works without setup. *)
Explicit(t) == [type |-> t, replicas |-> <<1>>, port |-> TRUE, template |-> "mxnet"]

(* Rejected, since no container is named mxnet. *)
Other(r) == Submit(<<[r EXCEPT !.template = "other"]>>)

(* Rejected, and one accepted.  A CleanUp before setup meets nil Replicas  *)
(* in NewTFReplicaSet, a missing port there, nil Replicas in SyncPods, a   *)
(* missing policy in GetStatus, and nothing missing at all.                *)
RejectedAndAccepted ==
  {Other(Replica("SCHEDULER", <<>>)),
   Other(Replica("SERVER", <<1>>)),
   Other([Explicit("SERVER") EXCEPT !.replicas = <<>>]),
   Other(Explicit("SERVER")),
   [replicaSpecs |-> <<Explicit("SCHEDULER")>>, policy |-> Chief("SCHEDULER", 0)]}

(* Runtime ids and operators are only compared. *)
Symmetry == Permutations(RuntimeIds) \union Permutations(Operators)
==============================================================================
