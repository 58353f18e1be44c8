---------------------------- MODULE ReplicaStatus ----------------------------
(***************************************************************************)
(* How the operator reads the state of a replica from its pods and the     *)
(* state of a replica set from its replicas: pure functions.               *)
(*                                                                         *)
(* Of a pod they read the phase and the mxnet container's statuses.  exit  *)
(* is that container's last termination: "none" if it never terminated,    *)
(* otherwise the class of the exit code.  A container that was restarted   *)
(* is running again and keeps it as LastTerminationState.                  *)
(***************************************************************************)
EXTENDS Naturals, Sequences, FiniteSets

ReplicaStates == {"Unknown", "Running", "Failed", "Succeeded"}

(* A pod the kubelet has accepted but not started is Pending to Kubernetes *)
(* too; it is "Waiting" here because it already has a StartTime and its    *)
(* container a status, which a "Pending" one has not.                      *)
PodPhases == {"Pending", "Waiting", "Running", "Succeeded", "Failed"}

(* oom: killed with reason OOMKilled (exit code 137); permanent: 1 to 127; *)
(* retryable: any other code but 0.                                        *)
FailedExits == {"oom", "permanent", "retryable"}

Exits == {"none", "success"} \union FailedExits

isRetryableTerminationState(exit) == exit \notin {"oom", "permanent", "success"}

(***************************************************************************)
(* The state read from one pod: its last termination comes before its      *)
(* current state.  A pod that is not scheduled, or that failed before its  *)
(* container ran, has no container status.                                 *)
(***************************************************************************)
PodState(p) ==
  CASE p.exit = "success"      -> "Succeeded"
    [] p.exit \in FailedExits  -> IF isRetryableTerminationState(p.exit) THEN "Running" ELSE "Failed"
    [] p.exit = "none" /\ p.phase \in {"Waiting", "Running"} -> "Running"
    [] p.exit = "none" /\ p.phase = "Succeeded"              -> "Succeeded"
    [] OTHER                   -> "Unknown"

(***************************************************************************)
(* The pod replicaStatusFromPodList settles on, of those listed in the     *)
(* order of their names, that is of their suffixes.  latest is set to the  *)
(* address of the loop variable, which Go (before 1.22) has one of per     *)
(* loop: every later iteration overwrites what latest points to, and       *)
(* compares the variable's start time with itself.  So it is the last pod  *)
(* listed, if the comparison answers: its pointers are nil for a pod that  *)
(* no kubelet has acknowledged (here: a Pending one), and Time.Before      *)
(* dereferences them.  The first pod is compared with none.                *)
(***************************************************************************)
DereferencesNilStartTime(listed) ==
  \E p, q \in listed : p.sfx < q.sfx /\ q.phase = "Pending"

LatestPod(listed) == CHOOSE p \in listed : \A q \in listed : q.sfx <= p.sfx

replicaStatusFromPodList(listed) ==
  IF listed = {} THEN "Running" ELSE PodState(LatestPod(listed))

(***************************************************************************)
(* MXReplicaSet.GetStatus, from the states of its replicas 0, 1, ...       *)
(***************************************************************************)
Count(seen, s) == Cardinality({i \in DOMAIN seen : seen[i] = s})

SetState(seen) ==
  IF Count(seen, "Failed") > 0 THEN "Failed"
  ELSE IF Count(seen, "Running") > 0 THEN "Running"
  ELSE IF seen # <<>> /\ Count(seen, "Succeeded") = Len(seen) THEN "Succeeded"
  ELSE "Unknown"

SetStatus(seen) ==
  [state |-> SetState(seen), counts |-> [s \in ReplicaStates |-> Count(seen, s)]]

SetStatuses == [state : ReplicaStates, counts : [ReplicaStates -> Nat]]
==============================================================================
