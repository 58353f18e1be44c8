-------------------------- MODULE MCLeaderElection --------------------------
(* Instances of LeaderElection for TLC. *)
EXTENDS LeaderElection, TLC

(* Operators are only compared. *)
Symmetry == Permutations(Operators)
=============================================================================
