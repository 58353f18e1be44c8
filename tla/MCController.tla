---------------------------- MODULE MCController ----------------------------
(* Instances of Controller for TLC. *)
EXTENDS Controller, TLC

(* Keys and workers are only compared. *)
Symmetry == Permutations(Keys) \union Permutations(Workers)
=============================================================================
