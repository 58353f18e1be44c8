---------------------------- MODULE JobLifecycle ----------------------------
(***************************************************************************)
(* What the stored MXJob promises to whoever watches it, whichever and     *)
(* however many operators write to it: its runtime id is written at most   *)
(* once, with the first status; a job that has a phase is never set up a   *)
(* second time; after that the operators only ever report Running or Done  *)
(* of a job that has an id, and nothing at all of one they rejected; and   *)
(* users only ever ask for CleanUp.                                        *)
(***************************************************************************)
CONSTANTS RuntimeIds, NoId

VARIABLES phase, rid

vars == <<phase, rid>>

Phases == {"None", "Creating", "Running", "CleanUp", "Failed", "Done"}

Init == \/ phase = "None" /\ rid = NoId
        \/ phase \in {"Creating", "Running"} /\ rid \in RuntimeIds

(* The first status an operator manages to store: a rejected job gets no   *)
(* runtime id, any other gets its only one.                                *)
TakeUp == /\ phase = "None"
          /\ \/ phase' = "Failed" /\ UNCHANGED rid
             \/ phase' \in {"Creating", "Running", "Done"} /\ rid' \in RuntimeIds

(* A later status, of a job that was not rejected.  Done is not final, nor *)
(* is CleanUp: both may be followed by Running.                            *)
Report == /\ phase # "None" /\ rid # NoId
          /\ phase' \in {"Running", "Done"}
          /\ UNCHANGED rid

(* The user asks for the job's resources to be deleted, even before an     *)
(* operator has taken the job up, which none ever does then.               *)
CleanUp == /\ phase' = "CleanUp"
           /\ UNCHANGED rid

Next == TakeUp \/ Report \/ CleanUp

Spec == Init /\ [][Next]_vars
=============================================================================
