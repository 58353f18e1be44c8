-------------------------------- MODULE Lease --------------------------------
(***************************************************************************)
(* What the election promises to whoever reads the record in the Endpoints *)
(* object, whichever and however many operators take part, crash and come  *)
(* back: an operator leads only while the record names it; nobody else's   *)
(* name is written while it leads, nor before the record is a lease old;   *)
(* between two leaders there is a time without one; and a record that was  *)
(* written once always names somebody.                                     *)
(***************************************************************************)
EXTENDS Naturals

CONSTANTS Operators, NoOne, LeaseDuration

VARIABLES
  holder,  \* whom the record names
  age,     \* how long ago it was renewed
  leader   \* who runs its controllers, or NoOne

vars == <<holder, age, leader>>

Init == holder = NoOne /\ age = 0 /\ leader = NoOne

(* The holder renews the record, or time passes. *)
Renew == /\ holder # NoOne
         /\ age' \in Nat
         /\ UNCHANGED <<holder, leader>>

(* An operator takes the lock: nobody leads, and there was no record or    *)
(* its lease is over.                                                      *)
Take == /\ leader = NoOne
        /\ holder = NoOne \/ age >= LeaseDuration
        /\ holder' \in Operators /\ age' \in Nat
        /\ UNCHANGED leader

(* The holder learns that it holds the lock. *)
Lead == /\ leader = NoOne /\ holder # NoOne
        /\ leader' = holder
        /\ UNCHANGED <<holder, age>>

(* The leader ends: it did not renew the record in time, or crashed. *)
Stop == /\ leader # NoOne
        /\ leader' = NoOne
        /\ UNCHANGED <<holder, age>>

Next == Renew \/ Take \/ Lead \/ Stop

Spec == Init /\ [][Next]_vars
=============================================================================
