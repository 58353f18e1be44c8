------------------------------ MODULE KeyedWork ------------------------------
(***************************************************************************)
(* What the controller's work queue promises, whatever is behind it: a key *)
(* is worked on by at most one worker at a time, and a request for a key,  *)
(* also one made while the key is worked on, stays until a worker takes it *)
(* up after it was made, unless the queue is closed or the process ends.   *)
(***************************************************************************)
CONSTANTS Keys, Workers, NoKey

VARIABLES
  open,    \* the queue takes requests
  wanted,  \* the keys with a request that nobody has taken up
  taken    \* the key each worker works on

vars == <<open, wanted, taken>>

Init == open = TRUE /\ wanted = {} /\ taken = [w \in Workers |-> NoKey]

Request(k) == /\ open
              /\ wanted' = wanted \union {k}
              /\ UNCHANGED <<open, taken>>

(* A request taken up may be worked on once more than asked for. *)
Take(w, k) == /\ k \in wanted
              /\ taken[w] = NoKey
              /\ \A v \in Workers : taken[v] # k
              /\ wanted' \in {wanted, wanted \ {k}}
              /\ taken' = [taken EXCEPT ![w] = k]
              /\ UNCHANGED open

Finish(w) == /\ taken[w] # NoKey
             /\ taken' = [taken EXCEPT ![w] = NoKey]
             /\ UNCHANGED <<open, wanted>>

(* The queue is closed; from then on requests may be dropped. *)
Close == open = TRUE /\ open' = FALSE /\ UNCHANGED <<wanted, taken>>

Drop(k) == /\ ~open
           /\ wanted' = wanted \ {k}
           /\ UNCHANGED <<open, taken>>

(* The process ends, and with it everything it remembers. *)
Reset == open' = TRUE /\ wanted' = {} /\ taken' = [w \in Workers |-> NoKey]

Next == \/ \E k \in Keys : Request(k) \/ Drop(k)
        \/ \E w \in Workers, k \in Keys : Take(w, k)
        \/ \E w \in Workers : Finish(w)
        \/ Close
        \/ Reset

Spec == Init /\ [][Next]_vars
=============================================================================
