--------------------------- MODULE LeaderElection ---------------------------
(***************************************************************************)
(* The election by which server.go makes one of the running operators the  *)
(* leader: client-go's leaderelection with a lock in an Endpoints object.  *)
(* Operators crash and restart, requests take time, fail, or are applied   *)
(* when nobody waits for them any more.                                    *)
(*                                                                         *)
(* Time passes in seconds, the precision with which a record stores its    *)
(* times, and is kept as ages: how long ago something happened.  Only      *)
(* requests take time, at most MaxDelay from sending to answer; the code   *)
(* does not bound it (the client has no timeout).  A record is its holder  *)
(* and its renew time: its acquire time and transitions change only with   *)
(* the holder.  Resource versions and observed records are only compared   *)
(* with the current ones, which is what is kept of them; how long ago a    *)
(* record was observed matters, and is kept, while it is the current one.  *)
(* Operators have different identities, their host names.                  *)
(***************************************************************************)
EXTENDS Integers, FiniteSets

CONSTANTS
  Operators,      \* the identities
  NoOne,          \* the holder if there is no record
  LeaseDuration, RenewDeadline, RetryPeriod,
  MaxDelay,       \* a request is answered, or fails, within this time
  MaxFaults       \* bound: how many requests fail and operators crash

ASSUME NoOneAssumption == NoOne \notin Operators

(* NewLeaderElector refuses other durations. *)
ASSUME ConfigAssumption ==
  /\ LeaseDuration \in Nat /\ RenewDeadline \in Nat /\ RetryPeriod \in Nat \ {0}
  /\ LeaseDuration > RenewDeadline /\ 10 * RenewDeadline > 12 * RetryPeriod

(* What the election needs of the cluster: a renewal, from the start of    *)
(* its try on, and then a poll that fails as late as it can, together stay *)
(* within the lease.                                                       *)
ASSUME DelayAssumption == MaxDelay \in Nat /\ RenewDeadline + 6 * MaxDelay < LeaseDuration

ASSUME BoundsAssumption == MaxFaults \in Nat

VARIABLES
  lock,         \* the record in the Endpoints object
  orphans,      \* records of updates whose sender waits no more
  pc,           \* "off", "wait", or where the operator is in tryAcquireOrRenew
  leading,      \* acquire has returned
  due,          \* how long until the next try starts
  poll,         \* the age of the leader's poll
  try,          \* the age of the try: of its variable now
  final,        \* the try is the last of a poll
  sent,         \* the age of the pending request
  read,         \* the holder in the record that Get returned
  differs,      \* that record is not observedRecord
  fresh,        \* nothing was written since
  ok,           \* Update succeeded
  known,        \* observedRecord is the one in the object
  observedTime, \* if so, how long ago it was observed
  faults        \* how many faults there were

tryVars == <<try, final, sent, read, differs, fresh, ok>>
observedVars == <<known, observedTime>>
opVars == <<pc, leading, due, poll, tryVars, observedVars>>

vars == <<lock, orphans, opVars, faults>>

-----------------------------------------------------------------------------
(* Greater ages need not be told apart: the lease is over in every try.    *)
MaxAge == LeaseDuration + 2 * MaxDelay

Ages == 0..MaxAge

Records == [holder : Operators \union {NoOne}, renewed : Ages]

NoRecord == [holder |-> NoOne, renewed |-> 0]

Pending == {"get", "got", "update", "answer"}

(* The record a try of p wants to write. *)
Mine(p) == [holder |-> p, renewed |-> try[p]]

Init ==
  /\ lock = NoRecord /\ orphans = {}
  /\ pc = [p \in Operators |-> "wait"] /\ leading = [p \in Operators |-> FALSE]
  /\ due = [p \in Operators |-> 0] /\ poll = [p \in Operators |-> 0]
  /\ try = [p \in Operators |-> 0] /\ final = [p \in Operators |-> FALSE]
  /\ sent = [p \in Operators |-> 0] /\ read = [p \in Operators |-> NoOne]
  /\ differs = [p \in Operators |-> FALSE] /\ fresh = [p \in Operators |-> FALSE]
  /\ ok = [p \in Operators |-> FALSE]
  /\ known = [p \in Operators |-> FALSE] /\ observedTime = [p \in Operators |-> 0]
  /\ faults = 0

-----------------------------------------------------------------------------
(***************************************************************************)
(* When tries start: JitterUntil for a candidate, Poll for the leader.     *)
(***************************************************************************)
(* A candidate waits RetryPeriod and up to 1.2 times as much again; the    *)
(* leader until the next tick of its poll, and if RenewDeadline is over    *)
(* before then, only until it is, for its last try.                        *)
Pauses(p) ==
  IF ~leading[p] THEN RetryPeriod .. (22 * RetryPeriod) \div 10
  ELSE {d \in 0 .. RetryPeriod :
          \/ /\ poll[p] + d < RenewDeadline
             /\ d > 0 /\ (poll[p] + d) % RetryPeriod = 0
          \/ /\ poll[p] + d = RenewDeadline
             /\ \A e \in 1 .. d - 1 : (poll[p] + e) % RetryPeriod # 0
          \/ /\ poll[p] > RenewDeadline /\ d = 0}

(* Variant of Returns: the time of the first try is kept for the next.     *)
ReturnsWithoutNow(p) ==
  /\ try' = try /\ final' = [final EXCEPT ![p] = FALSE]
  /\ sent' = [sent EXCEPT ![p] = 0] /\ read' = [read EXCEPT ![p] = NoOne]
  /\ differs' = [differs EXCEPT ![p] = FALSE]
  /\ fresh' = [fresh EXCEPT ![p] = FALSE] /\ ok' = [ok EXCEPT ![p] = FALSE]

(* tryAcquireOrRenew returns: its variables are gone. *)
Returns(p) ==
  /\ try' = [try EXCEPT ![p] = 0] /\ final' = [final EXCEPT ![p] = FALSE]
  /\ sent' = [sent EXCEPT ![p] = 0] /\ read' = [read EXCEPT ![p] = NoOne]
  /\ differs' = [differs EXCEPT ![p] = FALSE]
  /\ fresh' = [fresh EXCEPT ![p] = FALSE] /\ ok' = [ok EXCEPT ![p] = FALSE]

(* The operator ends: Fatalf after a poll that failed, or a crash. *)
Ends(p) ==
  /\ pc' = [pc EXCEPT ![p] = "off"]
  /\ leading' = [leading EXCEPT ![p] = FALSE]
  /\ due' = [due EXCEPT ![p] = 0] /\ poll' = [poll EXCEPT ![p] = 0]
  /\ known' = [known EXCEPT ![p] = FALSE]
  /\ observedTime' = [observedTime EXCEPT ![p] = 0]
  /\ Returns(p)

(* tryAcquireOrRenew returns false; the last record was observed t ago.    *)
TryFails(p, isKnown, t) ==
  \/ /\ final[p]
     /\ Ends(p)
  \/ /\ ~final[p]
     /\ pc' = [pc EXCEPT ![p] = "wait"]
     /\ \E d \in Pauses(p) : due' = [due EXCEPT ![p] = d]
     /\ known' = [known EXCEPT ![p] = isKnown]
     /\ observedTime' = [observedTime EXCEPT ![p] = t]
     /\ Returns(p)
     /\ UNCHANGED <<leading, poll>>

-----------------------------------------------------------------------------
(***************************************************************************)
(* tryAcquireOrRenew.                                                      *)
(***************************************************************************)
Begin(p) ==
  /\ pc[p] = "wait" /\ due[p] = 0
  /\ pc' = [pc EXCEPT ![p] = "get"]
  /\ final' = [final EXCEPT ![p] = leading[p] /\ poll[p] >= RenewDeadline]
  /\ UNCHANGED <<lock, orphans, leading, due, poll, try, sent, read, differs, fresh, ok,
                 observedVars, faults>>

(* Variant of Differs: no record is taken for the observed one. *)
AlwaysDiffers(p) == lock.holder # NoOne

(* There is a record, and not the one last observed. *)
Differs(p) == lock.holder # NoOne /\ ~known[p]

(* The API server reads the object. *)
ServeGet(p) ==
  /\ pc[p] = "get"
  /\ pc' = [pc EXCEPT ![p] = "got"]
  /\ read' = [read EXCEPT ![p] = lock.holder]
  /\ differs' = [differs EXCEPT ![p] = Differs(p)]
  /\ fresh' = [fresh EXCEPT ![p] = TRUE]
  /\ UNCHANGED <<lock, orphans, leading, due, poll, try, final, sent, ok, observedVars, faults>>

(* The record that Get returned is observed, now if it differs.            *)
Knows(p) == IF differs[p] THEN fresh[p] ELSE known[p]
ObservedTime(p) == IF differs[p] THEN 0 ELSE observedTime[p]

(* Variant of MayTake: the deadline of renewals is taken for the lease. *)
MayTakeEarly(p) ==
  read[p] \in {NoOne, p} \/ ObservedTime(p) - try[p] >= RenewDeadline

(* There is no record, p holds it, or p saw it change a lease before the   *)
(* try.                                                                    *)
MayTake(p) == read[p] \in {NoOne, p} \/ ObservedTime(p) - try[p] >= LeaseDuration

ReceiveGet(p) ==
  /\ pc[p] = "got"
  /\ \/ /\ MayTake(p)
        /\ pc' = [pc EXCEPT ![p] = "update"]
        /\ sent' = [sent EXCEPT ![p] = 0]
        /\ known' = [known EXCEPT ![p] = Knows(p)]
        /\ observedTime' = [observedTime EXCEPT ![p] = ObservedTime(p)]
        /\ UNCHANGED <<leading, due, poll, try, final, read, differs, fresh, ok>>
     \/ /\ ~MayTake(p)
        /\ TryFails(p, Knows(p), ObservedTime(p))
  /\ UNCHANGED <<lock, orphans, faults>>

(* The object gets a new resource version, but the record is not new to    *)
(* who knows one of the same holder and second.                            *)
Write(rec) ==
  /\ lock' = rec
  /\ known' = [q \in Operators |-> known[q] /\ rec = lock]
  /\ observedTime' = [q \in Operators |-> IF known'[q] THEN observedTime[q] ELSE 0]
  /\ orphans' = {}

(* Variant of Current: the resource version is not compared. *)
AlwaysCurrent(p) == pc[p] = "update"

(* The resource version is the one that was read. *)
Current(p) == fresh[p]

(* Create if Get found nothing, else Update. *)
ServeUpdate(p) ==
  /\ pc[p] = "update"
  /\ pc' = [pc EXCEPT ![p] = "answer"]
  /\ ok' = [ok EXCEPT ![p] = Current(p)]
  /\ \/ /\ Current(p)
        /\ Write(Mine(p))
        /\ fresh' = [q \in Operators |-> q = p]
     \/ /\ ~Current(p)
        /\ UNCHANGED <<lock, observedVars, orphans, fresh>>
  /\ UNCHANGED <<leading, due, poll, try, final, sent, read, differs, faults>>

(* acquire returns, or renew starts its next poll.  The record p keeps has  *)
(* fractions of a second that the stored one has not: they will differ.    *)
TrySucceeds(p) ==
  /\ pc[p] = "answer" /\ ok[p]
  /\ pc' = [pc EXCEPT ![p] = "wait"]
  /\ leading' = [leading EXCEPT ![p] = TRUE]
  /\ poll' = [poll EXCEPT ![p] = 0]
  /\ due' = [due EXCEPT ![p] = RetryPeriod]
  /\ known' = [known EXCEPT ![p] = FALSE]
  /\ observedTime' = [observedTime EXCEPT ![p] = 0]
  /\ Returns(p)
  /\ UNCHANGED <<lock, orphans, faults>>

Conflict(p) ==
  /\ pc[p] = "answer" /\ ~ok[p]
  /\ TryFails(p, known[p], observedTime[p])
  /\ UNCHANGED <<lock, orphans, faults>>

-----------------------------------------------------------------------------
(***************************************************************************)
(* Faults.                                                                 *)
(***************************************************************************)
(* The update that p waits for may be applied when p waits no more. *)
Orphaned(p) ==
  orphans' \in {orphans} \union
               IF pc[p] = "update" /\ fresh[p] THEN {orphans \union {Mine(p)}} ELSE {}

(* A request fails, whether it was applied or not. *)
RequestFails(p) ==
  /\ pc[p] \in Pending /\ faults < MaxFaults
  /\ faults' = faults + 1
  /\ Orphaned(p)
  /\ TryFails(p, known[p], observedTime[p])
  /\ UNCHANGED lock

Crash(p) ==
  /\ pc[p] # "off" /\ faults < MaxFaults
  /\ faults' = faults + 1
  /\ Orphaned(p)
  /\ Ends(p)
  /\ UNCHANGED lock

(* With the same host name, and nothing observed. *)
Restart(p) ==
  /\ pc[p] = "off"
  /\ pc' = [pc EXCEPT ![p] = "wait"]
  /\ UNCHANGED <<lock, orphans, leading, due, poll, tryVars, observedVars, faults>>

ServeOrphan(rec) ==
  /\ rec \in orphans
  /\ Write(rec)
  /\ fresh' = [q \in Operators |-> FALSE]
  /\ UNCHANGED <<pc, leading, due, poll, try, final, sent, read, differs, ok, faults>>

-----------------------------------------------------------------------------
(***************************************************************************)
(* A second passes, but not while a try is due or an answer overdue.       *)
(***************************************************************************)
Older(a) == IF a < MaxAge THEN a + 1 ELSE a

Aged(rec) == IF rec.holder = NoOne THEN rec ELSE [rec EXCEPT !.renewed = Older(@)]

InTry(p) == pc[p] \in Pending

Tick ==
  /\ \A p \in Operators : /\ pc[p] = "wait" => due[p] > 0
                          /\ InTry(p) => sent[p] < MaxDelay
  /\ lock' = Aged(lock) /\ orphans' = {Aged(rec) : rec \in orphans}
  /\ due' = [p \in Operators |-> IF pc[p] = "wait" THEN due[p] - 1 ELSE due[p]]
  /\ poll' = [p \in Operators |-> IF leading[p] THEN poll[p] + 1 ELSE poll[p]]
  /\ try' = [p \in Operators |-> IF InTry(p) THEN try[p] + 1 ELSE try[p]]
  /\ sent' = [p \in Operators |-> IF InTry(p) THEN sent[p] + 1 ELSE sent[p]]
  /\ observedTime' = [p \in Operators |-> IF known[p] THEN Older(observedTime[p]) ELSE 0]
  /\ UNCHANGED <<pc, leading, final, read, differs, fresh, ok, known, faults>>

-----------------------------------------------------------------------------
Step(p) == \/ Begin(p) \/ ServeGet(p) \/ ReceiveGet(p) \/ ServeUpdate(p)
           \/ TrySucceeds(p) \/ Conflict(p)

Next ==
  \/ Tick
  \/ \E p \in Operators : Step(p) \/ RequestFails(p) \/ Crash(p) \/ Restart(p)
  \/ \E rec \in orphans : ServeOrphan(rec)

Spec == Init /\ [][Next]_vars

(***************************************************************************)
(* Fairness.  Time passes or somebody goes on; Tick leaves nobody behind,  *)
(* since it waits for a try that is due and for an answer that is overdue. *)
(* An operator that ended need not come back, nor need an update that      *)
(* nobody waits for be applied.                                            *)
(***************************************************************************)
FairSpec == Spec /\ WF_vars(Tick \/ \E p \in Operators : Step(p))

-----------------------------------------------------------------------------
(***************************************************************************)
(* Properties.                                                             *)
(***************************************************************************)
TypeOK ==
  /\ lock \in Records /\ orphans \subseteq Records
  /\ pc \in [Operators -> {"off", "wait"} \union Pending] /\ leading \in [Operators -> BOOLEAN]
  /\ due \in [Operators -> Nat] /\ poll \in [Operators -> Nat]
  /\ try \in [Operators -> 0 .. 2 * MaxDelay] /\ final \in [Operators -> BOOLEAN]
  /\ sent \in [Operators -> 0 .. MaxDelay] /\ read \in [Operators -> Operators \union {NoOne}]
  /\ differs \in [Operators -> BOOLEAN] /\ fresh \in [Operators -> BOOLEAN]
  /\ ok \in [Operators -> BOOLEAN]
  /\ known \in [Operators -> BOOLEAN] /\ observedTime \in [Operators -> Ages]
  /\ faults \in 0 .. MaxFaults

(* What the election is for: at no time do two operators run controllers,  *)
(* whatever crashes, fails or is applied late.                             *)
AtMostOneLeader == \A p, q \in Operators : leading[p] /\ leading[q] => p = q

(* A leader is deposed by no one: as long as it leads, in the middle of a  *)
(* try too, the lock names it, and no write that is still under way can    *)
(* replace its record by another's or by an older one of its own.          *)
LeaderHolds ==
  \A p \in Operators :
    leading[p] =>
      /\ lock.holder = p
      /\ \A q \in Operators \ {p} : pc[q] = "update" => ~fresh[q]
      /\ \A rec \in orphans : rec.holder = p /\ rec.renewed <= lock.renewed

(* Seen from the outside, the record and the leadership follow Lease.      *)
TheLeader ==
  LET leaders == {p \in Operators : leading[p]}
  IN  IF leaders = {} THEN NoOne ELSE CHOOSE p \in leaders : TRUE

Lock == INSTANCE Lease WITH holder <- lock.holder, age <- lock.renewed, leader <- TheLeader
FollowsLease == Lock!Spec

(* A leader that ends is replaced: if some operator is up from some time   *)
(* on, then there is a leader again and again, although the lock names one *)
(* that will never come back.                                              *)
SomeoneLeads ==
  (\E p \in Operators : <>[](pc[p] # "off")) => []<>(\E p \in Operators : leading[p])
=============================================================================
