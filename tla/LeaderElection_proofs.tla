------------------------ MODULE LeaderElection_proofs ------------------------
(***************************************************************************)
(* Proofs about LeaderElection, for every set of operators and all         *)
(* durations that satisfy its assumptions: no two operators lead at once,  *)
(* because no write can depose a leader.                                   *)
(*                                                                         *)
(* The argument.  The age of the lock's record bounds from above the age   *)
(* of what a candidate has observed, so that whoever may take the lock     *)
(* from another finds a record at least a lease old.  A leader's record is *)
(* never that old: it is at most two delays older than the leader's poll,  *)
(* and a poll lasts at most RenewDeadline and four delays.                 *)
(***************************************************************************)
EXTENDS LeaderElection, TLAPS

-----------------------------------------------------------------------------
(* What a try of p has read, and when. *)
TryInv(p) ==
  /\ pc[p] \in {"get", "got"} => sent[p] = try[p]
  /\ pc[p] \in {"update", "answer"} => try[p] <= sent[p] + MaxDelay
  /\ ~InTry(p) => try[p] = 0 /\ sent[p] = 0 /\ ~fresh[p] /\ ~ok[p] /\ ~final[p]
  /\ pc[p] \in {"got", "update"} /\ fresh[p] => read[p] = lock.holder
  /\ differs[p] => read[p] # NoOne
  /\ pc[p] = "got" /\ fresh[p] /\ ~differs[p] /\ read[p] # NoOne => known[p]

(* What p has observed is not older than the record. *)
KnownInv(p) == known[p] => lock.holder # NoOne /\ observedTime[p] <= lock.renewed

(* The record may be replaced by one of p. *)
Replaceable(p) == lock.holder \in {NoOne, p} \/ lock.renewed >= LeaseDuration

(* Only such writes are under way. *)
WriteInv(p) == pc[p] = "update" /\ fresh[p] => Replaceable(p)

OrphanInv == \A rec \in orphans : rec.holder # NoOne /\ Replaceable(rec.holder)

(* An update of p that succeeded, and was not answered yet. *)
SuccessInv(p) ==
  pc[p] = "answer" /\ ok[p] =>
    lock.holder = p /\ lock.renewed <= try[p] /\ orphans = {}

(* How old a leader's poll and its record can be. *)
LeaderInv(p) ==
  leading[p] =>
    /\ pc[p] # "off"
    /\ lock.holder = p /\ lock.renewed <= poll[p] + 2 * MaxDelay
    /\ pc[p] = "wait" => poll[p] + due[p] <= RenewDeadline + 2 * MaxDelay
    /\ InTry(p) /\ ~final[p] => poll[p] < RenewDeadline + try[p]
    /\ InTry(p) /\ final[p] => poll[p] <= RenewDeadline + 2 * MaxDelay + try[p]
    /\ InTry(p) => try[p] <= poll[p]
    /\ InTry(p) /\ ~(pc[p] = "answer" /\ ok[p]) => try[p] <= lock.renewed
    /\ \A rec \in orphans : /\ rec.holder = p /\ rec.renewed <= lock.renewed
                            /\ InTry(p) => try[p] <= rec.renewed

FollowerInv(p) == ~leading[p] => ~final[p]

OperatorInv(p) == /\ TryInv(p) /\ KnownInv(p) /\ WriteInv(p) /\ SuccessInv(p)
                  /\ LeaderInv(p) /\ FollowerInv(p)

IInv == TypeOK /\ OrphanInv /\ \A p \in Operators : OperatorInv(p)

-----------------------------------------------------------------------------
(* Initially nobody leads, and nothing is known. *)
LEMMA InitInv == Init => IInv
<1> SUFFICES ASSUME Init PROVE IInv
  OBVIOUS
<1> USE ConfigAssumption, DelayAssumption, BoundsAssumption
<1>1. TypeOK
  BY DEF Init, TypeOK, Records, NoRecord, Ages, MaxAge, Pending
<1>2. OrphanInv
  BY DEF Init, OrphanInv
<1>3. ASSUME NEW p \in Operators PROVE OperatorInv(p)
  BY <1>3 DEF Init, OperatorInv, TryInv, KnownInv, WriteInv, SuccessInv, LeaderInv,
              FollowerInv, InTry, Pending, NoRecord
<1> QED
  BY <1>1, <1>2, <1>3 DEF IInv

(* A try starts. *)
LEMMA BeginInv == ASSUME IInv, NEW p \in Operators, Begin(p) PROVE IInv'
<1> USE ConfigAssumption, DelayAssumption, BoundsAssumption
<1>1. TypeOK'
  BY DEF IInv, TypeOK, Begin, tryVars, observedVars, Pending
<1>2. OrphanInv'
  BY DEF IInv, OrphanInv, Replaceable, Begin
<1>3. OperatorInv(p)'
  <2>1. OperatorInv(p) /\ TypeOK
    BY DEF IInv
  <2>2. TryInv(p)' /\ KnownInv(p)' /\ WriteInv(p)' /\ SuccessInv(p)' /\ FollowerInv(p)'
    BY <2>1 DEF TypeOK, Begin, observedVars, OperatorInv, TryInv, KnownInv, WriteInv,
                SuccessInv, FollowerInv, InTry, Pending
  <2>3. LeaderInv(p)'
    BY <2>1 DEF TypeOK, Records, Ages, Begin, OperatorInv, TryInv, LeaderInv, InTry, Pending
  <2> QED
    BY <2>2, <2>3 DEF OperatorInv
<1>4. ASSUME NEW q \in Operators \ {p} PROVE OperatorInv(q)'
  BY <1>4 DEF IInv, TypeOK, Begin, observedVars, OperatorInv, TryInv, KnownInv, WriteInv,
              Replaceable, SuccessInv, LeaderInv, FollowerInv, InTry, Mine
<1> QED
  BY <1>1, <1>2, <1>3, <1>4 DEF IInv

(* The API server answers a Get. *)
LEMMA ServeGetInv == ASSUME IInv, NEW p \in Operators, ServeGet(p) PROVE IInv'
<1> USE ConfigAssumption, DelayAssumption, BoundsAssumption
<1>1. TypeOK'
  BY DEF IInv, TypeOK, Records, ServeGet, Differs, observedVars, Pending
<1>2. OrphanInv'
  BY DEF IInv, OrphanInv, Replaceable, ServeGet
<1>3. OperatorInv(p)'
  <2>1. OperatorInv(p) /\ TypeOK
    BY DEF IInv
  <2>2. TryInv(p)' /\ KnownInv(p)' /\ WriteInv(p)' /\ SuccessInv(p)' /\ FollowerInv(p)'
    BY <2>1 DEF TypeOK, ServeGet, Differs, observedVars, OperatorInv, TryInv, KnownInv,
                WriteInv, SuccessInv, FollowerInv, InTry, Pending
  <2>3. LeaderInv(p)'
    BY <2>1 DEF TypeOK, ServeGet, OperatorInv, LeaderInv, InTry, Pending
  <2> QED
    BY <2>2, <2>3 DEF OperatorInv
<1>4. ASSUME NEW q \in Operators \ {p} PROVE OperatorInv(q)'
  BY <1>4 DEF IInv, TypeOK, ServeGet, observedVars, OperatorInv, TryInv, KnownInv, WriteInv,
              Replaceable, SuccessInv, LeaderInv, FollowerInv, InTry
<1> QED
  BY <1>1, <1>2, <1>3, <1>4 DEF IInv

-----------------------------------------------------------------------------
(* What leaves a try leaves at most an update that may replace the record. *)
LEMMA OrphanedInv ==
  ASSUME IInv, NEW p \in Operators, Orphaned(p), lock' = lock
  PROVE  /\ OrphanInv' /\ orphans' \subseteq Records
         /\ \A q \in Operators : pc[q] = "answer" /\ ok[q] => orphans' = {}
         /\ \A q \in Operators : leading[q] =>
              \A rec \in orphans' : /\ rec.holder = q /\ rec.renewed <= lock.renewed
                                    /\ InTry(q) /\ (q # p \/ pc[q] # "update") => try[q] <= rec.renewed
<1> USE ConfigAssumption, DelayAssumption, BoundsAssumption, NoOneAssumption
<1>1. CASE orphans' = orphans
  BY <1>1 DEF IInv, TypeOK, OrphanInv, Replaceable, OperatorInv, LeaderInv, SuccessInv, InTry
<1>2. CASE pc[p] = "update" /\ fresh[p] /\ orphans' = orphans \union {Mine(p)}
  <2>1. /\ TypeOK /\ OrphanInv /\ Replaceable(p)
        /\ \A q \in Operators : OperatorInv(q)
    BY <1>2 DEF IInv, OperatorInv, WriteInv
  <2>2. Mine(p) \in Records /\ Mine(p).holder = p /\ Mine(p).renewed = try[p]
    BY <2>1 DEF TypeOK, Mine, Records, Ages, MaxAge
  <2>3. OrphanInv' /\ orphans' \subseteq Records
    BY <1>2, <2>1, <2>2 DEF OrphanInv, Replaceable, TypeOK
  <2>4. ASSUME NEW q \in Operators, q # p PROVE ~leading[q] /\ ~(pc[q] = "answer" /\ ok[q])
    <3>1. lock.renewed \in Nat /\ try[q] \in 0 .. 2 * MaxDelay /\ sent[q] \in 0 .. MaxDelay
      BY <2>1 DEF TypeOK, Records, Ages, MaxAge
    <3>2. lock.holder # q \/ lock.renewed >= LeaseDuration
      BY <2>1, <2>4 DEF Replaceable
    <3>3. ~(pc[q] = "answer" /\ ok[q])
      BY <2>1, <3>1, <3>2 DEF OperatorInv, SuccessInv
    <3>4. leading[q] => poll[q] <= RenewDeadline + 4 * MaxDelay
      BY <2>1, <3>1 DEF OperatorInv, LeaderInv, InTry, Pending, TypeOK
    <3>5. ~leading[q]
      BY <2>1, <3>1, <3>2, <3>4 DEF OperatorInv, LeaderInv, TypeOK
    <3> QED
      BY <3>3, <3>5
  <2>5. leading[p] => \A rec \in orphans' : rec.holder = p /\ rec.renewed <= lock.renewed
    BY <1>2, <2>1, <2>2 DEF OperatorInv, LeaderInv, InTry, Pending
  <2> QED
    BY <1>2, <2>3, <2>4, <2>5
<1> QED
  BY <1>1, <1>2 DEF Orphaned

(* An operator that ends takes nothing with it. *)
LEMMA EndsInv ==
  ASSUME IInv, NEW p \in Operators, Ends(p), Orphaned(p), lock' = lock, faults' \in 0 .. MaxFaults
  PROVE  IInv'
<1> USE ConfigAssumption, DelayAssumption, BoundsAssumption
<1>1. TypeOK'
  BY OrphanedInv DEF IInv, TypeOK, Ends, Returns, Pending, Ages, MaxAge
<1>2. OrphanInv'
  BY OrphanedInv
<1>3. OperatorInv(p)'
  BY DEF IInv, TypeOK, Ends, Returns, OperatorInv, TryInv, KnownInv, WriteInv, SuccessInv,
         LeaderInv, FollowerInv, InTry, Pending
<1>4. ASSUME NEW q \in Operators \ {p} PROVE OperatorInv(q)'
  <2>1. OperatorInv(q) /\ TypeOK
    BY DEF IInv
  <2>2. /\ pc'[q] = pc[q] /\ leading'[q] = leading[q] /\ due'[q] = due[q] /\ poll'[q] = poll[q]
        /\ try'[q] = try[q] /\ final'[q] = final[q] /\ sent'[q] = sent[q] /\ read'[q] = read[q]
        /\ differs'[q] = differs[q] /\ fresh'[q] = fresh[q] /\ ok'[q] = ok[q]
        /\ known'[q] = known[q] /\ observedTime'[q] = observedTime[q]
    BY <1>4, <2>1 DEF TypeOK, Ends, Returns
  <2>3. TryInv(q)' /\ KnownInv(q)' /\ WriteInv(q)' /\ FollowerInv(q)'
    BY <2>1, <2>2 DEF OperatorInv, TryInv, KnownInv, WriteInv, Replaceable, FollowerInv, InTry
  <2>4. SuccessInv(q)'
    BY <2>1, <2>2, OrphanedInv DEF OperatorInv, SuccessInv
  <2>5. LeaderInv(q)'
    BY <1>4, <2>1, <2>2, OrphanedInv DEF OperatorInv, LeaderInv, InTry
  <2> QED
    BY <2>3, <2>4, <2>5 DEF OperatorInv
<1> QED
  BY <1>1, <1>2, <1>3, <1>4 DEF IInv

(* A candidate or a leader whose try failed pauses, or ends. *)
LEMMA TryFailsInv ==
  ASSUME IInv, NEW p \in Operators, InTry(p), NEW k \in BOOLEAN, NEW t \in Ages,
         k => lock.holder # NoOne /\ t <= lock.renewed,
         TryFails(p, k, t), Orphaned(p), lock' = lock, faults' \in 0 .. MaxFaults
  PROVE  IInv'
<1> USE ConfigAssumption, DelayAssumption, BoundsAssumption
<1>1. CASE Ends(p)
  BY <1>1, EndsInv
<1>2. CASE ~Ends(p)
  <2>0. TypeOK /\ OperatorInv(p)
    BY DEF IInv
  <2>1. PICK d \in Pauses(p) : due' = [due EXCEPT ![p] = d]
    BY <1>2 DEF TryFails
  <2>2. /\ ~final[p] /\ pc' = [pc EXCEPT ![p] = "wait"] /\ known' = [known EXCEPT ![p] = k]
        /\ observedTime' = [observedTime EXCEPT ![p] = t] /\ Returns(p)
        /\ leading' = leading /\ poll' = poll
    BY <1>2 DEF TryFails
  <2>3. poll[p] \in Nat
    BY <2>0 DEF TypeOK
  <2>4. /\ d \in Nat
        /\ leading[p] => poll[p] + d <= RenewDeadline \/ (d = 0 /\ poll[p] > RenewDeadline)
    BY <2>1, <2>3 DEF Pauses
  <2>5. TypeOK'
    BY <2>0, <2>1, <2>2, <2>4, OrphanedInv DEF TypeOK, Returns, Pending
  <2>6. OperatorInv(p)'
    <3>1. TryInv(p)' /\ KnownInv(p)' /\ WriteInv(p)' /\ SuccessInv(p)' /\ FollowerInv(p)'
      BY <2>0, <2>2 DEF TypeOK, Returns, TryInv, KnownInv, WriteInv, SuccessInv, FollowerInv,
                        InTry, Pending
    <3>2. leading[p] => poll[p] < RenewDeadline + 2 * MaxDelay
      BY <2>0, <2>2 DEF TypeOK, OperatorInv, LeaderInv
    <3>3. LeaderInv(p)'
      BY <2>0, <2>1, <2>2, <2>3, <2>4, <3>2, OrphanedInv
      DEF TypeOK, OperatorInv, LeaderInv, InTry, Pending
    <3> QED
      BY <3>1, <3>3 DEF OperatorInv
  <2>7. ASSUME NEW q \in Operators \ {p} PROVE OperatorInv(q)'
    <3>1. OperatorInv(q)
      BY DEF IInv
    <3>2. /\ pc'[q] = pc[q] /\ leading'[q] = leading[q] /\ due'[q] = due[q] /\ poll'[q] = poll[q]
          /\ try'[q] = try[q] /\ final'[q] = final[q] /\ sent'[q] = sent[q] /\ read'[q] = read[q]
          /\ differs'[q] = differs[q] /\ fresh'[q] = fresh[q] /\ ok'[q] = ok[q]
          /\ known'[q] = known[q] /\ observedTime'[q] = observedTime[q]
      BY <2>0, <2>1, <2>2, <2>7 DEF TypeOK, Returns
    <3>3. TryInv(q)' /\ KnownInv(q)' /\ WriteInv(q)' /\ FollowerInv(q)'
      BY <3>1, <3>2 DEF OperatorInv, TryInv, KnownInv, WriteInv, Replaceable, FollowerInv, InTry
    <3>4. SuccessInv(q)'
      BY <3>1, <3>2, OrphanedInv DEF OperatorInv, SuccessInv
    <3>5. LeaderInv(q)'
      BY <2>7, <3>1, <3>2, OrphanedInv DEF OperatorInv, LeaderInv, InTry
    <3> QED
      BY <3>3, <3>4, <3>5 DEF OperatorInv
  <2> QED
    BY <2>5, <2>6, <2>7, OrphanedInv DEF IInv
<1> QED
  BY <1>1, <1>2

-----------------------------------------------------------------------------
(* What p knows after Get is not older than the record; and if it may take *)
(* the lock and nobody wrote since, the record may be replaced.            *)
LEMMA ObservedInv ==
  ASSUME IInv, NEW p \in Operators, pc[p] = "got"
  PROVE  /\ Knows(p) \in BOOLEAN /\ ObservedTime(p) \in Ages
         /\ Knows(p) => lock.holder # NoOne /\ ObservedTime(p) <= lock.renewed
         /\ MayTake(p) /\ fresh[p] => Replaceable(p)
<1> USE ConfigAssumption, DelayAssumption, BoundsAssumption
<1>1. TypeOK /\ TryInv(p) /\ KnownInv(p)
  BY DEF IInv, OperatorInv
<1>2. /\ lock.renewed \in Nat /\ observedTime[p] \in Nat /\ try[p] \in Nat
      /\ ObservedTime(p) \in Ages /\ ObservedTime(p) \in Nat /\ Knows(p) \in BOOLEAN
  BY <1>1 DEF TypeOK, Records, Ages, MaxAge, ObservedTime, Knows
<1>3. Knows(p) => lock.holder # NoOne /\ ObservedTime(p) <= lock.renewed
  BY <1>1, <1>2 DEF TryInv, KnownInv, Knows, ObservedTime
<1>4. MayTake(p) /\ fresh[p] => Replaceable(p)
  <2> SUFFICES ASSUME MayTake(p), fresh[p], read[p] \notin {NoOne, p}
               PROVE  lock.renewed >= LeaseDuration
    BY <1>1 DEF TryInv, Replaceable
  <2>1. ObservedTime(p) >= LeaseDuration
    BY <1>2 DEF MayTake
  <2>2. ~differs[p]
    BY <2>1 DEF ObservedTime
  <2>3. Knows(p)
    BY <1>1, <2>2 DEF TryInv, Knows
  <2> QED
    BY <1>2, <1>3, <2>1, <2>3
<1> QED
  BY <1>2, <1>3, <1>4

(* The answer of a Get: a write is under way, or the try is over. *)
LEMMA ReceiveGetInv == ASSUME IInv, NEW p \in Operators, ReceiveGet(p) PROVE IInv'
<1> USE ConfigAssumption, DelayAssumption, BoundsAssumption
<1>0. TypeOK /\ OrphanInv /\ OperatorInv(p) /\ pc[p] = "got"
  BY DEF IInv, ReceiveGet
<1>1. CASE /\ MayTake(p)
           /\ pc' = [pc EXCEPT ![p] = "update"]
           /\ sent' = [sent EXCEPT ![p] = 0]
           /\ known' = [known EXCEPT ![p] = Knows(p)]
           /\ observedTime' = [observedTime EXCEPT ![p] = ObservedTime(p)]
           /\ UNCHANGED <<leading, due, poll, try, final, read, differs, fresh, ok>>
           /\ UNCHANGED <<lock, orphans, faults>>
  <2>1. TypeOK'
    BY <1>0, <1>1, ObservedInv DEF TypeOK, Pending
  <2>2. OrphanInv'
    BY <1>0, <1>1 DEF OrphanInv, Replaceable
  <2>3. OperatorInv(p)'
    <3>1. KnownInv(p)' /\ WriteInv(p)'
      BY <1>0, <1>1, ObservedInv DEF TypeOK, KnownInv, WriteInv, Replaceable
    <3>2. TryInv(p)' /\ SuccessInv(p)' /\ FollowerInv(p)' /\ LeaderInv(p)'
      BY <1>0, <1>1 DEF TypeOK, OperatorInv, TryInv, SuccessInv, FollowerInv, LeaderInv,
                        InTry, Pending
    <3> QED
      BY <3>1, <3>2 DEF OperatorInv
  <2>4. ASSUME NEW q \in Operators \ {p} PROVE OperatorInv(q)'
    BY <1>1, <2>4 DEF IInv, TypeOK, OperatorInv, TryInv, KnownInv, WriteInv, Replaceable,
                      SuccessInv, LeaderInv, FollowerInv, InTry
  <2> QED
    BY <2>1, <2>2, <2>3, <2>4 DEF IInv
<1>2. CASE /\ TryFails(p, Knows(p), ObservedTime(p))
           /\ UNCHANGED <<lock, orphans, faults>>
  <2>1. Orphaned(p) /\ InTry(p) /\ faults' \in 0 .. MaxFaults /\ lock' = lock
    BY <1>0, <1>2 DEF Orphaned, InTry, Pending, TypeOK
  <2> QED
    BY <1>2, <2>1, ObservedInv, TryFailsInv, <1>0
<1> QED
  BY <1>1, <1>2 DEF ReceiveGet

(* An update is refused. *)
LEMMA ConflictInv == ASSUME IInv, NEW p \in Operators, Conflict(p) PROVE IInv'
<1>1. /\ TypeOK /\ KnownInv(p) /\ InTry(p) /\ Orphaned(p) /\ lock' = lock
      /\ TryFails(p, known[p], observedTime[p]) /\ faults' = faults
  BY DEF IInv, OperatorInv, Conflict, Orphaned, InTry, Pending
<1>2. known[p] \in BOOLEAN /\ observedTime[p] \in Ages /\ faults' \in 0 .. MaxFaults
  BY <1>1 DEF TypeOK
<1> QED
  BY <1>1, <1>2, TryFailsInv DEF KnownInv

(* A request fails. *)
LEMMA RequestFailsInv == ASSUME IInv, NEW p \in Operators, RequestFails(p) PROVE IInv'
<1> USE BoundsAssumption
<1>1. /\ TypeOK /\ KnownInv(p) /\ InTry(p) /\ Orphaned(p) /\ lock' = lock
      /\ TryFails(p, known[p], observedTime[p]) /\ faults' = faults + 1 /\ faults < MaxFaults
  BY DEF IInv, OperatorInv, RequestFails, InTry
<1>2. known[p] \in BOOLEAN /\ observedTime[p] \in Ages /\ faults' \in 0 .. MaxFaults
  BY <1>1 DEF TypeOK
<1> QED
  BY <1>1, <1>2, TryFailsInv DEF KnownInv

(* An operator crashes. *)
LEMMA CrashInv == ASSUME IInv, NEW p \in Operators, Crash(p) PROVE IInv'
<1> USE BoundsAssumption
<1>1. /\ TypeOK /\ Ends(p) /\ Orphaned(p) /\ lock' = lock
      /\ faults' = faults + 1 /\ faults < MaxFaults
  BY DEF IInv, Crash
<1>2. faults' \in 0 .. MaxFaults
  BY <1>1 DEF TypeOK
<1> QED
  BY <1>1, <1>2, EndsInv

(* An operator comes back. *)
LEMMA RestartInv == ASSUME IInv, NEW p \in Operators, Restart(p) PROVE IInv'
<1>1. TypeOK'
  BY DEF IInv, TypeOK, Restart, tryVars, observedVars
<1>2. OrphanInv'
  BY DEF IInv, OrphanInv, Replaceable, Restart
<1>3. OperatorInv(p)'
  BY DEF IInv, TypeOK, Restart, tryVars, observedVars, OperatorInv, TryInv, KnownInv, WriteInv,
         Replaceable, SuccessInv, LeaderInv, FollowerInv, InTry, Pending
<1>4. ASSUME NEW q \in Operators \ {p} PROVE OperatorInv(q)'
  BY <1>4 DEF IInv, TypeOK, Restart, tryVars, observedVars, OperatorInv, TryInv, KnownInv,
              WriteInv, Replaceable, SuccessInv, LeaderInv, FollowerInv, InTry
<1> QED
  BY <1>1, <1>2, <1>3, <1>4 DEF IInv

-----------------------------------------------------------------------------
(* The record of a leader, and of an operator that is about to know that   *)
(* it leads, is younger than the lease: nobody else may replace it.        *)
LEMMA HeldInv ==
  ASSUME IInv, NEW q \in Operators, leading[q] \/ (pc[q] = "answer" /\ ok[q]), NEW r, r # q
  PROVE  ~Replaceable(r)
<1> USE ConfigAssumption, DelayAssumption, BoundsAssumption, NoOneAssumption
<1>1. TypeOK /\ OperatorInv(q)
  BY DEF IInv
<1>2. /\ lock.renewed \in Nat /\ poll[q] \in Nat
      /\ try[q] \in 0 .. 2 * MaxDelay /\ sent[q] \in 0 .. MaxDelay
  BY <1>1 DEF TypeOK, Records, Ages, MaxAge
<1>3. lock.holder = q
  BY <1>1 DEF OperatorInv, LeaderInv, SuccessInv
<1>4. lock.renewed < LeaseDuration
  <2>1. CASE pc[q] = "answer" /\ ok[q]
    BY <1>1, <1>2, <2>1 DEF OperatorInv, SuccessInv
  <2>2. CASE leading[q]
    <3>1. poll[q] <= RenewDeadline + 4 * MaxDelay
      BY <1>1, <1>2, <2>2 DEF OperatorInv, LeaderInv, InTry, Pending, TypeOK
    <3> QED
      BY <1>1, <1>2, <2>2, <3>1 DEF OperatorInv, LeaderInv
  <2> QED
    BY <2>1, <2>2
<1> QED
  BY <1>2, <1>3, <1>4 DEF Replaceable

(* A write leaves the types as they are. *)
LEMMA WriteType ==
  ASSUME TypeOK, NEW rec \in Records, Write(rec)
  PROVE  /\ lock' \in Records /\ orphans' \subseteq Records
         /\ known' \in [Operators -> BOOLEAN] /\ observedTime' \in [Operators -> Ages]
<1>1. 0 \in Ages
  BY ConfigAssumption, DelayAssumption DEF Ages, MaxAge
<1>2. observedTime' = [q \in Operators |-> IF known'[q] THEN observedTime[q] ELSE 0]
  BY DEF Write
<1>3. observedTime' \in [Operators -> Ages]
  BY <1>1, <1>2 DEF TypeOK
<1> QED
  BY <1>3 DEF TypeOK, Write

(* An update is applied, or conflicts. *)
LEMMA ServeUpdateInv == ASSUME IInv, NEW p \in Operators, ServeUpdate(p) PROVE IInv'
<1> USE ConfigAssumption, DelayAssumption, BoundsAssumption, NoOneAssumption
<1>0. TypeOK /\ OrphanInv /\ OperatorInv(p) /\ pc[p] = "update"
  BY DEF IInv, ServeUpdate
<1>a. /\ pc' = [pc EXCEPT ![p] = "answer"] /\ ok' = [ok EXCEPT ![p] = fresh[p]]
      /\ UNCHANGED <<leading, due, poll, try, final, sent, read, differs, faults>>
  BY DEF ServeUpdate, Current
<1>1. CASE fresh[p]
  <2>1. /\ lock' = Mine(p) /\ orphans' = {}
        /\ known' = [q \in Operators |-> known[q] /\ Mine(p) = lock]
        /\ observedTime' = [q \in Operators |-> IF known'[q] THEN observedTime[q] ELSE 0]
        /\ fresh' = [q \in Operators |-> q = p]
    BY <1>1 DEF ServeUpdate, Current, Write
  <2>2. Mine(p) \in Records /\ Mine(p).holder = p /\ Mine(p).renewed = try[p] /\ try[p] \in Nat
    BY <1>0 DEF TypeOK, Mine, Records, Ages, MaxAge
  <2>3. Replaceable(p)
    BY <1>0, <1>1 DEF OperatorInv, WriteInv
  <2>4. TypeOK'
    <3>1. Write(Mine(p))
      BY <1>1 DEF ServeUpdate, Current
    <3>2. /\ lock' \in Records /\ orphans' \subseteq Records
          /\ known' \in [Operators -> BOOLEAN] /\ observedTime' \in [Operators -> Ages]
      BY <1>0, <2>2, <3>1, WriteType
    <3> QED
      BY <1>0, <1>a, <2>1, <3>2 DEF TypeOK, Pending
  <2>5. OrphanInv'
    BY <2>1 DEF OrphanInv
  <2>6. OperatorInv(p)'
    <3>1. KnownInv(p)'
      BY <1>0, <1>a, <2>1 DEF OperatorInv, KnownInv
    <3>2. TryInv(p)' /\ WriteInv(p)' /\ SuccessInv(p)' /\ FollowerInv(p)'
      BY <1>0, <1>1, <1>a, <2>1, <2>2
      DEF TypeOK, OperatorInv, TryInv, WriteInv, SuccessInv, FollowerInv, InTry, Pending
    <3>3. LeaderInv(p)'
      BY <1>0, <1>1, <1>a, <2>1, <2>2 DEF TypeOK, OperatorInv, LeaderInv, InTry, Pending
    <3> QED
      BY <3>1, <3>2, <3>3 DEF OperatorInv
  <2>7. ASSUME NEW q \in Operators \ {p} PROVE OperatorInv(q)'
    <3>1. OperatorInv(q)
      BY DEF IInv
    <3>2. ~leading[q] /\ ~(pc[q] = "answer" /\ ok[q])
      BY <2>3, <2>7, HeldInv
    <3>3. KnownInv(q)'
      BY <1>a, <2>1, <3>1 DEF OperatorInv, KnownInv
    <3> QED
      BY <1>0, <1>a, <2>1, <2>7, <3>1, <3>2, <3>3
      DEF TypeOK, OperatorInv, TryInv, WriteInv, SuccessInv, LeaderInv, FollowerInv, InTry
  <2> QED
    BY <2>4, <2>5, <2>6, <2>7 DEF IInv
<1>2. CASE ~fresh[p]
  <2>1. UNCHANGED <<lock, known, observedTime, orphans, fresh>>
    BY <1>2 DEF ServeUpdate, Current, observedVars
  <2>2. TypeOK'
    BY <1>0, <1>a, <2>1 DEF TypeOK, Pending
  <2>3. OrphanInv'
    BY <1>0, <2>1 DEF OrphanInv, Replaceable
  <2>4. OperatorInv(p)'
    BY <1>0, <1>2, <1>a, <2>1
    DEF TypeOK, OperatorInv, TryInv, KnownInv, WriteInv, SuccessInv, LeaderInv, FollowerInv,
        InTry, Pending
  <2>5. ASSUME NEW q \in Operators \ {p} PROVE OperatorInv(q)'
    BY <1>a, <2>1, <2>5 DEF IInv, TypeOK, OperatorInv, TryInv, KnownInv, WriteInv, Replaceable,
                            SuccessInv, LeaderInv, FollowerInv, InTry
  <2> QED
    BY <2>2, <2>3, <2>4, <2>5 DEF IInv
<1> QED
  BY <1>1, <1>2, <1>0 DEF TypeOK

(* An update that nobody waits for is applied. *)
LEMMA ServeOrphanInv == ASSUME IInv, NEW rec \in orphans, ServeOrphan(rec) PROVE IInv'
<1> USE ConfigAssumption, DelayAssumption, BoundsAssumption, NoOneAssumption
<1>0. TypeOK /\ OrphanInv /\ rec \in Records /\ rec.holder # NoOne /\ Replaceable(rec.holder)
  BY DEF IInv, TypeOK, OrphanInv
<1>1. /\ lock' = rec /\ orphans' = {}
      /\ known' = [q \in Operators |-> known[q] /\ rec = lock]
      /\ observedTime' = [q \in Operators |-> IF known'[q] THEN observedTime[q] ELSE 0]
      /\ fresh' = [q \in Operators |-> FALSE]
      /\ UNCHANGED <<pc, leading, due, poll, try, final, sent, read, differs, ok, faults>>
  BY DEF ServeOrphan, Write
<1>2. TypeOK'
  <2>1. Write(rec)
    BY DEF ServeOrphan
  <2>2. /\ lock' \in Records /\ orphans' \subseteq Records
        /\ known' \in [Operators -> BOOLEAN] /\ observedTime' \in [Operators -> Ages]
    BY <1>0, <2>1, WriteType
  <2> QED
    BY <1>0, <1>1, <2>2 DEF TypeOK
<1>3. OrphanInv'
  BY <1>1 DEF OrphanInv
<1>4. ASSUME NEW q \in Operators PROVE OperatorInv(q)'
  <2>1. OperatorInv(q)
    BY DEF IInv
  <2>2. TryInv(q)' /\ KnownInv(q)' /\ WriteInv(q)' /\ FollowerInv(q)'
    BY <1>0, <1>1, <2>1 DEF OperatorInv, TryInv, KnownInv, WriteInv, FollowerInv, InTry
  <2>3. SuccessInv(q)'
    BY <1>1, <2>1 DEF OperatorInv, SuccessInv
  <2>4. LeaderInv(q)'
    <3> SUFFICES ASSUME leading[q] PROVE LeaderInv(q)'
      BY <1>1 DEF LeaderInv
    <3>1. /\ rec.holder = q /\ rec.renewed <= lock.renewed
          /\ InTry(q) => try[q] <= rec.renewed
      BY <2>1 DEF OperatorInv, LeaderInv
    <3>2. rec.renewed \in Nat /\ lock.renewed \in Nat /\ poll[q] \in Nat
      BY <1>0 DEF TypeOK, Records, Ages, MaxAge
    <3> QED
      BY <1>1, <2>1, <3>1, <3>2 DEF OperatorInv, LeaderInv, InTry
  <2> QED
    BY <2>2, <2>3, <2>4 DEF OperatorInv
<1> QED
  BY <1>2, <1>3, <1>4 DEF IInv

(* An operator learns that it leads, or that its lease is renewed. *)
LEMMA TrySucceedsInv == ASSUME IInv, NEW p \in Operators, TrySucceeds(p) PROVE IInv'
<1> USE ConfigAssumption, DelayAssumption, BoundsAssumption, NoOneAssumption
<1>0. /\ TypeOK /\ OrphanInv /\ OperatorInv(p) /\ pc[p] = "answer" /\ ok[p]
      /\ try[p] \in 0 .. 2 * MaxDelay
  BY DEF IInv, TrySucceeds, TypeOK
<1>1. TypeOK'
  BY <1>0 DEF TypeOK, TrySucceeds, Returns, Ages, MaxAge
<1>2. OrphanInv'
  BY <1>0 DEF OrphanInv, Replaceable, TrySucceeds
<1>3. OperatorInv(p)'
  BY <1>0, RetryPeriod <= RenewDeadline
  DEF TypeOK, Records, Ages, MaxAge, TrySucceeds, Returns, OperatorInv, TryInv, KnownInv,
      WriteInv, SuccessInv, LeaderInv, FollowerInv, InTry, Pending
<1>4. ASSUME NEW q \in Operators \ {p} PROVE OperatorInv(q)'
  BY <1>4 DEF IInv, TypeOK, TrySucceeds, Returns, OperatorInv, TryInv, KnownInv, WriteInv,
              Replaceable, SuccessInv, LeaderInv, FollowerInv, InTry
<1> QED
  BY <1>1, <1>2, <1>3, <1>4 DEF IInv

-----------------------------------------------------------------------------
(* Ages grow together: what was older stays older. *)
LEMMA OlderFacts ==
  ASSUME NEW a \in Ages, NEW b \in Ages
  PROVE  /\ Older(a) \in Ages /\ a <= Older(a) /\ Older(a) <= a + 1
         /\ a <= b => Older(a) <= Older(b)
         /\ a + 1 <= MaxAge => Older(a) = a + 1
BY ConfigAssumption, DelayAssumption DEF Ages, MaxAge, Older

LEMMA AgedFacts ==
  ASSUME NEW rec \in Records
  PROVE  /\ Aged(rec) \in Records /\ Aged(rec).holder = rec.holder
         /\ rec.holder # NoOne => Aged(rec).renewed = Older(rec.renewed)
<1>1. rec.renewed \in Ages
  BY DEF Records
<1> QED
  BY <1>1, OlderFacts DEF Aged, Records

(* A second passes. *)
LEMMA TickInv == ASSUME IInv, Tick PROVE IInv'
<1> USE ConfigAssumption, DelayAssumption, BoundsAssumption, NoOneAssumption
<1>0. TypeOK /\ OrphanInv
  BY DEF IInv
<1>1. /\ lock' = Aged(lock) /\ orphans' = {Aged(rec) : rec \in orphans}
      /\ UNCHANGED <<pc, leading, final, read, differs, fresh, ok, known, faults>>
  BY DEF Tick
<1>2. /\ lock.renewed \in Ages /\ lock.renewed \in Nat /\ lock'.holder = lock.holder
      /\ lock' \in Records /\ lock'.renewed \in Nat
      /\ lock.holder # NoOne => /\ lock'.renewed = Older(lock.renewed)
                                /\ lock'.renewed >= lock.renewed
                                /\ lock'.renewed <= lock.renewed + 1
      /\ MaxAge \in Nat
  BY <1>0, <1>1, AgedFacts, OlderFacts DEF TypeOK, Records, Ages, MaxAge
<1>3. ASSUME NEW p \in Operators
      PROVE  /\ pc[p] = "wait" => due[p] > 0
             /\ InTry(p) => sent[p] < MaxDelay
             /\ due'[p] = IF pc[p] = "wait" THEN due[p] - 1 ELSE due[p]
             /\ poll'[p] = IF leading[p] THEN poll[p] + 1 ELSE poll[p]
             /\ try'[p] = IF InTry(p) THEN try[p] + 1 ELSE try[p]
             /\ sent'[p] = IF InTry(p) THEN sent[p] + 1 ELSE sent[p]
             /\ observedTime'[p] = IF known[p] THEN Older(observedTime[p]) ELSE 0
             /\ due[p] \in Nat /\ poll[p] \in Nat /\ try[p] \in 0 .. 2 * MaxDelay
             /\ sent[p] \in 0 .. MaxDelay /\ observedTime[p] \in Ages
             /\ OperatorInv(p)
  BY <1>0, <1>3 DEF Tick, TypeOK, IInv
<1>4. ASSUME NEW p \in Operators
      PROVE  InTry(p) => sent[p] + 1 <= MaxDelay /\ try[p] + 1 <= 2 * MaxDelay
  BY <1>3, <1>4 DEF OperatorInv, TryInv, InTry, Pending
<1>5. TypeOK'
  <2>1. orphans' \subseteq Records
    BY <1>0, <1>1, AgedFacts DEF TypeOK
  <2>2. due' \in [Operators -> Nat] /\ poll' \in [Operators -> Nat]
    BY <1>0 DEF TypeOK, Tick
  <2>3. try' \in [Operators -> 0 .. 2 * MaxDelay] /\ sent' \in [Operators -> 0 .. MaxDelay]
    BY <1>3, <1>4 DEF Tick
  <2>4. observedTime' \in [Operators -> Ages]
    BY <1>2, <1>3, OlderFacts DEF Tick, Ages
  <2> QED
    BY <1>0, <1>1, <1>2, <2>1, <2>2, <2>3, <2>4 DEF TypeOK
<1>6. ASSUME NEW r, Replaceable(r) PROVE Replaceable(r)'
  BY <1>2, <1>6 DEF Replaceable
<1>7. OrphanInv'
  <2> SUFFICES ASSUME NEW rec \in orphans
               PROVE  Aged(rec).holder # NoOne /\ Replaceable(Aged(rec).holder)'
    BY <1>1 DEF OrphanInv, Replaceable
  <2>1. rec \in Records /\ rec.holder # NoOne /\ Replaceable(rec.holder)
    BY <1>0 DEF TypeOK, OrphanInv
  <2>2. Aged(rec).holder = rec.holder
    BY <2>1, AgedFacts
  <2> QED
    BY <1>2, <2>1, <2>2 DEF Replaceable
<1>8. ASSUME NEW p \in Operators PROVE OperatorInv(p)'
  <2>1. TryInv(p)' /\ FollowerInv(p)'
    BY <1>1, <1>2, <1>3, <1>8 DEF OperatorInv, TryInv, FollowerInv, InTry, Pending
  <2>2. KnownInv(p)'
    <3> SUFFICES ASSUME known[p] PROVE lock'.holder # NoOne /\ observedTime'[p] <= lock'.renewed
      BY <1>1 DEF KnownInv
    <3>1. lock.holder # NoOne /\ observedTime[p] <= lock.renewed
      BY <1>3, <1>8 DEF OperatorInv, KnownInv
    <3>2. observedTime'[p] <= Older(observedTime[p])
      BY <1>2, <1>3, <1>8, OlderFacts DEF Ages
    <3>3. Older(observedTime[p]) <= Older(lock.renewed)
      BY <1>2, <1>3, <1>8, <3>1, OlderFacts
    <3>4. observedTime'[p] \in Nat /\ Older(observedTime[p]) \in Nat
      BY <1>2, <1>3, <1>8, OlderFacts DEF Ages
    <3> QED
      BY <1>2, <3>1, <3>2, <3>3, <3>4
  <2>3. WriteInv(p)'
    BY <1>1, <1>3, <1>6, <1>8 DEF OperatorInv, WriteInv
  <2>4. SuccessInv(p)'
    BY <1>1, <1>2, <1>3, <1>8 DEF OperatorInv, SuccessInv, InTry, Pending
  <2>5. LeaderInv(p)'
    <3> SUFFICES ASSUME leading[p] PROVE LeaderInv(p)'
      BY <1>1 DEF LeaderInv
    <3>1. LeaderInv(p) /\ poll'[p] = poll[p] + 1 /\ lock.holder = p
      BY <1>3, <1>8 DEF OperatorInv, LeaderInv
    <3>2. InTry(p) => try'[p] = try[p] + 1 /\ try[p] + 1 <= MaxAge
      BY <1>3, <1>4, <1>8 DEF MaxAge
    <3>3. ASSUME NEW rec \in orphans
          PROVE  /\ Aged(rec).holder = p /\ Aged(rec).renewed <= lock'.renewed
                 /\ InTry(p) => try'[p] <= Aged(rec).renewed
      <4>1. /\ rec \in Records /\ rec.renewed \in Ages /\ rec.holder = p
            /\ rec.renewed <= lock.renewed
            /\ InTry(p) => try[p] <= rec.renewed
        BY <1>0, <3>1, <3>3 DEF TypeOK, LeaderInv, Records
      <4>2. Aged(rec).holder = p /\ Aged(rec).renewed = Older(rec.renewed)
        BY <4>1, AgedFacts
      <4>3. Older(rec.renewed) <= Older(lock.renewed)
        BY <1>2, <4>1, OlderFacts
      <4>4. InTry(p) => try[p] + 1 <= Older(rec.renewed)
        BY <1>2, <1>3, <3>2, <4>1 DEF Older, Ages
      <4> QED
        BY <1>2, <3>1, <3>2, <4>2, <4>3, <4>4
    <3>4. InTry(p) /\ ~(pc[p] = "answer" /\ ok[p]) => try'[p] <= lock'.renewed
      BY <1>2, <1>3, <3>1, <3>2 DEF LeaderInv, Older, Ages
    <3>5. /\ pc[p] # "off" /\ lock'.renewed <= poll'[p] + 2 * MaxDelay
          /\ pc[p] = "wait" => poll'[p] + due'[p] <= RenewDeadline + 2 * MaxDelay
          /\ InTry(p) /\ ~final[p] => poll'[p] < RenewDeadline + try'[p]
          /\ InTry(p) /\ final[p] => poll'[p] <= RenewDeadline + 2 * MaxDelay + try'[p]
          /\ InTry(p) => try'[p] <= poll'[p]
      BY <1>2, <1>3, <3>1 DEF LeaderInv
    <3> QED
      BY <1>1, <1>2, <3>1, <3>3, <3>4, <3>5 DEF LeaderInv, InTry
  <2> QED
    BY <2>1, <2>2, <2>3, <2>4, <2>5 DEF OperatorInv
<1> QED
  BY <1>5, <1>7, <1>8 DEF IInv

-----------------------------------------------------------------------------
(* The invariant is inductive. *)
THEOREM Invariance == Spec => []IInv
<1>1. IInv /\ [Next]_vars => IInv'
  <2> SUFFICES ASSUME IInv, [Next]_vars PROVE IInv'
    OBVIOUS
  <2>1. ASSUME NEW p \in Operators, Step(p) PROVE IInv'
    BY <2>1, BeginInv, ServeGetInv, ReceiveGetInv, ServeUpdateInv, TrySucceedsInv, ConflictInv
    DEF Step
  <2>2. CASE UNCHANGED vars
    BY <2>2 DEF vars, opVars, tryVars, observedVars, IInv, TypeOK, OrphanInv, Replaceable,
                OperatorInv, TryInv, KnownInv, WriteInv, SuccessInv, LeaderInv, FollowerInv, InTry
  <2> QED
    BY <2>1, <2>2, TickInv, RequestFailsInv, CrashInv, RestartInv, ServeOrphanInv DEF Next
<1> QED
  BY <1>1, InitInv, PTL DEF Spec

(* Every variable has its type; ages stay within their caps because no     *)
(* answer is overdue.                                                      *)
THEOREM TypeCorrect == Spec => []TypeOK
<1>1. IInv => TypeOK
  BY DEF IInv
<1> QED
  BY <1>1, Invariance, PTL

(* The property AtMostOneLeader: whatever crashes, fails or is applied     *)
(* late, no two operators run their controllers at once.                   *)
THEOREM MutualExclusion == Spec => []AtMostOneLeader
<1>1. IInv => AtMostOneLeader
  BY DEF IInv, OperatorInv, LeaderInv, AtMostOneLeader
<1> QED
  BY <1>1, Invariance, PTL

(* The property LeaderHolds: a leader is named by the lock until it knows  *)
(* that it leads no more, and no write under way can depose it.            *)
THEOREM NoLeaderDeposed == Spec => []LeaderHolds
<1>1. ASSUME IInv PROVE LeaderHolds
  <2> SUFFICES ASSUME NEW p \in Operators, leading[p]
               PROVE  /\ lock.holder = p
                      /\ \A q \in Operators \ {p} : pc[q] = "update" => ~fresh[q]
                      /\ \A rec \in orphans : rec.holder = p /\ rec.renewed <= lock.renewed
    BY DEF LeaderHolds
  <2>1. LeaderInv(p) /\ \A q \in Operators : WriteInv(q)
    BY <1>1 DEF IInv, OperatorInv
  <2>2. \A q \in Operators \ {p} : ~Replaceable(q)
    BY <1>1, HeldInv
  <2> QED
    BY <2>1, <2>2 DEF LeaderInv, WriteInv
<1> QED
  BY <1>1, Invariance, PTL

-----------------------------------------------------------------------------
(***************************************************************************)
(* LeaderElection implements Lease.                                        *)
(***************************************************************************)
(* There is one leader at most, so TheLeader is the one that leads, or     *)
(* nobody; and leading does not depend on the other variables.             *)
LEMMA LeaderIs ==
  ASSUME IInv, IInv'
  PROVE  /\ \A p \in Operators : leading[p] => TheLeader = p /\ lock.holder = p
         /\ \A p \in Operators : leading'[p] => TheLeader' = p /\ lock'.holder = p
         /\ (\A p \in Operators : ~leading[p]) => TheLeader = NoOne
         /\ (\A p \in Operators : ~leading'[p]) => TheLeader' = NoOne
         /\ leading' = leading => TheLeader' = TheLeader
<1>1. \A p, q \in Operators : leading[p] /\ leading[q] => p = q
  BY DEF IInv, OperatorInv, LeaderInv
<1>2. \A p, q \in Operators : leading'[p] /\ leading'[q] => p = q
  BY DEF IInv, OperatorInv, LeaderInv
<1>3. \A p \in Operators : leading[p] => TheLeader = p
  BY <1>1 DEF TheLeader
<1>4. \A p \in Operators : leading'[p] => TheLeader' = p
  BY <1>2 DEF TheLeader
<1>5. /\ (\A p \in Operators : ~leading[p]) => TheLeader = NoOne
      /\ (\A p \in Operators : ~leading'[p]) => TheLeader' = NoOne
      /\ leading' = leading => TheLeader' = TheLeader
  <2>1. ASSUME \A p \in Operators : ~leading[p] PROVE TheLeader = NoOne
    <3>1. {p \in Operators : leading[p]} = {}
      BY <2>1
    <3> QED
      BY <3>1 DEF TheLeader
  <2>2. ASSUME \A p \in Operators : ~leading'[p] PROVE TheLeader' = NoOne
    <3>1. {p \in Operators : leading'[p]} = {}
      BY <2>2
    <3> QED
      BY <3>1 DEF TheLeader
  <2>3. ASSUME leading' = leading PROVE TheLeader' = TheLeader
    BY <1>3, <1>4, <2>1, <2>2, <2>3
  <2> QED
    BY <2>1, <2>2, <2>3
<1>6. /\ \A p \in Operators : leading[p] => lock.holder = p
      /\ \A p \in Operators : leading'[p] => lock'.holder = p
  BY DEF IInv, OperatorInv, LeaderInv
<1> QED
  BY <1>3, <1>4, <1>5, <1>6

(* A write of rec: whoever may write may do so only when nobody else leads,*)
(* and the lease is over unless the record is its own.                     *)
LEMMA WriteIsTake ==
  ASSUME IInv, IInv', NEW rec \in Records, rec.holder \in Operators, Replaceable(rec.holder),
         lock' = rec, UNCHANGED leading
  PROVE  Lock!Next
<1> USE NoOneAssumption
<1>1. /\ lock'.holder = rec.holder /\ lock'.renewed \in Nat /\ TheLeader' = TheLeader
  BY LeaderIs DEF Records, Ages, MaxAge
<1>2. CASE lock.holder = rec.holder
  BY <1>1, <1>2 DEF Lock!Next, Lock!Renew
<1>3. CASE lock.holder # rec.holder
  <2>1. \A q \in Operators : leading[q] => q = rec.holder
    BY HeldInv
  <2>2. \A q \in Operators : ~leading[q]
    BY <1>3, <2>1, LeaderIs
  <2>3. TheLeader = NoOne
    BY <2>2, LeaderIs
  <2>4. lock.holder = NoOne \/ lock.renewed >= LeaseDuration
    BY <1>3 DEF Replaceable
  <2> QED
    BY <1>1, <2>3, <2>4 DEF Lock!Next, Lock!Take
<1> QED
  BY <1>2, <1>3

(* Leadership ends with the operator. *)
LEMMA EndIsStop ==
  ASSUME IInv, IInv', NEW p \in Operators, UNCHANGED lock,
         leading' = leading \/ leading' = [leading EXCEPT ![p] = FALSE]
  PROVE  [Lock!Next]_(Lock!vars)
<1> USE NoOneAssumption
<1>1. CASE leading' = leading
  BY <1>1, LeaderIs DEF Lock!vars
<1>2. CASE leading' = [leading EXCEPT ![p] = FALSE] /\ ~leading[p]
  <2>1. leading' = leading
    BY <1>2 DEF IInv, TypeOK
  <2> QED
    BY <2>1, LeaderIs DEF Lock!vars
<1>3. CASE leading' = [leading EXCEPT ![p] = FALSE] /\ leading[p]
  <2>1. TheLeader = p
    BY <1>3, LeaderIs
  <2>2. \A q \in Operators : ~leading'[q]
    BY <1>3 DEF IInv, TypeOK, OperatorInv, LeaderInv
  <2>3. TheLeader' = NoOne
    BY <2>2, LeaderIs
  <2> QED
    BY <2>1, <2>3 DEF Lock!Next, Lock!Stop
<1> QED
  BY <1>1, <1>2, <1>3

(* Who succeeds holds the lock, and nobody else leads. *)
LEMMA SuccessIsLead ==
  ASSUME IInv, IInv', NEW p \in Operators, TrySucceeds(p)
  PROVE  [Lock!Next]_(Lock!vars)
<1> USE NoOneAssumption
<1>1. /\ lock.holder = p /\ UNCHANGED lock /\ leading' = [leading EXCEPT ![p] = TRUE]
  BY DEF TrySucceeds, IInv, OperatorInv, SuccessInv
<1>2. leading'[p] /\ TheLeader' = p
  BY <1>1, LeaderIs DEF IInv, TypeOK
<1>3. CASE leading[p]
  <2>1. TheLeader = p
    BY <1>3, LeaderIs
  <2> QED
    BY <1>1, <1>2, <2>1 DEF Lock!vars
<1>4. CASE ~leading[p]
  <2>1. \A q \in Operators : ~leading[q]
    BY <1>1, <1>4, LeaderIs
  <2>2. TheLeader = NoOne
    BY <2>1, LeaderIs
  <2> QED
    BY <1>1, <1>2, <2>2 DEF Lock!Next, Lock!Lead
<1> QED
  BY <1>3, <1>4

(* The property FollowsLease: the record passes from one operator to       *)
(* another only when its lease is over and nobody leads, and whoever leads *)
(* was made the leader by the record.                                      *)
THEOREM LeaseImplemented == Spec => FollowsLease
<1> USE NoOneAssumption
<1>1. Init => Lock!Init
  BY DEF Init, NoRecord, TheLeader, Lock!Init
<1>2. IInv /\ IInv' /\ [Next]_vars => [Lock!Next]_(Lock!vars)
  <2> SUFFICES ASSUME IInv, IInv', [Next]_vars PROVE [Lock!Next]_(Lock!vars)
    OBVIOUS
  <2>0. TypeOK /\ OrphanInv
    BY DEF IInv
  <2>1. ASSUME UNCHANGED <<lock, leading>> PROVE [Lock!Next]_(Lock!vars)
    BY <2>1, LeaderIs DEF Lock!vars
  <2>2. CASE Tick
    <3>1. lock' = Aged(lock) /\ TheLeader' = TheLeader
      BY <2>2, LeaderIs DEF Tick
    <3>2. CASE lock.holder = NoOne
      BY <3>1, <3>2 DEF Aged, Lock!vars
    <3>3. CASE lock.holder # NoOne
      <4>1. lock'.holder = lock.holder /\ lock'.renewed \in Nat
        BY <2>0, <3>1, AgedFacts DEF TypeOK, Records, Ages
      <4> QED
        BY <3>1, <3>3, <4>1 DEF Lock!Next, Lock!Renew
    <3> QED
      BY <3>2, <3>3
  <2>3. ASSUME NEW p \in Operators, ServeUpdate(p) PROVE [Lock!Next]_(Lock!vars)
    <3>1. CASE Current(p)
      <4>1. lock' = Mine(p) /\ UNCHANGED leading /\ pc[p] = "update" /\ fresh[p]
        BY <2>3, <3>1 DEF ServeUpdate, Write, Current
      <4>2. Mine(p) \in Records /\ Mine(p).holder = p
        BY <2>0, ConfigAssumption, DelayAssumption DEF TypeOK, Mine, Records, Ages, MaxAge
      <4>3. Replaceable(p)
        BY <4>1 DEF IInv, OperatorInv, WriteInv
      <4> QED
        BY <4>1, <4>2, <4>3, WriteIsTake
    <3>2. CASE ~Current(p)
      BY <2>1, <2>3, <3>2 DEF ServeUpdate
    <3> QED
      BY <3>1, <3>2
  <2>4. ASSUME NEW rec \in orphans, ServeOrphan(rec) PROVE [Lock!Next]_(Lock!vars)
    <3>1. /\ rec \in Records /\ rec.holder \in Operators /\ Replaceable(rec.holder)
          /\ lock' = rec /\ UNCHANGED leading
      BY <2>0, <2>4 DEF TypeOK, Records, OrphanInv, ServeOrphan, Write
    <3> QED
      BY <3>1, WriteIsTake
  <2>5. ASSUME NEW p \in Operators,
               ReceiveGet(p) \/ Conflict(p) \/ RequestFails(p) \/ Crash(p)
        PROVE  [Lock!Next]_(Lock!vars)
    <3>1. UNCHANGED lock /\ (leading' = leading \/ leading' = [leading EXCEPT ![p] = FALSE])
      BY <2>5 DEF ReceiveGet, Conflict, RequestFails, Crash, TryFails, Ends
    <3> QED
      BY <3>1, EndIsStop
  <2>6. ASSUME NEW p \in Operators, Begin(p) \/ ServeGet(p) \/ Restart(p)
        PROVE  [Lock!Next]_(Lock!vars)
    BY <2>1, <2>6 DEF Begin, ServeGet, Restart
  <2>7. CASE UNCHANGED vars
    BY <2>1, <2>7 DEF vars, opVars
  <2> QED
    BY <2>2, <2>3, <2>4, <2>5, <2>6, <2>7, SuccessIsLead DEF Next, Step
<1> QED
  BY <1>1, <1>2, Invariance, PTL DEF Spec, FollowsLease, Lock!Spec
=============================================================================
