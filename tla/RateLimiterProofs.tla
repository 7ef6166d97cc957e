------------------------- MODULE RateLimiterProofs -------------------------
(***************************************************************************)
(* Proofs about the rate limiter, for every set of threads and addresses,  *)
(* every limit, timeout and delay.                                         *)
(*                                                                         *)
(* The overshoot: a request is admitted when fewer than Limit are counted, *)
(* and those that are not counted yet are held by different threads.  The  *)
(* resets: what any thread stores in last_reset was read at most MaxDelay  *)
(* ago, so after a thread's own reset the time it sees is never much older *)
(* than that reset (StoredInv), and its next one is not due (DueInv).      *)
(***************************************************************************)
EXTENDS RateLimiter, FiniteSetTheorems, TLAPS

(* Every admitted request that was counted is in the table.                *)
CountInv ==
  \A i \in Addresses : recorded[i] <= count[i] \/ count[i] = Limit

StoredInv ==
  \A w \in Workers :
    pc[w] = "store" \/ ownAge[w] = Apart \/ lastAge <= ownAge[w] + MaxDelay

DueInv ==
  \A w \in Workers : pc[w] = "clear" => ownAge[w] = Apart

IInv == CountInv /\ OvershootBounded /\ StoredInv /\ DueInv
-----------------------------------------------------------------------------
LEMMA PendingCardinality ==
  ASSUME NEW i
  PROVE  /\ IsFiniteSet(Pending(i))
         /\ Cardinality(Pending(i)) \in Nat
         /\ Cardinality(Pending(i)) <= Cardinality(Workers)
         /\ Cardinality(Workers) \in Nat \ {0}
<1>1. Pending(i) \subseteq Workers
  BY DEF Pending
<1>2. Cardinality(Workers) \in Nat /\ Cardinality(Workers) # 0
  BY WorkersAssumption, FS_CardinalityType, FS_EmptySet
<1> QED
  BY <1>1, <1>2, WorkersAssumption, FS_Subset, FS_CardinalityType

LEMMA InitIInv == Init => IInv
<1> SUFFICES ASSUME Init PROVE IInv
  OBVIOUS
<1> USE DEF Init
<1>1. Apart \in Nat /\ MaxAge \in Nat
  BY TimeAssumption DEF Apart, MaxAge
<1>2. TypeOK
  <2>1. /\ 0 \in 0..Limit /\ 0 \in 0..MaxDelay
        /\ MaxAge \in 0..MaxAge /\ Apart \in 0..Apart
    BY <1>1, LimitAssumption, TimeAssumption
  <2> QED
    BY <2>1 DEF TypeOK
<1>3. CountInv /\ StoredInv /\ DueInv
  BY DEF CountInv, StoredInv, DueInv
<1>4. OvershootBounded
  <2> SUFFICES ASSUME NEW i \in Addresses
               PROVE  recorded[i] + Cardinality(Pending(i))
                        <= Limit - 1 + Cardinality(Workers)
    BY <1>2 DEF OvershootBounded
  <2>1. recorded[i] = 0
    OBVIOUS
  <2> QED
    BY <2>1, PendingCardinality, LimitAssumption
<1> QED
  BY <1>2, <1>3, <1>4 DEF IInv
-----------------------------------------------------------------------------
(* Every step keeps the types.                                             *)
LEMMA NextTypeOK == TypeOK /\ [Next]_vars => TypeOK'
<1> SUFFICES ASSUME TypeOK, [Next]_vars PROVE TypeOK'
  OBVIOUS
<1> USE DEF TypeOK, Goes, history
<1>0. Apart \in Nat /\ MaxAge \in Nat /\ MaxDelay \in Nat /\ Limit \in Nat
  BY TimeAssumption, LimitAssumption DEF Apart, MaxAge
<1>1. ASSUME NEW w \in Workers, NEW i \in Addresses, Pre(w, i)
      PROVE  TypeOK'
  BY <1>1 DEF Pre, Admit, Reject, Excuse, Arrive
<1>2. ASSUME NEW w \in Workers, EndSkipped(w) PROVE TypeOK'
  BY <1>2 DEF EndSkipped, Leaves
<1>3. ASSUME NEW w \in Workers, ReadClock(w) PROVE TypeOK'
  BY <1>0, <1>3 DEF ReadClock
<1>4. ASSUME NEW w \in Workers, Check(w) PROVE TypeOK'
  BY <1>0, <1>4 DEF Check, AfterCheck
<1>5. ASSUME NEW w \in Workers, Clear(w) PROVE TypeOK'
  BY <1>0, <1>5 DEF Clear
<1>6. ASSUME NEW w \in Workers, Store(w) PROVE TypeOK'
  <2>1. lastAge' \in 0..MaxAge
    BY <1>0, <1>6, TimeAssumption DEF Store, MaxAge
  <2> QED
    BY <1>0, <1>6, <2>1 DEF Store
<1>7. ASSUME NEW w \in Workers, Add(w) PROVE TypeOK'
  <2>1. \A n \in 0..Limit : Counted(n) \in 0..Limit
    BY <1>0 DEF Counted
  <2>2. count' \in [Addresses -> 0..Limit]
    BY <1>7, <2>1 DEF Add
  <2>3. recorded' \in [Addresses -> Nat]
    <3> DEFINE v == IF verdict[w] = "admitted" THEN recorded[from[w]] + 1
                                               ELSE recorded[from[w]]
    <3>1. from[w] \in Addresses => v \in Nat
      OBVIOUS
    <3>2. recorded' = [recorded EXCEPT ![from[w]] = v]
      BY <1>7 DEF Add
    <3> HIDE DEF v
    <3> QED
      BY <3>1, <3>2
  <2> QED
    BY <1>7, <2>2, <2>3 DEF Add, Leaves
<1>8. ASSUME Tick PROVE TypeOK'
  <2>1. lastAge' \in 0..MaxAge
    BY <1>0, <1>8 DEF Tick, Older
  <2>2. timeAge' \in [Workers -> 0..MaxDelay]
    <3>1. ASSUME NEW w \in Workers, InCheck(w) PROVE timeAge[w] + 1 \in 0..MaxDelay
      BY <1>0, <1>8, <3>1 DEF Tick
    <3> QED
      BY <1>8, <3>1 DEF Tick
  <2>3. ownAge' \in [Workers -> 0..Apart]
    BY <1>0, <1>8 DEF Tick, Older
  <2> QED
    BY <1>8, <2>1, <2>2, <2>3 DEF Tick
<1>9. ASSUME UNCHANGED vars PROVE TypeOK'
  BY <1>9 DEF vars
<1> QED
  BY <1>1, <1>2, <1>3, <1>4, <1>5, <1>6, <1>7, <1>8, <1>9 DEF Next, Handle

(* The ages: only a thread's own reset makes it young.                     *)
LEMMA NextAges ==
  TypeOK /\ StoredInv /\ DueInv /\ [Next]_vars => StoredInv' /\ DueInv'
<1> SUFFICES ASSUME TypeOK, StoredInv, DueInv, [Next]_vars
             PROVE  StoredInv' /\ DueInv'
  OBVIOUS
<1> USE DEF TypeOK, StoredInv, DueInv, Goes, history
<1>0. /\ Apart = Timeout - MaxDelay /\ MaxAge = Timeout + MaxDelay
      /\ Timeout \in Nat /\ MaxDelay \in Nat /\ MaxDelay <= Timeout
  BY TimeAssumption DEF Apart, MaxAge
<1>1. ASSUME NEW w \in Workers, NEW i \in Addresses, Pre(w, i)
      PROVE  StoredInv' /\ DueInv'
  BY <1>1 DEF Pre, Admit, Reject, Excuse, Arrive
<1>2. ASSUME NEW w \in Workers, EndSkipped(w) \/ ReadClock(w) \/ Add(w)
      PROVE  StoredInv' /\ DueInv'
  BY <1>2 DEF EndSkipped, ReadClock, Add
<1>3. ASSUME NEW w \in Workers, Check(w) PROVE StoredInv' /\ DueInv'
  <2>1. AfterCheck(w) = "clear" => ownAge[w] = Apart
    <3> SUFFICES ASSUME Due(w) PROVE ownAge[w] = Apart
      BY DEF AfterCheck
    <3>1. ownAge[w] = Apart \/ lastAge <= ownAge[w] + MaxDelay
      BY <1>3 DEF Check
    <3> QED
      BY <1>0, <3>1 DEF Due
  <2> QED
    BY <1>3, <2>1 DEF Check
<1>4. ASSUME NEW w \in Workers, Clear(w) PROVE StoredInv' /\ DueInv'
  BY <1>4 DEF Clear
<1>5. ASSUME NEW w \in Workers, Store(w) PROVE StoredInv' /\ DueInv'
  <2>1. lastAge' \in 0..MaxDelay
    BY <1>5 DEF Store
  <2> QED
    BY <1>0, <1>5, <2>1 DEF Store
<1>6. ASSUME Tick PROVE StoredInv' /\ DueInv'
  BY <1>0, <1>6 DEF Tick, Older
<1>7. ASSUME UNCHANGED vars PROVE StoredInv' /\ DueInv'
  BY <1>7 DEF vars
<1> QED
  BY <1>1, <1>2, <1>3, <1>4, <1>5, <1>6, <1>7 DEF Next, Handle

-----------------------------------------------------------------------------
(* What the steps do to the requests that were admitted and not counted.   *)
LEMMA PendingKept ==
  ASSUME TypeOK, NEW w \in Workers, NEW i \in Addresses,
         \/ ReadClock(w) \/ Check(w) \/ Clear(w) \/ Store(w) \/ Tick \/ UNCHANGED vars
         \/ \E j \in Addresses : Reject(w, j) \/ Excuse(w, j)
  PROVE  Pending(i)' = Pending(i)
<1> USE DEF TypeOK, Pending, Goes
<1>1. CASE ReadClock(w) \/ Check(w) \/ Clear(w) \/ Store(w)
  BY <1>1 DEF ReadClock, Check, AfterCheck, Clear, Store
<1>2. CASE Tick \/ UNCHANGED vars
  BY <1>2 DEF Tick, vars
<1>3. ASSUME NEW j \in Addresses, Reject(w, j) \/ Excuse(w, j)
      PROVE  Pending(i)' = Pending(i)
  BY <1>3 DEF Reject, Excuse, Arrive
<1> QED
  BY <1>1, <1>2, <1>3

LEMMA PendingLess ==
  ASSUME TypeOK, NEW w \in Workers, NEW i \in Addresses, EndSkipped(w) \/ Add(w)
  PROVE  Pending(i)' = Pending(i) \ {w}
BY DEF TypeOK, Pending, Goes, EndSkipped, Add, Leaves

(* The overshoot is at most one request per thread.                        *)
LEMMA NextCounts ==
  CountInv /\ OvershootBounded /\ [Next]_vars => CountInv' /\ OvershootBounded'
<1> SUFFICES ASSUME TypeOK, CountInv, OvershootBounded, [Next]_vars,
                    NEW i \in Addresses
             PROVE  /\ recorded'[i] <= count'[i] \/ count'[i] = Limit
                    /\ recorded'[i] + Cardinality(Pending(i)')
                         <= Limit - 1 + Cardinality(Workers)
  BY NextTypeOK DEF CountInv, OvershootBounded
<1> DEFINE P == Cardinality(Pending(i))
           Q == Cardinality(Pending(i)')
           W == Cardinality(Workers)
<1>0. /\ P \in Nat /\ W \in Nat \ {0} /\ P <= W
      /\ recorded[i] \in Nat /\ count[i] \in 0..Limit
      /\ Limit \in Nat \ {0}
      /\ recorded[i] <= count[i] \/ count[i] = Limit
      /\ recorded[i] + P <= Limit - 1 + W
  BY PendingCardinality, LimitAssumption DEF TypeOK, CountInv, OvershootBounded
<1>00. Q \in Nat /\ Q <= W
  <2>1. Pending(i)' \subseteq Workers
    BY DEF Pending
  <2> QED
    BY <2>1, WorkersAssumption, FS_Subset, FS_CardinalityType
<1> HIDE DEF P, Q, W
<1> SUFFICES /\ recorded'[i] <= count'[i] \/ count'[i] = Limit
             /\ recorded'[i] + Q <= Limit - 1 + W
  BY DEF Q, W
<1>1. ASSUME NEW w \in Workers, NEW j \in Addresses, Admit(w, j)
      PROVE  /\ recorded'[i] <= count'[i] \/ count'[i] = Limit
             /\ recorded'[i] + Q <= Limit - 1 + W
  <2>1. recorded' = recorded /\ count' = count
    BY <1>1 DEF Admit, Arrive, history
  <2>2. CASE i = j
    <3>1. ~(count[i] >= Limit)
      BY <1>1, <2>2 DEF Admit, Over
    <3> QED
      BY <1>0, <1>00, <2>1, <3>1
  <2>3. CASE i # j
    <3>1. Pending(i)' = Pending(i)
      BY <1>1, <2>3 DEF Admit, Arrive, Goes, Pending, TypeOK
    <3> QED
      BY <1>0, <2>1, <3>1 DEF P, Q
  <2> QED
    BY <2>2, <2>3
<1>2. ASSUME NEW w \in Workers, NEW j \in Addresses, Reject(w, j) \/ Excuse(w, j)
      PROVE  /\ recorded'[i] <= count'[i] \/ count'[i] = Limit
             /\ recorded'[i] + Q <= Limit - 1 + W
  <2>1. recorded' = recorded /\ count' = count
    BY <1>2 DEF Reject, Excuse, Arrive, history
  <2>2. Q = P
    BY <1>2, PendingKept DEF P, Q
  <2> QED
    BY <1>0, <2>1, <2>2
<1>3. ASSUME NEW w \in Workers, EndSkipped(w)
      PROVE  /\ recorded'[i] <= count'[i] \/ count'[i] = Limit
             /\ recorded'[i] + Q <= Limit - 1 + W
  <2>1. recorded' = recorded /\ count' = count
    BY <1>3 DEF EndSkipped, history
  <2>2. Q <= P
    BY <1>3, <1>0, PendingLess, PendingCardinality, FS_RemoveElement DEF P, Q
  <2> QED
    BY <1>0, <1>00, <2>1, <2>2
<1>4. ASSUME NEW w \in Workers, ReadClock(w) \/ Check(w) \/ Store(w)
      PROVE  /\ recorded'[i] <= count'[i] \/ count'[i] = Limit
             /\ recorded'[i] + Q <= Limit - 1 + W
  <2>1. recorded' = recorded /\ count' = count
    BY <1>4 DEF ReadClock, Check, Store, history
  <2>2. Q = P
    BY <1>4, PendingKept DEF P, Q
  <2> QED
    BY <1>0, <2>1, <2>2
<1>5. ASSUME NEW w \in Workers, Clear(w)
      PROVE  /\ recorded'[i] <= count'[i] \/ count'[i] = Limit
             /\ recorded'[i] + Q <= Limit - 1 + W
  <2>1. recorded'[i] = 0 /\ count'[i] = 0
    BY <1>5 DEF Clear
  <2> QED
    BY <1>0, <1>00, <2>1
<1>6. ASSUME NEW w \in Workers, Add(w)
      PROVE  /\ recorded'[i] <= count'[i] \/ count'[i] = Limit
             /\ recorded'[i] + Q <= Limit - 1 + W
  <2>1. Q = IF w \in Pending(i) THEN P - 1 ELSE P
    BY <1>6, PendingLess, PendingCardinality, FS_RemoveElement DEF P, Q
  <2>2. w \in Pending(i) <=> verdict[w] = "admitted" /\ from[w] = i
    BY <1>6 DEF Add, Goes, Pending
  <2>3. CASE from[w] = i
    <3>1. count'[i] = Counted(count[i])
      BY <1>6, <2>3 DEF Add, TypeOK
    <3>2. recorded'[i] = IF verdict[w] = "admitted" THEN recorded[i] + 1 ELSE recorded[i]
      BY <1>6, <2>3 DEF Add, TypeOK
    <3>3. recorded'[i] + Q = recorded[i] + P
      BY <1>0, <2>1, <2>2, <2>3, <3>2
    <3>4. recorded'[i] <= count'[i] \/ count'[i] = Limit
      BY <1>0, <3>1, <3>2 DEF Counted
    <3> QED
      BY <1>0, <3>3, <3>4
  <2>4. CASE from[w] # i
    <3>1. recorded'[i] = recorded[i] /\ count'[i] = count[i]
      BY <1>6, <2>4 DEF Add, TypeOK
    <3> QED
      BY <1>0, <2>1, <2>2, <2>4, <3>1
  <2> QED
    BY <2>3, <2>4
<1>7. ASSUME Tick \/ UNCHANGED vars
      PROVE  /\ recorded'[i] <= count'[i] \/ count'[i] = Limit
             /\ recorded'[i] + Q <= Limit - 1 + W
  <2>1. recorded' = recorded /\ count' = count
    BY <1>7 DEF Tick, vars
  <2>2. Q = P
    BY <1>7, WorkersAssumption, PendingKept DEF P, Q
  <2> QED
    BY <1>0, <2>1, <2>2
<1> QED
  BY <1>1, <1>2, <1>3, <1>4, <1>5, <1>6, <1>7 DEF Next, Pre, Handle

-----------------------------------------------------------------------------
(* The inductive invariant of the rate limiter (ratelimit.rs:143-178).     *)
THEOREM Invariance == Spec => []IInv
<1>1. IInv /\ [Next]_vars => IInv'
  BY NextAges, NextCounts DEF IInv, OvershootBounded
<1> QED
  BY <1>1, InitIInv, PTL DEF Spec

(* The variables keep their types: counts and ages stay in their bounds.   *)
THEOREM TypeCorrect == Spec => []TypeOK
<1>1. IInv => TypeOK
  BY DEF IInv, OvershootBounded
<1> QED
  BY <1>1, Invariance, PTL

(* The admitted requests of an address that are counted since the last     *)
(* reset or are being handled exceed req_limit by less than one per        *)
(* thread, whatever the interleaving of pre (ratelimit.rs:165) and end     *)
(* (ratelimit.rs:175); those whose end hook was skipped are not bounded.   *)
THEOREM OvershootIsBounded == Spec => []OvershootBounded
BY Invariance, PTL DEF IInv

(* A thread's resets (check_reset, ratelimit.rs:150) are a period apart,   *)
(* less the time threads spend in check_reset, however others race it.     *)
THEOREM ResetsAreApart == Spec => OwnResetsApart
<1>1. IInv /\ [Next]_vars =>
        [\A w \in Workers : Clear(w) => ownAge[w] >= Apart]_vars
  BY TimeAssumption DEF IInv, DueInv, Clear, Goes, Apart
<1> QED
  BY <1>1, Invariance, PTL DEF Spec, OwnResetsApart
=============================================================================
