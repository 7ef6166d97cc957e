-------------------------- MODULE ThreadPoolProofs --------------------------
(***************************************************************************)
(* Proofs about the thread pool, for every number of workers and jobs.     *)
(*                                                                         *)
(* The argument: jobs are sent before Kills and messages are received in   *)
(* order, so the number of workers that exited is the number of Kills      *)
(* received (KillCount).  A worker that would find the channel empty after *)
(* the sender was dropped would be one that did not exit although all Size *)
(* Kills were received, which is one worker too many.                      *)
(***************************************************************************)
EXTENDS ThreadPool, FiniteSetTheorems, TLAPS

Exited == {w \in Workers : worker[w] = "exited"}

(* The loop counters of drop agree with where the owner is.                *)
OwnerInv ==
  /\ owner = "up" => kills = 0 /\ joined = 0 /\ ~unwinding
  /\ owner = "dropping" => joined < Size
  /\ owner = "done" => joined = Size /\ kills = Size
  /\ owner = "panicked" => kills = Size \/ ReceiverDropped
  /\ owner = "aborted" => unwinding
  /\ \A i \in 1..joined : worker[i] = "exited"

(* The channel carries the jobs, then the Kills.                           *)
ChannelInv ==
  /\ kills <= Len(sent)
  /\ \A p \in 1..Len(sent) : sent[p] = IF p <= Jobs THEN "Job" ELSE "Kill"

(* Every job that was received is somewhere.                               *)
JobsInv ==
  /\ returned \cup panicked \subseteq 1..Jobs
  /\ \A w \in Workers :
       worker[w] = "running" => got[w] \in 1..taken /\ got[w] <= Jobs
  /\ \A p \in 1..Jobs :
       p <= taken => \/ p \in returned \cup panicked
                     \/ \E w \in Workers : worker[w] = "running" /\ got[w] = p

(* Deaths and panics match, and a panic that unwinds the owner is the      *)
(* last one.                                                               *)
DeathInv ==
  /\ DeathsAreJobPanics
  /\ \A p \in panicked : \E w \in Workers : worker[w] = "dead" /\ got[w] = p
  /\ unwinding => \A w \in Workers : worker[w] = "dead"
  /\ owner = "panicked" => \E w \in Workers : worker[w] = "dead"

KillCount == Cardinality(Exited) = IF taken > Jobs THEN taken - Jobs ELSE 0

IInv ==
  TypeOK /\ OwnerInv /\ ChannelInv /\ JobsInv /\ DeathInv /\ KillCount
-----------------------------------------------------------------------------
(* The set of workers that exited is finite, and all of Workers when it    *)
(* has Size members.                                                       *)
LEMMA ExitedCardinality ==
  /\ IsFiniteSet(Exited)
  /\ Cardinality(Exited) \in 0..Size
  /\ Cardinality(Exited) = Size => Exited = Workers
<1>1. IsFiniteSet(Workers) /\ Cardinality(Workers) = Size
  BY FS_Interval, SizeAssumption DEF Workers
<1>2. Exited \subseteq Workers
  BY DEF Exited
<1> QED
  BY <1>1, <1>2, FS_Subset, FS_CardinalityType, SizeAssumption

LEMMA InitIInv == Init => IInv
<1> SUFFICES ASSUME Init PROVE IInv
  OBVIOUS
<1> USE DEF Init
<1>1. TypeOK
  <2>1. sent \in Seq({"Job", "Kill"}) /\ Len(sent) = 0
    OBVIOUS
  <2>2. taken \in 0..Len(sent) /\ 0 \in 0..Size
    BY <2>1, SizeAssumption
  <2>3. got \in [Workers -> 0..Len(sent)]
    BY <2>1
  <2> QED
    BY <2>1, <2>2, <2>3 DEF TypeOK
<1>2. OwnerInv /\ ChannelInv /\ JobsInv
  BY SizeAssumption DEF OwnerInv, ChannelInv, JobsInv, Jobs
<1>3. DeathInv
  BY DEF DeathInv, DeathsAreJobPanics
<1>4. Exited = {}
  BY DEF Exited
<1>5. KillCount
  BY <1>4, FS_EmptySet DEF KillCount, Jobs
<1> QED
  BY <1>1, <1>2, <1>3, <1>5 DEF IInv

-----------------------------------------------------------------------------
(* A worker that waits in recv() does not see the channel closed: the      *)
(* unwrap of recv() in the worker loop never fails.                        *)
LEMMA RecvDelivers ==
  ASSUME IInv, NEW w \in Workers, worker[w] = "recv",
         taken < Len(sent) \/ SenderDropped
  PROVE  taken < Len(sent)
<1> SUFFICES ASSUME SenderDropped, taken = Len(sent)
             PROVE  FALSE
  BY DEF IInv, TypeOK
<1>1. ~ReceiverDropped
  BY DEF ReceiverDropped, Gone
<1>2. kills = Size
  BY <1>1 DEF IInv, OwnerInv, SenderDropped
<1>3. taken - Jobs = Size
  BY <1>2, SizeAssumption DEF IInv, TypeOK, Jobs
<1>4. Cardinality(Exited) = Size
  BY <1>3, SizeAssumption DEF IInv, KillCount, TypeOK, Jobs
<1>5. w \in Exited
  BY <1>4, ExitedCardinality
<1> QED
  BY <1>5 DEF Exited

(* The owner's steps leave the workers alone, and a message it sends goes  *)
(* to the end of the channel.                                              *)
LEMMA ExecuteInv == IInv /\ Execute => IInv'
<1> SUFFICES ASSUME IInv, Execute PROVE IInv'
  OBVIOUS
<1> USE DEF Execute, workerVars
<1>1. kills = 0 /\ taken <= Jobs /\ Jobs' = Jobs + 1 /\ Jobs = Len(sent)
  BY DEF IInv, TypeOK, OwnerInv, Jobs
<1>2. TypeOK'
  BY DEF IInv, TypeOK
<1>3. OwnerInv'
  BY DEF IInv, OwnerInv
<1>4. ChannelInv'
  BY <1>1 DEF IInv, TypeOK, ChannelInv
<1>5. JobsInv'
  BY <1>1 DEF IInv, TypeOK, JobsInv
<1>6. DeathInv'
  BY DEF IInv, DeathInv, DeathsAreJobPanics
<1>7. KillCount'
  BY <1>1 DEF IInv, TypeOK, KillCount, Exited
<1> QED
  BY <1>2, <1>3, <1>4, <1>5, <1>6, <1>7 DEF IInv

LEMMA ExecuteFailsInv == IInv /\ ExecuteFails => IInv'
<1> SUFFICES ASSUME IInv, ExecuteFails PROVE IInv'
  OBVIOUS
<1> USE DEF ExecuteFails, workerVars
<1>1. Cardinality(Exited) = 0
  BY DEF IInv, TypeOK, OwnerInv, KillCount, Jobs
<1>2. \A w \in Workers : worker[w] = "dead"
  BY <1>1, ExitedCardinality, FS_EmptySet DEF ReceiverDropped, Gone, Exited
<1>3. TypeOK' /\ OwnerInv'
  BY SizeAssumption DEF IInv, TypeOK, OwnerInv
<1>4. ChannelInv' /\ JobsInv' /\ KillCount'
  BY DEF IInv, ChannelInv, JobsInv, KillCount, Jobs, Exited
<1>5. DeathInv'
  BY <1>2 DEF IInv, DeathInv, DeathsAreJobPanics
<1> QED
  BY <1>3, <1>4, <1>5 DEF IInv

LEMMA DropPoolInv == IInv /\ DropPool => IInv'
<1> SUFFICES ASSUME IInv, DropPool PROVE IInv'
  OBVIOUS
<1> USE DEF DropPool, workerVars
<1>1. TypeOK' /\ OwnerInv'
  BY SizeAssumption DEF IInv, TypeOK, OwnerInv
<1>2. ChannelInv' /\ JobsInv' /\ KillCount'
  BY DEF IInv, ChannelInv, JobsInv, KillCount, Jobs, Exited
<1>3. DeathInv'
  BY DEF IInv, OwnerInv, DeathInv, DeathsAreJobPanics
<1> QED
  BY <1>1, <1>2, <1>3 DEF IInv

LEMMA SendKillInv == IInv /\ SendKill => IInv'
<1> SUFFICES ASSUME IInv, SendKill PROVE IInv'
  OBVIOUS
<1> USE DEF SendKill, KillsLeft, workerVars
<1>1. Jobs' = Jobs /\ Len(sent') = Len(sent) + 1
  BY DEF IInv, TypeOK, Jobs
<1>2. TypeOK'
  BY <1>1, SizeAssumption DEF IInv, TypeOK
<1>3. OwnerInv'
  BY DEF IInv, OwnerInv
<1>4. ChannelInv'
  BY <1>1 DEF IInv, TypeOK, ChannelInv, Jobs
<1>5. JobsInv' /\ KillCount'
  BY <1>1 DEF IInv, JobsInv, KillCount, Exited
<1>6. DeathInv'
  BY DEF IInv, DeathInv, DeathsAreJobPanics
<1> QED
  BY <1>2, <1>3, <1>4, <1>5, <1>6 DEF IInv

(* Fewer than Size workers can have exited, so one of them died.           *)
LEMMA SendKillFailsInv == IInv /\ SendKillFails => IInv'
<1> SUFFICES ASSUME IInv, SendKillFails PROVE IInv'
  OBVIOUS
<1> USE DEF SendKillFails, KillsLeft, DropPanics, workerVars
<1>1. Cardinality(Exited) <= kills
  BY DEF IInv, TypeOK, ChannelInv, KillCount, Jobs
<1>2. Exited # Workers
  <2>1. Cardinality(Workers) = Size
    BY FS_Interval, SizeAssumption DEF Workers
  <2> QED
    BY <1>1, <2>1, SizeAssumption DEF IInv, TypeOK
<1>3. \E w \in Workers : worker[w] = "dead"
  BY <1>2 DEF ReceiverDropped, Gone, Exited
<1>4. TypeOK' /\ OwnerInv'
  BY DEF IInv, TypeOK, OwnerInv, ReceiverDropped, Gone
<1>5. ChannelInv' /\ JobsInv' /\ KillCount'
  BY DEF IInv, ChannelInv, JobsInv, KillCount, Jobs, Exited
<1>6. DeathInv'
  BY <1>3 DEF IInv, DeathInv, DeathsAreJobPanics
<1> QED
  BY <1>4, <1>5, <1>6 DEF IInv

LEMMA JoinInv == IInv /\ Join => IInv'
<1> SUFFICES ASSUME IInv, Join PROVE IInv'
  OBVIOUS
<1> USE DEF Join, AllKillsSent, JoinsOk, workerVars
<1>1. TypeOK'
  BY SizeAssumption DEF IInv, TypeOK, OwnerInv
<1>2. OwnerInv'
  BY SizeAssumption DEF IInv, TypeOK, OwnerInv
<1>3. ChannelInv' /\ JobsInv' /\ KillCount'
  BY DEF IInv, ChannelInv, JobsInv, KillCount, Jobs, Exited
<1>4. DeathInv'
  BY DEF IInv, DeathInv, DeathsAreJobPanics
<1> QED
  BY <1>1, <1>2, <1>3, <1>4 DEF IInv

LEMMA JoinFailsInv == IInv /\ JoinFails => IInv'
<1> SUFFICES ASSUME IInv, JoinFails PROVE IInv'
  OBVIOUS
<1> USE DEF JoinFails, AllKillsSent, DropPanics, workerVars
<1>1. joined + 1 \in Workers
  BY SizeAssumption DEF IInv, TypeOK, OwnerInv, Workers
<1>2. TypeOK' /\ OwnerInv'
  BY DEF IInv, TypeOK, OwnerInv, ReceiverDropped, Gone
<1>3. ChannelInv' /\ JobsInv' /\ KillCount'
  BY DEF IInv, ChannelInv, JobsInv, KillCount, Jobs, Exited
<1>4. DeathInv'
  BY <1>1 DEF IInv, DeathInv, DeathsAreJobPanics
<1> QED
  BY <1>2, <1>3, <1>4 DEF IInv

-----------------------------------------------------------------------------
(* The workers' steps: the owner's part of the invariant only says that    *)
(* ended workers stay ended.                                               *)
LEMMA AcquireInv == ASSUME NEW w \in Workers PROVE IInv /\ Acquire(w) => IInv'
<1> SUFFICES ASSUME IInv, Acquire(w) PROVE IInv'
  OBVIOUS
<1> USE DEF Acquire, ownerVars
<1>1. TypeOK'
  BY DEF IInv, TypeOK
<1>2. OwnerInv'
  BY DEF IInv, TypeOK, OwnerInv, ReceiverDropped, Gone, Workers
<1>3. ChannelInv'
  BY DEF IInv, ChannelInv, Jobs
<1>4. JobsInv'
  BY DEF IInv, TypeOK, JobsInv, Jobs
<1>5. DeathInv'
  BY DEF IInv, TypeOK, DeathInv, DeathsAreJobPanics
<1>6. Exited' = Exited
  BY DEF IInv, TypeOK, Exited
<1>7. KillCount'
  BY <1>6 DEF IInv, KillCount, Jobs
<1> QED
  BY <1>1, <1>2, <1>3, <1>4, <1>5, <1>7 DEF IInv

(* The message is a job exactly when it is among the first Jobs ones; a    *)
(* Kill adds one worker to those that exited.                              *)
LEMMA RecvInv == ASSUME NEW w \in Workers PROVE IInv /\ Recv(w) => IInv'
<1> SUFFICES ASSUME IInv, Recv(w) PROVE IInv'
  OBVIOUS
<1> USE DEF ownerVars
<1>1. taken < Len(sent)
  BY RecvDelivers DEF Recv
<1>2. /\ taken' = taken + 1
      /\ got' = [got EXCEPT ![w] = taken + 1]
      /\ lock' = NoWorker
      /\ Jobs' = Jobs
      /\ UNCHANGED <<ownerVars, returned, panicked>>
  BY <1>1 DEF Recv, Jobs
<1>3. CASE taken + 1 <= Jobs
  <2>1. sent[taken + 1] = "Job"
    BY <1>1, <1>3 DEF IInv, TypeOK, ChannelInv
  <2>2. worker' = [worker EXCEPT ![w] = "running"] /\ worker[w] = "recv"
    BY <1>1, <2>1 DEF Recv, Received, AfterRecv
  <2>3. TypeOK'
    BY <1>1, <1>2, <2>2 DEF IInv, TypeOK
  <2>4. OwnerInv'
    BY <1>2, <2>2 DEF IInv, TypeOK, OwnerInv, ReceiverDropped, Gone, Workers
  <2>5. ChannelInv'
    BY <1>2 DEF IInv, ChannelInv
  <2>6. JobsInv'
    <3>1. \A v \in Workers : worker'[v] = "running" =>
             got'[v] \in 1..taken' /\ got'[v] <= Jobs'
      BY <1>2, <1>3, <2>2 DEF IInv, TypeOK, JobsInv
    <3>2. \A p \in 1..Jobs' : p <= taken' =>
             \/ p \in returned' \cup panicked'
             \/ \E v \in Workers : worker'[v] = "running" /\ got'[v] = p
      <4> SUFFICES ASSUME NEW p \in 1..Jobs, p <= taken + 1,
                          p \notin returned \cup panicked
                   PROVE  \E v \in Workers : worker'[v] = "running" /\ got'[v] = p
        BY <1>2
      <4>1. CASE p = taken + 1
        BY <1>2, <2>2, <4>1 DEF IInv, TypeOK
      <4>2. CASE p <= taken
        BY <1>2, <2>2, <4>2 DEF IInv, TypeOK, JobsInv
      <4> QED
        BY <4>1, <4>2 DEF IInv, TypeOK
    <3> QED
      BY <1>2, <3>1, <3>2 DEF IInv, JobsInv
  <2>7. DeathInv'
    BY <1>2, <2>2 DEF IInv, TypeOK, DeathInv, DeathsAreJobPanics
  <2>8. Exited' = Exited
    BY <2>2 DEF IInv, TypeOK, Exited
  <2>9. KillCount'
    BY <1>2, <1>3, <2>8 DEF IInv, TypeOK, KillCount, Jobs
  <2> QED
    BY <2>3, <2>4, <2>5, <2>6, <2>7, <2>9 DEF IInv
<1>4. CASE ~(taken + 1 <= Jobs)
  <2>1. sent[taken + 1] = "Kill"
    BY <1>1, <1>4 DEF IInv, TypeOK, ChannelInv
  <2>2. worker' = [worker EXCEPT ![w] = "exited"] /\ worker[w] = "recv"
    BY <1>1, <2>1 DEF Recv, Received, AfterRecv
  <2>3. TypeOK'
    BY <1>1, <1>2, <2>2 DEF IInv, TypeOK
  <2>4. OwnerInv'
    BY <1>2, <2>2 DEF IInv, TypeOK, OwnerInv, ReceiverDropped, Gone, Workers
  <2>5. ChannelInv'
    BY <1>2 DEF IInv, ChannelInv
  <2>6. JobsInv'
    BY <1>2, <1>4, <2>2 DEF IInv, TypeOK, JobsInv, Jobs
  <2>7. DeathInv'
    BY <1>2, <2>2 DEF IInv, TypeOK, DeathInv, DeathsAreJobPanics
  <2>8. Exited' = Exited \cup {w} /\ w \notin Exited
    BY <2>2 DEF IInv, TypeOK, Exited
  <2>9. Cardinality(Exited') = Cardinality(Exited) + 1
    BY <2>8, ExitedCardinality, FS_AddElement
  <2>10. KillCount'
    BY <1>2, <1>4, <2>9 DEF IInv, TypeOK, KillCount, Jobs
  <2> QED
    BY <2>3, <2>4, <2>5, <2>6, <2>7, <2>10 DEF IInv
<1> QED
  BY <1>3, <1>4

LEMMA JobReturnsInv ==
  ASSUME NEW w \in Workers PROVE IInv /\ JobReturns(w) => IInv'
<1> SUFFICES ASSUME IInv, JobReturns(w) PROVE IInv'
  OBVIOUS
<1> USE DEF JobReturns, ownerVars
<1>1. TypeOK'
  BY DEF IInv, TypeOK, JobsInv
<1>2. OwnerInv'
  BY DEF IInv, TypeOK, OwnerInv, ReceiverDropped, Gone, Workers
<1>3. ChannelInv'
  BY DEF IInv, ChannelInv, Jobs
<1>4. JobsInv'
  <2>1. /\ Jobs' = Jobs
        /\ returned' \cup panicked' = returned \cup panicked \cup {got[w]}
        /\ \A v \in Workers : v # w => worker'[v] = worker[v]
        /\ worker'[w] # "running"
    BY DEF IInv, TypeOK, Jobs
  <2>2. got[w] \in 1..Jobs
    BY DEF IInv, TypeOK, ChannelInv, JobsInv, Jobs
  <2>3. \A p \in 1..Jobs : p <= taken =>
          \/ p \in returned' \cup panicked'
          \/ \E v \in Workers : worker'[v] = "running" /\ got[v] = p
    BY <2>1 DEF IInv, JobsInv
  <2> QED
    BY <2>1, <2>2, <2>3 DEF IInv, JobsInv
<1>5. DeathInv'
  BY DEF IInv, TypeOK, DeathInv, DeathsAreJobPanics
<1>6. Exited' = Exited
  BY DEF IInv, TypeOK, Exited
<1>7. KillCount'
  BY <1>6 DEF IInv, KillCount, Jobs
<1> QED
  BY <1>1, <1>2, <1>3, <1>4, <1>5, <1>7 DEF IInv

LEMMA JobPanicsInv ==
  ASSUME NEW w \in Workers PROVE IInv /\ JobPanics(w) => IInv'
<1> SUFFICES ASSUME IInv, JobPanics(w) PROVE IInv'
  OBVIOUS
<1> USE DEF JobPanics, ownerVars
<1>1. TypeOK'
  BY DEF IInv, TypeOK, JobsInv
<1>2. OwnerInv'
  BY DEF IInv, TypeOK, OwnerInv, ReceiverDropped, Gone, Workers
<1>3. ChannelInv'
  BY DEF IInv, ChannelInv, Jobs
<1>4. JobsInv'
  <2>1. /\ Jobs' = Jobs
        /\ returned' \cup panicked' = returned \cup panicked \cup {got[w]}
        /\ \A v \in Workers : v # w => worker'[v] = worker[v]
        /\ worker'[w] # "running"
    BY DEF IInv, TypeOK, Jobs
  <2>2. got[w] \in 1..Jobs
    BY DEF IInv, TypeOK, ChannelInv, JobsInv, Jobs
  <2>3. \A p \in 1..Jobs : p <= taken =>
          \/ p \in returned' \cup panicked'
          \/ \E v \in Workers : worker'[v] = "running" /\ got[v] = p
    BY <2>1 DEF IInv, JobsInv
  <2> QED
    BY <2>1, <2>2, <2>3 DEF IInv, JobsInv
<1>5. DeathInv'
  BY DEF IInv, TypeOK, DeathInv, DeathsAreJobPanics
<1>6. Exited' = Exited
  BY DEF IInv, TypeOK, Exited
<1>7. KillCount'
  BY <1>6 DEF IInv, KillCount, Jobs
<1> QED
  BY <1>1, <1>2, <1>3, <1>4, <1>5, <1>7 DEF IInv

LEMMA StutterInv == IInv /\ UNCHANGED vars => IInv'
BY DEF vars, IInv, TypeOK, OwnerInv, ChannelInv, JobsInv, DeathInv, KillCount,
       DeathsAreJobPanics, ReceiverDropped, Gone, Jobs, Exited

-----------------------------------------------------------------------------
(* The inductive invariant holds in every behaviour of the pool.           *)
THEOREM Invariance == Spec => []IInv
<1>1. Init => IInv
  BY InitIInv
<1>2. IInv /\ [Next]_vars => IInv'
  <2> SUFFICES ASSUME IInv, [Next]_vars PROVE IInv'
    OBVIOUS
  <2>1. CASE OwnerNext
    BY <2>1, ExecuteInv, ExecuteFailsInv, DropPoolInv, SendKillInv,
       SendKillFailsInv, JoinInv, JoinFailsInv DEF OwnerNext
  <2>2. ASSUME NEW w \in Workers, WorkerNext(w) PROVE IInv'
    BY <2>2, AcquireInv, RecvInv, JobReturnsInv, JobPanicsInv DEF WorkerNext
  <2>3. CASE Stopped \/ UNCHANGED vars
    BY <2>3, StutterInv DEF Stopped
  <2> QED
    BY <2>1, <2>2, <2>3 DEF Next
<1> QED
  BY <1>1, <1>2, PTL DEF Spec

(* Every variable keeps its type, whatever Size and MaxJobs are.           *)
THEOREM TypeCorrect == Spec => []TypeOK
<1>1. IInv => TypeOK
  BY DEF IInv
<1> QED
  BY <1>1, Invariance, PTL

(* The worker loop's recv().unwrap() never fails: a worker dies only of    *)
(* its own job's panic.                                                    *)
THEOREM WorkersDieOfTheirJobs == Spec => []DeathsAreJobPanics
<1>1. IInv => DeathsAreJobPanics
  BY DEF IInv, DeathInv
<1> QED
  BY <1>1, Invariance, PTL

(* When drop has joined every worker, all that was submitted has returned. *)
LEMMA AllReturned ==
  ASSUME IInv, owner = "done"
  PROVE  returned = 1..Jobs
<1>1. \A w \in Workers : worker[w] = "exited"
  BY DEF IInv, OwnerInv, Workers
<1>2. Exited = Workers
  BY <1>1 DEF Exited
<1>3. Cardinality(Exited) = Size
  BY <1>2, FS_Interval, SizeAssumption DEF Workers
<1>4. Jobs \in Nat /\ taken >= Jobs
  BY <1>3, SizeAssumption DEF IInv, TypeOK, ChannelInv, KillCount, Jobs
<1>5. panicked = {}
  BY <1>1 DEF IInv, DeathInv
<1>6. \A p \in 1..Jobs : p \in returned
  BY <1>1, <1>4, <1>5 DEF IInv, TypeOK, JobsInv
<1> QED
  BY <1>6 DEF IInv, JobsInv

(* A drop that returns has run every submitted job to its end.             *)
THEOREM DropWaitsForJobs == Spec => []ShutdownComplete
<1>1. IInv => ShutdownComplete
  BY AllReturned DEF IInv, ShutdownComplete
<1> QED
  BY <1>1, Invariance, PTL

(* The pool panics only after a job did, and aborts only after the jobs'   *)
(* panics ended all of its workers.                                        *)
THEOREM PanicsHaveACause == Spec => []PanicsArePropagated
<1>1. IInv => PanicsArePropagated
  BY DEF IInv, OwnerInv, DeathInv, PanicsArePropagated
<1> QED
  BY <1>1, Invariance, PTL

-----------------------------------------------------------------------------
(* The refinement of JobQueue.  Running workers have different jobs, and   *)
(* none that has ended: a job is received once.                            *)
OnceInv ==
  /\ \A v, w \in Running : got[v] = got[w] => v = w
  /\ \A w \in Running : got[w] \notin returned \cup panicked

LEMMA OnceStep ==
  ASSUME IInv, OnceInv, [Next]_vars
  PROVE  OnceInv'
<1> USE DEF OnceInv, Running
<1>1. CASE OwnerNext
  BY <1>1 DEF OwnerNext, Execute, ExecuteFails, DropPool, SendKill, SendKillFails, Join,
              JoinFails, workerVars
<1>2. ASSUME NEW w \in Workers, Acquire(w) PROVE OnceInv'
  BY <1>2 DEF Acquire, ownerVars, IInv, TypeOK
<1>3. ASSUME NEW w \in Workers, Recv(w) PROVE OnceInv'
  <2>1. taken < Len(sent)
    BY <1>3, RecvDelivers DEF Recv
  <2>2. /\ \A v \in Workers \ {w} : worker'[v] = worker[v] /\ got'[v] = got[v]
        /\ got'[w] = taken + 1
        /\ UNCHANGED <<returned, panicked>>
    BY <1>3, <2>1 DEF Recv, IInv, TypeOK
  <2>3. taken \in Nat /\ \A v \in Running : got[v] \in 1..taken
    BY DEF IInv, TypeOK, JobsInv
  <2>4. taken + 1 \notin returned \cup panicked
    BY <2>3 DEF IInv, TypeOK
  <2> QED
    BY <2>2, <2>3, <2>4
<1>4. ASSUME NEW w \in Workers, JobReturns(w) \/ JobPanics(w) PROVE OnceInv'
  <2>1. /\ worker'[w] # "running" /\ w \in Running
        /\ \A v \in Workers \ {w} : worker'[v] = worker[v]
        /\ got' = got
        /\ returned' \cup panicked' = returned \cup panicked \cup {got[w]}
    BY <1>4 DEF JobReturns, JobPanics, IInv, TypeOK, ownerVars
  <2> QED
    BY <2>1
<1>5. CASE Stopped \/ UNCHANGED vars
  BY <1>5 DEF Stopped, vars
<1> QED
  BY <1>1, <1>2, <1>3, <1>4, <1>5 DEF Next, WorkerNext

(* A job runs or has panicked on a worker of its own, so there are at most *)
(* as many of them as workers that run or are dead.                        *)
LEMMA JobsOnWorkers ==
  ASSUME IInv, OnceInv, NEW S \in SUBSET Workers,
         \A w \in Workers : worker[w] \in {"running", "dead"} => w \in S
  PROVE  /\ IsFiniteSet(Active) /\ IsFiniteSet(panicked)
         /\ Cardinality(Active) + Cardinality(panicked) <= Cardinality(S)
<1> DEFINE Busy == {w \in Workers : worker[w] \in {"running", "dead"}}
           Jobs2 == Active \cup panicked
           f == [w \in Busy |-> got[w]]
<1>1. IsFiniteSet(S) /\ Busy \subseteq S
  <2>1. IsFiniteSet(Workers)
    BY FS_Interval, SizeAssumption DEF Workers
  <2> QED
    BY <2>1, FS_Subset
<1>2. IsFiniteSet(Busy) /\ Cardinality(Busy) <= Cardinality(S) /\ Cardinality(S) \in Nat
  BY <1>1, FS_Subset, FS_CardinalityType
<1>3. f \in Surjection(Busy, Jobs2)
  <2>1. \A w \in Busy : got[w] \in Jobs2
    BY DEF Active, Running, IInv, DeathInv, DeathsAreJobPanics
  <2>2. \A p \in Jobs2 : \E w \in Busy : got[w] = p
    BY DEF Active, Running, IInv, DeathInv
  <2> QED
    BY <2>1, <2>2 DEF Surjection
<1>4. IsFiniteSet(Jobs2) /\ Cardinality(Jobs2) <= Cardinality(Busy)
  BY <1>2, <1>3, FS_Surjection
<1>5. IsFiniteSet(Active) /\ IsFiniteSet(panicked)
  BY <1>4, FS_Subset
<1>6. Active \cap panicked = {}
  BY DEF OnceInv, Active
<1>7. Cardinality(Jobs2) = Cardinality(Active) + Cardinality(panicked)
  <2>1. Cardinality(Jobs2) = Cardinality(Active) + Cardinality(panicked)
                              - Cardinality(Active \cap panicked)
    BY <1>5, FS_Union
  <2>2. Cardinality(Active \cap panicked) = 0
    BY <1>6, FS_EmptySet
  <2> QED
    BY <1>5, <2>1, <2>2, FS_CardinalityType
<1> QED
  BY <1>2, <1>4, <1>5, <1>7, FS_CardinalityType

(* JobQueue counts as this module does.                                    *)
LEMMA SameCardinality == \A S : JQ!Cardinality(S) = Cardinality(S)
BY DEF JQ!Cardinality, Cardinality, JQ!IsFiniteSet, IsFiniteSet

(* What a step that leaves the workers alone does to the mapped state.     *)
LEMMA SameWorkers ==
  ASSUME UNCHANGED workerVars
  PROVE  UNCHANGED <<Active, returned, panicked>>
BY DEF workerVars, Active, Running

(* A job is submitted while some worker has neither exited nor died.       *)
LEMMA ExecuteRefines ==
  ASSUME IInv, OnceInv, Execute
  PROVE  JQ!Submit
<1>1. UNCHANGED <<Active, returned, panicked, taken>>
  BY SameWorkers DEF Execute, workerVars
<1>2. Jobs = Len(sent) /\ Jobs' = Jobs + 1 /\ taken \in 0..Jobs /\ Jobs \in Nat
  BY DEF Execute, Jobs, IInv, TypeOK, OwnerInv
<1>3. Started' = Started /\ Status' = Status /\ Status = "open"
  BY <1>1, <1>2 DEF Execute, Started, Status
<1>4. Cardinality(panicked) < Size
  <2>1. PICK w \in Workers : ~Gone(w)
    BY DEF Execute, ReceiverDropped
  <2>2. IsFiniteSet(Workers) /\ Cardinality(Workers) = Size /\ Size \in Nat
    BY FS_Interval, SizeAssumption DEF Workers
  <2>3. CASE worker[w] = "running"
    <3>1. Cardinality(Active) + Cardinality(panicked) <= Size
      BY <2>2, JobsOnWorkers
    <3>2. IsFiniteSet(Active) /\ IsFiniteSet(panicked) /\ Active # {}
      BY <2>2, <2>3, JobsOnWorkers DEF Active, Running
    <3> QED
      BY <2>2, <3>1, <3>2, FS_EmptySet, FS_CardinalityType
  <2>4. CASE worker[w] # "running"
    <3>1. Cardinality(Workers \ {w}) = Size - 1
      BY <2>1, <2>2, FS_RemoveElement
    <3>2. \A v \in Workers : worker[v] \in {"running", "dead"} => v \in Workers \ {w}
      BY <2>1, <2>4 DEF Gone
    <3>3. /\ IsFiniteSet(Active) /\ IsFiniteSet(panicked)
          /\ Cardinality(Active) + Cardinality(panicked) <= Size - 1
      BY <3>1, <3>2, JobsOnWorkers
    <3> QED
      BY <2>2, <3>3, FS_CardinalityType
  <2> QED
    BY <2>3, <2>4
<1>5. Jobs < MaxJobs
  BY <1>2 DEF Execute
<1> QED
  BY <1>1, <1>2, <1>3, <1>4, <1>5, SameCardinality DEF JQ!Submit

(* The owner panics, or the process aborts, only when a job has panicked.  *)
LEMMA PanicsBreak ==
  ASSUME IInv, IInv', owner = "dropping", DropPanics,
         UNCHANGED workerVars, UNCHANGED <<sent, unwinding, kills>>
  PROVE  JQ!Break
<1>1. UNCHANGED <<Active, returned, panicked, taken, worker>>
  BY SameWorkers DEF workerVars
<1>2. Status = "closing" /\ Status' = "broken"
  BY DEF Status, DropPanics
<1>3. UNCHANGED <<Jobs, Started>>
  BY <1>1 DEF Jobs, Started
<1>4. \E w \in Workers : worker'[w] = "dead"
  <2>1. 1 \in Workers
    BY SizeAssumption DEF Workers
  <2> QED
    BY <2>1 DEF DropPanics, IInv, DeathInv, OwnerInv
<1>5. panicked # {}
  BY <1>1, <1>4 DEF IInv, DeathInv, DeathsAreJobPanics
<1> QED
  BY <1>1, <1>2, <1>3, <1>5 DEF JQ!Break

LEMMA OwnerRefines ==
  ASSUME IInv, IInv', ShutdownComplete', OnceInv, OwnerNext
  PROVE  JQ!Next \/ UNCHANGED JQ!vars
<1>1. CASE Execute
  BY <1>1, ExecuteRefines DEF JQ!Next
<1>2. CASE ExecuteFails \/ DropPool
  <2>1. UNCHANGED <<Active, returned, panicked, Jobs, Started>>
    BY <1>2, SameWorkers DEF ExecuteFails, DropPool, Jobs, Started, workerVars
  <2>2. Status = "open" /\ Status' = "closing"
    BY <1>2 DEF ExecuteFails, DropPool, Status
  <2> QED
    BY <2>1, <2>2 DEF JQ!Next, JQ!Close
<1>3. CASE SendKill
  <2>1. UNCHANGED <<Active, returned, panicked, Status, taken>>
    BY <1>3, SameWorkers DEF SendKill, Status, workerVars
  <2>2. UNCHANGED <<Jobs, Started>>
    BY <1>3, <2>1 DEF SendKill, Jobs, Started, IInv, TypeOK
  <2> QED
    BY <2>1, <2>2 DEF JQ!vars
<1>4. CASE SendKillFails \/ JoinFails
  BY <1>4, PanicsBreak DEF SendKillFails, JoinFails, JQ!Next
<1>5. CASE Join
  <2>1. UNCHANGED <<Active, returned, panicked, Jobs, Started>>
    BY <1>5, SameWorkers DEF Join, Jobs, Started, workerVars
  <2>2. CASE owner' = "done"
    <3>1. Status = "closing" /\ Status' = "closed" /\ returned = 1..Jobs
      BY <1>5, <2>1, <2>2 DEF Join, Status, ShutdownComplete
    <3> QED
      BY <2>1, <3>1 DEF JQ!Next, JQ!Closed
  <2>3. CASE owner' # "done"
    BY <1>5, <2>1, <2>3 DEF Join, Status, JQ!vars
  <2> QED
    BY <2>2, <2>3
<1> QED
  BY <1>1, <1>2, <1>3, <1>4, <1>5 DEF OwnerNext

(* Receiving a job starts it: the worker that does is neither running nor  *)
(* dead, so fewer than Size jobs run or have panicked.                     *)
LEMMA RecvRefines ==
  ASSUME IInv, OnceInv, NEW w \in Workers, Recv(w)
  PROVE  JQ!Start \/ UNCHANGED JQ!vars
<1>1. taken < Len(sent)
  BY RecvDelivers DEF Recv
<1>2. /\ UNCHANGED <<Status, Jobs, returned, panicked>>
      /\ taken' = taken + 1 /\ got' = [got EXCEPT ![w] = taken + 1]
      /\ worker[w] = "recv"
  BY <1>1 DEF Recv, ownerVars, Status, Jobs
<1>3. \A v \in Workers \ {w} : worker'[v] = worker[v] /\ got'[v] = got[v]
  BY DEF Recv, IInv, TypeOK
<1>4. CASE taken + 1 <= Jobs
  <2>1. worker'[w] = "running" /\ got'[w] = taken + 1
    <3>1. sent[taken + 1] = "Job"
      BY <1>1, <1>4 DEF IInv, TypeOK, ChannelInv
    <3> QED
      BY <1>1, <1>2, <3>1 DEF Recv, Received, AfterRecv, IInv, TypeOK
  <2>2. Active' = Active \cup {taken + 1}
    BY <1>2, <1>3, <2>1 DEF Active, Running
  <2>3. Started = taken /\ Started' = taken + 1 /\ Started < Jobs
    BY <1>1, <1>2, <1>4 DEF Started, IInv, TypeOK, Jobs
  <2>4. Cardinality(Workers \ {w}) = Size - 1
    <3>1. IsFiniteSet(Workers) /\ Cardinality(Workers) = Size
      BY FS_Interval, SizeAssumption DEF Workers
    <3> QED
      BY <3>1, FS_RemoveElement
  <2>5. Cardinality(Active) + Cardinality(panicked) <= Size - 1
    BY <1>2, <2>4, JobsOnWorkers
  <2>6. Cardinality(Active) + Cardinality(panicked) < Size
    <3>1. Cardinality(Active) \in Nat /\ Cardinality(panicked) \in Nat
      BY JobsOnWorkers, FS_CardinalityType
    <3> QED
      BY <2>5, <3>1, SizeAssumption
  <2> QED
    BY <1>2, <2>2, <2>3, <2>6, SameCardinality DEF JQ!Start
<1>5. CASE ~(taken + 1 <= Jobs)
  <2>1. worker'[w] = "exited"
    <3>1. sent[taken + 1] = "Kill"
      BY <1>1, <1>5 DEF IInv, TypeOK, ChannelInv
    <3> QED
      BY <1>1, <1>2, <3>1 DEF Recv, Received, AfterRecv, IInv, TypeOK
  <2>2. Active' = Active
    BY <1>2, <1>3, <2>1 DEF Active, Running
  <2>3. Started' = Started
    BY <1>1, <1>2, <1>5 DEF Started, IInv, TypeOK, Jobs, ChannelInv
  <2> QED
    BY <1>2, <2>2, <2>3 DEF JQ!vars
<1> QED
  BY <1>4, <1>5

LEMMA JobEndRefines ==
  ASSUME IInv, OnceInv, NEW w \in Workers, JobReturns(w) \/ JobPanics(w)
  PROVE  /\ got[w] \in Active
         /\ JobReturns(w) => JQ!Complete(got[w])
         /\ JobPanics(w) => JQ!Fail(got[w])
<1>1. UNCHANGED <<Status, Jobs, Started, got>> /\ got[w] \in Active
  BY DEF JobReturns, JobPanics, ownerVars, Status, Jobs, Started, Active, Running
<1>2. Active' = Active \ {got[w]}
  <2>1. w \in Running /\ Running' = Running \ {w}
    BY DEF JobReturns, JobPanics, Running, IInv, TypeOK
  <2> QED
    BY <1>1, <2>1 DEF Active, OnceInv
<1>3. CASE JobReturns(w)
  BY <1>1, <1>2, <1>3 DEF JobReturns, JobPanics, JQ!Complete, Running, TypeOK, IInv
<1>4. CASE JobPanics(w)
  BY <1>1, <1>2, <1>4 DEF JobReturns, JobPanics, JQ!Fail, Running, TypeOK, IInv
<1> QED
  BY <1>3, <1>4

LEMMA JobsRunOnce == Spec => []OnceInv
<1>1. Init => OnceInv
  BY DEF Init, OnceInv, Running
<1> QED
  BY <1>1, OnceStep, Invariance, PTL DEF Spec

(* The pool is a job queue: what start_threaded (server.rs) relies on.     *)
THEOREM Refinement == Spec => ImplementsJobQueue
<1>1. Init => JQ!Init
  <2> SUFFICES ASSUME Init PROVE JQ!Init
    OBVIOUS
  <2>1. Jobs = 0 /\ Started = 0 /\ Active = {} /\ Status = "open"
    BY DEF Init, Jobs, Started, Active, Running, Status
  <2> QED
    BY <2>1 DEF Init, JQ!Init
<1>2. IInv /\ IInv' /\ ShutdownComplete' /\ OnceInv /\ [Next]_vars => [JQ!Next]_JQ!vars
  <2> SUFFICES ASSUME IInv, IInv', ShutdownComplete', OnceInv, [Next]_vars
               PROVE  JQ!Next \/ UNCHANGED JQ!vars
    OBVIOUS
  <2>1. CASE OwnerNext
    BY <2>1, OwnerRefines
  <2>2. ASSUME NEW w \in Workers, Acquire(w)
        PROVE  UNCHANGED JQ!vars
    <3>1. UNCHANGED <<Status, Jobs, Started, returned, panicked, got>>
      BY <2>2 DEF Acquire, ownerVars, Status, Jobs, Started
    <3>2. Running' = Running
      BY <2>2 DEF Acquire, Running, IInv, TypeOK
    <3> QED
      BY <3>1, <3>2 DEF Active, JQ!vars
  <2>3. ASSUME NEW w \in Workers, WorkerNext(w)
        PROVE  JQ!Next \/ UNCHANGED JQ!vars
    BY <2>2, <2>3, RecvRefines, JobEndRefines DEF WorkerNext, JQ!Next
  <2>4. CASE Stopped \/ UNCHANGED vars
    BY <2>4 DEF Stopped, vars, Status, Jobs, Started, Active, Running, JQ!vars
  <2> QED
    BY <2>1, <2>3, <2>4 DEF Next
<1> QED
  BY <1>1, <1>2, JobsRunOnce, Invariance, DropWaitsForJobs, PTL DEF Spec, ImplementsJobQueue, JQ!Spec
=============================================================================
