------------------------ MODULE ThreadedServerProofs ------------------------
(***************************************************************************)
(* Proofs about the server over its thread pool, for every number of       *)
(* threads and connections.                                                *)
(*                                                                         *)
(* The argument: the pool is used as its module allows, so that what is    *)
(* proved of it holds here, too, and each of its steps is the one of the   *)
(* abstract pool that Server makes.  The pool is dropped only when execute *)
(* has found no worker left.  Then every worker is dead of a job of its    *)
(* own, so that as many connections have failed as there are threads.  If  *)
(* the process aborts of an allocation, it is the step of Server's.        *)
(***************************************************************************)
EXTENDS ThreadedServer, ThreadPoolProofs

(* The owner of the pool is the accept loop, or unwinds.                   *)
LoopInv ==
  /\ phase \in {"building", "refused", "threaded", "aborted"}
  /\ phase \in {"building", "refused"} => sent = <<>>
  /\ clients \in Seq(S!Clients)
  /\ kills = 0
  /\ owner \in {"up", "dropping", "aborted"}
  /\ owner # "up" => ReceiverDropped
  /\ owner = "dropping" => phase = "threaded" /\ unwinding /\ Jobs < Len(clients)
  /\ owner = "aborted" => phase = "aborted"

(* Two workers did not die of the same job.                                *)
Dead == {w \in Workers : worker[w] = "dead"}
DeadInv == \A v, w \in Dead : got[v] = got[w] => v = w

-----------------------------------------------------------------------------
(* The server only uses the pool.                                          *)
LEMMA PoolSteps == [ServerNext]_allVars => [Next]_vars
BY DEF ServerNext, allVars, Build, Connect, Accept, AcceptPanics, Abort, WorkerSteps,
       HandleReturns, HandlePanics, HandleAborts, ServerDone, Next, OwnerNext, WorkerNext

(* What start_threaded (server.rs) does to its pool is a behaviour that    *)
(* ThreadPool allows, so that all of the pool's theorems hold of the       *)
(* server: its jobs run once, in order, and workers die of nothing else.   *)
THEOREM UsesThePool == ServerSpec => Spec
<1>1. ServerInit => Init
  BY DEF ServerInit
<1> QED
  BY <1>1, PoolSteps, PTL DEF ServerSpec, Spec

-----------------------------------------------------------------------------
LEMMA InitLoop == ServerInit => LoopInv /\ DeadInv
<1> SUFFICES ASSUME ServerInit PROVE LoopInv /\ DeadInv
  OBVIOUS
<1>1. clients \in Seq(S!Clients)
  BY DEF ServerInit
<1> QED
  BY <1>1 DEF ServerInit, Init, LoopInv, DeadInv, Dead

LEMMA LoopOwner ==
  ASSUME IInv, LoopInv, Build \/ Connect \/ Accept \/ AcceptPanics \/ Abort
  PROVE  LoopInv'
<1>1. CASE Build
  <2>1. UNCHANGED vars /\ UNCHANGED clients /\ phase = "building"
    BY <1>1 DEF Build, S!Configure, S!StartThreaded, S!Start
  <2>2. phase' \in {"building", "threaded", "refused"}
    BY <1>1, <2>1 DEF Build, S!Configure, S!StartThreaded, S!Start
  <2> QED
    BY <2>1, <2>2 DEF LoopInv, vars, ReceiverDropped, Gone, Jobs
<1>2. CASE Connect
  <2>1. UNCHANGED vars /\ UNCHANGED phase
    BY <1>2 DEF Connect, S!Connect
  <2>2. PICK c \in S!Clients : clients' = Append(clients, c)
    BY <1>2 DEF Connect, S!Connect
  <2>3. clients' \in Seq(S!Clients) /\ Len(clients') = Len(clients) + 1
    BY <2>2 DEF LoopInv
  <2>4. Jobs \in Int /\ Len(clients) \in Nat
    BY DEF Jobs, IInv, TypeOK, LoopInv
  <2> QED
    BY <2>1, <2>3, <2>4 DEF LoopInv, vars, ReceiverDropped, Gone, Jobs
<1>3. CASE Accept
  BY <1>3 DEF Accept, Accepting, Execute, serverVars, workerVars, LoopInv
<1>4. CASE AcceptPanics
  BY <1>4 DEF AcceptPanics, Accepting, ExecuteFails, serverVars, workerVars, LoopInv,
              ReceiverDropped, Gone, Jobs
<1>5. CASE Abort
  BY <1>5 DEF Abort, SendKillFails, DropPanics, workerVars, LoopInv, ReceiverDropped, Gone
<1> QED
  BY <1>1, <1>2, <1>3, <1>4, <1>5

(* A worker that makes a step has not ended, so the owner is in its loop.  *)
LEMMA LoopWorker ==
  ASSUME IInv, LoopInv, NEW w \in Workers,
         WorkerSteps(w) \/ HandleReturns(w) \/ HandlePanics(w)
  PROVE  LoopInv' /\ owner = "up" /\ UNCHANGED serverVars
<1>1. ~Gone(w) /\ UNCHANGED ownerVars /\ UNCHANGED serverVars
  BY DEF WorkerSteps, HandleReturns, HandlePanics, Acquire, Recv, JobReturns, JobPanics, Gone
<1> QED
  BY <1>1 DEF LoopInv, ReceiverDropped, ownerVars, serverVars, Jobs

LEMMA LoopAborts ==
  ASSUME IInv, LoopInv, NEW w \in Workers, HandleAborts(w)
  PROVE  LoopInv' /\ owner = "up"
<1>1. ~Gone(w) /\ UNCHANGED <<vars, clients>> /\ phase = "threaded" /\ phase' = "aborted"
  BY DEF HandleAborts, Gone
<1>2. owner = "up"
  BY <1>1 DEF LoopInv, ReceiverDropped
<1> QED
  BY <1>1, <1>2 DEF LoopInv, ReceiverDropped, Gone, vars, Jobs

LEMMA LoopStep ==
  ASSUME IInv, LoopInv, [ServerNext]_allVars
  PROVE  LoopInv'
<1>1. CASE UNCHANGED allVars
  BY <1>1 DEF allVars, vars, serverVars, LoopInv, ReceiverDropped, Gone, Jobs
<1> QED
  BY <1>1, LoopOwner, LoopWorker, LoopAborts DEF ServerNext, ServerDone

(* Whoever dies does so of the job that it ran, which no one else had.     *)
LEMMA DeadStep ==
  ASSUME IInv, OnceInv, DeadInv, [Next]_vars
  PROVE  DeadInv'
<1> USE DEF DeadInv, Dead
<1>1. CASE OwnerNext
  BY <1>1 DEF OwnerNext, Execute, ExecuteFails, DropPool, SendKill, SendKillFails, Join,
              JoinFails, workerVars
<1>2. ASSUME NEW w \in Workers, Acquire(w) \/ Recv(w) \/ JobReturns(w) PROVE DeadInv'
  <2>1. \A v \in Workers \ {w} : worker'[v] = worker[v] /\ got'[v] = got[v]
    BY <1>2 DEF Acquire, Recv, JobReturns, IInv, TypeOK
  <2>2. worker'[w] # "dead"
    <3>1. CASE Recv(w)
      <4>1. taken < Len(sent)
        BY <3>1, RecvDelivers DEF Recv
      <4>2. Received \in {"Job", "Kill"}
        BY <4>1 DEF Received, IInv, TypeOK
      <4> QED
        BY <3>1, <4>2 DEF Recv, AfterRecv, IInv, TypeOK
    <3> QED
      BY <1>2, <3>1 DEF Acquire, JobReturns, IInv, TypeOK
  <2> QED
    BY <2>1, <2>2
<1>3. ASSUME NEW w \in Workers, JobPanics(w) PROVE DeadInv'
  <2>1. /\ got' = got /\ w \in Running
        /\ \A v \in Workers \ {w} : worker'[v] = worker[v]
    BY <1>3 DEF JobPanics, Running, IInv, TypeOK
  <2>2. \A v \in Dead : got[v] # got[w]
    BY <2>1 DEF OnceInv, IInv, DeathInv, DeathsAreJobPanics
  <2> QED
    BY <2>1, <2>2
<1>4. CASE Stopped \/ UNCHANGED vars
  BY <1>4 DEF Stopped, vars
<1> QED
  BY <1>1, <1>2, <1>3, <1>4 DEF Next, WorkerNext

(* When all workers are dead, as many jobs have panicked.                  *)
LEMMA AllPanicked ==
  ASSUME IInv, DeadInv, \A w \in Workers : worker[w] = "dead"
  PROVE  Cardinality(panicked) = Size
<1> DEFINE f == [w \in Workers |-> got[w]]
<1>1. IsFiniteSet(Workers) /\ Cardinality(Workers) = Size
  BY FS_Interval, SizeAssumption DEF Workers
<1>2. f \in [Workers -> panicked]
  BY DEF IInv, DeathInv, DeathsAreJobPanics
<1>3. \A p \in panicked : \E w \in Workers : f[w] = p
  BY DEF IInv, DeathInv
<1>4. \A v, w \in Workers : f[v] = f[w] => v = w
  BY DEF DeadInv, Dead
<1>5. f \in Surjection(Workers, panicked) /\ f \in Injection(Workers, panicked)
  BY <1>2, <1>3, <1>4 DEF Surjection, Injection, IsInjective
<1> QED
  BY <1>1, <1>5, FS_Surjection

-----------------------------------------------------------------------------
(* Server counts as this module does.                                      *)
LEMMA SameCount ==
  \A A : S!Cardinality(A) = Cardinality(A) /\ S!Pool!Cardinality(A) = Cardinality(A)
BY DEF S!Cardinality, S!Pool!Cardinality, Cardinality, S!IsFiniteSet, S!Pool!IsFiniteSet,
       IsFiniteSet

(* A step of the pool alone is none of the server.                         *)
LEMMA Stutters ==
  ASSUME UNCHANGED <<serverVars, Jobs, Started, Active, returned, panicked>>
  PROVE  UNCHANGED S!vars
BY DEF serverVars, S!vars, S!queue

LEMMA AcceptRefines ==
  ASSUME IInv, OnceInv, LoopInv, Accept
  PROVE  S!Next
<1>1. JQ!Submit /\ UNCHANGED serverVars /\ phase = "threaded" /\ Jobs < Len(clients)
  BY ExecuteRefines DEF Accept, Accepting
<1>2. S!Pool!Submit
  BY <1>1, SameCount, SameCardinality DEF JQ!Submit, S!Pool!Submit
<1> QED
  BY <1>1, <1>2 DEF serverVars, S!Next, S!Accept, S!AcceptThreaded

LEMMA AcceptPanicsStutters ==
  ASSUME AcceptPanics
  PROVE  UNCHANGED S!vars
<1>1. UNCHANGED workerVars /\ UNCHANGED <<sent, kills>> /\ UNCHANGED serverVars
  BY DEF AcceptPanics, Accepting, ExecuteFails
<1>2. UNCHANGED <<Active, returned, panicked, Jobs, Started>>
  BY <1>1, SameWorkers DEF Jobs, Started, workerVars
<1> QED
  BY <1>1, <1>2, Stutters

(* The process is aborted when every worker has died of a connection.      *)
LEMMA AbortRefines ==
  ASSUME IInv, DeadInv, LoopInv, Abort
  PROVE  S!Next
<1>1. /\ UNCHANGED workerVars /\ UNCHANGED <<sent, kills, server, clients>>
      /\ phase' = "aborted" /\ owner = "dropping"
  BY DEF Abort, SendKillFails
<1>2. UNCHANGED <<Active, returned, panicked, Jobs, Started>>
  BY <1>1, SameWorkers DEF Jobs, Started, workerVars
<1>3. phase = "threaded" /\ Jobs < Len(clients) /\ unwinding
  BY <1>1 DEF LoopInv
<1>4. S!Cardinality(panicked) = Size
  BY <1>3, AllPanicked, SameCount DEF IInv, DeathInv
<1>5. UNCHANGED S!queue
  BY <1>2 DEF S!queue
<1> QED
  BY <1>1, <1>3, <1>4, <1>5 DEF S!Next, S!Accept, S!ExecutePanics

LEMMA WorkerRefines ==
  ASSUME IInv, OnceInv, NEW w \in Workers, WorkerSteps(w)
  PROVE  S!Next \/ UNCHANGED S!vars
<1>1. UNCHANGED serverVars /\ phase = "threaded"
  BY DEF WorkerSteps
<1>2. CASE Acquire(w)
  <2>1. UNCHANGED <<Jobs, Started, returned, panicked, got>>
    BY <1>2 DEF Acquire, ownerVars, Jobs, Started
  <2>2. Running' = Running
    BY <1>2 DEF Acquire, Running, IInv, TypeOK
  <2> QED
    BY <1>1, <2>1, <2>2, Stutters DEF Active
<1>3. CASE Recv(w)
  <2>1. CASE JQ!Start
    <3>1. S!Pool!Start
      BY <2>1, SameCount, SameCardinality DEF JQ!Start, S!Pool!Start
    <3> QED
      BY <1>1, <3>1 DEF serverVars, S!Next, S!JobStarts
  <2>2. CASE UNCHANGED JQ!vars
    BY <1>1, <2>2, Stutters DEF JQ!vars
  <2> QED
    BY <1>3, <2>1, <2>2, RecvRefines
<1> QED
  BY <1>2, <1>3 DEF WorkerSteps

(* A worker's job is a connection, which ends as its client makes it.      *)
LEMMA HandleRefines ==
  ASSUME IInv, OnceInv, LoopInv, NEW w \in Workers, HandleReturns(w) \/ HandlePanics(w)
  PROVE  S!Next
<1>1. got[w] \in Active /\ UNCHANGED serverVars
  BY JobEndRefines DEF HandleReturns, HandlePanics
<1>2. S!Running
  BY DEF HandleReturns, HandlePanics, S!Running
<1>3. CASE HandleReturns(w)
  <2>1. JQ!Complete(got[w]) /\ S!Ends(got[w]) /\ ~S!Panics(got[w])
    BY <1>3, JobEndRefines DEF HandleReturns
  <2>2. S!HandleReturns(got[w])
    BY <1>1, <1>2, <2>1 DEF JQ!Complete, S!Pool!Complete, S!HandleReturns, serverVars
  <2> QED
    BY <1>1, <2>2 DEF S!Next
<1>4. CASE HandlePanics(w)
  <2>1. JQ!Fail(got[w]) /\ S!Panics(got[w])
    BY <1>4, JobEndRefines DEF HandlePanics
  <2>2. phase # "single"
    BY DEF LoopInv
  <2>3. S!HandlePanics(got[w])
    BY <1>1, <1>2, <2>1, <2>2 DEF JQ!Fail, S!Pool!Fail, S!HandlePanics, serverVars
  <2> QED
    BY <1>1, <2>3 DEF S!Next
<1> QED
  BY <1>3, <1>4

(* The process aborts in Server, too.                                      *)
LEMMA AbortsRefine ==
  ASSUME IInv, LoopInv, NEW w \in Workers, HandleAborts(w)
  PROVE  S!Next
<1>1. /\ w \in Running /\ S!Aborts(got[w]) /\ phase = "threaded" /\ phase' = "aborted"
      /\ UNCHANGED <<vars, server, clients>>
  BY DEF HandleAborts, Running
<1>2. got[w] \in Active
  BY <1>1 DEF Active
<1>3. UNCHANGED S!queue
  BY <1>1 DEF S!queue, vars, Jobs, Started, Active, Running
<1>4. S!HandleAborts(got[w])
  BY <1>1, <1>2, <1>3 DEF S!HandleAborts, S!Running
<1> QED
  BY <1>2, <1>4 DEF S!Next

LEMMA StepRefines ==
  ASSUME IInv, OnceInv, LoopInv, DeadInv, [ServerNext]_allVars
  PROVE  S!Next \/ UNCHANGED S!vars
<1>1. CASE Build
  BY <1>1 DEF Build, S!Next
<1>2. CASE Connect
  BY <1>2 DEF Connect, S!Next
<1>3. CASE UNCHANGED allVars
  BY <1>3, Stutters DEF allVars, vars, serverVars, Jobs, Started, Active, Running
<1> QED
  BY <1>1, <1>2, <1>3, AcceptRefines, AcceptPanicsStutters, AbortRefines, WorkerRefines,
     HandleRefines, AbortsRefine DEF ServerNext, ServerDone

(* The server over the real pool behaves as Server says, for every number  *)
(* of threads and connections (start_threaded in src/lib/server.rs).       *)
THEOREM ServerRefinement == ServerSpec => ImplementsServer
<1>1. ServerInit => S!Init
  <2> SUFFICES ASSUME ServerInit PROVE S!Init
    OBVIOUS
  <2>1. Jobs = 0 /\ Started = 0 /\ Active = {}
    BY DEF ServerInit, Init, Jobs, Started, Active, Running
  <2> QED
    BY <2>1 DEF ServerInit, Init, S!Init, S!Pool!Init
<1>2. IInv /\ OnceInv /\ LoopInv /\ DeadInv /\ [ServerNext]_allVars => [S!Next]_S!vars
  BY StepRefines
<1>3. IInv /\ OnceInv /\ LoopInv /\ DeadInv /\ [ServerNext]_allVars => LoopInv' /\ DeadInv'
  BY LoopStep, DeadStep, PoolSteps
<1>4. ServerSpec => []IInv /\ []OnceInv
  BY UsesThePool, Invariance, JobsRunOnce, PTL
<1> QED
  BY <1>1, <1>2, <1>3, <1>4, InitLoop, PTL DEF ServerSpec, ImplementsServer, S!Spec

-----------------------------------------------------------------------------
(* The theorems about Server, of this server.                              *)
SP == INSTANCE ServerProofs WITH
        Threads <- Size, MaxConns <- MaxJobs,
        status <- "open", submitted <- Jobs, started <- Started, active <- Active,
        completed <- returned, failed <- panicked

LEMMA SameCardinalities ==
  \A A : S!Cardinality(A) = SP!Cardinality(A) /\ S!Pool!Cardinality(A) = SP!Pool!Cardinality(A)
BY DEF S!Cardinality, S!Pool!Cardinality, S!IsFiniteSet, S!Pool!IsFiniteSet,
       SP!Cardinality, SP!Pool!Cardinality, SP!IsFiniteSet, SP!Pool!IsFiniteSet

LEMMA SamePool ==
  /\ S!Pool!Init => SP!Pool!Init
  /\ S!Pool!Submit => SP!Pool!Submit
  /\ S!Pool!Start => SP!Pool!Start
  /\ \A c : S!Pool!Complete(c) => SP!Pool!Complete(c)
  /\ \A c : S!Pool!Fail(c) => SP!Pool!Fail(c)
<1>1. S!Pool!Start => SP!Pool!Start
  BY SameCardinalities DEF S!Pool!Start, SP!Pool!Start
<1>2. S!Pool!Submit => SP!Pool!Submit
  BY SameCardinalities DEF S!Pool!Submit, SP!Pool!Submit
<1> QED
  BY <1>1, <1>2 DEF S!Pool!Init, SP!Pool!Init, S!Pool!Complete, SP!Pool!Complete, S!Pool!Fail,
                    SP!Pool!Fail

LEMMA SameOwner ==
  /\ S!Configure => SP!Configure
  /\ S!StartSingle => SP!StartSingle
  /\ S!StartThreaded => SP!StartThreaded
  /\ S!Connect => SP!Connect
<1>1. S!Configure => SP!Configure
  BY DEF S!Configure, SP!Configure, S!SocketTimeout, SP!SocketTimeout, S!KeepAlive, SP!KeepAlive,
         S!State, SP!State, S!Route, SP!Route, S!StatefulRoute, SP!StatefulRoute, S!queue, SP!queue
<1>2. (S!StartSingle => SP!StartSingle) /\ (S!StartThreaded => SP!StartThreaded)
  BY DEF S!StartSingle, SP!StartSingle, S!StartThreaded, SP!StartThreaded, S!Start, SP!Start,
         S!Check, SP!Check, S!queue, SP!queue
<1>3. S!Connect => SP!Connect
  BY DEF S!Connect, SP!Connect, S!Running, SP!Running, S!Clients, SP!Clients, S!queue, SP!queue
<1> QED
  BY <1>1, <1>2, <1>3

LEMMA SameAccept == S!Accept => SP!Accept
<1>1. S!ExecutePanics => SP!ExecutePanics
  BY SameCardinalities DEF S!ExecutePanics, SP!ExecutePanics, S!queue, SP!queue
<1>2. S!AcceptThreaded => SP!AcceptThreaded
  BY SamePool DEF S!AcceptThreaded, SP!AcceptThreaded
<1>3. (S!AcceptSingle => SP!AcceptSingle) /\ (S!AcceptFails => SP!AcceptFails)
  BY DEF S!AcceptSingle, SP!AcceptSingle, S!AcceptFails, SP!AcceptFails, S!queue, SP!queue
<1> QED
  BY <1>1, <1>2, <1>3 DEF S!Accept, SP!Accept

LEMMA SameJobs ==
  /\ S!JobStarts => SP!JobStarts
  /\ \A c : S!HandleReturns(c) => SP!HandleReturns(c)
  /\ \A c : S!HandlePanics(c) => SP!HandlePanics(c)
  /\ \A c : S!HandleAborts(c) => SP!HandleAborts(c)
<1>1. \A c : S!Ends(c) <=> SP!Ends(c)
  BY DEF S!Ends, SP!Ends
<1>2. \A c : S!Panics(c) <=> SP!Panics(c)
  BY DEF S!Panics, SP!Panics
<1>3. \A c : S!Aborts(c) <=> SP!Aborts(c)
  BY <1>2 DEF S!Aborts, SP!Aborts
<1>4. S!JobStarts => SP!JobStarts
  BY SamePool DEF S!JobStarts, SP!JobStarts
<1>5. \A c : S!HandleReturns(c) => SP!HandleReturns(c)
  BY <1>1, <1>2, SamePool DEF S!HandleReturns, SP!HandleReturns, S!Running, SP!Running
<1>6. \A c : S!HandlePanics(c) => SP!HandlePanics(c)
  BY <1>2, SamePool DEF S!HandlePanics, SP!HandlePanics, S!Running, SP!Running
<1>7. \A c : S!HandleAborts(c) => SP!HandleAborts(c)
  BY <1>3 DEF S!HandleAborts, SP!HandleAborts, S!Running, SP!Running, S!queue, SP!queue, S!vars,
              SP!vars
<1> QED
  BY <1>4, <1>5, <1>6, <1>7

LEMMA SameSpec == S!Spec => SP!Spec
<1>1. S!Init => SP!Init
  BY SamePool DEF S!Init, SP!Init, S!New, SP!New
<1>2. S!vars = SP!vars
  BY DEF S!vars, SP!vars, S!queue, SP!queue
<1>3. S!Done => UNCHANGED SP!vars
  BY <1>2 DEF S!Done, S!vars, SP!vars, S!queue, SP!queue
<1>4. [S!Next]_S!vars => [SP!Next]_SP!vars
  BY <1>2, <1>3, SameOwner, SameAccept, SameJobs
     DEF S!Next, SP!Next, S!vars, SP!vars, S!queue, SP!queue
<1> QED
  BY <1>1, <1>4, PTL DEF S!Spec, SP!Spec

(* What is proved of Server holds of start_threaded with its real pool     *)
(* (server.rs, thread_pool.rs): a stateful route has its state, and the    *)
(* process ends only if as many connections as there are threads have      *)
(* panicked, of user code or what the client sent, or failed in accept, or *)
(* if one has announced a body that cannot be allocated.                   *)
THEOREM ServerKeepsItsPromises ==
  ServerSpec => [](SP!StatefulRoutesHaveState /\ SP!StopsOnlyForCulprits)
<1>1. SP!Spec => []SP!StatefulRoutesHaveState
  BY SizeAssumption, MaxJobsAssumption, SP!StateIsThere
<1>2. SP!Spec => []SP!StopsOnlyForCulprits
  BY SizeAssumption, MaxJobsAssumption, SP!StopsHaveCulprits
<1> QED
  BY <1>1, <1>2, ServerRefinement, SameSpec, PTL DEF ImplementsServer
=============================================================================
