---------------------------- MODULE ServerProofs ----------------------------
(***************************************************************************)
(* Proofs about the server, for every number of threads and connections.   *)
(*                                                                         *)
(* The argument: only a server that passed check has jobs, and a running   *)
(* server is not configured any more, so what check found out stays true.  *)
(* Its timeout is then not zero, so that a job fails only for its client;  *)
(* and a server that stopped has seen a job fail, on its own thread or on  *)
(* every thread of the pool, has just failed to accept, or has a job that  *)
(* cannot allocate what its client announced.                              *)
(***************************************************************************)
EXTENDS Server, FiniteSetTheorems, TLAPS

(* A server that is not running yet has no jobs; one that is, or was, has  *)
(* passed check.                                                           *)
CheckedInv ==
  /\ phase \in {"building", "refused"} => submitted = 0 /\ started = 0
  /\ phase \notin {"building", "refused"} => Check(server)

(* start handles what it accepts at once.                                  *)
SingleInv == phase = "single" => started = submitted

FailedInv == \A c \in failed : clients[c] \in {"crashes", "fails"}

StopInv ==
  /\ phase = "returned" =>
       submitted < Len(clients) /\ clients[submitted + 1] = "fails"
  /\ phase = "panicked" => failed # {}
  /\ phase = "aborted" =>
       Cardinality(failed) = Threads \/ \E c \in 1..submitted : clients[c] = "hogs"

IInv == TypeOK /\ CheckedInv /\ SingleInv /\ FailedInv /\ StopInv
-----------------------------------------------------------------------------
LEMMA InitInv == Init => IInv
BY MaxConnsAssumption
   DEF Init, IInv, TypeOK, CheckedInv, SingleInv, FailedInv, StopInv, New, ServerType,
       Phases, Clients, Pool!Init

(* The owner's steps leave the pool and the clients alone.                 *)
LEMMA OwnerSteps ==
  ASSUME IInv, Configure \/ StartSingle \/ StartThreaded
  PROVE  IInv'
<1>1. UNCHANGED <<clients, queue>>
  BY DEF Configure, StartSingle, StartThreaded, Start
<1>2. CASE Configure
  <2>1. server' \in ServerType
    <3>1. server \in ServerType
      BY DEF IInv, TypeOK
    <3>2. CASE server' \in SocketTimeout(server)
      BY <3>1, <3>2 DEF SocketTimeout, ServerType
    <3>3. CASE server' \in KeepAlive(server)
      BY <3>1, <3>3 DEF KeepAlive, ServerType
    <3>4. CASE server' \in State(server)
      BY <3>1, <3>4 DEF State, ServerType
    <3>5. CASE server' \in Route(server)
      BY <3>1, <3>5 DEF Route, ServerType
    <3>6. CASE server' \in StatefulRoute(server)
      BY <3>1, <3>6 DEF StatefulRoute, ServerType
    <3> QED
      BY <1>2, <3>2, <3>3, <3>4, <3>5, <3>6 DEF Configure
  <2> QED
    BY <1>1, <1>2, <2>1 DEF Configure, IInv, TypeOK, CheckedInv, SingleInv, FailedInv,
                            StopInv, queue
<1>3. CASE StartSingle \/ StartThreaded
  BY <1>1, <1>3 DEF StartSingle, StartThreaded, Start, IInv, TypeOK, Phases, CheckedInv,
                    SingleInv, FailedInv, StopInv, queue, Check
<1> QED
  BY <1>2, <1>3

LEMMA ConnectStep ==
  ASSUME IInv, Connect
  PROVE  IInv'
<1>1. PICK c \in Clients : clients' = Append(clients, c)
  BY DEF Connect
<1>2. clients \in Seq(Clients) /\ Len(clients) < MaxConns
  BY DEF Connect, IInv, TypeOK
<1>3. /\ clients' \in Seq(Clients) /\ Len(clients') = Len(clients) + 1
      /\ \A k \in 1..Len(clients) : clients'[k] = clients[k]
  BY <1>1, <1>2
<1>4. UNCHANGED <<server, phase, queue>> /\ Running
  BY DEF Connect
<1>5. TypeOK'
  BY <1>2, <1>3, <1>4, MaxConnsAssumption DEF IInv, TypeOK, queue
<1>6. CheckedInv' /\ SingleInv' /\ StopInv'
  BY <1>4 DEF IInv, CheckedInv, SingleInv, StopInv, Running, queue
<1>7. FailedInv'
  BY <1>3, <1>4 DEF IInv, TypeOK, FailedInv, queue
<1> QED
  BY <1>5, <1>6, <1>7 DEF IInv

(* A connection is accepted, or accepting fails.                           *)
LEMMA AcceptStep ==
  ASSUME IInv, Accept
  PROVE  IInv'
<1>1. CASE AcceptSingle
  BY <1>1 DEF AcceptSingle, IInv, TypeOK, CheckedInv, SingleInv, FailedInv, StopInv
<1>2. CASE AcceptFails
  BY <1>2 DEF AcceptFails, IInv, TypeOK, Phases, CheckedInv, SingleInv, FailedInv, StopInv,
              queue
<1>3. CASE AcceptThreaded
  BY <1>3 DEF AcceptThreaded, Pool!Submit, IInv, TypeOK, CheckedInv, SingleInv, FailedInv,
              StopInv
<1>4. CASE ExecutePanics
  BY <1>4 DEF ExecutePanics, IInv, TypeOK, Phases, CheckedInv, SingleInv, FailedInv,
              StopInv, queue
<1> QED
  BY <1>1, <1>2, <1>3, <1>4 DEF Accept

(* A job starts, returns or panics.                                        *)
LEMMA JobSteps ==
  ASSUME IInv,
         JobStarts \/ \E c \in active : HandleReturns(c) \/ HandlePanics(c) \/ HandleAborts(c)
  PROVE  IInv'
<1>1. CASE JobStarts
  BY <1>1 DEF JobStarts, Pool!Start, IInv, TypeOK, CheckedInv, SingleInv, FailedInv, StopInv
<1>2. ASSUME NEW c \in active, HandleReturns(c)
      PROVE  IInv'
  BY <1>2 DEF HandleReturns, Pool!Complete, Running, IInv, TypeOK, CheckedInv, SingleInv,
              FailedInv, StopInv
<1>3. ASSUME NEW c \in active, HandlePanics(c)
      PROVE  IInv'
  <2>1. clients[c] \in {"crashes", "fails"}
    BY <1>3 DEF HandlePanics, Panics, Running, IInv, CheckedInv, Check
  <2> QED
    BY <1>3, <2>1 DEF HandlePanics, Pool!Fail, Running, IInv, TypeOK, Phases, CheckedInv,
                      SingleInv, FailedInv, StopInv
<1>4. ASSUME NEW c \in active, HandleAborts(c)
      PROVE  IInv'
  <2>1. c \in 1..submitted /\ clients[c] = "hogs"
    BY <1>4 DEF HandleAborts, Aborts, IInv, TypeOK
  <2> QED
    BY <1>4, <2>1 DEF HandleAborts, Running, queue, IInv, TypeOK, Phases, CheckedInv, SingleInv,
                      FailedInv, StopInv
<1> QED
  BY <1>1, <1>2, <1>3, <1>4

LEMMA StutterStep ==
  ASSUME IInv, UNCHANGED vars
  PROVE  IInv'
BY DEF vars, queue, IInv, TypeOK, CheckedInv, SingleInv, FailedInv, StopInv

(* The inductive invariant holds of every server and its clients           *)
(* (server.rs:102-155).                                                    *)
THEOREM Invariance == Spec => []IInv
<1>1. IInv /\ [Next]_vars => IInv'
  BY OwnerSteps, ConnectStep, AcceptStep, JobSteps, StutterStep DEF Next, Done
<1> QED
  BY InitInv, <1>1, PTL DEF Spec

(* Every variable keeps its type (server.rs:20-50).                        *)
THEOREM TypeCorrect == Spec => []TypeOK
BY Invariance, PTL DEF IInv

(* However the owner orders the builder calls and repeats a refused start, *)
(* no connection is handled by a server that has stateful routes but no    *)
(* state (server.rs:318): the expect of handle.rs:159 cannot fail.         *)
THEOREM StateIsThere == Spec => []StatefulRoutesHaveState
<1>1. ASSUME IInv
      PROVE  StatefulRoutesHaveState
  <2>1. CASE phase \in {"building", "refused"}
    <3>1. active \subseteq 1..0
      BY <1>1, <2>1 DEF IInv, TypeOK, CheckedInv
    <3>2. 1..0 = {}
      OBVIOUS
    <3> QED
      BY <3>1, <3>2 DEF StatefulRoutesHaveState
  <2>2. CASE phase \notin {"building", "refused"}
    BY <1>1, <2>2 DEF IInv, CheckedInv, Check, StatefulRoutesHaveState
  <2> QED
    BY <2>1, <2>2
<1> QED
  BY Invariance, <1>1, PTL

-----------------------------------------------------------------------------
(* The jobs that failed are culprits, of which there are finitely many.    *)
LEMMA FailedAreCulprits ==
  ASSUME IInv
  PROVE  IsFiniteSet(Culprits) /\ failed \subseteq Culprits
<1>1. Len(clients) \in Nat
  BY DEF IInv, TypeOK
<1>2. IsFiniteSet(1..Len(clients)) /\ Culprits \subseteq 1..Len(clients)
  BY <1>1, FS_Interval DEF Culprits
<1>3. IsFiniteSet(Culprits)
  BY <1>2, FS_Subset
<1>4. failed \subseteq Culprits
  BY <1>1 DEF IInv, TypeOK, FailedInv, Culprits
<1> QED
  BY <1>3, <1>4

(* The server stops only for connections that panic, of user code or what  *)
(* the client sent, or accepts that fail: one without a pool, and one for  *)
(* each thread with a pool; or for a client whose body cannot be allocated *)
(* (handle in handle.rs, start and start_threaded in server.rs).           *)
THEOREM StopsHaveCulprits == Spec => []StopsOnlyForCulprits
<1>1. ASSUME IInv
      PROVE  StopsOnlyForCulprits
  <2>1. IsFiniteSet(Culprits) /\ Cardinality(Culprits) \in Nat /\ failed \subseteq Culprits
    BY <1>1, FailedAreCulprits, FS_CardinalityType
  <2>2. ASSUME Culprits # {}
        PROVE  Cardinality(Culprits) >= 1
    BY <2>1, <2>2, FS_EmptySet
  <2>3. CASE phase = "returned"
    <3>1. submitted + 1 \in Culprits
      BY <1>1, <2>3 DEF IInv, TypeOK, StopInv, Culprits
    <3> QED
      BY <2>2, <2>3, <3>1 DEF StopsOnlyForCulprits, Capacity
  <2>4. CASE phase = "panicked"
    BY <1>1, <2>1, <2>2, <2>4 DEF IInv, StopInv, StopsOnlyForCulprits, Capacity
  <2>5. CASE phase = "aborted" /\ Cardinality(failed) = Threads
    <3>1. Cardinality(failed) <= Cardinality(Culprits)
      BY <2>1, FS_Subset
    <3> QED
      BY <1>1, <2>1, <2>5, <3>1, ThreadsAssumption
         DEF IInv, StopInv, StopsOnlyForCulprits, Capacity
  <2> QED
    BY <1>1, <2>3, <2>4, <2>5 DEF IInv, StopInv, StopsOnlyForCulprits
<1> QED
  BY Invariance, <1>1, PTL
=============================================================================
