------------------------------ MODULE MCServer ------------------------------
(***************************************************************************)
(* Model checking of Server and ThreadedServer in one run: a server that   *)
(* start runs takes the steps of Server, and one that start_threaded runs  *)
(* those of ThreadedServer, over the real pool.  The properties are        *)
(* Server's, of both; its variables for the pool follow the real one.      *)
(***************************************************************************)
EXTENDS Server

VARIABLES sent, taken, lock, worker, got, returned, panicked, owner, unwinding, kills,
          joined    \* of ThreadPool

poolVars == <<sent, taken, lock, worker, got, returned, panicked, owner, unwinding, kills,
              joined>>
mcVars == <<server, phase, clients, status, submitted, started, active, completed, failed,
            poolVars>>

(* Stateless routes, and a state that no route uses, make no difference to *)
(* the threads.                                                            *)
PooledServers == {s \in ServerType : ~s.stateless /\ (s.state => s.stateful)}

T == INSTANCE ThreadedServer WITH
       Size <- Threads, MaxJobs <- MaxConns, Servers <- PooledServers

MCInit == Init /\ T!ServerInit

WithoutPool == phase # "threaded" /\ phase' # "threaded" /\ UNCHANGED poolVars

WithPool ==
  /\ phase \in {"building", "threaded"} /\ server \in PooledServers
  /\ submitted' = T!Jobs' /\ started' = T!Started' /\ active' = T!Active'
  /\ completed' = returned' /\ failed' = panicked'
  /\ UNCHANGED status

MCNext == (Next /\ WithoutPool) \/ (T!ServerNext /\ WithPool)

(***************************************************************************)
(* As in Server and ThreadPool: threads run, some waiting worker gets the  *)
(* free mutex, and a connection ends that does not hold its thread.  So    *)
(* nobody waits in the channel or for its lock (NobodyStarves) but for     *)
(* connections that hold all of the threads.                               *)
(***************************************************************************)
MCFairSpec ==
  /\ MCInit /\ [][MCNext]_mcVars
  /\ WF_mcVars(Accept /\ WithoutPool)
  /\ \A c \in 1..MaxConns :
       WF_mcVars((HandleReturns(c) \/ HandlePanics(c) \/ HandleAborts(c)) /\ WithoutPool)
  /\ WF_mcVars((T!Accept \/ T!AcceptPanics \/ T!Abort) /\ WithPool)
  /\ WF_mcVars(\E w \in T!Workers : T!Acquire(w) /\ T!WorkerSteps(w) /\ WithPool)
  /\ \A w \in 1..Threads :
       /\ WF_mcVars(T!Recv(w) /\ T!WorkerSteps(w) /\ WithPool)
       /\ WF_mcVars((T!HandleReturns(w) \/ T!HandlePanics(w) \/ T!HandleAborts(w)) /\ WithPool)

(* Both servers implement Server: the one over the real pool as            *)
(* ThreadedServer!ImplementsServer says it.                                *)
ImplementsServer == Spec
=============================================================================
