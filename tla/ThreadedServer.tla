--------------------------- MODULE ThreadedServer ---------------------------
(***************************************************************************)
(* The server that start_threaded runs (src/lib/server.rs), with the       *)
(* thread pool it really has: the owner of the pool is the accept loop,    *)
(* and a job is handle for the connection that was accepted.               *)
(*                                                                         *)
(* Module Server has the pool's specification in its place.  The pool is   *)
(* a local of start_threaded, whose loop has no end: it is dropped only    *)
(* when execute panics in it.  A process that aborts takes all its threads *)
(* with it, so every step of theirs has phase = "threaded".                *)
(***************************************************************************)
EXTENDS ThreadPool

CONSTANT Servers    \* what the owner may make of the server

VARIABLES server, phase, clients    \* as in Server

serverVars == <<server, phase, clients>>
allVars == <<vars, serverVars>>

S == INSTANCE Server WITH
       Threads <- Size, MaxConns <- MaxJobs,
       status <- "open", submitted <- Jobs, started <- Started, active <- Active,
       completed <- returned, failed <- panicked

ServerInit ==
  /\ Init
  /\ server = S!New
  /\ phase = "building"
  /\ clients = <<>>

-----------------------------------------------------------------------------
(* The builder methods and start_threaded, before there is a pool.         *)
Build ==
  /\ UNCHANGED vars
  /\ (S!Configure /\ server' \in Servers) \/ S!StartThreaded

Connect == UNCHANGED vars /\ S!Connect

(* The next result of accept(2) is there.                                  *)
Accepting == phase = "threaded" /\ Jobs < Len(clients) /\ UNCHANGED serverVars

Accept == Accepting /\ Execute

(* send(job).unwrap() panics in the loop, and unwinding drops the pool,    *)
(* whose first send panics, too.                                           *)
AcceptPanics == Accepting /\ ExecuteFails

Abort ==
  /\ phase = "threaded"
  /\ SendKillFails
  /\ phase' = "aborted"
  /\ UNCHANGED <<server, clients>>

-----------------------------------------------------------------------------
(* The workers, and handle on one of them.                                 *)
WorkerSteps(w) ==
  /\ phase = "threaded"
  /\ Acquire(w) \/ Recv(w)
  /\ UNCHANGED serverVars

HandleReturns(w) ==
  /\ phase = "threaded"
  /\ JobReturns(w)
  /\ S!Ends(got[w]) /\ ~S!Panics(got[w])
  /\ UNCHANGED serverVars

HandlePanics(w) ==
  /\ phase = "threaded"
  /\ JobPanics(w)
  /\ S!Panics(got[w])
  /\ UNCHANGED serverVars

HandleAborts(w) ==
  /\ phase = "threaded"
  /\ worker[w] = "running" /\ S!Aborts(got[w])
  /\ phase' = "aborted"
  /\ UNCHANGED <<vars, server, clients>>

ServerDone == UNCHANGED allVars /\ S!Done

ServerNext ==
  \/ Build \/ Connect \/ Accept \/ AcceptPanics \/ Abort
  \/ \E w \in Workers :
       WorkerSteps(w) \/ HandleReturns(w) \/ HandlePanics(w) \/ HandleAborts(w)
  \/ ServerDone

ServerSpec == ServerInit /\ [][ServerNext]_allVars

-----------------------------------------------------------------------------
(* The server over the real pool is a server over a pool as specified: the *)
(* process ends only if every worker has, each of them through the client  *)
(* of its own connection, or if one of them could not allocate a body.     *)
ImplementsServer == S!Spec
=============================================================================
