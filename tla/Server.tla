------------------------------- MODULE Server -------------------------------
(***************************************************************************)
(* The server (src/lib/server.rs): its owner configures it with the        *)
(* builder methods and starts it, without a pool (start) or with one       *)
(* (start_threaded); the accept loop then takes one connection after the   *)
(* other and handles it on its own thread or submits it to the pool.       *)
(*                                                                         *)
(* The pool is its specification JobQueue, which ThreadPool implements; a  *)
(* job is a connection.  Module Connection tells how a connection ends:    *)
(* here a client is known by what it makes of the thread that serves it.   *)
(***************************************************************************)
EXTENDS Integers, Sequences, FiniteSets

CONSTANTS Threads,    \* the argument of start_threaded
          MaxConns    \* bound: how many connections are made

ASSUME ThreadsAssumption == Threads \in Nat \ {0}
ASSUME MaxConnsAssumption == MaxConns \in Nat

(* A client that closes after its requests, that stays silent after one    *)
(* with keep-alive, that never stops sending those, that sends nothing;    *)
(* one whose connection panics, be it in user code that it has called (the *)
(* error handler, a streamed body, a poisoned socket) or, by its bytes     *)
(* alone, in from_socket: a header line cut within a character, a          *)
(* Content-Length beyond the address space; one with a Content-Length that *)
(* cannot be allocated; an accept(2) that fails.                           *)
Clients == {"leaves", "stays", "busy", "silent", "crashes", "hogs", "fails"}

VARIABLES
  server,     \* what the builder methods have set
  phase,      \* where the owner's thread is
  clients,    \* who has connected, in this order
  status, submitted, started, active, completed, failed   \* of JobQueue

queue == <<status, submitted, started, active, completed, failed>>
vars == <<server, phase, clients, queue>>

Pool == INSTANCE JobQueue WITH Size <- Threads, MaxJobs <- MaxConns

ServerType == [
  stateless : BOOLEAN, stateful : BOOLEAN,  \* whether it has such routes
  state : BOOLEAN,                          \* whether it is Some
  keep_alive : BOOLEAN,
  socket_timeout : {"None", "Zero", "Some"}]

(* "refused" is a server that start_threaded consumed without running it;  *)
(* start has returned an error ("returned") or panicked ("panicked"); the  *)
(* process is gone ("aborted").                                            *)
Phases == {"building", "single", "threaded", "refused", "returned", "panicked", "aborted"}

Running == phase \in {"single", "threaded"}

TypeOK ==
  /\ server \in ServerType
  /\ phase \in Phases
  /\ clients \in Seq(Clients) /\ Len(clients) <= MaxConns
  /\ status = "open"
  /\ submitted \in 0..Len(clients) /\ started \in 0..submitted
  /\ active \subseteq 1..started /\ completed \subseteq 1..started
  /\ failed \subseteq 1..started
  /\ active \cap completed = {} /\ failed \cap (active \cup completed) = {}

(* Server::new.                                                            *)
New == [stateless |-> FALSE, stateful |-> FALSE, state |-> FALSE,
        keep_alive |-> TRUE, socket_timeout |-> "None"]

Init ==
  /\ server = New
  /\ phase = "building"
  /\ clients = <<>>
  /\ Pool!Init

-----------------------------------------------------------------------------
(* The owner.                                                              *)

(* What a call to a builder method changes of the server.                  *)
SocketTimeout(s) == {[s EXCEPT !.socket_timeout = t] : t \in {"Zero", "Some"}}
KeepAlive(s) == {[s EXCEPT !.keep_alive = k] : k \in BOOLEAN}
State(s) == {[s EXCEPT !.state = TRUE]}
Route(s) == {[s EXCEPT !.stateless = TRUE]}
StatefulRoute(s) == {[s EXCEPT !.stateful = TRUE]}

Configure ==
  /\ phase = "building"
  /\ server' \in SocketTimeout(server) \cup KeepAlive(server) \cup State(server)
                   \cup Route(server) \cup StatefulRoute(server)
  /\ UNCHANGED <<phase, clients, queue>>

CheckStateOnlyMutant(s) == s.stateful => s.state
CheckTimeoutOnlyMutant(s) == s.socket_timeout # "Zero"

Check(s) ==
  /\ s.stateful => s.state
  /\ s.socket_timeout # "Zero"

(* start borrows the server, so a refused one can be mended;               *)
(* start_threaded consumes it.  The address may be in use.                 *)
Start(to, refused) ==
  /\ phase = "building"
  /\ phase' \in (IF Check(server) THEN {to, refused} ELSE {refused})
  /\ UNCHANGED <<server, clients, queue>>

StartSingle == Start("single", "building")
StartThreaded == Start("threaded", "refused")

-----------------------------------------------------------------------------
(* The accept loop.                                                        *)

Connect ==
  /\ Running /\ Len(clients) < MaxConns
  /\ \E c \in Clients : clients' = Append(clients, c)
  /\ UNCHANGED <<server, phase, queue>>

(* start: nothing is accepted while a connection is handled.               *)
AcceptSingle ==
  /\ phase = "single" /\ active = {}
  /\ submitted < Len(clients)
  /\ clients[submitted + 1] # "fails"
  /\ submitted' = submitted + 1 /\ started' = started + 1
  /\ active' = {submitted + 1}
  /\ UNCHANGED <<server, phase, clients, status, completed, failed>>

(* event? returns from start, and with it from the loop.                   *)
AcceptFails ==
  /\ phase = "single" /\ active = {}
  /\ submitted < Len(clients)
  /\ clients[submitted + 1] = "fails"
  /\ phase' = "returned"
  /\ UNCHANGED <<server, clients, queue>>

(* start_threaded: the job has the result of accept, good or bad.          *)
AcceptThreaded ==
  /\ phase = "threaded"
  /\ submitted < Len(clients)
  /\ Pool!Submit
  /\ UNCHANGED <<server, phase, clients>>

(* Without a worker, execute panics; the pool is dropped while the thread  *)
(* unwinds and panics again, which aborts the process.                     *)
ExecutePanics ==
  /\ phase = "threaded"
  /\ submitted < Len(clients)
  /\ Cardinality(failed) = Threads
  /\ phase' = "aborted"
  /\ UNCHANGED <<server, clients, queue>>

-----------------------------------------------------------------------------
(* handle, on the thread of start or of a worker.                          *)

JobStarts ==
  /\ phase = "threaded"
  /\ Pool!Start
  /\ UNCHANGED <<server, phase, clients>>

EndsWithoutTimeoutMutant(c) ==
  \/ clients[c] = "leaves"
  \/ clients[c] \in {"stays", "busy"} /\ ~server.keep_alive

(* With a client that goes on, handle ends if the server does not keep the *)
(* connection alive, or when a read or write waits longer than the timeout.*)
Ends(c) ==
  \/ clients[c] = "leaves"
  \/ clients[c] \in {"stays", "busy"} /\ ~server.keep_alive
  \/ clients[c] \in {"stays", "silent"} /\ server.socket_timeout = "Some"

(* set_read_timeout refuses a timeout of zero, and event.unwrap() an error;*)
(* from_socket, write and the error handler are called outside of any      *)
(* catch_unwind.                                                           *)
Panics(c) == clients[c] \in {"crashes", "fails"} \/ server.socket_timeout = "Zero"

(* An allocation that fails (the body's, in from_socket) is no panic.      *)
Aborts(c) == clients[c] = "hogs" /\ ~Panics(c)

(* The connections that do not end by themselves.                         *)
Held == {c \in active : ~Ends(c) /\ ~Panics(c) /\ ~Aborts(c)}

HandleReturns(c) ==
  /\ Running
  /\ c \in active /\ Ends(c) /\ ~Panics(c)
  /\ Pool!Complete(c)
  /\ UNCHANGED <<server, phase, clients>>

(* The panic ends the worker, or leaves start.                             *)
HandlePanics(c) ==
  /\ Running
  /\ c \in active /\ Panics(c)
  /\ Pool!Fail(c)
  /\ phase' = IF phase = "single" THEN "panicked" ELSE phase
  /\ UNCHANGED <<server, clients>>

HandleAborts(c) ==
  /\ Running
  /\ c \in active /\ Aborts(c)
  /\ phase' = "aborted"
  /\ UNCHANGED <<server, clients, queue>>

Done ==
  /\ \/ phase \in {"refused", "returned", "panicked", "aborted"}
     \/ Running /\ Len(clients) = MaxConns /\ Held = active
  /\ UNCHANGED vars

Accept == AcceptSingle \/ AcceptFails \/ AcceptThreaded \/ ExecutePanics

Next ==
  \/ Configure \/ StartSingle \/ StartThreaded
  \/ Connect \/ Accept \/ JobStarts
  \/ \E c \in active : HandleReturns(c) \/ HandlePanics(c) \/ HandleAborts(c)
  \/ Done

Spec == Init /\ [][Next]_vars

(***************************************************************************)
(* The threads run, and a timeout that is set expires.  The owner need not *)
(* start the server and nobody need connect.                               *)
(***************************************************************************)
FairSpec ==
  /\ Spec
  /\ WF_vars(Accept) /\ WF_vars(JobStarts)
  /\ \A c \in 1..MaxConns : WF_vars(HandleReturns(c) \/ HandlePanics(c) \/ HandleAborts(c))

-----------------------------------------------------------------------------
(* "If you add a stateful route, you must also set the state or starting   *)
(* the sever will return an error" (server.rs:318), whatever the order of  *)
(* the calls and however often a refused start is repeated: the expect of  *)
(* handle.rs:159 cannot fail.                                              *)
StatefulRoutesHaveState ==
  active # {} /\ server.stateful => server.state

Capacity == IF phase \in {"threaded", "aborted"} THEN Threads ELSE 1

(* The server stops for as many connections that panic, or accepts that    *)
(* fail, as it has threads: one without a pool, and as many as there are   *)
(* workers with one.  A client can make each of them panic by what it      *)
(* sends.  Or one connection is enough, of a client that announces a body  *)
(* which cannot be allocated.  Nothing else stops it.                      *)
Culprits == {c \in 1..Len(clients) : c <= submitted + 1 /\ clients[c] \in {"crashes", "fails"}}
StopsOnlyForCulprits ==
  phase \in {"returned", "panicked", "aborted"} =>
    \/ Cardinality(Culprits) >= Capacity
    \/ phase = "aborted" /\ \E c \in 1..submitted : clients[c] = "hogs"

(* Who holds a thread for as long as it likes: a client that goes on, if   *)
(* keep-alive is on and it either never pauses or no timeout is set, and a *)
(* silent one without a timeout.                                           *)
Holds(c) ==
  /\ c \in active
  /\ \/ clients[c] = "busy" /\ server.keep_alive
     \/ clients[c] = "stays" /\ server.keep_alive /\ server.socket_timeout = "None"
     \/ clients[c] = "silent" /\ server.socket_timeout = "None"

(* Every connection is served to its end, or its client holds its thread,  *)
(* or all threads are held or dead: "the server will not hang on a request *)
(* for too long" with a timeout (server.rs:182), and "If you aren't using  *)
(* a threadpool, you may want to set" keep_alive to false (server.rs:210). *)
NobodyStarves ==
  \A c \in 1..MaxConns :
    Running /\ c <= Len(clients) ~>
      \/ c \in completed \cup failed \/ Holds(c)
      \/ ~Running
      \/ Cardinality({d \in active : Holds(d)} \cup failed) >= Capacity
=============================================================================
