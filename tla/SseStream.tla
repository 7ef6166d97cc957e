----------------------------- MODULE SseStream -----------------------------
(***************************************************************************)
(* The server-sent event streams of one connection                         *)
(* (src/lib/http/server_sent_events.rs): what their owners, their worker   *)
(* threads and the connection loop do with the one socket they share.      *)
(*                                                                         *)
(* A stream is made by a route from its request.  The route uses it until  *)
(* it returns, or moves it to a thread of its own (it is detached).  Each  *)
(* stream has an unbounded channel to a worker thread, which writes the    *)
(* events; the connection loop (Connection) holds the socket's mutex for   *)
(* as long as it waits for the next request, and a worker for as long as   *)
(* it waits for the client to take what it writes: for ever, or until the  *)
(* server's socket_timeout, if one is set, ends the write half done.       *)
(*                                                                         *)
(* Messages are numbered in the order they are sent.  An event and a new   *)
(* retry interval are the same here: something to write.                   *)
(*                                                                         *)
(* Definitions named ...Mutant are described in the README ("Mutants").    *)
(***************************************************************************)
EXTENDS Integers, Sequences, Functions

CONSTANTS
  MaxStreams,   \* bound: how many streams are made on this connection
  MaxEvents,    \* bound: how many events are sent, on all of them
  MaxRequests   \* bound: how many requests the connection serves

ASSUME BoundsAssumption ==
  MaxStreams \in Nat /\ MaxEvents \in Nat /\ MaxRequests \in Nat \ {0}

Streams == 1..MaxStreams    \* in the order in which they are made

VARIABLES
  stream,     \* where the owner of each stream is
  detached,   \* the streams that were moved out of their route
  sent,       \* how many events were sent on each stream
  channel,    \* what was sent and not received; 0 is a Close message
  worker,     \* where each worker thread is
  conn,       \* where the thread of the connection is
  requests,   \* how many requests it has read
  timeout,    \* whether the server has a socket_timeout
  broken,     \* whether the socket was shut down, by either end
  wire,       \* what was written of the streams: [of, event, cut], event 0
              \* for a head; of what was cut the client has a part, or nothing
  closedAt    \* history: the streams whose close had returned when each was made

vars == <<stream, detached, sent, channel, worker, conn, requests,
          timeout, broken, wire, closedAt>>
ownerVars == <<stream, detached, sent, closedAt>>
connVars == <<conn, requests, timeout>>

Close == 0
Used == {s \in Streams : stream[s] # "none"}

TypeOK ==
  /\ stream \in [Streams -> {"none", "open", "closing", "closed", "stuck", "dropped"}]
  /\ detached \subseteq Used
  /\ sent \in [Streams -> Nat]
  /\ channel \in [Streams -> Seq(Nat)]
  /\ worker \in [Streams -> {"none", "recv", "write", "barrier", "ended"}]
  /\ conn \in {"route", "respond", "refuse", "loop", "read", "close", "ended"}
  /\ requests \in 1..MaxRequests
  /\ timeout \in BOOLEAN /\ broken \in BOOLEAN
  /\ wire \in Seq([of : Streams, event : Nat, cut : BOOLEAN])
  /\ closedAt \in [Streams -> SUBSET Streams]

Init ==
  /\ stream = [s \in Streams |-> "none"]
  /\ detached = {}
  /\ sent = [s \in Streams |-> 0]
  /\ channel = [s \in Streams |-> <<>>]
  /\ worker = [s \in Streams |-> "none"]
  /\ conn = "route"
  /\ requests = 1
  /\ timeout \in BOOLEAN
  /\ broken = FALSE
  /\ wire = <<>>
  /\ closedAt = [s \in Streams |-> {}]

Put(of, event, cut) ==
  wire' = IF broken THEN wire
                    ELSE Append(wire, [of |-> of, event |-> event, cut |-> cut])

(* write_all on the socket, its end: the client has taken everything, or   *)
(* has not and the timeout is over, in the middle of the bytes.            *)
Write(of, event) == \E cut \in {FALSE, timeout} : Put(of, event, cut)

(* The socket's mutex, which the connection loop holds while it reads and  *)
(* a worker from before its write to the end of it.  Heads and responses   *)
(* are written in one step: nobody could do more than wait for the mutex   *)
(* meanwhile.                                                              *)
SocketFree == conn # "read" /\ \A s \in Streams : worker[s] # "write"

-----------------------------------------------------------------------------
(* The owners.  A route is one thread: it does nothing else while it waits *)
(* in close.                                                               *)

InClose(s) == stream[s] \in {"closing", "stuck"}
RouteFree == conn = "route" /\ \A s \in Streams \ detached : ~InClose(s)

OwnerFree(s) == s \in detached \/ RouteFree

(* from_request: the head is written, then the worker is spawned.          *)
Opens(s) ==
  /\ RouteFree /\ SocketFree
  /\ stream[s] = "none" /\ \A t \in 1..(s - 1) : t \in Used
  /\ closedAt' = [closedAt EXCEPT ![s] = {t \in Streams : stream[t] = "closed"}]
  /\ UNCHANGED <<detached, sent, channel, connVars, broken>>

Open(s) ==
  /\ Opens(s)
  /\ ~broken /\ Put(s, 0, FALSE)
  /\ stream' = [stream EXCEPT ![s] = "open"]
  /\ worker' = [worker EXCEPT ![s] = "recv"]

(* ? returns the error of the write: there is no stream, and no worker.    *)
OpenFails(s) ==
  /\ Opens(s)
  /\ broken \/ timeout
  /\ Put(s, 0, TRUE)
  /\ stream' = [stream EXCEPT ![s] = "dropped"]
  /\ worker' = [worker EXCEPT ![s] = "ended"]

Movable(s) == stream[s] \in {"open", "closed"}

Detach(s) ==
  /\ RouteFree
  /\ Movable(s) /\ s \notin detached
  /\ detached' = detached \cup {s}
  /\ UNCHANGED <<stream, sent, channel, worker, connVars, broken, wire, closedAt>>

TotalSent == FoldFunction(+, 0, sent)

(* A send never waits.                                                     *)
Send(s) ==
  /\ OwnerFree(s)
  /\ stream[s] = "open" /\ TotalSent < MaxEvents
  /\ sent' = [sent EXCEPT ![s] = @ + 1]
  /\ channel' = [channel EXCEPT ![s] = Append(@, sent[s] + 1)]
  /\ UNCHANGED <<stream, detached, worker, connVars, broken, wire, closedAt>>

StartClose(s) ==
  /\ OwnerFree(s)
  /\ stream[s] = "open"
  /\ stream' = [stream EXCEPT ![s] = "closing"]
  /\ channel' = [channel EXCEPT ![s] = Append(@, Close)]
  /\ UNCHANGED <<detached, sent, worker, connVars, broken, wire, closedAt>>

(* On a closed stream nothing receives the barrier: its owner waits there  *)
(* for ever.                                                               *)
CloseAgain(s) ==
  /\ OwnerFree(s)
  /\ stream[s] = "closed"
  /\ stream' = [stream EXCEPT ![s] = "stuck"]
  /\ UNCHANGED <<detached, sent, channel, worker, connVars, broken, wire,
                 closedAt>>

DropStream(s) ==
  /\ OwnerFree(s)
  /\ stream[s] \in {"open", "closed"}
  /\ stream' = [stream EXCEPT ![s] = "dropped"]
  /\ UNCHANGED <<detached, sent, channel, worker, connVars, broken, wire,
                 closedAt>>

-----------------------------------------------------------------------------
(* The worker of a stream.                                                 *)

SenderGoneMutant(s) == FALSE
SenderGone(s) == stream[s] = "dropped"

DrainedMutant(s) == channel[s] = <<>> \/ SenderGone(s)
Drained(s) == channel[s] = <<>>

LastFirstMutant(q) == q[Len(q)]
CloseFirstMutant(q) == IF \E n \in 1..Len(q) : q[n] = Close THEN Close ELSE q[1]
Received(q) == q[1]

(* The next event is received, and the socket locked for it.               *)
RecvEvent(s) ==
  /\ worker[s] = "recv" /\ channel[s] # <<>>
  /\ Received(channel[s]) # Close
  /\ SocketFree
  /\ worker' = [worker EXCEPT ![s] = "write"]
  /\ UNCHANGED <<ownerVars, channel, connVars, broken, wire>>

Takes(s, from, to) ==
  /\ worker[s] = from /\ channel[s] # <<>>
  /\ worker' = [worker EXCEPT ![s] = to]
  /\ channel' = [channel EXCEPT ![s] = Tail(@)]

(* It is written; until then it counts as being in the channel.  Nobody    *)
(* looks at an error.                                                      *)
WriteEvent(s) ==
  /\ Takes(s, "write", "recv")
  /\ Write(s, Received(channel[s]))
  /\ UNCHANGED <<ownerVars, connVars, broken>>

NoBarrierMutant == "ended"
AfterClose == "barrier"

RecvClose(s) ==
  /\ channel[s] # <<>> /\ Received(channel[s]) = Close
  /\ Takes(s, "recv", AfterClose)
  /\ UNCHANGED <<ownerVars, connVars, broken, wire>>

(* The iterator over the channel ends when it is empty and disconnected.   *)
RecvEnds(s) ==
  /\ worker[s] = "recv" /\ Drained(s) /\ SenderGone(s)
  /\ worker' = [worker EXCEPT ![s] = "ended"]
  /\ UNCHANGED <<ownerVars, channel, connVars, broken, wire>>

(* Barrier::new(2): close returns and the worker ends, together.           *)
CloseReturnsMutant(s) ==
  /\ stream[s] = "closing"
  /\ stream' = [stream EXCEPT ![s] = "closed"]
  /\ UNCHANGED <<detached, sent, channel, worker, connVars, broken, wire,
                 closedAt>>

CloseReturns(s) ==
  /\ stream[s] = "closing" /\ worker[s] = "barrier"
  /\ stream' = [stream EXCEPT ![s] = "closed"]
  /\ worker' = [worker EXCEPT ![s] = "ended"]
  /\ UNCHANGED <<detached, sent, channel, connVars, broken, wire, closedAt>>

-----------------------------------------------------------------------------
(* The connection loop.                                                    *)

RouteDone ==
  RouteFree /\ \A s \in Used \ detached : stream[s] = "dropped"

(* A step of the loop, or of the client, leaves the streams alone.         *)
Quiet == UNCHANGED <<ownerVars, channel, worker, wire, timeout>>

(* Response::end(): the loop is left, the socket not shut down.            *)
RouteEnds ==
  /\ RouteDone
  /\ conn' = "ended"
  /\ Quiet /\ UNCHANGED <<requests, broken>>

RouteResponds ==
  /\ RouteDone
  /\ conn' = "respond"
  /\ Quiet /\ UNCHANGED <<requests, broken>>

(* The loop goes on whether the write fails or not, unless this was the    *)
(* last response or an answer to no request.                               *)
WriteResponse ==
  /\ conn \in {"respond", "refuse"} /\ SocketFree
  /\ conn' \in (IF conn = "respond" THEN {"loop", "close"} ELSE {"close"})
  /\ Quiet /\ UNCHANGED <<requests, broken>>

(* shutdown(Both).                                                         *)
ShutsDown ==
  /\ conn = "close" /\ SocketFree
  /\ conn' = "ended"
  /\ broken' = TRUE
  /\ Quiet /\ UNCHANGED requests

StartRead ==
  /\ conn = "loop" /\ SocketFree
  /\ conn' = "read"
  /\ Quiet /\ UNCHANGED <<requests, broken>>

ReadRequest ==
  /\ conn = "read" /\ ~broken /\ requests < MaxRequests
  /\ conn' = "route"
  /\ requests' = requests + 1
  /\ Quiet /\ UNCHANGED broken

(* A bad request, the read timeout or a broken socket; or from_socket      *)
(* panics, which ends the thread.                                          *)
ReadFails ==
  /\ conn = "read"
  /\ conn' \in {"refuse", "ended"}
  /\ Quiet /\ UNCHANGED <<requests, broken>>

ClientLeaves ==
  /\ ~broken
  /\ broken' = TRUE
  /\ Quiet /\ UNCHANGED connVars

-----------------------------------------------------------------------------
(* Nothing is left to do, or the route waits in a second close.            *)
Stopped ==
  /\ broken /\ (conn = "ended" \/ \E s \in Streams \ detached : stream[s] = "stuck")
  /\ \A s \in detached : stream[s] \in {"dropped", "stuck"}
  /\ \A s \in Used : worker[s] \in {"recv", "ended"} /\ channel[s] = <<>>
  /\ UNCHANGED vars

OwnerNext(s) ==
  \/ Open(s) \/ OpenFails(s)
  \/ Detach(s) \/ Send(s) \/ StartClose(s) \/ CloseAgain(s) \/ DropStream(s)

Receives(s) == RecvEvent(s) \/ RecvClose(s) \/ RecvEnds(s) \/ CloseReturns(s)
WorkerNext(s) == Receives(s) \/ WriteEvent(s)

Next ==
  \/ \E s \in Streams : OwnerNext(s) \/ WorkerNext(s)
  \/ RouteEnds \/ RouteResponds \/ WriteResponse \/ ShutsDown
  \/ StartRead \/ ReadRequest \/ ReadFails
  \/ ClientLeaves \/ Stopped

Spec == Init /\ [][Next]_vars

(* Worker threads run; owners, routes and the client need do nothing.  A   *)
(* write ends when the timeout does, but without one it may never end: a   *)
(* client that does not read blocks the worker, which has the mutex.       *)
FairSpec ==
  /\ Spec
  /\ \A s \in Streams : WF_vars(Receives(s)) /\ WF_vars(timeout /\ WriteEvent(s))

-----------------------------------------------------------------------------
(* The events written before the k-th, of the same stream.                 *)
Earlier(k) == {wire[j].event : j \in {i \in 1..(k - 1) : wire[i].of = wire[k].of}}
OnWire(s, n, cut) ==
  \E k \in 1..Len(wire) : wire[k] = [of |-> s, event |-> n, cut |-> cut]

(* Written as a whole or, with a timeout, at least begun.                  *)
Written(s, n) == OnWire(s, n, FALSE) \/ (timeout /\ OnWire(s, n, TRUE))

(* Each stream is its head and then its events in the order they were      *)
(* sent, none twice or left out, although they pass through a channel and  *)
(* a second thread.  Only a write that timed out leaves a gap, and not the *)
(* one of the head: what follows it on the wire may be the rest of a torn  *)
(* event to the client, but it is the next event of its stream.            *)
StreamInOrder ==
  TypeOK /\ \A k \in 1..Len(wire) :
    /\ wire[k].event <= sent[wire[k].of]
    /\ Earlier(k) = 0..(wire[k].event - 1)
    /\ wire[k].cut => timeout
    /\ wire[k].event > 0 => ~OnWire(wire[k].of, 0, TRUE)

(* When close has returned, everything sent before it is on the wire, but  *)
(* for what was cut by the timeout, unless the socket is broken.           *)
CloseFlushes ==
  \A s \in Streams :
    stream[s] = "closed" /\ ~broken => \A n \in 1..sent[s] : Written(s, n)

(* "This will leave the socket open, so a new SSEStream could be created": *)
(* nothing of a stream that was closed follows the head of a later one.    *)
NewStreamIsClean ==
  \A j, k \in 1..Len(wire) :
    j < k /\ wire[j].event = 0 =>
      wire[k].of \notin closedAt[wire[j].of]

(* No write of a worker waits for ever: a timeout is set, or the client    *)
(* reads on whenever one is waiting for it, or leaves.                     *)
WritesEnd == timeout \/ \A s \in Streams : []<>(worker[s] # "write")

(* Events of a stream are still written after its owner has dropped it and *)
(* the route has ended the connection: the channel is drained before the   *)
(* socket goes, if the client reads or there is a timeout.                 *)
Delivered ==
  \A s \in Streams :
    WritesEnd /\ <>(conn = "ended") =>
      <>[](broken \/ \A n \in 1..sent[s] : Written(s, n))

(* Close returns when the route calls it, at its first call: the mutex of  *)
(* the socket gets free, and the worker reaches the barrier - if the       *)
(* client reads or there is a timeout.                                     *)
CloseEnds ==
  \A s \in Streams :
    WritesEnd => (stream[s] = "closing" /\ s \notin detached ~> stream[s] = "closed")

(* No worker is left behind once the connection loop is done, and with the *)
(* last one the socket is closed, if the client reads or there is a        *)
(* timeout.                                                                *)
WorkersEnd ==
  \A s \in Streams :
    WritesEnd /\ <>(conn = "ended") => (stream[s] = "dropped" ~> worker[s] = "ended")
=============================================================================
