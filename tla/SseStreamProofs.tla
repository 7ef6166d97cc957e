-------------------------- MODULE SseStreamProofs ---------------------------
(***************************************************************************)
(* Proofs about the event streams, for any number of streams, events and   *)
(* requests on a connection.                                               *)
(*                                                                         *)
(* The argument: a channel holds the events of its stream that come after  *)
(* those its worker has written, in order, and a Close after them all.     *)
(* While the socket is whole, every event that a worker is done with is on *)
(* the wire, if only in part, so that the next one finds exactly those     *)
(* before it there; a broken socket takes nothing more.  A worker whose    *)
(* close has returned has ended, and writes nothing after the head of a    *)
(* later stream.                                                           *)
(***************************************************************************)
EXTENDS SseStream, SequenceTheorems, TLAPS

(* The worker is in its loop.                                              *)
Serves(s) == worker[s] \in {"recv", "write"}

(* The owner has closed, and the worker not yet received it.               *)
ClosePending(s) == stream[s] = "closing" /\ Serves(s)

Left(s) == IF ClosePending(s) THEN Len(channel[s]) - 1 ELSE Len(channel[s])
Got(s) == sent[s] - Left(s)

(* Where the worker is, by where the owner is.                             *)
Matches(s) ==
  /\ stream[s] = "none" => worker[s] = "none" /\ sent[s] = 0
  /\ stream[s] = "open" => Serves(s)
  /\ stream[s] = "closing" => Serves(s) \/ worker[s] = "barrier"
  /\ stream[s] \in {"closed", "stuck"} => worker[s] = "ended"
  /\ stream[s] = "dropped" => Serves(s) \/ worker[s] = "ended"

WorkerInv == \A s \in Streams : Matches(s)

(* What one stream's channel holds.                                        *)
Holds(s) ==
  /\ ~Serves(s) => channel[s] = <<>>
  /\ Left(s) \in 0..sent[s]
  /\ worker[s] = "write" => Left(s) > 0
  /\ ClosePending(s) => channel[s][Len(channel[s])] = Close
  /\ \A i \in 1..Left(s) : channel[s][i] = Got(s) + i

ChannelInv == \A s \in Streams : Holds(s)

(* A stream whose head could not be written.                               *)
Stillborn(s) == stream[s] = "dropped" /\ sent[s] = 0

(* An entry of the wire follows all those before it of its stream.         *)
Follows(k) ==
  /\ wire[k].of \in Used
  /\ wire[k].event <= Got(wire[k].of)
  /\ Earlier(k) = 0..(wire[k].event - 1)
  /\ wire[k].cut => timeout
  /\ wire[k].cut /\ wire[k].event = 0 => Stillborn(wire[k].of)

WireInv ==
  /\ \A k \in 1..Len(wire) : Follows(k)
  /\ ~broken => \A s \in Used : \A n \in 0..Got(s) : Written(s, n)

CleanInv ==
  /\ NewStreamIsClean
  /\ \A s \in Streams : \A t \in closedAt[s] : worker[t] = "ended"

Inv == TypeOK /\ WorkerInv /\ ChannelInv /\ WireInv /\ CleanInv
-----------------------------------------------------------------------------
(* What the types say of one stream, and of the wire.                      *)
LEMMA Types ==
  ASSUME TypeOK
  PROVE  /\ \A s \in Streams : /\ sent[s] \in Nat /\ channel[s] \in Seq(Nat)
                               /\ Len(channel[s]) \in Nat
                               /\ channel[s] = <<>> <=> Len(channel[s]) = 0
                               /\ \A i \in 1..Len(channel[s]) : channel[s][i] \in Nat
         /\ wire \in Seq([of : Streams, event : Nat, cut : BOOLEAN]) /\ Len(wire) \in Nat
         /\ \A k \in 1..Len(wire) : wire[k] \in [of : Streams, event : Nat, cut : BOOLEAN]
<1>1. ASSUME NEW s \in Streams
      PROVE  /\ sent[s] \in Nat /\ channel[s] \in Seq(Nat)
             /\ Len(channel[s]) \in Nat
             /\ channel[s] = <<>> <=> Len(channel[s]) = 0
             /\ \A i \in 1..Len(channel[s]) : channel[s][i] \in Nat
  <2>1. sent[s] \in Nat /\ channel[s] \in Seq(Nat)
    BY <1>1 DEF TypeOK
  <2> QED
    BY <2>1, EmptySeq, ElementOfSeq
<1> DEFINE Type == [of : Streams, event : Nat, cut : BOOLEAN]
<1>2. wire \in Seq(Type)
  BY DEF TypeOK
<1> HIDE DEF Type
<1>3. Len(wire) \in Nat /\ \A k \in 1..Len(wire) : wire[k] \in Type
  BY <1>2, ElementOfSeq
<1> QED
  BY <1>1, <1>2, <1>3 DEF Type

(* A step of a stream leaves the others alone.                            *)
Apart(s) ==
  \A t \in Streams \ {s} :
    /\ stream'[t] = stream[t] /\ worker'[t] = worker[t]
    /\ sent'[t] = sent[t] /\ channel'[t] = channel[t] /\ closedAt'[t] = closedAt[t]

LEMMA StaysApart ==
  ASSUME TypeOK, NEW s \in Streams, OwnerNext(s) \/ WorkerNext(s)
  PROVE  Apart(s)
<1> USE DEF TypeOK, Apart
<1>1. CASE Open(s) \/ OpenFails(s)
  BY <1>1 DEF Open, OpenFails, Opens
<1>2. CASE Detach(s) \/ Send(s) \/ StartClose(s) \/ CloseAgain(s) \/ DropStream(s)
  BY <1>2 DEF Detach, Send, StartClose, CloseAgain, DropStream
<1>3. CASE RecvEvent(s) \/ RecvEnds(s)
  BY <1>3 DEF RecvEvent, RecvEnds, ownerVars
<1>4. CASE WriteEvent(s) \/ RecvClose(s)
  BY <1>4 DEF WriteEvent, RecvClose, Takes, ownerVars
<1>5. CASE CloseReturns(s)
  BY <1>5 DEF CloseReturns
<1> QED
  BY <1>1, <1>2, <1>3, <1>4, <1>5 DEF OwnerNext, WorkerNext, Receives

(* The steps that are of no stream.                                        *)
ConnNext ==
  \/ RouteEnds \/ RouteResponds \/ WriteResponse \/ ShutsDown
  \/ StartRead \/ ReadRequest \/ ReadFails
  \/ ClientLeaves \/ Stopped

LEMMA ConnStays ==
  ASSUME ConnNext \/ UNCHANGED vars
  PROVE  UNCHANGED <<stream, detached, sent, channel, worker, closedAt, wire, timeout>>
BY DEF ConnNext, RouteEnds, RouteResponds, WriteResponse, ShutsDown, StartRead, ReadRequest, ReadFails,
       ClientLeaves, Quiet, Stopped, vars, ownerVars

LEMMA Steps ==
  ASSUME [Next]_vars
  PROVE  (\E s \in Streams : OwnerNext(s) \/ WorkerNext(s)) \/ ConnNext \/ UNCHANGED vars
BY DEF Next, ConnNext

(* One more entry on the wire, unless the socket is broken.                *)
LEMMA PutAdds ==
  ASSUME TypeOK, NEW of \in Streams, NEW event \in Nat, NEW cut \in BOOLEAN, Put(of, event, cut)
  PROVE  /\ wire' \in Seq([of : Streams, event : Nat, cut : BOOLEAN])
         /\ broken => wire' = wire
         /\ ~broken =>
              /\ Len(wire') = Len(wire) + 1
              /\ wire'[Len(wire) + 1] = [of |-> of, event |-> event, cut |-> cut]
              /\ \A k \in 1..Len(wire) : wire'[k] = wire[k] /\ Earlier(k)' = Earlier(k)
              /\ \A k \in {Len(wire) + 1} :
                   Earlier(k)' = {wire[j].event : j \in {i \in 1..Len(wire) : wire[i].of = of}}
<1> DEFINE Type == [of : Streams, event : Nat, cut : BOOLEAN]
           new == [of |-> of, event |-> event, cut |-> cut]
<1>1. wire \in Seq(Type) /\ Len(wire) \in Nat
  BY Types
<1>2. new \in Type
  OBVIOUS
<1>3. CASE broken
  BY <1>1, <1>3 DEF Put
<1>4. CASE ~broken
  <2>0. wire' = Append(wire, new)
    BY <1>4 DEF Put
  <2> HIDE DEF Type
  <2>1. /\ wire' \in Seq(Type) /\ Len(wire') = Len(wire) + 1 /\ wire'[Len(wire) + 1] = new
        /\ \A k \in 1..Len(wire) : wire'[k] = wire[k]
    BY <1>1, <1>2, <2>0, AppendProperties
  <2>2. ASSUME NEW k \in 1..Len(wire)
        PROVE  Earlier(k)' = Earlier(k)
    <3>1. \A i \in 1..(k - 1) : i \in 1..Len(wire)
      BY <1>1, <2>2
    <3>2. {i \in 1..(k - 1) : wire'[i].of = wire'[k].of} = {i \in 1..(k - 1) : wire[i].of = wire[k].of}
      BY <2>1, <2>2, <3>1
    <3>3. \A i \in 1..(k - 1) : wire'[i].event = wire[i].event
      BY <2>1, <3>1
    <3> QED
      BY <3>2, <3>3 DEF Earlier
  <2>3. ASSUME NEW k \in {Len(wire) + 1}
        PROVE  Earlier(k)' = {wire[j].event : j \in {i \in 1..Len(wire) : wire[i].of = of}}
    <3>1. Earlier(k)' = {wire'[j].event : j \in {i \in 1..(k - 1) : wire'[i].of = wire'[k].of}}
      BY DEF Earlier
    <3>2. k - 1 = Len(wire) /\ wire'[k].of = of
      BY <1>1, <2>1, <2>3
    <3>3. {i \in 1..Len(wire) : wire'[i].of = of} = {i \in 1..Len(wire) : wire[i].of = of}
      BY <2>1
    <3>4. \A i \in 1..Len(wire) : wire'[i].event = wire[i].event
      BY <2>1
    <3> QED
      BY <3>1, <3>2, <3>3, <3>4
  <2> QED
    BY <1>4, <2>1, <2>2, <2>3 DEF Type
<1> QED
  BY <1>3, <1>4

-----------------------------------------------------------------------------
LEMMA InitInv == Init => Inv
<1> SUFFICES ASSUME Init PROVE Inv
  OBVIOUS
<1>1. Len(wire) = 0 /\ \A s \in Streams : Len(channel[s]) = 0
  BY EmptySeq DEF Init
<1>2. Used = {}
  BY DEF Init, Used
<1>3. TypeOK
  <2>1. /\ wire \in Seq([of : Streams, event : Nat, cut : BOOLEAN])
        /\ channel \in [Streams -> Seq(Nat)]
    BY EmptySeq DEF Init
  <2>2. requests \in 1..MaxRequests /\ detached \subseteq Used
    BY BoundsAssumption DEF Init
  <2>3. /\ stream \in [Streams -> {"none", "open", "closing", "closed", "stuck", "dropped"}]
        /\ sent \in [Streams -> Nat]
        /\ worker \in [Streams -> {"none", "recv", "write", "barrier", "ended"}]
        /\ conn = "route" /\ broken \in BOOLEAN /\ timeout \in BOOLEAN
        /\ closedAt \in [Streams -> SUBSET Streams]
    BY DEF Init
  <2> QED
    BY <2>1, <2>2, <2>3 DEF TypeOK
<1>4. WorkerInv
  BY DEF Init, WorkerInv, Matches
<1>5. ChannelInv
  <2>1. \A s \in Streams : ~ClosePending(s) /\ worker[s] = "none" /\ Left(s) = 0 /\ sent[s] = 0 /\ channel[s] = <<>>
    BY <1>1 DEF Init, ClosePending, Left
  <2> QED
    BY <2>1 DEF ChannelInv, Holds
<1>6. WireInv /\ CleanInv
  BY <1>1, <1>2 DEF Init, WireInv, CleanInv, NewStreamIsClean
<1> QED
  BY <1>3, <1>4, <1>5, <1>6 DEF Inv
-----------------------------------------------------------------------------
(* What comes next in a channel: the next event of its stream, or the      *)
(* Close after the last one.                                               *)
LEMMA NextMessage ==
  ASSUME TypeOK, ChannelInv, NEW s \in Streams, channel[s] # <<>>, Serves(s)
  PROVE  /\ Received(channel[s]) \in Nat
         /\ Received(channel[s]) # Close => Left(s) > 0
         /\ Left(s) > 0 => Received(channel[s]) # Close /\ Received(channel[s]) = Got(s) + 1
         /\ Received(channel[s]) = Close => ClosePending(s) /\ Len(channel[s]) = 1 /\ Left(s) = 0
<1>1. /\ Len(channel[s]) \in Nat /\ Len(channel[s]) > 0
      /\ \A i \in 1..Len(channel[s]) : channel[s][i] \in Nat
  <2>1. /\ Len(channel[s]) \in Nat
        /\ channel[s] = <<>> <=> Len(channel[s]) = 0
        /\ \A i \in 1..Len(channel[s]) : channel[s][i] \in Nat
    BY Types
  <2> QED
    BY <2>1
<1>2. 1 \in 1..Len(channel[s]) /\ Received(channel[s]) = channel[s][1]
  BY <1>1 DEF Received
<1>3. /\ Left(s) \in 0..sent[s] /\ sent[s] \in Nat
      /\ ClosePending(s) => channel[s][Len(channel[s])] = Close
      /\ \A i \in 1..Left(s) : channel[s][i] = Got(s) + i
  BY Types DEF ChannelInv, Holds
<1>4. Got(s) \in Nat
  BY <1>3 DEF Got
<1>5. CASE Left(s) > 0
  <2>1. channel[s][1] = Got(s) + 1
    BY <1>3, <1>5
  <2> QED
    BY <1>1, <1>2, <1>4, <1>5, <2>1 DEF Close
<1>6. CASE Left(s) = 0
  <2>1. ClosePending(s) /\ Len(channel[s]) = 1
    BY <1>1, <1>6 DEF Left
  <2> QED
    BY <1>1, <1>2, <1>3, <1>6, <2>1
<1> QED
  BY <1>3, <1>5, <1>6

(* What is left of it when that is taken.                                  *)
LEMMA TakesOne ==
  ASSUME TypeOK, NEW s \in Streams, NEW from, NEW to, Takes(s, from, to)
  PROVE  /\ channel'[s] \in Seq(Nat) /\ Len(channel'[s]) = Len(channel[s]) - 1
         /\ \A i \in 1..Len(channel'[s]) : channel'[s][i] = channel[s][i + 1]
         /\ worker[s] = from /\ worker'[s] = to
<1>1. channel[s] \in Seq(Nat) /\ channel[s] # <<>> /\ channel'[s] = Tail(channel[s])
  BY Types DEF Takes, TypeOK
<1>2. worker[s] = from /\ worker'[s] = to
  BY DEF Takes, TypeOK
<1> QED
  BY <1>1, <1>2, HeadTailProperties

(* A worker writes the next event of its stream.                           *)
LEMMA Writes ==
  ASSUME TypeOK, ChannelInv, NEW s \in Streams, WriteEvent(s)
  PROVE  /\ Received(channel[s]) \in Nat /\ Received(channel[s]) = Got(s) + 1
         /\ Left(s) > 0 /\ worker[s] = "write" /\ worker'[s] = "recv"
         /\ \E cut \in BOOLEAN : (cut => timeout) /\ Put(s, Received(channel[s]), cut)
<1>1. worker[s] = "write" /\ channel[s] # <<>> /\ worker'[s] = "recv"
  BY DEF WriteEvent, Takes, TypeOK
<1>2. Left(s) > 0
  BY <1>1 DEF ChannelInv, Holds
<1>3. Received(channel[s]) \in Nat /\ Received(channel[s]) = Got(s) + 1
  BY <1>1, <1>2, NextMessage DEF Serves
<1>4. \E cut \in BOOLEAN : (cut => timeout) /\ Put(s, Received(channel[s]), cut)
  BY DEF WriteEvent, Write, TypeOK
<1> QED
  BY <1>1, <1>2, <1>3, <1>4

-----------------------------------------------------------------------------
(* Every variable keeps its type.                                          *)
LEMMA TypeStep == TypeOK /\ ChannelInv /\ [Next]_vars => TypeOK'
<1> SUFFICES ASSUME TypeOK, ChannelInv, [Next]_vars PROVE TypeOK'
  OBVIOUS
<1> USE BoundsAssumption
<1>1. ASSUME NEW s \in Streams, Open(s) \/ OpenFails(s)
      PROVE  TypeOK'
  <2>1. wire' \in Seq([of : Streams, event : Nat, cut : BOOLEAN])
    <3>1. 0 \in Nat
      OBVIOUS
    <3> QED
      BY <1>1, <3>1, PutAdds DEF Open, OpenFails
  <2>2. Used \subseteq Used'
    BY <1>1 DEF Open, OpenFails, Used, TypeOK
  <2>3. /\ stream' \in [Streams -> {"none", "open", "closing", "closed", "stuck", "dropped"}]
        /\ worker' \in [Streams -> {"none", "recv", "write", "barrier", "ended"}]
    BY <1>1 DEF Open, OpenFails, TypeOK
  <2>4. closedAt' \in [Streams -> SUBSET Streams]
    <3> DEFINE c == {t \in Streams : stream[t] = "closed"}
    <3>1. closedAt' = [closedAt EXCEPT ![s] = c] /\ c \in SUBSET Streams
      BY <1>1 DEF Open, OpenFails, Opens
    <3> HIDE DEF c
    <3> QED
      BY <3>1 DEF TypeOK
  <2>5. UNCHANGED <<detached, sent, channel, connVars, broken>>
    BY <1>1 DEF Open, OpenFails, Opens
  <2> QED
    BY <2>1, <2>2, <2>3, <2>4, <2>5 DEF TypeOK, connVars
<1>2. ASSUME NEW s \in Streams, Detach(s)
      PROVE  TypeOK'
  BY <1>2 DEF Detach, Movable, Used, TypeOK, connVars
<1>3. ASSUME NEW s \in Streams, Send(s) \/ StartClose(s)
      PROVE  TypeOK'
  <2>1. channel' \in [Streams -> Seq(Nat)]
    <3>1. sent[s] + 1 \in Nat /\ Close \in Nat /\ channel[s] \in Seq(Nat)
      BY Types DEF Close
    <3>2. Append(channel[s], sent[s] + 1) \in Seq(Nat) /\ Append(channel[s], Close) \in Seq(Nat)
      BY <3>1, AppendProperties
    <3> QED
      BY <1>3, <3>2 DEF Send, StartClose, TypeOK
  <2>2. sent' \in [Streams -> Nat]
    BY <1>3 DEF Send, StartClose, TypeOK
  <2>3. Used' = Used /\ stream' \in [Streams -> {"none", "open", "closing", "closed", "stuck", "dropped"}]
    BY <1>3 DEF Send, StartClose, Used, TypeOK
  <2> QED
    BY <1>3, <2>1, <2>2, <2>3 DEF Send, StartClose, TypeOK, connVars
<1>4. ASSUME NEW s \in Streams, CloseAgain(s) \/ DropStream(s) \/ CloseReturns(s)
      PROVE  TypeOK'
  <2>1. Used' = Used
    BY <1>4 DEF CloseAgain, DropStream, CloseReturns, Used, TypeOK
  <2> QED
    BY <1>4, <2>1 DEF CloseAgain, DropStream, CloseReturns, TypeOK, connVars
<1>5. ASSUME NEW s \in Streams, WriteEvent(s) \/ RecvClose(s)
      PROVE  TypeOK'
  <2>1. UNCHANGED <<ownerVars, connVars, broken, Used>>
    BY <1>5 DEF WriteEvent, RecvClose, ownerVars, Used
  <2>2. channel' \in [Streams -> Seq(Nat)]
    <3>1. \E from, to : Takes(s, from, to)
      BY <1>5 DEF WriteEvent, RecvClose
    <3>2. channel'[s] \in Seq(Nat)
      BY <3>1, TakesOne
    <3> QED
      BY <3>1, <3>2 DEF Takes, TypeOK
  <2>3. wire' \in Seq([of : Streams, event : Nat, cut : BOOLEAN])
    <3>1. CASE WriteEvent(s)
      BY <3>1, Writes, PutAdds
    <3>2. CASE RecvClose(s)
      BY <3>2 DEF RecvClose, TypeOK
    <3> QED
      BY <1>5, <3>1, <3>2
  <2>4. worker' \in [Streams -> {"none", "recv", "write", "barrier", "ended"}]
    BY <1>5 DEF WriteEvent, RecvClose, Takes, AfterClose, TypeOK
  <2> QED
    BY <2>1, <2>2, <2>3, <2>4 DEF ownerVars, connVars, TypeOK
<1>6. ASSUME NEW s \in Streams, RecvEvent(s) \/ RecvEnds(s)
      PROVE  TypeOK'
  BY <1>6 DEF RecvEvent, RecvEnds, ownerVars, connVars, Used, TypeOK
<1>7. CASE ConnNext \/ UNCHANGED vars
  <2>1. UNCHANGED <<stream, detached, sent, channel, worker, closedAt, wire, timeout, Used>>
    BY <1>7, ConnStays DEF Used
  <2>2. /\ conn' \in {"route", "respond", "refuse", "loop", "read", "close", "ended"}
        /\ broken' \in BOOLEAN /\ requests' \in 1..MaxRequests
    <3>1. CASE ReadRequest
      BY <3>1 DEF ReadRequest, TypeOK
    <3>2. CASE RouteEnds \/ RouteResponds \/ WriteResponse
      BY <3>2 DEF RouteEnds, RouteResponds, WriteResponse, TypeOK
    <3>3. CASE ShutsDown \/ StartRead \/ ReadFails \/ ClientLeaves
      BY <3>3 DEF ShutsDown, StartRead, ReadFails, ClientLeaves, connVars, TypeOK
    <3>4. CASE Stopped \/ UNCHANGED vars
      BY <3>4 DEF Stopped, vars, TypeOK
    <3> QED
      BY <1>7, <3>1, <3>2, <3>3, <3>4 DEF ConnNext
  <2> QED
    BY <2>1, <2>2 DEF TypeOK
<1> QED
  BY <1>1, <1>2, <1>3, <1>4, <1>5, <1>6, <1>7, Steps DEF OwnerNext, WorkerNext, Receives
-----------------------------------------------------------------------------
LEMMA WorkerStep == TypeOK /\ WorkerInv /\ ChannelInv /\ [Next]_vars => WorkerInv'
<1> SUFFICES ASSUME TypeOK, WorkerInv, ChannelInv, [Next]_vars PROVE WorkerInv'
  OBVIOUS
<1>1. ASSUME NEW s \in Streams, OwnerNext(s) \/ WorkerNext(s)
      PROVE  WorkerInv'
  <2>1. \A t \in Streams \ {s} :
          stream'[t] = stream[t] /\ worker'[t] = worker[t] /\ sent'[t] = sent[t]
    BY <1>1, StaysApart DEF Apart
  <2> USE DEF WorkerInv, Matches, Serves, TypeOK
  <2>2. CASE Open(s) \/ OpenFails(s)
    BY <2>2 DEF Open, OpenFails, Opens
  <2>3. CASE Detach(s) \/ Send(s) \/ StartClose(s) \/ CloseAgain(s) \/ DropStream(s)
    BY <2>3 DEF Detach, Send, StartClose, CloseAgain, DropStream
  <2>4. CASE RecvEvent(s) \/ WriteEvent(s)
    BY <2>4 DEF RecvEvent, WriteEvent, Takes, ownerVars
  <2>5. CASE RecvClose(s)
    <3>1. ClosePending(s)
      BY <2>5, NextMessage DEF RecvClose, Takes
    <3> QED
      BY <2>5, <3>1 DEF RecvClose, Takes, ClosePending, ownerVars, AfterClose
  <2>6. CASE RecvEnds(s)
    BY <2>6 DEF RecvEnds, SenderGone, ownerVars
  <2>7. CASE CloseReturns(s)
    BY <2>7 DEF CloseReturns
  <2>8. Matches(s)'
    BY <1>1, <2>2, <2>3, <2>4, <2>5, <2>6, <2>7 DEF OwnerNext, WorkerNext, Receives
  <2> HIDE DEF TypeOK
  <2> QED
    BY <2>1, <2>8
<1>2. CASE ConnNext \/ UNCHANGED vars
  BY <1>2, ConnStays DEF WorkerInv, Matches, Serves
<1> QED
  BY <1>1, <1>2, Steps

-----------------------------------------------------------------------------
(* How a step moves what a stream's worker has got.                        *)
LEMMA ChannelMoves ==
  ASSUME TypeOK, WorkerInv, ChannelInv, NEW s \in Streams, OwnerNext(s) \/ WorkerNext(s)
  PROVE  /\ Holds(s)'
         /\ Got(s)' = Got(s) \/ WriteEvent(s)
         /\ WriteEvent(s) => Got(s)' = Got(s) + 1
<1>1. /\ channel[s] \in Seq(Nat) /\ Len(channel[s]) \in Nat /\ sent[s] \in Nat
      /\ channel[s] = <<>> <=> Len(channel[s]) = 0
  BY Types
<1>2. /\ ~Serves(s) => channel[s] = <<>>
      /\ Left(s) \in 0..sent[s]
      /\ worker[s] = "write" => Left(s) > 0
      /\ ClosePending(s) => channel[s][Len(channel[s])] = Close
      /\ \A i \in 1..Left(s) : channel[s][i] = Got(s) + i
  BY DEF ChannelInv, Holds
<1>3. Got(s) = sent[s] - Left(s) /\ Got(s) \in Nat
  BY <1>1, <1>2 DEF Got
<1>4. Matches(s)
  BY DEF WorkerInv
<1>5. ASSUME UNCHANGED <<channel, sent>>, ~ClosePending(s), ~ClosePending(s)',
             ~Serves(s)' => channel[s] = <<>>, worker'[s] = "write" => worker[s] = "write"
      PROVE  Holds(s)' /\ Got(s)' = Got(s)
  BY <1>2, <1>5 DEF Holds, Left, Got
<1>6. ASSUME Open(s) \/ OpenFails(s)
      PROVE  Holds(s)' /\ Got(s)' = Got(s)
  <2>1. /\ stream[s] = "none" /\ stream'[s] \in {"open", "dropped"}
        /\ worker'[s] \in {"recv", "ended"}
        /\ UNCHANGED <<channel, sent>>
    BY <1>6 DEF Open, OpenFails, Opens, TypeOK
  <2>2. channel[s] = <<>>
    BY <1>2, <1>4, <2>1 DEF Matches, Serves
  <2> QED
    BY <1>5, <2>1, <2>2 DEF ClosePending
<1>7. ASSUME Detach(s)
      PROVE  Holds(s)' /\ Got(s)' = Got(s)
  <2>1. UNCHANGED <<stream, worker, channel, sent>>
    BY <1>7 DEF Detach
  <2> QED
    BY <1>2, <2>1 DEF Holds, Left, Got, ClosePending, Serves
<1>8. ASSUME Send(s)
      PROVE  Holds(s)' /\ Got(s)' = Got(s)
  <2>1. /\ stream[s] = "open" /\ stream' = stream /\ worker' = worker
        /\ sent'[s] = sent[s] + 1 /\ channel'[s] = Append(channel[s], sent[s] + 1)
    BY <1>8 DEF Send, TypeOK
  <2>2. Serves(s) /\ ~ClosePending(s) /\ ~ClosePending(s)'
    BY <1>4, <2>1 DEF ClosePending, Matches
  <2>3. Left(s) = Len(channel[s])
    BY <2>2 DEF Left
  <2>4. /\ Len(channel'[s]) = Len(channel[s]) + 1
        /\ \A i \in 1..Len(channel[s]) : channel'[s][i] = channel[s][i]
        /\ channel'[s][Len(channel[s]) + 1] = sent[s] + 1
    <3>1. sent[s] + 1 \in Nat
      BY <1>1
    <3> QED
      BY <1>1, <2>1, <3>1, AppendProperties
  <2>5. Left(s)' = Left(s) + 1 /\ Got(s)' = Got(s)
    <3>1. Left(s)' = Len(channel'[s])
      BY <2>2 DEF Left
    <3>2. Left(s)' = Left(s) + 1
      BY <2>3, <2>4, <3>1
    <3> QED
      BY <1>1, <2>1, <2>3, <3>2 DEF Got
  <2>6. ASSUME NEW i \in 1..(Left(s) + 1)
        PROVE  channel'[s][i] = Got(s) + i
    <3>1. CASE i \in 1..Left(s)
      BY <1>2, <2>3, <2>4, <3>1
    <3>2. CASE i = Left(s) + 1
      <4>1. channel'[s][i] = sent[s] + 1
        BY <2>3, <2>4, <3>2
      <4>2. Got(s) + i = sent[s] + 1
        BY <1>1, <1>3, <2>3, <3>2
      <4> QED
        BY <4>1, <4>2
    <3> QED
      BY <1>2, <2>6, <3>1, <3>2
  <2>7. Left(s)' \in 0..sent'[s]
    BY <1>1, <1>2, <2>1, <2>5
  <2>8. Serves(s)' /\ Left(s)' > 0
    BY <1>2, <2>1, <2>2, <2>5 DEF Serves
  <2> QED
    BY <2>2, <2>5, <2>6, <2>7, <2>8 DEF Holds
<1>9. ASSUME StartClose(s)
      PROVE  Holds(s)' /\ Got(s)' = Got(s)
  <2>1. /\ stream[s] = "open" /\ stream'[s] = "closing" /\ worker' = worker
        /\ sent' = sent /\ channel'[s] = Append(channel[s], Close)
    BY <1>9 DEF StartClose, TypeOK
  <2>2. Serves(s) /\ Serves(s)' /\ ~ClosePending(s) /\ ClosePending(s)'
    BY <1>4, <2>1 DEF ClosePending, Matches, Serves
  <2>3. /\ Len(channel'[s]) = Len(channel[s]) + 1
        /\ \A i \in 1..Len(channel[s]) : channel'[s][i] = channel[s][i]
        /\ channel'[s][Len(channel[s]) + 1] = Close
    BY <1>1, <2>1, AppendProperties DEF Close
  <2>4. Left(s) = Len(channel[s]) /\ Left(s)' = Left(s)
    BY <1>1, <2>2, <2>3 DEF Left
  <2>5. Got(s)' = Got(s)
    BY <2>1, <2>4 DEF Got
  <2> QED
    BY <1>2, <2>1, <2>2, <2>3, <2>4, <2>5 DEF Holds
<1>10. ASSUME CloseAgain(s) \/ DropStream(s) \/ RecvEnds(s) \/ CloseReturns(s)
       PROVE  Holds(s)' /\ Got(s)' = Got(s)
  <2>1. UNCHANGED <<channel, sent>>
    BY <1>10 DEF CloseAgain, DropStream, RecvEnds, CloseReturns, ownerVars
  <2>2. ~ClosePending(s) /\ ~ClosePending(s)'
    BY <1>10 DEF CloseAgain, DropStream, RecvEnds, CloseReturns, ownerVars, SenderGone, ClosePending,
                 Serves, TypeOK
  <2>3. ~Serves(s)' => channel[s] = <<>>
    BY <1>2, <1>10 DEF CloseAgain, DropStream, RecvEnds, CloseReturns, Drained, Serves, TypeOK
  <2>4. worker'[s] = "write" => worker[s] = "write"
    BY <1>10 DEF CloseAgain, DropStream, RecvEnds, CloseReturns, TypeOK
  <2> QED
    BY <1>5, <2>1, <2>2, <2>3, <2>4
<1>11. ASSUME RecvEvent(s)
       PROVE  Holds(s)' /\ Got(s)' = Got(s)
  <2>1. /\ UNCHANGED <<stream, channel, sent>> /\ worker[s] = "recv" /\ worker'[s] = "write"
        /\ channel[s] # <<>> /\ Received(channel[s]) # Close
    BY <1>11 DEF RecvEvent, ownerVars, TypeOK
  <2>2. Left(s) > 0
    BY <2>1, NextMessage DEF Serves
  <2>3. Serves(s)' /\ ClosePending(s)' = ClosePending(s) /\ Left(s)' = Left(s) /\ Got(s)' = Got(s)
    BY <2>1 DEF Serves, ClosePending, Left, Got
  <2> QED
    BY <1>2, <2>1, <2>2, <2>3 DEF Holds
<1>12. ASSUME WriteEvent(s)
       PROVE  Holds(s)' /\ Got(s)' = Got(s) + 1
  <2>1. UNCHANGED <<stream, sent>> /\ Takes(s, "write", "recv")
    BY <1>12 DEF WriteEvent, ownerVars
  <2>2. /\ worker[s] = "write" /\ worker'[s] = "recv" /\ Len(channel'[s]) = Len(channel[s]) - 1 /\ Left(s) > 0
        /\ \A i \in 1..Len(channel'[s]) : channel'[s][i] = channel[s][i + 1]
    BY <1>12, <2>1, TakesOne, Writes
  <2>3. ClosePending(s)' = ClosePending(s) /\ Serves(s)'
    BY <2>1, <2>2 DEF ClosePending, Serves
  <2>4. Left(s)' = Left(s) - 1 /\ Left(s) <= Len(channel[s]) /\ (ClosePending(s) => Left(s) < Len(channel[s]))
    BY <1>1, <2>2, <2>3 DEF Left
  <2>5. Got(s)' = Got(s) + 1
    BY <1>1, <1>2, <2>1, <2>4 DEF Got
  <2>6. ASSUME NEW i \in 1..(Left(s) - 1)
        PROVE  channel'[s][i] = Got(s) + 1 + i
    <3>1. i \in 1..Len(channel'[s]) /\ i + 1 \in 1..Left(s)
      BY <1>1, <1>2, <2>2, <2>4, <2>6
    <3> QED
      <4>1. channel'[s][i] = Got(s) + (i + 1)
        BY <1>2, <2>2, <3>1
      <4> QED
        BY <1>3, <2>6, <4>1
  <2>7. ClosePending(s) => channel'[s][Len(channel'[s])] = Close
    <3>1. ClosePending(s) => Len(channel'[s]) \in 1..Len(channel'[s]) /\ Len(channel'[s]) + 1 = Len(channel[s])
      BY <1>1, <1>2, <2>2, <2>4
    <3> QED
      BY <1>2, <2>2, <3>1
  <2> QED
    BY <1>1, <1>2, <2>1, <2>2, <2>3, <2>4, <2>5, <2>6, <2>7 DEF Holds
<1>13. ASSUME RecvClose(s)
       PROVE  Holds(s)' /\ Got(s)' = Got(s)
  <2>1. /\ UNCHANGED <<stream, sent>> /\ channel[s] # <<>> /\ Received(channel[s]) = Close
        /\ Takes(s, "recv", "barrier")
    BY <1>13 DEF RecvClose, ownerVars, AfterClose
  <2>2. /\ worker[s] = "recv" /\ worker'[s] = "barrier" /\ channel'[s] \in Seq(Nat)
        /\ Len(channel'[s]) = Len(channel[s]) - 1
    BY <2>1, TakesOne
  <2>3. Left(s) = 0 /\ Len(channel[s]) = 1
    BY <2>1, <2>2, NextMessage DEF Serves
  <2>4. Len(channel'[s]) = 0 /\ channel'[s] = <<>>
    <3>1. Len(channel'[s]) = 0
      BY <2>2, <2>3
    <3> QED
      BY <2>2, <3>1, EmptySeq
  <2>5. ~ClosePending(s)' /\ Left(s)' = 0
    BY <2>2, <2>4 DEF ClosePending, Serves, Left
  <2>6. Got(s)' = Got(s)
    BY <2>1, <2>3, <2>5 DEF Got
  <2> QED
    BY <1>1, <2>1, <2>2, <2>4, <2>5, <2>6 DEF Holds
<1> QED
  BY <1>6, <1>7, <1>8, <1>9, <1>10, <1>11, <1>12, <1>13 DEF OwnerNext, WorkerNext, Receives

LEMMA ChannelStep == TypeOK /\ WorkerInv /\ ChannelInv /\ [Next]_vars => ChannelInv'
<1> SUFFICES ASSUME TypeOK, WorkerInv, ChannelInv, [Next]_vars PROVE ChannelInv'
  OBVIOUS
<1>1. ASSUME NEW s \in Streams, OwnerNext(s) \/ WorkerNext(s), NEW t \in Streams
      PROVE  Holds(t)'
  <2>1. CASE t = s
    BY <1>1, <2>1, ChannelMoves
  <2>2. CASE t # s
    BY <1>1, <2>2, StaysApart DEF Apart, ChannelInv, Holds, Left, Got, ClosePending, Serves
  <2> QED
    BY <2>1, <2>2
<1>2. CASE ConnNext \/ UNCHANGED vars
  BY <1>2, ConnStays DEF ChannelInv, Holds, Left, Got, ClosePending, Serves
<1>3. CASE \E s \in Streams : OwnerNext(s) \/ WorkerNext(s)
  BY <1>1, <1>3 DEF ChannelInv
<1> QED
  BY <1>2, <1>3, Steps

(* What the workers have got, after a step.                                *)
LEMMA GotMoves ==
  ASSUME TypeOK, WorkerInv, ChannelInv, [Next]_vars
  PROVE  \A t \in Streams : /\ Got(t) \in Nat
                            /\ Got(t)' = Got(t) \/ WriteEvent(t)
                            /\ WriteEvent(t) => Got(t)' = Got(t) + 1
                            /\ Got(t)' >= Got(t)
<1>1. \A t \in Streams : Got(t) \in Nat
  BY Types DEF ChannelInv, Holds, Got
<1>2. ASSUME NEW t \in Streams
      PROVE  /\ Got(t)' = Got(t) \/ WriteEvent(t)
             /\ WriteEvent(t) => Got(t)' = Got(t) + 1
  <2>1. CASE OwnerNext(t) \/ WorkerNext(t)
    BY <2>1, ChannelMoves
  <2>2. CASE ~(OwnerNext(t) \/ WorkerNext(t))
    <3>1. ~WriteEvent(t)
      BY <2>2 DEF WorkerNext
    <3>2. UNCHANGED <<stream[t], worker[t], sent[t], channel[t]>>
      <4>1. CASE ConnNext \/ UNCHANGED vars
        BY <4>1, ConnStays
      <4>2. CASE \E s \in Streams : OwnerNext(s) \/ WorkerNext(s)
        BY <1>2, <2>2, <4>2, StaysApart DEF Apart
      <4> QED
        BY <4>1, <4>2, Steps
    <3> QED
      BY <3>1, <3>2 DEF Got, Left, ClosePending, Serves
  <2> QED
    BY <2>1, <2>2
<1> QED
  BY <1>1, <1>2

-----------------------------------------------------------------------------
(* The streams that are used, and the socket, after a step.                *)
LEMMA UsedGrows ==
  ASSUME TypeOK, [Next]_vars
  PROVE  /\ Used \subseteq Used'
         /\ \A s \in Streams : s \in Used' => s \in Used \/ Open(s) \/ OpenFails(s)
         /\ ~broken' => ~broken
         /\ timeout' = timeout
         /\ \A s \in Used : Stillborn(s) => Stillborn(s)'
<1>1. ASSUME NEW s \in Streams, OwnerNext(s) \/ WorkerNext(s)
      PROVE  /\ s \in Used => s \in Used'
             /\ s \in Used' => s \in Used \/ Open(s) \/ OpenFails(s)
             /\ broken' = broken /\ timeout' = timeout
             /\ Stillborn(s) => Stillborn(s)'
  <2> USE DEF Used, Stillborn, TypeOK, connVars
  <2>1. CASE Open(s) \/ OpenFails(s)
    BY <2>1 DEF Open, OpenFails, Opens
  <2>2. CASE Detach(s) \/ Send(s) \/ StartClose(s) \/ CloseAgain(s) \/ DropStream(s)
    BY <2>2 DEF Detach, Send, StartClose, CloseAgain, DropStream
  <2>3. CASE WorkerNext(s)
    BY <2>3 DEF WorkerNext, Receives, RecvEvent, WriteEvent, RecvClose, RecvEnds, CloseReturns, ownerVars
  <2> QED
    BY <1>1, <2>1, <2>2, <2>3 DEF OwnerNext
<1>2. ASSUME NEW s \in Streams, OwnerNext(s) \/ WorkerNext(s), NEW t \in Streams \ {s}
      PROVE  (t \in Used' <=> t \in Used) /\ (Stillborn(t) => Stillborn(t)')
  BY <1>2, StaysApart DEF Apart, Used, Stillborn
<1>3. CASE ConnNext \/ UNCHANGED vars
  <2>1. Used' = Used /\ timeout' = timeout /\ \A s \in Streams : Stillborn(s)' = Stillborn(s)
    BY <1>3, ConnStays DEF Used, Stillborn
  <2>2. ~broken' => ~broken
    BY <1>3 DEF ConnNext, RouteEnds, RouteResponds, WriteResponse, ShutsDown, StartRead, ReadRequest,
                ReadFails, ClientLeaves, Stopped, vars
  <2>3. Used \subseteq Streams
    BY DEF Used
  <2> QED
    BY <2>1, <2>2, <2>3
<1>4. CASE \E s \in Streams : OwnerNext(s) \/ WorkerNext(s)
  <2>1. PICK s \in Streams : OwnerNext(s) \/ WorkerNext(s)
    BY <1>4
  <2>2. \A t \in Streams : t = s \/ t \in Streams \ {s}
    OBVIOUS
  <2>3. Used \subseteq Streams
    BY DEF Used
  <2> QED
    BY <1>1, <1>2, <2>1, <2>2, <2>3
<1> QED
  BY <1>3, <1>4, Steps
-----------------------------------------------------------------------------
(* What is on the wire stays there, with what came before it.              *)
Keeps == /\ Len(wire) <= Len(wire')
         /\ \A k \in 1..Len(wire) : wire'[k] = wire[k] /\ Earlier(k)' = Earlier(k)

LEMMA PutKeeps ==
  ASSUME TypeOK, NEW of \in Streams, NEW event \in Nat, NEW cut \in BOOLEAN, Put(of, event, cut)
  PROVE  Keeps /\ \A k \in 1..Len(wire') : k \in 1..Len(wire) \/ (k = Len(wire) + 1 /\ ~broken)
<1>1. Len(wire) \in Nat
  BY Types
<1>2. CASE broken
  <2>1. wire' = wire
    BY <1>2, PutAdds
  <2> QED
    BY <1>1, <2>1 DEF Keeps, Earlier
<1>3. CASE ~broken
  <2>1. /\ Len(wire') = Len(wire) + 1
        /\ \A k \in 1..Len(wire) : wire'[k] = wire[k] /\ Earlier(k)' = Earlier(k)
    BY <1>3, PutAdds
  <2>2. \A k \in 1..(Len(wire) + 1) : k \in 1..Len(wire) \/ k = Len(wire) + 1
    BY <1>1
  <2>3. Len(wire) <= Len(wire')
    BY <1>1, <2>1
  <2>4. Keeps
    BY <2>1, <2>3 DEF Keeps
  <2> QED
    BY <1>3, <2>1, <2>2, <2>4
<1> QED
  BY <1>2, <1>3

(* So what was true of its entries, of streams whose workers may have got  *)
(* more, still is.                                                         *)
LEMMA OldEntries ==
  ASSUME TypeOK, WorkerInv, ChannelInv, WireInv, [Next]_vars, Keeps
  PROVE  /\ \A k \in 1..Len(wire) : Follows(k)'
         /\ \A s \in Streams, n \in Nat : Written(s, n) => Written(s, n)'
<1>1. ASSUME NEW k \in 1..Len(wire)
      PROVE  Follows(k)'
  <2> DEFINE s == wire[k].of
  <2>1. s \in Used /\ wire[k].event <= Got(s) /\ Earlier(k) = 0..(wire[k].event - 1)
    BY <1>1 DEF WireInv, Follows
  <2>2. wire'[k] = wire[k] /\ Earlier(k)' = Earlier(k)
    BY <1>1 DEF Keeps
  <2>3. s \in Streams /\ s \in Used'
    BY <2>1, UsedGrows DEF Used
  <2>4. wire[k].event \in Nat
    BY <1>1, Types
  <2>5. \A t \in Streams : t = s => wire[k].event <= Got(t)'
    <3> SUFFICES ASSUME NEW t \in Streams, t = s PROVE wire[k].event <= Got(t)'
      OBVIOUS
    <3>1. wire[k].event <= Got(t)
      BY <2>1
    <3>2. Got(t) \in Nat /\ (Got(t)' = Got(t) \/ Got(t)' = Got(t) + 1)
      BY GotMoves
    <3> QED
      BY <2>4, <3>1, <3>2
  <2>6. PICK t \in Streams : t = s
    BY <2>3
  <2>7. t = wire'[k].of /\ t \in Used' /\ wire'[k].event <= Got(t)'
    BY <2>2, <2>3, <2>5, <2>6
  <2>8. Earlier(k)' = 0..(wire'[k].event - 1)
    BY <2>1, <2>2
  <2>9. /\ wire'[k].cut => timeout'
        /\ wire'[k].cut /\ wire'[k].event = 0 => Stillborn(t)'
    BY <1>1, <2>1, <2>2, <2>6, UsedGrows DEF WireInv, Follows
  <2> QED
    BY <2>7, <2>8, <2>9 DEF Follows
<1>2. \A k \in 1..Len(wire) : wire'[k] = wire[k]
  BY DEF Keeps
<1>3. \A s \in Streams, n \in Nat : Written(s, n) => Written(s, n)'
  <2>1. Len(wire) \in Nat /\ Len(wire') \in Nat
    <3>1. TypeOK'
      BY TypeStep
    <3>2. wire' \in Seq([of : Streams, event : Nat, cut : BOOLEAN])
      BY <3>1 DEF TypeOK
    <3> QED
      BY <3>2, Types
  <2>2. \A k \in 1..Len(wire) : k \in 1..Len(wire')
    BY <2>1 DEF Keeps
  <2>3. \A s \in Streams, n \in Nat, cut \in BOOLEAN : OnWire(s, n, cut) => OnWire(s, n, cut)'
    BY <1>2, <2>2 DEF OnWire
  <2> QED
    BY <2>3, UsedGrows DEF Written
<1> QED
  BY <1>1, <1>3

(* A stream's next event finds those before it on the wire.                *)
LEMMA NextEntry ==
  ASSUME TypeOK, WorkerInv, ChannelInv, WireInv, [Next]_vars,
         NEW s \in Streams, NEW e \in Nat, NEW cut \in BOOLEAN, Put(s, e, cut),
         s \in Used', e <= Got(s)',
         \A k \in 1..Len(wire) : wire[k].of = s => wire[k].event < e,
         ~broken => \A n \in 0..(e - 1) : Written(s, n),
         ~broken /\ cut => timeout,
         cut /\ e = 0 => Stillborn(s)'
  PROVE  /\ \A k \in 1..Len(wire') : Follows(k)'
         /\ ~broken => Written(s, e)'
<1>1. Keeps /\ \A k \in 1..Len(wire') : k \in 1..Len(wire) \/ (k = Len(wire) + 1 /\ ~broken)
  BY PutKeeps
<1>2. \A k \in 1..Len(wire) : Follows(k)'
  BY <1>1, OldEntries
<1>3. ASSUME ~broken, NEW k \in {Len(wire) + 1}
      PROVE  Follows(k)' /\ Written(s, e)'
  <2>1. /\ Len(wire') = Len(wire) + 1 /\ Len(wire) \in Nat
        /\ wire'[k] = [of |-> s, event |-> e, cut |-> cut]
        /\ Earlier(k)' = {wire[j].event : j \in {i \in 1..Len(wire) : wire[i].of = s}}
    <3>1. Len(wire) \in Nat
      BY Types
    <3>2. /\ Len(wire') = Len(wire) + 1
          /\ wire'[Len(wire) + 1] = [of |-> s, event |-> e, cut |-> cut]
      BY <1>3, PutAdds
    <3>3. Earlier(k)' = {wire[j].event : j \in {i \in 1..Len(wire) : wire[i].of = s}}
      BY <1>3, PutAdds
    <3> QED
      BY <1>3, <3>1, <3>2, <3>3
  <2>2. \A i \in 1..Len(wire) : wire[i].event \in Nat
    BY Types
  <2>3. ASSUME NEW n \in 0..(e - 1)
        PROVE  \E i \in 1..Len(wire) : wire[i].of = s /\ wire[i].event = n
    <3>1. Written(s, n)
      BY <1>3, <2>3
    <3>2. PICK i \in 1..Len(wire), c \in BOOLEAN : wire[i] = [of |-> s, event |-> n, cut |-> c]
      BY <3>1 DEF Written, OnWire
    <3> QED
      BY <3>2
  <2>4. \A i \in 1..Len(wire) : wire[i].of = s => wire[i].event \in 0..(e - 1)
    BY <2>2
  <2>5. {wire[j].event : j \in {i \in 1..Len(wire) : wire[i].of = s}} = 0..(e - 1)
    BY <2>3, <2>4
  <2>6. timeout' = timeout
    BY UsedGrows
  <2>7. Follows(k)'
    <3>1. wire'[k].of = s /\ wire'[k].event = e /\ wire'[k].cut = cut
      BY <2>1
    <3>2. Earlier(k)' = 0..(wire'[k].event - 1)
      BY <2>1, <2>5, <3>1
    <3>3. /\ wire'[k].of \in Used' /\ wire'[k].event <= Got(s)' /\ (wire'[k].cut => timeout')
          /\ wire'[k].cut /\ wire'[k].event = 0 => Stillborn(s)'
      BY <1>3, <2>6, <3>1
    <3> QED
      BY <3>1, <3>2, <3>3 DEF Follows
  <2>8. k \in 1..Len(wire')
    BY <1>3, <2>1
  <2>9. Written(s, e)'
    <3>1. OnWire(s, e, cut)'
      BY <2>1, <2>8 DEF OnWire
    <3> QED
      BY <1>3, <2>6, <3>1 DEF Written
  <2> QED
    BY <2>7, <2>9
<1> QED
  BY <1>1, <1>2, <1>3

(* Only a worker that writes and a stream that is made touch the wire.     *)
LEMMA WireStays ==
  ASSUME [Next]_vars, \A s \in Streams : ~WriteEvent(s) /\ ~Open(s) /\ ~OpenFails(s)
  PROVE  wire' = wire
<1>1. ASSUME NEW s \in Streams, OwnerNext(s) \/ WorkerNext(s)
      PROVE  wire' = wire
  BY <1>1 DEF OwnerNext, WorkerNext, Receives, Detach, Send, StartClose, CloseAgain, DropStream,
              RecvEvent, RecvClose, RecvEnds, CloseReturns
<1> QED
  BY <1>1, ConnStays, Steps

(* The wire has, of each stream, the events its worker has got, in order.  *)
LEMMA WireStep == TypeOK /\ WorkerInv /\ ChannelInv /\ WireInv /\ [Next]_vars => WireInv'
<1> SUFFICES ASSUME TypeOK, WorkerInv, ChannelInv, WireInv, [Next]_vars PROVE WireInv'
  OBVIOUS
<1>0. \A t \in Streams : /\ Got(t) \in Nat
                         /\ Got(t)' = Got(t) \/ WriteEvent(t)
                         /\ WriteEvent(t) => Got(t)' = Got(t) + 1
  BY GotMoves
<1>1. ~broken' => ~broken
  BY UsedGrows
<1>2. ~broken => \A t \in Used : \A n \in 0..Got(t) : Written(t, n)
  BY DEF WireInv
<1>3. ASSUME Keeps, NEW t \in Streams, t \in Used, Got(t)' = Got(t), ~broken'
      PROVE  \A n \in 0..Got(t)' : Written(t, n)'
  <2>1. \A n \in 0..Got(t) : n \in Nat /\ Written(t, n)
    BY <1>0, <1>1, <1>2, <1>3
  <2>2. \A n \in Nat : Written(t, n) => Written(t, n)'
    BY <1>3, OldEntries
  <2> QED
    BY <1>3, <2>1, <2>2
<1>4. ASSUME NEW s \in Streams, WriteEvent(s)
      PROVE  WireInv'
  <2>0. PICK e \in Nat, cut \in BOOLEAN : /\ e = Received(channel[s])
                                         /\ Put(s, e, cut) /\ (cut => timeout)
    BY <1>4, Writes
  <2>1. UNCHANGED ownerVars
    BY <1>4 DEF WriteEvent
  <2>2. e = Got(s) + 1 /\ worker[s] = "write" /\ worker'[s] = "recv"
    BY <1>4, <2>0, Writes
  <2>3. s \in Used /\ Used' = Used
    BY <2>1, <2>2 DEF WorkerInv, Matches, Used, ownerVars
  <2>4. e <= Got(s)'
    BY <1>0, <1>4, <2>2
  <2>5. ASSUME NEW k \in 1..Len(wire), wire[k].of = s
        PROVE  wire[k].event < e
    <3>1. wire[k].event <= Got(s) /\ wire[k].event \in Nat
      BY <2>5, Types DEF WireInv, Follows
    <3> QED
      BY <1>0, <2>2, <3>1
  <2>6. ~broken => \A n \in 0..(e - 1) : Written(s, n)
    BY <1>0, <1>2, <2>2, <2>3
  <2>7. /\ \A k \in 1..Len(wire') : Follows(k)'
        /\ ~broken => Written(s, e)'
    <3>1. e # 0
      BY <1>0, <2>2
    <3> QED
      BY <2>0, <2>3, <2>4, <2>5, <2>6, <3>1, NextEntry
  <2>8. Keeps
    BY <2>0, PutKeeps
  <2>9. ASSUME ~broken', NEW n \in 0..Got(s)'
        PROVE  Written(s, n)'
    <3>1. n \in 0..Got(s) \/ n = e
      BY <1>0, <1>4, <2>2, <2>9
    <3>2. CASE n \in 0..Got(s)
      <4>1. n \in Nat /\ Written(s, n)
        BY <1>0, <1>1, <1>2, <2>3, <2>9, <3>2
      <4> QED
        BY <2>8, <4>1, OldEntries
    <3>3. CASE n = e
      BY <1>1, <2>7, <2>9, <3>3
    <3> QED
      BY <3>1, <3>2, <3>3
  <2>10. \A t \in Streams \ {s} : Got(t)' = Got(t)
    BY <1>4, StaysApart DEF WorkerNext, Apart, Got, Left, ClosePending, Serves
  <2>11. ~broken' => \A t \in Used : \A n \in 0..Got(t)' : Written(t, n)'
    <3> SUFFICES ASSUME ~broken', NEW t \in Used
                 PROVE  \A n \in 0..Got(t)' : Written(t, n)'
      OBVIOUS
    <3>1. t \in Streams
      BY DEF Used
    <3>2. CASE t = s
      BY <2>9, <3>2
    <3>3. CASE t # s
      BY <1>3, <2>8, <2>10, <3>1, <3>3
    <3> QED
      BY <3>2, <3>3
  <2> QED
    BY <2>3, <2>7, <2>11 DEF WireInv
<1>5. ASSUME NEW s \in Streams, Open(s) \/ OpenFails(s)
      PROVE  WireInv'
  <2>1. /\ stream[s] = "none" /\ stream'[s] \in {"open", "dropped"} /\ sent' = sent
        /\ OpenFails(s) => stream'[s] = "dropped"
    BY <1>5 DEF Open, OpenFails, Opens, TypeOK
  <2>2. s \notin Used /\ s \in Used' /\ worker[s] = "none" /\ sent[s] = 0
    BY <2>1 DEF Used, WorkerInv, Matches
  <2>3. Got(s) = 0
    BY <2>2, Types DEF ChannelInv, Holds, Got
  <2>4. Got(s)' = 0
    <3>1. ~WriteEvent(s)
      BY <2>2 DEF WriteEvent, Takes
    <3> QED
      BY <1>0, <2>3, <3>1
  <2>5. \A k \in 1..Len(wire) : wire[k].of # s
    BY <2>2 DEF WireInv, Follows
  <2>6. PICK cut \in BOOLEAN : /\ Put(s, 0, cut)
                               /\ ~broken /\ cut => timeout
                               /\ cut => OpenFails(s)
    BY <1>5 DEF Open, OpenFails
  <2>7. /\ \A k \in 1..Len(wire') : Follows(k)'
        /\ ~broken => Written(s, 0)'
    <3>1. 0 \in Nat /\ 0 <= Got(s)' /\ \A n \in 0..(0 - 1) : Written(s, n)
      BY <2>4
    <3>2. cut => Stillborn(s)'
      BY <2>1, <2>2, <2>6 DEF Stillborn
    <3> QED
      BY <2>2, <2>5, <2>6, <3>1, <3>2, NextEntry
  <2>8. Keeps
    <3>1. 0 \in Nat
      OBVIOUS
    <3> QED
      BY <2>6, <3>1, PutKeeps
  <2>9. \A t \in Streams \ {s} : Got(t)' = Got(t) /\ (t \in Used' => t \in Used)
    BY <1>5, StaysApart DEF OwnerNext, Apart, Got, Left, ClosePending, Serves, Used
  <2>10. ~broken' => \A t \in Used' : \A n \in 0..Got(t)' : Written(t, n)'
    <3> SUFFICES ASSUME ~broken', NEW t \in Used'
                 PROVE  \A n \in 0..Got(t)' : Written(t, n)'
      OBVIOUS
    <3>1. t \in Streams
      BY DEF Used
    <3>2. CASE t = s
      BY <1>1, <2>4, <2>7, <3>2
    <3>3. CASE t # s
      BY <1>3, <2>8, <2>9, <3>1, <3>3
    <3> QED
      BY <3>2, <3>3
  <2> QED
    BY <2>7, <2>10 DEF WireInv
<1>6. CASE \A s \in Streams : ~WriteEvent(s) /\ ~Open(s) /\ ~OpenFails(s)
  <2>1. wire' = wire
    BY <1>6, WireStays
  <2>2. Keeps
    BY <2>1, Types DEF Keeps, Earlier
  <2>3. \A t \in Streams : t \in Used' => t \in Used /\ Got(t)' = Got(t)
    BY <1>0, <1>6, UsedGrows
  <2>4. \A k \in 1..Len(wire') : Follows(k)'
    BY <2>1, <2>2, OldEntries
  <2> QED
    BY <1>3, <2>2, <2>3, <2>4 DEF WireInv, Used
<1> QED
  BY <1>4, <1>5, <1>6
-----------------------------------------------------------------------------
(* A worker that has ended has ended for good.                             *)
LEMMA EndedStays ==
  ASSUME TypeOK, WorkerInv, [Next]_vars, NEW t \in Streams, worker[t] = "ended"
  PROVE  worker'[t] = "ended"
<1>1. CASE OwnerNext(t)
  BY <1>1 DEF OwnerNext, Open, OpenFails, Opens, Detach, Send, StartClose, CloseAgain, DropStream,
              WorkerInv, Matches, Serves, TypeOK
<1>2. CASE WorkerNext(t)
  BY <1>2 DEF WorkerNext, Receives, RecvEvent, WriteEvent, RecvClose, RecvEnds, CloseReturns, Takes,
              TypeOK
<1>3. CASE \E s \in Streams \ {t} : OwnerNext(s) \/ WorkerNext(s)
  BY <1>3, StaysApart DEF Apart
<1>4. CASE ConnNext \/ UNCHANGED vars
  BY <1>4, ConnStays
<1> QED
  BY <1>1, <1>2, <1>3, <1>4, Steps

(* Who puts an entry on the wire: a stream whose worker has not ended.     *)
LEMMA WireGrows ==
  ASSUME TypeOK, WorkerInv, ChannelInv, [Next]_vars
  PROVE  /\ \A k \in 1..Len(wire) : wire'[k] = wire[k]
         /\ \A k \in 1..Len(wire') :
              k \in 1..Len(wire) \/ (k = Len(wire) + 1 /\ worker[wire'[k].of] # "ended")
<1>1. ASSUME NEW s \in Streams, WriteEvent(s) \/ Open(s) \/ OpenFails(s)
      PROVE  \E e \in Nat, cut \in BOOLEAN : Put(s, e, cut) /\ worker[s] # "ended"
  <2>1. CASE WriteEvent(s)
    BY <2>1, Writes
  <2>2. CASE Open(s) \/ OpenFails(s)
    <3>1. worker[s] = "none" /\ 0 \in Nat /\ (Put(s, 0, TRUE) \/ Put(s, 0, FALSE))
      BY <2>2 DEF Open, OpenFails, Opens, WorkerInv, Matches
    <3> QED
      BY <3>1
  <2> QED
    BY <1>1, <2>1, <2>2
<1>2. ASSUME NEW s \in Streams, NEW e \in Nat, NEW cut \in BOOLEAN, Put(s, e, cut), worker[s] # "ended"
      PROVE  /\ \A k \in 1..Len(wire) : wire'[k] = wire[k]
             /\ \A k \in 1..Len(wire') :
                  k \in 1..Len(wire) \/ (k = Len(wire) + 1 /\ worker[wire'[k].of] # "ended")
  <2>1. Keeps /\ \A k \in 1..Len(wire') : k \in 1..Len(wire) \/ (k = Len(wire) + 1 /\ ~broken)
    BY <1>2, PutKeeps
  <2>2. ~broken => wire'[Len(wire) + 1] = [of |-> s, event |-> e, cut |-> cut]
    BY <1>2, PutAdds
  <2> QED
    BY <1>2, <2>1, <2>2 DEF Keeps
<1>3. CASE \E s \in Streams : WriteEvent(s) \/ Open(s) \/ OpenFails(s)
  BY <1>1, <1>2, <1>3
<1>4. CASE \A s \in Streams : ~WriteEvent(s) /\ ~Open(s) /\ ~OpenFails(s)
  <2>1. wire' = wire
    BY <1>4, WireStays
  <2> QED
    BY <2>1
<1> QED
  BY <1>3, <1>4

(* A stream that was closed when another began writes no more.             *)
LEMMA CleanStep ==
  TypeOK /\ WorkerInv /\ ChannelInv /\ WireInv /\ CleanInv /\ [Next]_vars => CleanInv'
<1> SUFFICES ASSUME TypeOK, WorkerInv, ChannelInv, WireInv, CleanInv, [Next]_vars PROVE CleanInv'
  OBVIOUS
<1>1. ASSUME NEW s \in Streams
      PROVE  \/ closedAt'[s] = closedAt[s]
             \/ s \notin Used /\ \A t \in closedAt'[s] : t \in Streams /\ worker[t] = "ended"
  <2>1. CASE OwnerNext(s) \/ WorkerNext(s)
    <3>1. CASE Open(s) \/ OpenFails(s)
      <4>1. s \notin Used /\ closedAt'[s] = {t \in Streams : stream[t] = "closed"}
        BY <3>1 DEF Open, OpenFails, Opens, Used, TypeOK
      <4> QED
        BY <4>1 DEF WorkerInv, Matches
    <3>2. CASE WorkerNext(s)
      BY <3>2 DEF WorkerNext, Receives, RecvEvent, WriteEvent, RecvClose, RecvEnds, CloseReturns, ownerVars
    <3>3. CASE Detach(s) \/ Send(s) \/ StartClose(s) \/ CloseAgain(s) \/ DropStream(s)
      BY <3>3 DEF Detach, Send, StartClose, CloseAgain, DropStream
    <3> QED
      BY <2>1, <3>1, <3>2, <3>3 DEF OwnerNext
  <2>2. CASE \E t \in Streams \ {s} : OwnerNext(t) \/ WorkerNext(t)
    BY <2>2, StaysApart DEF Apart
  <2>3. CASE ConnNext \/ UNCHANGED vars
    BY <2>3, ConnStays
  <2> QED
    BY <2>1, <2>2, <2>3, Steps
<1>2. \A s \in Streams : \A t \in closedAt[s] : t \in Streams /\ worker[t] = "ended"
  BY DEF CleanInv, TypeOK
<1>3. \A s \in Streams : \A t \in closedAt'[s] : t \in Streams /\ worker[t] = "ended"
  BY <1>1, <1>2
<1>4. \A s \in Streams : \A t \in closedAt'[s] : worker'[t] = "ended"
  BY <1>3, EndedStays
<1>5. /\ \A k \in 1..Len(wire) : wire'[k] = wire[k]
      /\ \A k \in 1..Len(wire') :
           k \in 1..Len(wire) \/ (k = Len(wire) + 1 /\ worker[wire'[k].of] # "ended")
  BY WireGrows
<1>6. ASSUME NEW j \in 1..Len(wire'), NEW k \in 1..Len(wire'), j < k, wire'[j].event = 0
      PROVE  wire'[k].of \notin closedAt'[wire'[j].of]
  <2>1. Len(wire) \in Nat
    BY Types
  <2>2. j \in 1..Len(wire) /\ wire'[j] = wire[j]
    BY <1>5, <1>6, <2>1
  <2>3. wire[j].of \in Used /\ wire[j].of \in Streams
    BY <1>6, <2>2 DEF WireInv, Follows, Used
  <2>4. closedAt'[wire[j].of] = closedAt[wire[j].of]
    BY <1>1, <2>3
  <2>5. CASE k \in 1..Len(wire)
    <3>1. wire[k].of \notin closedAt[wire[j].of]
      BY <1>6, <2>2, <2>5 DEF CleanInv, NewStreamIsClean
    <3> QED
      BY <1>5, <2>2, <2>4, <2>5, <3>1
  <2>6. CASE worker[wire'[k].of] # "ended"
    BY <1>3, <2>2, <2>3, <2>6
  <2> QED
    BY <1>5, <2>5, <2>6
<1>7. NewStreamIsClean'
  BY <1>6 DEF NewStreamIsClean
<1> QED
  BY <1>4, <1>7 DEF CleanInv

-----------------------------------------------------------------------------
(* The streams' inductive invariant: what the channels and the wire hold   *)
(* of each, with write errors ignored and timeouts that cut writes, and    *)
(* who may still write.                                                    *)
THEOREM Invariance == Spec => []Inv
<1>1. Inv /\ [Next]_vars => Inv'
  BY TypeStep, WorkerStep, ChannelStep, WireStep, CleanStep DEF Inv
<1> QED
  BY <1>1, InitInv, PTL DEF Spec

(* Each stream reaches the wire as its head and then its events in the     *)
(* order they were sent (server_sent_events.rs), for any number of streams *)
(* and events; only a timeout cuts one of them, and nothing follows a head *)
(* that was cut.                                                           *)
THEOREM EventsInOrder == Spec => []StreamInOrder
<1>1. Inv => StreamInOrder
  <2> SUFFICES ASSUME Inv, NEW k \in 1..Len(wire)
               PROVE  /\ wire[k].event <= sent[wire[k].of]
                      /\ Earlier(k) = 0..(wire[k].event - 1)
                      /\ wire[k].cut => timeout
                      /\ wire[k].event > 0 => ~OnWire(wire[k].of, 0, TRUE)
    BY DEF Inv, StreamInOrder
  <2>1. PICK s \in Streams : s = wire[k].of
    BY DEF Inv, WireInv, Follows, Used
  <2>2. /\ wire[k].event <= Got(s) /\ Earlier(k) = 0..(wire[k].event - 1) /\ wire[k].event \in Nat
        /\ wire[k].cut => timeout
    BY <2>1, Types DEF Inv, WireInv, Follows
  <2>3. Left(s) \in 0..sent[s] /\ sent[s] \in Nat
    BY Types DEF Inv, ChannelInv, Holds
  <2>4. wire[k].event <= sent[s]
    BY <2>2, <2>3 DEF Got
  <2>5. ASSUME OnWire(s, 0, TRUE)
        PROVE  sent[s] = 0
    <3>1. PICK j \in 1..Len(wire) : wire[j] = [of |-> s, event |-> 0, cut |-> TRUE]
      BY <2>5 DEF OnWire
    <3> QED
      BY <3>1 DEF Inv, WireInv, Follows, Stillborn
  <2>6. wire[k].event > 0 => ~OnWire(s, 0, TRUE)
    <3>1. wire[k].event > 0 => sent[s] # 0
      BY <2>2, <2>3, <2>4
    <3> QED
      BY <2>5, <3>1, Zenon
  <2> QED
    BY <2>1, <2>2, <2>4, <2>6
<1> QED
  BY <1>1, Invariance, PTL

(* When close returns, everything sent before it has been written, or was  *)
(* cut by the timeout, or the socket is broken.                            *)
THEOREM CloseIsAFlush == Spec => []CloseFlushes
<1>1. Inv => CloseFlushes
  <2> SUFFICES ASSUME Inv, NEW s \in Streams, stream[s] = "closed", ~broken, NEW n \in 1..sent[s]
               PROVE  Written(s, n)
    BY DEF CloseFlushes
  <2>1. channel[s] = <<>> /\ ~ClosePending(s)
    BY DEF Inv, WorkerInv, Matches, ChannelInv, Holds, ClosePending, Serves
  <2>2. Left(s) = 0 /\ sent[s] \in Nat
    BY <2>1, EmptySeq, Types DEF Left, Inv
  <2>3. s \in Used /\ n \in 0..Got(s)
    BY <2>2 DEF Used, Got
  <2> QED
    BY <2>3 DEF Inv, WireInv
<1> QED
  BY <1>1, Invariance, PTL

(* Nothing of a closed stream is written into one that is made after it on *)
(* the same socket.                                                        *)
THEOREM StreamsDoNotMix == Spec => []NewStreamIsClean
<1>1. Inv => NewStreamIsClean
  BY DEF Inv, CleanInv
<1> QED
  BY <1>1, Invariance, PTL
=============================================================================
