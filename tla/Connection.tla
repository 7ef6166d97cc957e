----------------------------- MODULE Connection -----------------------------
(***************************************************************************)
(* One TCP connection: the loop of handle (src/lib/internal/handle.rs),    *)
(* which reads a request (Request::from_socket), gets a response and       *)
(* writes it (Response::write) until the connection is to be closed, and   *)
(* the client at the other end.                                            *)
(*                                                                         *)
(* A request is sent as two units, 1 (the request line and the first       *)
(* headers) and 2 (the rest).  What get_response does is known by the      *)
(* outcomes that module Pipeline guarantees (Outcomes).  End hooks change  *)
(* nothing here but that one may poison the socket's mutex, and are left   *)
(* to Pipeline.                                                            *)
(***************************************************************************)
EXTENDS Integers, Sequences, Outcomes, ConnectionSettings

Requests == 1..MaxRequests

(* With "Connection: keep-alive"; without it; with a first unit that does  *)
(* not parse; or "fatal": from_socket panics at one of its headers.        *)
Kinds == {"keep-alive", "close", "bad", "fatal"}

VARIABLES
  setting,    \* the setting of this connection (does not change)
  kind,       \* what each request is
  sent,       \* how many units the client has sent, of all its requests
  inbox,      \* the units in the socket that the server has not read
  client,     \* "open", "finished" (sends no more) or "gone" (reset)
  pc,         \* where the thread that runs handle is
  buf,        \* the BufReader of the from_socket call that runs
  request,    \* the request that was read, 0 for none
  result,     \* what from_socket returned: "ok" or an error; or its "panic"
  keepAlive,  \* the local of handle
  flag,       \* the outcome of get_response
  poisoned,   \* whether the mutex around the socket is poisoned
  replies     \* every response that was put on the wire

vars == <<setting, kind, sent, inbox, client, pc, buf, request, result, keepAlive,
          flag, poisoned, replies>>
clientVars == <<setting, kind, sent, client>>

Unit(n) == [of |-> (n + 1) \div 2, part |-> IF n % 2 = 1 THEN 1 ELSE 2]
Units == [of : Requests, part : 1..2]
Reply(full) == [to |-> request, error |-> result # "ok", flag |-> flag, full |-> full]

TypeOK ==
  /\ setting \in Settings
  /\ kind \in [Requests -> Kinds]
  /\ sent \in 0..(2 * MaxRequests)
  /\ inbox \in Seq(Units) /\ buf \in Seq(Units) /\ Len(inbox) + Len(buf) <= sent
  /\ client \in {"open", "finished", "gone"}
  /\ pc \in {"read", "respond", "write", "next", "closed", "dead"}
  /\ request \in 0..MaxRequests
  /\ result \in {"ok", "panic"} \cup RequestErrors
  /\ keepAlive \in BOOLEAN
  /\ flag \in Flags \cup {"crash"}
  /\ poisoned \in BOOLEAN
  /\ replies \in Seq([to : 0..MaxRequests, error : BOOLEAN, flag : Flags, full : BOOLEAN])

Init ==
  /\ setting \in Settings
  /\ kind \in [Requests -> Kinds]
  /\ sent = 0
  /\ inbox = <<>>
  /\ client = "open"
  /\ pc = "read"
  /\ buf = <<>>
  /\ request = 0
  /\ result = "ok"
  /\ keepAlive = FALSE
  /\ flag = "None"
  /\ poisoned = FALSE
  /\ replies = <<>>

Ended == pc \in {"closed", "dead"}

Answered(r) == \E n \in 1..Len(replies) : replies[n].to = r

-----------------------------------------------------------------------------
(* The client.                                                             *)

MayStart(r) == setting.pipelining \/ r = 1 \/ Answered(r - 1)

ClientSends ==
  /\ client = "open" /\ ~Ended
  /\ sent < 2 * MaxRequests
  /\ Unit(sent + 1).part = 1 => MayStart(Unit(sent + 1).of)
  /\ sent' = sent + 1
  /\ inbox' = Append(inbox, Unit(sent + 1))
  /\ UNCHANGED <<setting, kind, client, pc, buf, request, result, keepAlive, flag,
                 poisoned, replies>>

ClientFinishes ==
  /\ client = "open"
  /\ client' = "finished"
  /\ UNCHANGED <<setting, kind, sent, inbox, pc, buf, request, result, keepAlive, flag,
                 poisoned, replies>>

(* A reset also discards what the server has not read.                     *)
ClientResets ==
  /\ client # "gone" /\ ~Ended
  /\ client' = "gone"
  /\ inbox' = <<>>
  /\ UNCHANGED <<setting, kind, sent, pc, buf, request, result, keepAlive, flag,
                 poisoned, replies>>

-----------------------------------------------------------------------------
(* Request::from_socket.                                                   *)

StartsRequest == buf # <<>> /\ buf[1].part = 1

Valid == StartsRequest /\ kind[buf[1].of] # "bad"

NeedsMore == buf = <<>> \/ (Valid /\ Len(buf) = 1)

FillNewReaderMutant ==
  /\ pc = "read" /\ NeedsMore
  /\ \E n \in 1..Len(inbox) :
       /\ buf' = SubSeq(inbox, 1, n)
       /\ inbox' = SubSeq(inbox, n + 1, Len(inbox))
  /\ UNCHANGED <<clientVars, pc, request, result, keepAlive, flag, poisoned, replies>>

(* read(2) takes some of what has arrived; BufReader keeps it.             *)
Fill ==
  /\ pc = "read" /\ NeedsMore
  /\ \E n \in 1..Len(inbox) :
       /\ buf' = buf \o SubSeq(inbox, 1, n)
       /\ inbox' = SubSeq(inbox, n + 1, Len(inbox))
  /\ UNCHANGED <<clientVars, pc, request, result, keepAlive, flag, poisoned, replies>>

(* keep_alive is a local of the loop's body: FALSE unless a request that   *)
(* was read sets it.                                                       *)
KeptMutant(keep) == keep \/ keepAlive
Kept(keep) == keep

(* from_socket's BufReader is dropped with what is left in it.             *)
Leftover == <<>>

Returns(r, outcome, keep) ==
  /\ pc' = "respond"
  /\ request' = r
  /\ result' = outcome
  /\ keepAlive' = Kept(keep)
  /\ buf' = Leftover
  /\ UNCHANGED <<clientVars, inbox, flag, poisoned, replies>>

ReadRequest ==
  /\ pc = "read"
  /\ Valid /\ Len(buf) >= 2 /\ kind[buf[1].of] # "fatal"
  /\ Returns(buf[1].of, "ok", kind[buf[1].of] = "keep-alive")

(* parse_request_line fails on the first line that is none, be it one from *)
(* the middle of a request.                                                *)
ReadMalformed ==
  /\ pc = "read"
  /\ buf # <<>> /\ ~Valid
  /\ Returns(buf[1].of, "Parse", FALSE)

(* The client closes between two requests: an empty line does not parse.   *)
AtEof == client = "finished" /\ inbox = <<>>

ReadClosed ==
  /\ pc = "read" /\ AtEof
  /\ buf = <<>>
  /\ Returns(0, "Parse", FALSE)

(* It closes within a request: half a request line does not parse; the end *)
(* of the stream counts as the end of the headers; in the body it is an    *)
(* UnexpectedEof.                                                          *)
ReadTruncated ==
  /\ pc = "read" /\ AtEof
  /\ Valid /\ Len(buf) = 1
  /\ \/ \E error \in {"Parse", "Stream"} : Returns(buf[1].of, error, FALSE)
     \/ \E keep \in {FALSE, kind[buf[1].of] = "keep-alive"} :
          Returns(buf[1].of, "ok", keep)

(* A panic of from_socket, which nothing catches and which has the socket  *)
(* locked: a header line is cut two bytes before its end, which may be in  *)
(* the middle of a character (so it may at the end of the stream), and a   *)
(* body of the announced length is allocated (the whole process aborts if  *)
(* that is less than the address space but more than there is).            *)
ReadPanics ==
  /\ pc = "read" /\ Valid
  /\ kind[buf[1].of] = "fatal" \/ (AtEof /\ Len(buf) = 1)
  /\ pc' = "dead"
  /\ request' = buf[1].of
  /\ result' = "panic"
  /\ keepAlive' = FALSE
  /\ buf' = Leftover
  /\ poisoned' = TRUE
  /\ UNCHANGED <<clientVars, inbox, flag, replies>>

(* A read that waits longer than the socket timeout, or a reset.           *)
ReadFails ==
  /\ pc = "read" /\ NeedsMore
  /\ (setting.timeout /\ inbox = <<>>) \/ client = "gone"
  /\ \E error \in {"Stream", "Io"} :
       Returns(IF buf = <<>> THEN 0 ELSE buf[1].of, error, FALSE)

-----------------------------------------------------------------------------
AfterResponseSkipsErrorsMutant(outcome) ==
  CASE outcome = "crash" -> "dead"
    [] outcome = "End" -> "closed"
    [] OTHER -> IF result = "ok" THEN "write" ELSE "read"

(* An End response leaves the loop and drops the socket; a panic of the    *)
(* error handler ends the thread, which drops it too.                      *)
AfterResponse(outcome) ==
  CASE outcome = "crash" -> "dead"
    [] outcome = "End" -> "closed"
    [] OTHER -> "write"

(* A hook or route that panics while it has req.socket locked poisons the  *)
(* mutex.  Only a request that was read has them.                          *)
MayPoison == setting.usersHoldSocket /\ result = "ok"

Respond(outcome) ==
  /\ pc = "respond"
  /\ flag' = outcome
  /\ pc' = AfterResponse(outcome)
  /\ poisoned' \in {poisoned} \cup (IF MayPoison THEN {TRUE} ELSE {})
  /\ UNCHANGED <<clientVars, inbox, buf, request, result, keepAlive, replies>>

GetResponse == \E outcome \in Outcomes(result) : Respond(outcome)

(* Response::write: its error is only logged.  Part of a response is out   *)
(* when the client is gone, a write times out or the body cannot be read.  *)
MayBreakOff == client = "gone" \/ setting.timeout \/ setting.bodiesFail

Write ==
  /\ pc = "write" /\ ~poisoned
  /\ \E full \in (IF client = "gone" THEN {} ELSE {TRUE})
              \cup (IF MayBreakOff THEN {FALSE} ELSE {}) :
       replies' = Append(replies, Reply(full))
  /\ pc' = "next"
  /\ UNCHANGED <<clientVars, inbox, buf, request, result, keepAlive, flag, poisoned>>

(* stream.lock().unwrap(): nothing catches this panic.                     *)
WritePanics ==
  /\ pc = "write" /\ poisoned
  /\ pc' = "dead"
  /\ UNCHANGED <<clientVars, inbox, buf, request, result, keepAlive, flag,
                 poisoned, replies>>

(* A streamed body's Read is the user's, and runs with the socket locked.  *)
WriteBodyPanics ==
  /\ pc = "write" /\ ~poisoned
  /\ setting.bodiesFail /\ result = "ok"
  /\ replies' = Append(replies, Reply(FALSE))
  /\ pc' = "dead"
  /\ poisoned' = TRUE
  /\ UNCHANGED <<clientVars, inbox, buf, request, result, keepAlive, flag>>

EndHookPoisons ==
  /\ pc = "next" /\ ~poisoned /\ MayPoison
  /\ poisoned' = TRUE
  /\ UNCHANGED <<clientVars, inbox, pc, buf, request, result, keepAlive, flag, replies>>

Closes == ~keepAlive \/ flag = "Close" \/ ~setting.keepAlive

(* To shut the socket down is again stream.lock().unwrap(); reading is not *)
(* (force_lock).                                                           *)
Continue ==
  /\ pc = "next"
  /\ pc' = CASE ~Closes -> "read"
             [] Closes /\ ~poisoned -> "closed"
             [] Closes /\ poisoned -> "dead"
  /\ UNCHANGED <<clientVars, inbox, buf, request, result, keepAlive, flag,
                 poisoned, replies>>

Stopped == Ended /\ UNCHANGED vars

ClientNext == ClientSends \/ ClientFinishes \/ ClientResets

Returning ==
  ReadRequest \/ ReadMalformed \/ ReadClosed \/ ReadTruncated \/ ReadFails

ServerNext ==
  \/ Fill \/ Returning \/ ReadPanics \/ GetResponse
  \/ Write \/ WritePanics \/ WriteBodyPanics \/ EndHookPoisons \/ Continue

Next == ClientNext \/ ServerNext \/ Stopped

Spec == Init /\ [][Next]_vars

(***************************************************************************)
(* The thread runs unless it waits in read; a timeout that is set expires. *)
(* User code returns.  A client that has not reset the connection reads    *)
(* what it is sent, also after it has finished sending: without a timeout, *)
(* a write to one that does not would block (that is module SseStream's).  *)
(***************************************************************************)
FairSpec == Spec /\ WF_vars(ServerNext)

-----------------------------------------------------------------------------
(* Responses go out in the order of the requests, one for each at most.    *)
(* An error response to a request that could not be read is the last thing *)
(* on the connection: what follows in the stream has no known boundary.    *)
(* So is a response with the Close flag, and the one to a request that     *)
(* does not ask for keep-alive.                                            *)
InOrder ==
  /\ TypeOK
  /\ \A n \in 2..Len(replies) : replies[n].to = 0 \/ replies[n - 1].to < replies[n].to
  /\ \A n \in 1..(Len(replies) - 1) :
       /\ ~replies[n].error
       /\ kind[replies[n].to] = "keep-alive" /\ setting.keepAlive
       /\ replies[n].flag # "Close"

(* A client that waits for each response gets one to every request it      *)
(* sent whole, unless the connection ends.                                 *)
NoRequestLost ==
  ~setting.pipelining /\ pc = "read" /\ buf = <<>> /\ inbox = <<>> /\ client # "gone" =>
    \A r \in Requests : 2 * r <= sent => Answered(r)

(* And the response is an error only if the request is not valid or was    *)
(* cut short: no byte of a request is lost between two reads.  The thread  *)
(* dies of the error handler's panic, of one in from_socket for a header   *)
(* of the request, or where it was cut short, of the panic of a body that  *)
(* thereby stays unfinished, or because someone's panic left the socket's  *)
(* mutex poisoned; of nothing else.                                        *)
ErrorsAreDeserved ==
  /\ pc = "dead" => \/ flag = "crash"
                    \/ result = "panic" /\ (kind[request] = "fatal" \/ sent < 2 * request)
                    \/ setting.bodiesFail /\ replies # <<>> /\ ~replies[Len(replies)].full
                    \/ setting.usersHoldSocket /\ poisoned
  /\ ~setting.pipelining /\ ~setting.timeout => \A n \in 1..Len(replies) :
    LET r == replies[n].to
    IN  replies[n].error /\ r # 0 /\ client # "gone" => kind[r] = "bad" \/ sent < 2 * r

(* The thread is released once the client closes or, with a timeout, stops *)
(* sending.                                                                *)
Released == client # "open" \/ setting.timeout ~> Ended
=============================================================================
