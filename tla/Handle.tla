------------------------------- MODULE Handle -------------------------------
(***************************************************************************)
(* The loop of handle (src/lib/internal/handle.rs) with get_response in    *)
(* it: module Connection, in which the outcome of get_response is what the *)
(* chains and routes of module Pipeline make it, for the request that      *)
(* from_socket returned.  For middlewares without raw hooks.               *)
(***************************************************************************)
EXTENDS Pipeline, ConnectionSettings

(* As in Connection, where the thread is (here at) is called pc.           *)
VARIABLES setting, kind, sent, inbox, client, at, buf, request, result, keepAlive, flag,
          poisoned, replies

(* History: whether an end hook of the request before left it poisoned.    *)
VARIABLE endPoisoned

Conn == INSTANCE Connection WITH pc <- at

connVars == <<setting, kind, sent, inbox, client, at, buf, request, result, keepAlive, flag,
              poisoned, replies>>
allVars == <<vars, connVars, endPoisoned>>

HandleInit ==
  /\ Conn!Init
  /\ Init /\ raw = {} /\ req = "ok"
  /\ endPoisoned = FALSE

-----------------------------------------------------------------------------
ClientSteps == Conn!ClientNext /\ UNCHANGED <<vars, endPoisoned>>

Fill == Conn!Fill /\ UNCHANGED <<vars, endPoisoned>>

(* get_response(req, this), for what from_socket returned.                 *)
Calls(r) ==
  /\ pc' = "pre"
  /\ pos' = NMiddle
  /\ req' = r
  /\ res' = Err("None")
  /\ out' = NoResponse
  /\ endReq' = FALSE
  /\ log' = <<>>
  /\ UNCHANGED raw

FromSocket ==
  /\ Conn!Returning
  /\ Calls(result')
  /\ endPoisoned' = (poisoned /\ HookSaid("end", "panic"))

FromSocketPanics == Conn!ReadPanics /\ UNCHANGED <<vars, endPoisoned>>

(* A hook, a route or the error handler, or the code between them.         *)
InGetResponse == at = "respond" /\ GetResponse /\ UNCHANGED <<connVars, endPoisoned>>

Outcome == IF pc = "crashed" THEN "crash" ELSE out.flag

(* The user code that has req.socket at hand, but for the error handler,   *)
(* whose panic ends the thread anyway.                                     *)
Panicked(hooks) == \E hook \in hooks : HookSaid(hook, "panic")

(* get_response returned or panicked.  What poisons the mutex is a hook or *)
(* route that panics with the socket locked.                               *)
Respond ==
  /\ pc \in {"send", "crashed"}
  /\ Conn!Respond(Outcome)
  /\ poisoned' # poisoned => Panicked({"pre", "route", "post"})
  /\ UNCHANGED <<vars, endPoisoned>>

(* write, and get ready for the end hooks.                                 *)
Write == Conn!Write /\ Send /\ UNCHANGED endPoisoned

WritePanics == Conn!WritePanics /\ UNCHANGED <<vars, endPoisoned>>

WriteBodyPanics == Conn!WriteBodyPanics /\ UNCHANGED <<vars, endPoisoned>>

RunEndHook ==
  /\ at = "next" /\ EndHook
  /\ \/ UNCHANGED connVars
     \/ Conn!EndHookPoisons /\ log'[Len(log')].verdict = "panic"
  /\ UNCHANGED endPoisoned

ContinueEarlyMutant == Conn!Continue /\ UNCHANGED <<vars, endPoisoned>>
Continue == Conn!Continue /\ Done /\ UNCHANGED <<vars, endPoisoned>>

Stopped == Conn!Stopped /\ UNCHANGED <<vars, endPoisoned>>

ServerNext ==
  \/ Fill \/ FromSocket \/ FromSocketPanics \/ InGetResponse \/ Respond
  \/ Write \/ WritePanics \/ WriteBodyPanics \/ RunEndHook \/ Continue

HandleNext == ClientSteps \/ ServerNext \/ Stopped

HandleSpec == HandleInit /\ [][HandleNext]_allVars

(* As in Connection.                                                       *)
FairHandleSpec == HandleSpec /\ WF_allVars(ServerNext)

-----------------------------------------------------------------------------
(* With the real pipeline in it, the loop does what Connection says: its   *)
(* assumption on the outcomes of get_response (Outcomes) is what the       *)
(* chains, routes and the error handler guarantee for each request.        *)
ImplementsConnection == Conn!Spec

(* So replies keep the requests' order, a client that waits is answered,   *)
(* and errors have their cause, also with hooks around every request.      *)
InOrder == Conn!InOrder
NoRequestLost == Conn!NoRequestLost
ErrorsAreDeserved == Conn!ErrorsAreDeserved

(* The chains end, so that the thread is released here, too.               *)
Released == Conn!Released

(* What ends the thread is the error handler's panic; what the client sent *)
(* (a header that from_socket panics at, or the end of the stream within   *)
(* the headers); the panic of a body's Read, which leaves the last reply   *)
(* unfinished; or a hook or route that panicked with the socket locked, in *)
(* the request at hand or, an end hook, in the one just before: poison is  *)
(* not left behind in the mutex for longer.                                *)
DeathsHaveCauses ==
  at = "dead" =>
    \/ HookSaid("error_handler", "panic")
    \/ result = "panic" /\ (kind[request] = "fatal" \/ sent < 2 * request)
    \/ setting.bodiesFail /\ replies # <<>> /\ replies[Len(replies)].to = request
                          /\ ~replies[Len(replies)].full
    \/ setting.usersHoldSocket /\ (Panicked({"pre", "route", "post", "end"}) \/ endPoisoned)

(* End hooks run for a request that was read, after the reply to it; when  *)
(* the next request is read, or the connection was closed but by End, all  *)
(* of those that are due have run.                                         *)
EndHooksFollowReplies ==
  /\ HookRan("end") /\ result # "panic" =>
       result = "ok" /\ replies # <<>> /\ replies[Len(replies)].to = request
  /\ endReq /\ (at = "read" \/ (at = "closed" /\ flag # "End")) =>
       \A i \in Middle : \E e \in Entries : e.hook = "end" /\ e.at = i
=============================================================================
