------------------------------ MODULE Pipeline ------------------------------
(***************************************************************************)
(* One request on its way through get_response, handle_route and           *)
(* error_response, and then the end hooks that handle runs for it          *)
(* (src/lib/internal/handle.rs), with the default hooks of                 *)
(* src/lib/middleware.rs.                                                  *)
(*                                                                         *)
(* Hooks, routes and the error handler are user code: what they return is  *)
(* nondeterministic, and each of them may panic.  Middleware i is the i-th *)
(* that was attached; every chain runs from the newest to the oldest.  A   *)
(* hook cannot make a Request (it has a private field), so a failed        *)
(* request stays failed.                                                   *)
(***************************************************************************)
EXTENDS Integers, Sequences, Outcomes

CONSTANTS NMiddle,      \* the number of middlewares attached
          HookErrors    \* errors the raw hooks put in place of their argument

Middle == 1..NMiddle
Errors == {"None", "Startup", "Stream", "Parse", "NotFound", "Panic", "Io"}

ASSUME NMiddleAssumption == NMiddle \in Nat
ASSUME HookErrorsAssumption == HookErrors \subseteq Errors

VARIABLES
  raw,      \* the middlewares that override the raw hooks (does not change)
  pc,       \* the chain that runs ("pre", "post", "end") or the step after it
  pos,      \* the middleware whose hook is next, 0 once the chain is over
  req,      \* Result<Request>: "ok" or the error
  res,      \* Result<Response> between the chains
  out,      \* the response that is sent
  endReq,   \* whether get_response returned the request for the end hooks
  log       \* history: the user code that ran, and what it returned

vars == <<raw, pc, pos, req, res, out, endReq, log>>

Ok(r) == [ok |-> TRUE, value |-> r]
Err(e) == [ok |-> FALSE, value |-> e]

(* A response is known by who made it.                                     *)
Origins == {"pre", "route", "post", "error_handler", "builtin"}
Responses == [from : Origins, flag : Flags]
From(origin) == [from : {origin}, flag : Flags]
NoResponse == [from |-> "nobody", flag |-> "None"]

Ran(hook, i, verdict) ==
  log' = Append(log, [hook |-> hook, at |-> i, verdict |-> verdict])

TypeOK ==
  /\ raw \subseteq Middle
  /\ pc \in {"pre", "post", "handler", "send", "end", "crashed"}
  /\ pos \in 0..NMiddle
  /\ req \in {"ok"} \cup Errors
  /\ res \in {Ok(r) : r \in Responses} \cup {Err(e) : e \in Errors}
  /\ out \in Responses \cup {NoResponse}
  /\ endReq \in BOOLEAN

Init ==
  /\ raw \in SUBSET Middle
  /\ pc = "pre"
  /\ pos = NMiddle
  /\ req \in {"ok"} \cup RequestErrors
  /\ res = Err("None")
  /\ out = NoResponse
  /\ endReq = FALSE
  /\ log = <<>>

(* The end of get_response: the response to send, and whether the request  *)
(* goes to the end hooks.                                                  *)
Return(responses, request) ==
  /\ pc' = "send"
  /\ out' \in responses
  /\ endReq' = request

(* A panic was caught: the user's error handler answers.                   *)
CallHandler(request) ==
  /\ pc' = "handler"
  /\ endReq' = request
  /\ UNCHANGED out

(* The two ways on in a chain: to the next middleware, or out of the loop. *)
ToNext == pos' = pos - 1
Break == pos' = 0

-----------------------------------------------------------------------------
(* The pre chain.                                                          *)

PreSeesMutant(i) == TRUE

(* The default pre_raw calls pre only if the request was read.             *)
PreSees(i) == i \in raw \/ req = "ok"

PreDefault ==
  /\ pc = "pre" /\ pos > 0
  /\ ~PreSees(pos)
  /\ ToNext
  /\ UNCHANGED <<raw, pc, req, res, out, endReq, log>>

(* A raw hook may also replace the request by an error.                    *)
PreCalled(verdict) ==
  /\ pc = "pre" /\ pos > 0
  /\ PreSees(pos)
  /\ req' \in {req} \cup (IF pos \in raw THEN HookErrors ELSE {})
  /\ Ran("pre", pos, verdict)

PreContinue ==
  /\ PreCalled("Continue")
  /\ ToNext
  /\ UNCHANGED <<raw, pc, res, out, endReq>>

PreAbortContinuesMutant ==
  /\ PreCalled("Abort")
  /\ ToNext
  /\ UNCHANGED <<raw, pc, res, out, endReq>>

PreAbort ==
  /\ PreCalled("Abort")
  /\ Break
  /\ UNCHANGED <<raw, pc, res, out, endReq>>

PreSend ==
  /\ PreCalled("Send")
  /\ res' \in {Ok(r) : r \in From("pre")}
  /\ Break
  /\ UNCHANGED <<raw, pc, out, endReq>>

PrePanic ==
  /\ PreCalled("panic")
  /\ CallHandler(req' = "ok")
  /\ UNCHANGED <<raw, pos, res>>

-----------------------------------------------------------------------------
(* Routing, only if no hook has answered and the request was read.         *)
Routable == ~res.ok /\ req = "ok"

ToPost ==
  /\ pc = "pre" /\ pos = 0
  /\ pc' = "post"
  /\ pos' = NMiddle
  /\ UNCHANGED <<raw, req, out, endReq>>

RouteSkipped == ToPost /\ ~Routable /\ UNCHANGED <<raw, res, log>>

(* The newest route that matches answers.                                  *)
RouteReplies ==
  /\ ToPost /\ Routable
  /\ \E r \in From("route") : res' = Ok(r) /\ Ran("route", 0, r.flag)

RoutePanics == ToPost /\ Routable /\ res' = Err("Panic") /\ Ran("route", 0, "panic")

NoRoute == ToPost /\ Routable /\ res' = Err("NotFound") /\ UNCHANGED log

-----------------------------------------------------------------------------
(* The post chain.                                                         *)

(* The default post_raw calls post only if both results are Ok.            *)
PostSees(i) == i \in raw \/ (req = "ok" /\ res.ok)

PostDefault ==
  /\ pc = "post" /\ pos > 0
  /\ ~PostSees(pos)
  /\ ToNext
  /\ UNCHANGED <<raw, pc, req, res, out, endReq, log>>

PostCalled(verdict) ==
  /\ pc = "post" /\ pos > 0
  /\ PostSees(pos)
  /\ Ran("post", pos, verdict)
  /\ UNCHANGED req

(* A post hook may replace the response, a raw one also by an error.       *)
PostEdits ==
  res' \in {res} \cup {Ok(r) : r \in From("post")}
                 \cup (IF pos \in raw THEN {Err(e) : e \in HookErrors} ELSE {})

PostContinue ==
  /\ PostCalled("Continue")
  /\ PostEdits
  /\ ToNext
  /\ UNCHANGED <<raw, pc, out, endReq>>

PostAbort ==
  /\ PostCalled("Abort")
  /\ PostEdits
  /\ Break
  /\ UNCHANGED <<raw, pc, out, endReq>>

PostSend ==
  /\ PostCalled("Send")
  /\ Return(From("post"), req = "ok")
  /\ UNCHANGED <<raw, pos, res>>

PostPanic ==
  /\ PostCalled("panic")
  /\ CallHandler(req = "ok")
  /\ UNCHANGED <<raw, pos, res>>

-----------------------------------------------------------------------------
TheErrorMutant == res.value

(* The error to answer: one of the request goes before one of the response.*)
TheError == IF req = "ok" THEN res.value ELSE req

(* The response, or error_response of the error.                           *)
Resolve ==
  /\ pc = "post" /\ pos = 0
  /\ CASE res.ok -> Return({res.value}, req = "ok")
       [] ~res.ok /\ TheError \in {"None", "Startup"} ->   \* unreachable!()
            pc' = "crashed" /\ UNCHANGED <<out, endReq>>
       [] ~res.ok /\ TheError = "Panic" -> CallHandler(FALSE)
       [] OTHER -> Return({[from |-> "builtin", flag |-> "None"]}, FALSE)
  /\ UNCHANGED <<raw, pos, req, res, log>>

ErrorHandler ==
  /\ pc = "handler"
  /\ Return(From("error_handler"), endReq)
  /\ Ran("error_handler", 0, "reply")
  /\ UNCHANGED <<raw, pos, req, res>>

(* Nothing catches a panic of the error handler.                           *)
ErrorHandlerPanics ==
  /\ pc = "handler"
  /\ pc' = "crashed"
  /\ Ran("error_handler", 0, "panic")
  /\ UNCHANGED <<raw, pos, req, res, out, endReq>>

-----------------------------------------------------------------------------
(* Back in handle: an End response is not written and ends the connection; *)
(* any other is written, then the end hooks run if there is a request.     *)
Send ==
  /\ pc = "send"
  /\ pc' = "end"
  /\ pos' = IF endReq /\ out.flag # "End" THEN NMiddle ELSE 0
  /\ UNCHANGED <<raw, req, res, out, endReq, log>>

(* A panic of an end hook is caught.                                       *)
EndHook ==
  /\ pc = "end" /\ pos > 0
  /\ \E verdict \in {"return", "panic"} : Ran("end", pos, verdict)
  /\ ToNext
  /\ UNCHANGED <<raw, pc, req, res, out, endReq>>

Done == pc = "end" /\ pos = 0

Finished == (Done \/ pc = "crashed") /\ UNCHANGED vars

GetResponse ==
  \/ PreDefault \/ PreContinue \/ PreAbort \/ PreSend \/ PrePanic
  \/ RouteSkipped \/ RouteReplies \/ RoutePanics \/ NoRoute
  \/ PostDefault \/ PostContinue \/ PostAbort \/ PostSend \/ PostPanic
  \/ Resolve \/ ErrorHandler \/ ErrorHandlerPanics

Next == GetResponse \/ Send \/ EndHook \/ Finished

Spec == Init /\ [][Next]_vars

-----------------------------------------------------------------------------
Entries == {log[n] : n \in 1..Len(log)}
HookRan(hook) == \E e \in Entries : e.hook = hook
HookSaid(hook, verdict) == \E e \in Entries : e.hook = hook /\ e.verdict = verdict

(* A panic of a hook or route never leaves get_response: the thread dies   *)
(* only of the error handler's own panic, and the unreachable!() in        *)
(* error_response is not reached, unless a raw hook itself has put None or *)
(* Startup in place of its argument.                                       *)
PanicContained ==
  pc = "crashed" => \/ HookSaid("error_handler", "panic")
                    \/ raw # {} /\ TheError \in HookErrors \cap {"None", "Startup"}

Rank(hook) ==
  CASE hook = "pre" -> 1
    [] hook = "route" -> 2
    [] hook = "post" -> 3
    [] hook = "error_handler" -> 4
    [] hook = "end" -> 5

MayFollow(e, f) ==
  /\ Rank(e.hook) <= Rank(f.hook)
  /\ e.hook = f.hook => e.at > f.at
  /\ e.hook \in {"pre", "post"} /\ e.verdict # "Continue" =>
       \/ Rank(f.hook) >= 4
       \/ e.verdict # "panic" /\ f.hook # e.hook

(* Each hook runs at most once, the newest middleware's first and the      *)
(* phases in order; Abort, Send or a panic stops its chain, and after a    *)
(* panic only the error handler and the end hooks run.  A request that a   *)
(* pre hook rejected by Send (RateLimiter does) never reaches its route.   *)
(* The end hooks of all middlewares run, or none: a panic of one does not  *)
(* keep the others from running.  The response a post hook sends is final. *)
ChainDiscipline ==
  /\ TypeOK
  /\ \A b \in 1..Len(log) : \A a \in 1..(b - 1) : MayFollow(log[a], log[b])
  /\ HookSaid("pre", "Send") => ~HookRan("route")
  /\ Done /\ HookRan("end") =>
       \A i \in Middle : \E e \in Entries : e.hook = "end" /\ e.at = i
  /\ Done /\ HookSaid("post", "Send") => out.from = "post"
=============================================================================
