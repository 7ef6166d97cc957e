--------------------------- MODULE PipelineProofs ---------------------------
(***************************************************************************)
(* Proofs about the request pipeline, for any number of middlewares and    *)
(* whatever errors their raw hooks return.                                 *)
(*                                                                         *)
(* The argument about the order: the log holds entries of the chains up to *)
(* the one that runs, and of that one the middlewares above pos, so that   *)
(* the entry of the next hook may follow every other one.  The argument    *)
(* about errors: Err(None) is the state before routing, and routing or a   *)
(* raw hook replaces it before the error is looked at.                     *)
(*                                                                         *)
(* Then about the loop of handle around it (Handle): for each call the     *)
(* pipeline starts anew, so that its invariant holds throughout, and with  *)
(* it the loop is an instance of Connection, whose theorems hold of it.    *)
(***************************************************************************)
EXTENDS Handle, SequenceTheorems, TLAPS

Hooks == {"pre", "route", "post", "error_handler", "end"}
Verdicts == {"Continue", "Abort", "Send", "panic", "reply", "return"} \cup Flags

LogType == log \in Seq([hook : Hooks, at : 0..NMiddle, verdict : Verdicts])

(* What has run when pc is at a chain or a step, and how it ended.         *)
PreLog ==
  pc = "pre" => \A e \in Entries :
    /\ e.hook = "pre" /\ e.at > pos
    /\ pos > 0 => e.verdict = "Continue"
    /\ e.verdict \in {"Continue", "Abort", "Send"}

PostLog ==
  pc = "post" => \A e \in Entries :
    /\ e.hook \in {"pre", "route", "post"}
    /\ e.hook = "pre" => e.verdict \in {"Continue", "Abort", "Send"}
    /\ e.hook = "post" => /\ e.at > pos
                          /\ pos > 0 => e.verdict = "Continue"
                          /\ e.verdict \in {"Continue", "Abort"}

LaterLog ==
  /\ pc = "handler" => \A e \in Entries : e.hook \in {"pre", "route", "post"}
  /\ pc = "send" => \A e \in Entries : e.hook # "end"
  /\ pc = "end" => \A e \in Entries : e.hook = "end" => e.at > pos

EndsInv ==
  pc = "end" /\ (pos > 0 \/ HookRan("end")) =>
    \A i \in (pos + 1)..NMiddle : \E e \in Entries : e.hook = "end" /\ e.at = i

OrderInv == \A b \in 1..Len(log) : \A a \in 1..(b - 1) : MayFollow(log[a], log[b])

(* A request that a pre hook has answered is not routed.                   *)
SendInv ==
  /\ pc = "pre" /\ HookSaid("pre", "Send") => res.ok
  /\ HookSaid("pre", "Send") => ~HookRan("route")

(* A response that a post hook sends is not touched again.                 *)
FinalInv ==
  /\ pc \in {"pre", "post"} => ~HookSaid("post", "Send")
  /\ pc = "handler" => ~HookSaid("post", "Send")
  /\ pc \in {"send", "end"} /\ HookSaid("post", "Send") => out.from = "post"

(* None and Startup are no errors of from_socket or of routing.            *)
Bogus(e) == e \in {"None", "Startup"}
BogusInv ==
  /\ Bogus(req) => raw # {} /\ req \in HookErrors
  /\ pc = "post" /\ req = "ok" /\ ~res.ok /\ Bogus(res.value) =>
       raw # {} /\ res.value \in HookErrors
  /\ pc = "pre" /\ ~res.ok => res = Err("None")

(* Without raw hooks nothing sees a request that could not be read.        *)
PlainInv ==
  raw = {} => /\ req \in {"ok"} \cup RequestErrors
              /\ req # "ok" => /\ pc \in {"pre", "post", "send", "end"}
                               /\ pc \in {"pre", "post"} => ~res.ok
                               /\ pc \in {"send", "end"} => out.flag = "None"

TypeInv == TypeOK /\ LogType
ChainInv == PreLog /\ PostLog /\ LaterLog /\ EndsInv /\ OrderInv /\ SendInv /\ FinalInv
ErrorInv == BogusInv /\ PlainInv
-----------------------------------------------------------------------------
Entry(hook, i, verdict) == [hook |-> hook, at |-> i, verdict |-> verdict]

(* What ran is added to the log.                                           *)
LEMMA RanType ==
  ASSUME LogType, NEW hook \in Hooks, NEW i \in 0..NMiddle, NEW verdict \in Verdicts,
         Ran(hook, i, verdict)
  PROVE  LogType'
<1>1. Entry(hook, i, verdict) \in [hook : Hooks, at : 0..NMiddle, verdict : Verdicts]
  BY DEF Entry
<1> QED
  BY <1>1 DEF Ran, Entry, LogType

LEMMA RanEntries ==
  ASSUME LogType, NEW hook, NEW i, NEW verdict, Ran(hook, i, verdict)
  PROVE  /\ Entries' = Entries \cup {Entry(hook, i, verdict)}
         /\ OrderInv /\ (\A e \in Entries : MayFollow(e, Entry(hook, i, verdict))) => OrderInv'
<1> DEFINE new == Entry(hook, i, verdict)
<1>1. /\ Len(log) \in Nat /\ Len(log') = Len(log) + 1
      /\ log'[Len(log) + 1] = new /\ \A n \in 1..Len(log) : log'[n] = log[n]
  BY DEF Ran, Entry, LogType
<1> HIDE DEF new
<1>2. Entries' = Entries \cup {new}
  BY <1>1 DEF Entries
<1>3. ASSUME OrderInv, \A e \in Entries : MayFollow(e, new)
      PROVE  OrderInv'
  <2> SUFFICES ASSUME NEW b \in 1..(Len(log) + 1), NEW a \in 1..(b - 1)
               PROVE  MayFollow(log'[a], log'[b])
    BY <1>1 DEF OrderInv
  <2>1. CASE b = Len(log) + 1
    BY <1>1, <1>3, <2>1 DEF Entries
  <2>2. CASE b \in 1..Len(log)
    BY <1>1, <1>3, <2>2 DEF OrderInv
  <2> QED
    BY <1>1, <2>1, <2>2
<1> QED
  BY <1>2, <1>3 DEF new

(* Records of the two shapes that res has.                                 *)
LEMMA Results ==
  /\ \A r : Ok(r).ok = TRUE /\ Ok(r).value = r
  /\ \A e : Err(e).ok = FALSE /\ Err(e).value = e
BY DEF Ok, Err

(* The log says what HookSaid and HookRan ask.                             *)
LEMMA EntryType ==
  ASSUME LogType
  PROVE  \A e \in Entries : e \in [hook : Hooks, at : 0..NMiddle, verdict : Verdicts]
<1> DEFINE Type == [hook : Hooks, at : 0..NMiddle, verdict : Verdicts]
<1>1. log \in Seq(Type)
  BY DEF LogType
<1> HIDE DEF Type
<1>2. \A n \in 1..Len(log) : log[n] \in Type
  BY <1>1, ElementOfSeq
<1> QED
  BY <1>2 DEF Entries, Type

-----------------------------------------------------------------------------
LEMMA InitInv == Init => TypeInv /\ ChainInv /\ ErrorInv
<1> SUFFICES ASSUME Init PROVE TypeInv /\ ChainInv /\ ErrorInv
  OBVIOUS
<1>1. log = <<>> /\ Entries = {}
  BY DEF Init, Entries
<1>2. LogType
  BY <1>1 DEF LogType
<1>3. TypeOK
  <2>1. RequestErrors \subseteq Errors /\ "None" \in Errors
    BY DEF RequestErrors, Errors
  <2>2. pos \in 0..NMiddle
    BY NMiddleAssumption DEF Init
  <2> QED
    BY <2>1, <2>2 DEF Init, TypeOK
<1>4. ChainInv
  BY <1>1, Results DEF ChainInv, PreLog, PostLog, LaterLog, EndsInv, OrderInv, SendInv,
                       FinalInv, HookSaid, HookRan, Init
<1>5. ErrorInv
  BY Results DEF ErrorInv, BogusInv, PlainInv, Init, Bogus, RequestErrors
<1> QED
  BY <1>2, <1>3, <1>4, <1>5 DEF TypeInv

-----------------------------------------------------------------------------
(* Every variable keeps its type.                                          *)
LEMMA TypeStep == TypeInv /\ [Next]_vars => TypeInv'
<1> SUFFICES ASSUME TypeInv, [Next]_vars PROVE TypeInv'
  OBVIOUS
<1> USE NMiddleAssumption, HookErrorsAssumption
<1>1. pos \in 0..NMiddle /\ LogType /\ TypeOK
  BY DEF TypeInv, TypeOK
<1>2. pos > 0 => pos - 1 \in 0..NMiddle
  BY <1>1
<1>3. "panic" \in Verdicts /\ "Continue" \in Verdicts /\ "Abort" \in Verdicts /\ "Send" \in Verdicts
      /\ "reply" \in Verdicts /\ "return" \in Verdicts /\ Flags \subseteq Verdicts
  BY DEF Verdicts
<1>4. From("pre") \subseteq Responses /\ From("route") \subseteq Responses
      /\ From("post") \subseteq Responses /\ From("error_handler") \subseteq Responses
  BY DEF From, Responses, Origins
<1>5. ASSUME NEW verdict \in Verdicts, PreCalled(verdict)
      PROVE  LogType' /\ req' \in {"ok"} \cup Errors
  <2>1. LogType'
    BY <1>1, <1>5, RanType DEF PreCalled, Hooks
  <2> QED
    BY <1>1, <1>5, <2>1 DEF PreCalled, TypeOK
<1>6. ASSUME NEW verdict \in Verdicts, PostCalled(verdict)
      PROVE  LogType' /\ req' = req
  BY <1>1, <1>6, RanType DEF PostCalled, Hooks
<1>7. CASE PreDefault \/ PostDefault \/ Send \/ Finished \/ UNCHANGED vars
  BY <1>1, <1>2, <1>7 DEF PreDefault, PostDefault, ToNext, Send, Finished, vars, TypeInv,
                          TypeOK, LogType
<1>8. CASE PreContinue \/ PreAbort
  BY <1>1, <1>2, <1>3, <1>5, <1>8 DEF PreContinue, PreAbort, PreCalled, ToNext, Break, TypeInv,
                                      TypeOK
<1>9. CASE PreSend
  BY <1>1, <1>2, <1>3, <1>4, <1>5, <1>9 DEF PreSend, PreCalled, Break, TypeInv, TypeOK
<1>10. CASE PrePanic
  BY <1>1, <1>3, <1>5, <1>10 DEF PrePanic, PreCalled, CallHandler, TypeInv, TypeOK
<1>11. CASE RouteSkipped \/ NoRoute
  BY <1>1, <1>11 DEF RouteSkipped, NoRoute, ToPost, TypeInv, TypeOK, LogType, Errors
<1>12. CASE RouteReplies \/ RoutePanics
  <2>1. LogType'
    BY <1>1, <1>3, <1>12, RanType DEF RouteReplies, RoutePanics, Hooks, From
  <2> QED
    BY <1>1, <1>4, <1>12, <2>1 DEF RouteReplies, RoutePanics, ToPost, TypeInv, TypeOK, Errors
<1>13. CASE PostContinue \/ PostAbort
  <2>1. res' \in {Ok(r) : r \in Responses} \cup {Err(e) : e \in Errors}
    BY <1>1, <1>4, <1>13 DEF PostContinue, PostAbort, PostEdits, TypeOK
  <2> QED
    BY <1>1, <1>2, <1>3, <1>6, <1>13, <2>1 DEF PostContinue, PostAbort, PostCalled, ToNext, Break,
                                               TypeInv, TypeOK
<1>14. CASE PostSend \/ PostPanic
  BY <1>1, <1>3, <1>4, <1>6, <1>14 DEF PostSend, PostPanic, PostCalled, Return, CallHandler,
                                       TypeInv, TypeOK
<1>15. CASE Resolve
  <2>1. res.ok => res.value \in Responses
    BY <1>1, Results DEF TypeOK
  <2>2. [from |-> "builtin", flag |-> "None"] \in Responses
    BY DEF Responses, Origins, Flags
  <2> QED
    BY <1>1, <1>15, <2>1, <2>2 DEF Resolve, Return, CallHandler, TypeInv, TypeOK, LogType
<1>16. CASE ErrorHandler \/ ErrorHandlerPanics
  <2>1. LogType'
    BY <1>1, <1>3, <1>16, RanType DEF ErrorHandler, ErrorHandlerPanics, Hooks
  <2> QED
    BY <1>1, <1>4, <1>16, <2>1 DEF ErrorHandler, ErrorHandlerPanics, Return, TypeInv, TypeOK
<1>17. CASE EndHook
  <2>1. LogType'
    BY <1>1, <1>3, <1>17, RanType DEF EndHook, Hooks
  <2> QED
    BY <1>1, <1>2, <1>17, <2>1 DEF EndHook, ToNext, TypeInv, TypeOK
<1> QED
  BY <1>7, <1>8, <1>9, <1>10, <1>11, <1>12, <1>13, <1>14, <1>15, <1>16, <1>17 DEF Next, GetResponse

-----------------------------------------------------------------------------
(* The ranks of two hooks compare as their phases do.                      *)
LEMMA Ranks ==
  /\ Rank("pre") = 1 /\ Rank("route") = 2 /\ Rank("post") = 3
  /\ Rank("error_handler") = 4 /\ Rank("end") = 5
BY DEF Rank

LEMMA NewEntry ==
  ASSUME NEW hook, NEW i, NEW verdict
  PROVE  /\ Entry(hook, i, verdict).hook = hook
         /\ Entry(hook, i, verdict).at = i
         /\ Entry(hook, i, verdict).verdict = verdict
BY DEF Entry

(* The order of what ran, and how each chain ended.                        *)
LEMMA ChainStep == TypeInv /\ ChainInv /\ [Next]_vars => ChainInv'
<1> SUFFICES ASSUME TypeInv, ChainInv, [Next]_vars PROVE ChainInv'
  OBVIOUS
<1> USE NMiddleAssumption
<1>1. pos \in 0..NMiddle /\ LogType
  BY DEF TypeInv, TypeOK
<1>2. \A e \in Entries : e.hook \in Hooks /\ e.at \in 0..NMiddle
  BY <1>1, EntryType
<1>3. PreLog /\ PostLog /\ LaterLog /\ EndsInv /\ OrderInv /\ SendInv /\ FinalInv
  BY DEF ChainInv
<1>4. ASSUME log' = log
      PROVE  Entries' = Entries /\ OrderInv'
  BY <1>3, <1>4 DEF Entries, OrderInv
<1>5. CASE UNCHANGED vars \/ Finished
  BY <1>3, <1>4, <1>5 DEF vars, Finished, ChainInv, PreLog, PostLog, LaterLog, EndsInv, SendInv,
                          FinalInv, HookSaid, HookRan
<1>6. CASE PreDefault
  BY <1>1, <1>2, <1>3, <1>4, <1>6 DEF PreDefault, ToNext, ChainInv, PreLog, PostLog, LaterLog,
                          EndsInv, SendInv, FinalInv, HookSaid, HookRan
<1>7. ASSUME NEW verdict, PreCalled(verdict)
      PROVE  /\ OrderInv' /\ Entries' = Entries \cup {Entry("pre", pos, verdict)}
             /\ pc = "pre" /\ pos > 0
             /\ \A e \in Entries : e.hook = "pre" /\ e.at > pos /\ e.verdict = "Continue"
  <2>1. /\ pc = "pre" /\ pos > 0
        /\ \A e \in Entries : e.hook = "pre" /\ e.at > pos /\ e.verdict = "Continue"
    BY <1>3, <1>7 DEF PreCalled, PreLog
  <2>2. \A e \in Entries : MayFollow(e, Entry("pre", pos, verdict))
    BY <2>1, Ranks, NewEntry DEF MayFollow
  <2> QED
    BY <1>1, <1>3, <1>7, <2>1, <2>2, RanEntries DEF PreCalled
<1>8. CASE PreContinue \/ PreAbort
  <2> DEFINE Went(verdict) ==
        /\ PreCalled(verdict) /\ UNCHANGED <<pc, res, out>> /\ verdict \in {"Continue", "Abort"}
        /\ pos' = IF verdict = "Continue" THEN pos - 1 ELSE 0
  <2>1. PICK verdict : Went(verdict)
    <3>1. Went("Continue") \/ Went("Abort")
      BY <1>8 DEF PreContinue, PreAbort, ToNext, Break
    <3> QED
      BY <3>1
  <2>2. PreLog'
    BY <1>1, <1>2, <1>7, <2>1, NewEntry DEF PreLog
  <2>3. SendInv' /\ FinalInv'
    BY <1>7, <2>1, NewEntry DEF SendInv, FinalInv, HookSaid, HookRan
  <2> QED
    BY <1>7, <2>1, <2>2, <2>3 DEF ChainInv, PostLog, LaterLog, EndsInv
<1>9. CASE PreSend
  <2>1. res'.ok
    BY <1>9, Results DEF PreSend
  <2>2. PreCalled("Send") /\ pos' = 0 /\ pc' = pc
    BY <1>9 DEF PreSend, Break
  <2>3. PreLog'
    BY <1>1, <1>2, <1>7, <2>2, NewEntry DEF PreLog
  <2>4. SendInv' /\ FinalInv'
    BY <1>7, <2>1, <2>2, NewEntry DEF SendInv, FinalInv, HookSaid, HookRan
  <2> QED
    BY <1>7, <2>2, <2>3, <2>4 DEF ChainInv, PostLog, LaterLog, EndsInv
<1>10. CASE PrePanic
  BY <1>1, <1>7, <1>10, NewEntry DEF PrePanic, CallHandler, ChainInv, PreLog, PostLog, LaterLog,
                          EndsInv, SendInv, FinalInv, HookSaid, HookRan
<1>11. CASE RouteSkipped \/ NoRoute
  BY <1>1, <1>2, <1>3, <1>4, <1>11 DEF RouteSkipped, NoRoute, ToPost, ChainInv, PreLog, PostLog,
                          LaterLog, EndsInv, SendInv, FinalInv, HookSaid, HookRan
<1>12. CASE RouteReplies \/ RoutePanics
  <2>1. PICK verdict : Ran("route", 0, verdict)
    BY <1>12 DEF RouteReplies, RoutePanics
  <2>2. pc = "pre" /\ pos = 0 /\ pc' = "post" /\ pos' = NMiddle /\ ~res.ok
    BY <1>12 DEF RouteReplies, RoutePanics, ToPost, Routable
  <2>3. \A e \in Entries : e.hook = "pre" /\ e.verdict \in {"Continue", "Abort", "Send"}
    BY <1>3, <2>2 DEF PreLog
  <2>4. \A e \in Entries : MayFollow(e, Entry("route", 0, verdict))
    BY <2>3, Ranks, NewEntry DEF MayFollow
  <2>5. OrderInv' /\ Entries' = Entries \cup {Entry("route", 0, verdict)}
    BY <1>1, <1>3, <2>1, <2>4, RanEntries
  <2>6. ~HookSaid("pre", "Send")
    BY <1>3, <2>2 DEF SendInv
  <2> QED
    BY <2>2, <2>3, <2>5, <2>6, NewEntry DEF ChainInv, PreLog, PostLog, LaterLog, EndsInv, SendInv,
                          FinalInv, HookSaid, HookRan
<1>13. CASE PostDefault
  BY <1>1, <1>2, <1>3, <1>4, <1>13 DEF PostDefault, ToNext, ChainInv, PreLog, PostLog, LaterLog,
                          EndsInv, SendInv, FinalInv, HookSaid, HookRan
<1>14. ASSUME NEW verdict, PostCalled(verdict)
       PROVE  /\ OrderInv' /\ Entries' = Entries \cup {Entry("post", pos, verdict)}
              /\ pc = "post" /\ pos > 0
              /\ \A e \in Entries :
                   /\ e.hook \in {"pre", "route", "post"}
                   /\ e.hook = "pre" => e.verdict \in {"Continue", "Abort", "Send"}
                   /\ e.hook = "post" => e.at > pos /\ e.verdict = "Continue"
  <2>1. /\ pc = "post" /\ pos > 0
        /\ \A e \in Entries :
             /\ e.hook \in {"pre", "route", "post"}
             /\ e.hook = "pre" => e.verdict \in {"Continue", "Abort", "Send"}
             /\ e.hook = "post" => e.at > pos /\ e.verdict = "Continue"
    BY <1>3, <1>14 DEF PostCalled, PostLog
  <2>2. \A e \in Entries : MayFollow(e, Entry("post", pos, verdict))
    BY <2>1, Ranks, NewEntry DEF MayFollow
  <2> QED
    BY <1>1, <1>3, <1>14, <2>1, <2>2, RanEntries DEF PostCalled
<1>15. CASE PostContinue \/ PostAbort
  <2> DEFINE Went(verdict) ==
        /\ PostCalled(verdict) /\ UNCHANGED <<pc, out>> /\ verdict \in {"Continue", "Abort"}
        /\ pos' = IF verdict = "Continue" THEN pos - 1 ELSE 0
  <2>1. PICK verdict : Went(verdict)
    <3>1. Went("Continue") \/ Went("Abort")
      BY <1>15 DEF PostContinue, PostAbort, ToNext, Break
    <3> QED
      BY <3>1
  <2>2. PostLog'
    BY <1>1, <1>2, <1>14, <2>1, NewEntry DEF PostLog
  <2>3. SendInv' /\ FinalInv'
    BY <1>3, <1>14, <2>1, NewEntry DEF SendInv, FinalInv, HookSaid, HookRan
  <2> QED
    BY <1>14, <2>1, <2>2, <2>3 DEF ChainInv, PreLog, LaterLog, EndsInv
<1>16. CASE PostSend
  <2>1. out'.from = "post"
    BY <1>16 DEF PostSend, Return, From
  <2> QED
    BY <1>1, <1>3, <1>14, <1>16, <2>1, NewEntry DEF PostSend, Return, ChainInv, PreLog, PostLog,
                          LaterLog, EndsInv, SendInv, FinalInv, HookSaid, HookRan
<1>17. CASE PostPanic
  BY <1>1, <1>3, <1>14, <1>17, NewEntry DEF PostPanic, CallHandler, ChainInv, PreLog, PostLog,
                          LaterLog, EndsInv, SendInv, FinalInv, HookSaid, HookRan
<1>18. CASE Resolve
  <2>1. pc = "post" /\ pc' \in {"send", "handler", "crashed"} /\ log' = log
    BY <1>18 DEF Resolve, Return, CallHandler
  <2> QED
    BY <1>3, <1>4, <2>1 DEF ChainInv, PreLog, PostLog, LaterLog, EndsInv, SendInv, FinalInv,
                            HookSaid, HookRan
<1>19. CASE ErrorHandler \/ ErrorHandlerPanics
  <2>1. PICK verdict : Ran("error_handler", 0, verdict)
    BY <1>19 DEF ErrorHandler, ErrorHandlerPanics
  <2>2. pc = "handler" /\ pc' \in {"send", "crashed"} /\ UNCHANGED res
    BY <1>19 DEF ErrorHandler, ErrorHandlerPanics, Return
  <2>3. \A e \in Entries : e.hook \in {"pre", "route", "post"}
    BY <1>3, <2>2 DEF LaterLog
  <2>4. \A e \in Entries : MayFollow(e, Entry("error_handler", 0, verdict))
    BY <2>3, Ranks, NewEntry DEF MayFollow
  <2>5. OrderInv' /\ Entries' = Entries \cup {Entry("error_handler", 0, verdict)}
    BY <1>1, <1>3, <2>1, <2>4, RanEntries
  <2> QED
    BY <1>3, <2>2, <2>3, <2>5, NewEntry DEF ChainInv, PreLog, PostLog, LaterLog, EndsInv, SendInv,
                          FinalInv, HookSaid, HookRan
<1>20. CASE Send
  BY <1>1, <1>2, <1>3, <1>4, <1>20 DEF Send, ChainInv, PreLog, PostLog, LaterLog, EndsInv, SendInv,
                          FinalInv, HookSaid, HookRan
<1>21. CASE EndHook
  <2>1. PICK verdict : Ran("end", pos, verdict)
    BY <1>21 DEF EndHook
  <2>2. pc = "end" /\ pos > 0 /\ pos' = pos - 1 /\ UNCHANGED <<pc, res, out>>
    BY <1>21 DEF EndHook, ToNext
  <2>3. \A e \in Entries : e.hook = "end" => e.at > pos
    BY <1>3, <2>2 DEF LaterLog
  <2>4. \A e \in Entries : MayFollow(e, Entry("end", pos, verdict))
    BY <1>2, <2>3, Ranks, NewEntry DEF MayFollow, Hooks
  <2>5. OrderInv' /\ Entries' = Entries \cup {Entry("end", pos, verdict)}
    BY <1>1, <1>3, <2>1, <2>4, RanEntries
  <2>6. EndsInv'
    BY <1>1, <1>3, <2>2, <2>5, NewEntry DEF EndsInv
  <2>7. LaterLog'
    BY <1>1, <1>2, <2>2, <2>3, <2>5, NewEntry DEF LaterLog
  <2>8. SendInv' /\ FinalInv'
    BY <1>3, <2>2, <2>5, NewEntry DEF SendInv, FinalInv, HookSaid, HookRan
  <2> QED
    BY <2>2, <2>5, <2>6, <2>7, <2>8 DEF ChainInv, PreLog, PostLog
<1> QED
  BY <1>5, <1>6, <1>8, <1>9, <1>10, <1>11, <1>12, <1>13, <1>15, <1>16, <1>17, <1>18, <1>19, <1>20,
     <1>21 DEF Next, GetResponse
-----------------------------------------------------------------------------
(* Where the errors come from, and what they lead to.                      *)
LEMMA ErrorStep == TypeInv /\ ErrorInv /\ PanicContained /\ [Next]_vars => ErrorInv' /\ PanicContained'
<1> SUFFICES ASSUME TypeInv, ErrorInv, PanicContained, [Next]_vars
             PROVE  ErrorInv' /\ PanicContained'
  OBVIOUS
<1> USE NMiddleAssumption, HookErrorsAssumption DEF Bogus
<1>1. pos \in 0..NMiddle /\ LogType /\ raw \subseteq Middle
  BY DEF TypeInv, TypeOK
<1>2. BogusInv /\ PlainInv
  BY DEF ErrorInv
<1>3. pos > 0 => pos \in Middle
  BY <1>1 DEF Middle
<1>4. ~Bogus("ok") /\ \A e \in RequestErrors : ~Bogus(e) /\ e # "ok"
  BY DEF RequestErrors
<1>5. CASE UNCHANGED vars \/ Finished
  <2>1. UNCHANGED <<raw, pc, req, res, out, log>>
    BY <1>5 DEF vars, Finished
  <2> QED
    BY <1>2, <2>1 DEF ErrorInv, BogusInv, PlainInv, PanicContained, HookSaid, Entries, TheError
<1>6. CASE PreDefault \/ PostDefault
  BY <1>2, <1>6 DEF PreDefault, PostDefault, ErrorInv, BogusInv, PlainInv, PanicContained
<1>7. ASSUME NEW verdict, PreCalled(verdict), raw' = raw
      PROVE  /\ Bogus(req') => raw # {} /\ req' \in HookErrors
             /\ raw = {} => req' = "ok" /\ req = "ok"
             /\ pc = "pre"
  BY <1>2, <1>4, <1>7 DEF PreCalled, PreSees, BogusInv, PlainInv
<1>8. CASE PreContinue \/ PreAbort
  BY <1>2, <1>7, <1>8 DEF PreContinue, PreAbort, ErrorInv, BogusInv, PlainInv, PanicContained
<1>9. CASE PreSend
  <2>1. res'.ok
    BY <1>9, Results DEF PreSend
  <2> QED
    BY <1>2, <1>7, <1>9, <2>1 DEF PreSend, ErrorInv, BogusInv, PlainInv, PanicContained
<1>10. CASE PrePanic
  BY <1>2, <1>7, <1>10 DEF PrePanic, CallHandler, ErrorInv, BogusInv, PlainInv, PanicContained
<1>11. CASE RouteSkipped \/ RouteReplies \/ RoutePanics \/ NoRoute
  <2>1. pc = "pre" /\ pc' = "post" /\ UNCHANGED <<raw, req, out>>
    BY <1>11 DEF RouteSkipped, RouteReplies, RoutePanics, NoRoute, ToPost
  <2>2. ~res'.ok /\ req' = "ok" => res'.value \in {"Panic", "NotFound"}
    BY <1>11, Results DEF RouteSkipped, RouteReplies, RoutePanics, NoRoute, ToPost, Routable
  <2>3. req # "ok" => UNCHANGED res
    BY <1>11 DEF RouteSkipped, RouteReplies, RoutePanics, NoRoute, Routable
  <2> QED
    BY <1>2, <2>1, <2>2, <2>3 DEF ErrorInv, BogusInv, PlainInv, PanicContained
<1>12. ASSUME NEW verdict, PostCalled(verdict), raw' = raw
       PROVE  pc = "post" /\ req' = req /\ (raw = {} => req = "ok")
  BY <1>2, <1>12 DEF PostCalled, PostSees, PlainInv
<1>13. CASE PostContinue \/ PostAbort
  <2>1. /\ pc = "post" /\ pc' = "post" /\ UNCHANGED <<raw, req, out>> /\ (raw = {} => req = "ok")
        /\ PostEdits
    BY <1>12, <1>13 DEF PostContinue, PostAbort, PostCalled
  <2>2. ~res'.ok => res' = res \/ (raw # {} /\ res'.value \in HookErrors)
    <3>1. CASE res' = res
      BY <3>1
    <3>2. CASE \E r : res' = Ok(r)
      BY <3>2, Results
    <3>3. CASE pos \in raw /\ \E e \in HookErrors : res' = Err(e)
      BY <3>3, Results
    <3> QED
      BY <2>1, <3>1, <3>2, <3>3 DEF PostEdits
  <2> QED
    BY <1>2, <2>1, <2>2 DEF ErrorInv, BogusInv, PlainInv, PanicContained
<1>14. CASE PostSend \/ PostPanic
  BY <1>2, <1>12, <1>14 DEF PostSend, PostPanic, Return, CallHandler, ErrorInv, BogusInv, PlainInv,
                            PanicContained
<1>15. CASE Resolve
  <2>1. pc = "post" /\ UNCHANGED <<raw, pos, req, res, log>>
    BY <1>15 DEF Resolve
  <2>2. ~res.ok /\ TheError \in {"None", "Startup"} => raw # {} /\ TheError \in HookErrors
    BY <1>2, <2>1 DEF BogusInv, TheError
  <2>3. raw = {} /\ req # "ok" => ~res.ok /\ TheError = req /\ req \in RequestErrors
    BY <1>2, <2>1 DEF PlainInv, TheError
  <2>4. \A e \in RequestErrors : e \notin {"Panic", "None", "Startup"}
    BY DEF RequestErrors
  <2>5. pc' \in {"send", "handler", "crashed"}
    BY <1>15 DEF Resolve, Return, CallHandler
  <2>6. pc' = "crashed" => ~res.ok /\ TheError \in {"None", "Startup"}
    BY <1>15 DEF Resolve, Return, CallHandler
  <2>7. raw = {} /\ req # "ok" => pc' = "send" /\ out'.flag = "None"
    <3> SUFFICES ASSUME raw = {}, req # "ok" PROVE pc' = "send" /\ out'.flag = "None"
      OBVIOUS
    <3>1. ~res.ok /\ TheError \notin {"None", "Startup"} /\ TheError # "Panic"
      BY <2>3, <2>4
    <3>2. Return({[from |-> "builtin", flag |-> "None"]}, FALSE)
      BY <1>15, <3>1, Zenon DEF Resolve
    <3> QED
      BY <3>2 DEF Return
  <2>8. PanicContained'
    BY <2>1, <2>2, <2>6 DEF PanicContained, TheError
  <2> QED
    BY <1>2, <2>1, <2>5, <2>7, <2>8 DEF ErrorInv, BogusInv, PlainInv
<1>16. CASE ErrorHandler \/ ErrorHandlerPanics
  <2>1. pc = "handler" /\ pc' \in {"send", "crashed"} /\ UNCHANGED <<raw, req, res>>
    BY <1>16 DEF ErrorHandler, ErrorHandlerPanics, Return
  <2>2. pc' = "crashed" => Ran("error_handler", 0, "panic")
    BY <1>16 DEF ErrorHandler, ErrorHandlerPanics, Return
  <2>3. pc' = "crashed" => HookSaid("error_handler", "panic")'
    BY <1>1, <2>2, RanEntries, NewEntry DEF HookSaid
  <2> QED
    BY <1>2, <2>1, <2>3 DEF ErrorInv, BogusInv, PlainInv, PanicContained
<1>17. CASE Send \/ EndHook
  BY <1>2, <1>17 DEF Send, EndHook, ErrorInv, BogusInv, PlainInv, PanicContained
<1> QED
  BY <1>5, <1>6, <1>8, <1>9, <1>10, <1>11, <1>13, <1>14, <1>15, <1>16, <1>17 DEF Next, GetResponse

-----------------------------------------------------------------------------
Inv == TypeInv /\ ChainInv /\ ErrorInv /\ PanicContained

LEMMA InitAll == Init => Inv
BY InitInv DEF Init, Inv, PanicContained

(* The pipeline keeps its types, what each chain has logged, and where an  *)
(* error may have come from: the inductive invariant.                      *)
THEOREM Invariance == Spec => []Inv
<1>1. Init => Inv
  BY InitAll
<1>2. Inv /\ [Next]_vars => Inv'
  BY TypeStep, ChainStep, ErrorStep DEF Inv
<1> QED
  BY <1>1, <1>2, PTL DEF Spec

(* What ran did so in order, once, and as the verdicts say, whatever the   *)
(* middlewares and routes return (get_response in src/lib/internal/        *)
(* handle.rs), for any number of middlewares; and the response that a post *)
(* hook sends reaches the client as it is.                                 *)
THEOREM OrderOfHooks == Spec => []ChainDiscipline
<1>1. Inv => ChainDiscipline
  <2> SUFFICES ASSUME Inv PROVE ChainDiscipline
    OBVIOUS
  <2>1. Done /\ HookRan("end") => \A i \in Middle : \E e \in Entries : e.hook = "end" /\ e.at = i
    BY DEF Inv, ChainInv, EndsInv, Done, Middle
  <2> QED
    BY <2>1 DEF Inv, TypeInv, ChainInv, OrderInv, SendInv, FinalInv, Done, ChainDiscipline
<1> QED
  BY <1>1, Invariance, PTL

(* What the connection loop relies on (Outcomes): a request that could not *)
(* be read gets the plain error response, and no hook, route or error      *)
(* handler can end its connection or its thread.  For middlewares without  *)
(* raw hooks.                                                              *)
ContractKept ==
  raw = {} => /\ Done => out.flag \in Outcomes(req)
              /\ pc = "crashed" => "crash" \in Outcomes(req)

(* What the connection loop is told of the pipeline (Outcomes) is true of  *)
(* it: a failed request gets the plain error response and ends no thread   *)
(* (get_response in handle.rs).                                            *)
THEOREM ContractIsKept == Spec => []ContractKept
<1>1. Inv => ContractKept
  <2> SUFFICES ASSUME Inv, raw = {}
               PROVE  /\ Done => out.flag \in Outcomes(req)
                      /\ pc = "crashed" => "crash" \in Outcomes(req)
    BY DEF ContractKept
  <2>1. TypeOK /\ PlainInv
    BY DEF Inv, TypeInv, ErrorInv
  <2>2. CASE req = "ok"
    BY <2>1, <2>2 DEF TypeOK, Responses, NoResponse, Outcomes, Flags, RequestErrors
  <2>3. CASE req # "ok"
    BY <2>1, <2>3 DEF PlainInv, Done, Outcomes
  <2> QED
    BY <2>2, <2>3
<1> QED
  BY <1>1, Invariance, PTL

(* Nothing but the error handler's own panic, or an error that a raw hook  *)
(* made up, ends the thread (the catch_unwind calls in handle.rs).         *)
THEOREM PanicsAreContained == Spec => []PanicContained
<1>1. Inv => PanicContained
  BY DEF Inv
<1> QED
  BY <1>1, Invariance, PTL

-----------------------------------------------------------------------------
(* The loop of handle around the pipeline.                                 *)
C == INSTANCE ConnectionProofs WITH pc <- at

(* The two instances are the same.                                         *)
LEMMA SameInit == Conn!Init => C!Init
BY DEF Conn!Init, C!Init, Conn!Requests, C!Requests, Conn!Kinds, C!Kinds

LEMMA SameClient == Conn!ClientNext => C!ClientNext
BY DEF Conn!ClientNext, C!ClientNext, Conn!ClientSends, C!ClientSends, Conn!ClientFinishes,
       C!ClientFinishes, Conn!ClientResets, C!ClientResets, Conn!Ended, C!Ended, Conn!Unit, C!Unit,
       Conn!MayStart, C!MayStart, Conn!Answered, C!Answered

LEMMA SameReturning == Conn!Returning => C!Returning
BY DEF Conn!Returning, C!Returning, Conn!Returns, C!Returns, Conn!ReadRequest, C!ReadRequest,
       Conn!ReadMalformed, C!ReadMalformed, Conn!ReadClosed, C!ReadClosed, Conn!ReadTruncated,
       C!ReadTruncated, Conn!ReadFails, C!ReadFails, Conn!Valid, C!Valid, Conn!StartsRequest,
       C!StartsRequest, Conn!NeedsMore, C!NeedsMore, Conn!AtEof, C!AtEof, Conn!Kept, C!Kept,
       Conn!Leftover, C!Leftover, Conn!clientVars, C!clientVars

LEMMA SameServer ==
  /\ Conn!Fill => C!Fill
  /\ Conn!GetResponse => C!GetResponse
  /\ Conn!Write => C!Write
  /\ Conn!WritePanics => C!WritePanics
  /\ Conn!Continue => C!Continue
  /\ Conn!ReadPanics => C!ReadPanics
  /\ Conn!WriteBodyPanics => C!WriteBodyPanics
  /\ Conn!EndHookPoisons => C!EndHookPoisons
<1>1. Conn!Fill => C!Fill
  BY DEF Conn!Fill, C!Fill, Conn!NeedsMore, C!NeedsMore, Conn!Valid, C!Valid, Conn!StartsRequest,
         C!StartsRequest, Conn!clientVars, C!clientVars
<1>2. Conn!GetResponse => C!GetResponse
  BY DEF Conn!GetResponse, C!GetResponse, Conn!Respond, C!Respond, Conn!Outcomes, C!Outcomes,
         Conn!RequestErrors, C!RequestErrors, Conn!Flags, C!Flags, Conn!AfterResponse,
         C!AfterResponse, Conn!MayPoison, C!MayPoison, Conn!clientVars, C!clientVars
<1>3. Conn!Write => C!Write
  BY DEF Conn!Write, C!Write, Conn!Reply, C!Reply, Conn!MayBreakOff, C!MayBreakOff,
         Conn!clientVars, C!clientVars
<1>4. Conn!WritePanics => C!WritePanics
  BY DEF Conn!WritePanics, C!WritePanics, Conn!clientVars, C!clientVars
<1>5. Conn!Continue => C!Continue
  BY DEF Conn!Continue, C!Continue, Conn!Closes, C!Closes, Conn!clientVars, C!clientVars
<1>6. Conn!ReadPanics => C!ReadPanics
  BY DEF Conn!ReadPanics, C!ReadPanics, Conn!Valid, C!Valid, Conn!StartsRequest, C!StartsRequest,
         Conn!AtEof, C!AtEof, Conn!Leftover, C!Leftover, Conn!clientVars, C!clientVars
<1>7. Conn!WriteBodyPanics => C!WriteBodyPanics
  BY DEF Conn!WriteBodyPanics, C!WriteBodyPanics, Conn!Reply, C!Reply, Conn!clientVars,
         C!clientVars
<1>8. Conn!EndHookPoisons => C!EndHookPoisons
  BY DEF Conn!EndHookPoisons, C!EndHookPoisons, Conn!MayPoison, C!MayPoison, Conn!clientVars,
         C!clientVars
<1> QED
  BY <1>1, <1>2, <1>3, <1>4, <1>5, <1>6, <1>7, <1>8

LEMMA SameSpec == Conn!Spec => C!Spec
<1>1. Conn!vars = C!vars
  BY DEF Conn!vars, C!vars
<1>2. Conn!Stopped => C!Stopped
  BY <1>1 DEF Conn!Stopped, C!Stopped, Conn!Ended, C!Ended, Conn!vars, C!vars
<1>3. [Conn!Next]_Conn!vars => [C!Next]_C!vars
  BY <1>1, <1>2, SameClient, SameReturning, SameServer
     DEF Conn!Next, C!Next, Conn!ServerNext, C!ServerNext, Conn!vars, C!vars
<1> QED
  BY <1>3, SameInit, PTL DEF Conn!Spec, C!Spec

(* handle's steps, as the pipeline sees them.                              *)
LEMMA PipelineSteps ==
  ASSUME [HandleNext]_allVars
  PROVE  \/ FromSocket \/ FromSocketPanics
         \/ [Next]_vars /\ UNCHANGED result /\ (at = "dead" => at' = "dead")
<1>1. CASE ClientSteps
  BY <1>1 DEF ClientSteps, Conn!ClientNext, Conn!ClientSends, Conn!ClientFinishes,
              Conn!ClientResets
<1>2. CASE Fill
  BY <1>2 DEF Fill, Conn!Fill
<1>3. CASE InGetResponse \/ RunEndHook
  BY <1>3 DEF InGetResponse, RunEndHook, connVars, Next, Conn!EndHookPoisons
<1>4. CASE Respond
  BY <1>4 DEF Respond, Conn!Respond
<1>5. CASE Write \/ WritePanics \/ WriteBodyPanics
  BY <1>5 DEF Write, WritePanics, WriteBodyPanics, Conn!Write, Conn!WritePanics,
              Conn!WriteBodyPanics, Next
<1>6. CASE Continue \/ Stopped \/ UNCHANGED allVars
  BY <1>6 DEF Continue, Stopped, Conn!Continue, Conn!Stopped, Conn!vars, allVars, connVars
<1> QED
  BY <1>1, <1>2, <1>3, <1>4, <1>5, <1>6 DEF HandleNext, ServerNext

(* Without raw hooks, no one replaces the request by an error.             *)
LEMMA RequestKept ==
  ASSUME raw = {}, [Next]_vars
  PROVE  UNCHANGED <<raw, req>>
<1>1. ASSUME NEW verdict, PreCalled(verdict)
      PROVE  req' = req
  BY <1>1 DEF PreCalled
<1>2. CASE GetResponse
  BY <1>1, <1>2 DEF GetResponse, PreDefault, PreContinue, PreAbort, PreSend, PrePanic,
       RouteSkipped, RouteReplies, RoutePanics, NoRoute, ToPost, PostDefault, PostContinue,
       PostAbort, PostSend, PostPanic, PostCalled, Resolve, ErrorHandler, ErrorHandlerPanics
<1>3. CASE Send \/ EndHook \/ Finished \/ UNCHANGED vars
  BY <1>3 DEF Send, EndHook, Finished, vars
<1> QED
  BY <1>2, <1>3 DEF Next

(* Every call of get_response starts as Pipeline does.                     *)
LEMMA CallStarts ==
  ASSUME raw = {}, FromSocket
  PROVE  /\ Init' /\ raw' = {} /\ req' = result' /\ result' # "panic"
<1>1. result' \in {"ok"} \cup RequestErrors
  BY DEF FromSocket, Conn!Returning, Conn!ReadRequest, Conn!ReadMalformed, Conn!ReadClosed,
         Conn!ReadTruncated, Conn!ReadFails, Conn!Returns, RequestErrors
<1> QED
  BY <1>1 DEF FromSocket, Calls, Init, RequestErrors

(* The pipeline works on the request that from_socket returned, if it did. *)
CallInv ==
  /\ Inv /\ raw = {}
  /\ result = "panic" => at = "dead"
  /\ result # "panic" => req = result

LEMMA CallStep == CallInv /\ [HandleNext]_allVars => CallInv'
<1>1. (Init => Inv)'
  BY InitAll, PTL
<1>2. Inv /\ [Next]_vars => Inv'
  BY TypeStep, ChainStep, ErrorStep DEF Inv
<1>3. FromSocketPanics => UNCHANGED vars /\ result' = "panic" /\ at' = "dead"
  BY DEF FromSocketPanics, Conn!ReadPanics
<1>4. CallInv /\ FromSocketPanics => CallInv'
  <2>1. UNCHANGED vars => [Next]_vars /\ UNCHANGED raw
    BY DEF vars
  <2> QED
    BY <1>2, <1>3, <2>1 DEF CallInv
<1> QED
  BY <1>1, <1>2, <1>4, PipelineSteps, RequestKept, CallStarts DEF CallInv

(* What Connection assumes of get_response (Outcomes).                     *)
LEMMA OutcomeKept ==
  ASSUME CallInv, result # "panic", pc \in {"send", "crashed"}
  PROVE  Outcome \in Conn!Outcomes(result)
<1>1. TypeOK /\ PlainInv
  BY DEF CallInv, Inv, TypeInv, ErrorInv
<1>2. out.flag \in Flags
  BY <1>1 DEF TypeOK, Responses, NoResponse, Flags
<1>3. CASE req = "ok"
  BY <1>2, <1>3 DEF CallInv, Outcome, Conn!Outcomes, Conn!RequestErrors, Conn!Flags, Flags
<1>4. CASE req # "ok"
  BY <1>1, <1>4 DEF CallInv, PlainInv, Outcome, Conn!Outcomes, Conn!RequestErrors, RequestErrors
<1> QED
  BY <1>3, <1>4

LEMMA RefinesConnection == CallInv /\ [HandleNext]_allVars => [Conn!Next]_Conn!vars
<1> SUFFICES ASSUME CallInv, [HandleNext]_allVars PROVE [Conn!Next]_Conn!vars
  OBVIOUS
<1>1. CASE ClientSteps \/ Stopped
  BY <1>1 DEF ClientSteps, Stopped, Conn!Next
<1>2. CASE Fill \/ FromSocket \/ FromSocketPanics \/ Write \/ WritePanics \/ WriteBodyPanics \/ Continue
  BY <1>2 DEF Fill, FromSocket, FromSocketPanics, Write, WritePanics, WriteBodyPanics, Continue,
              Conn!Next, Conn!ServerNext
<1>3. CASE InGetResponse \/ RunEndHook \/ UNCHANGED allVars
  BY <1>3 DEF InGetResponse, RunEndHook, allVars, connVars, Conn!vars, Conn!Next, Conn!ServerNext
<1>4. CASE Respond
  <2>1. result # "panic" /\ pc \in {"send", "crashed"}
    BY <1>4 DEF Respond, Conn!Respond, CallInv
  <2> QED
    BY <1>4, <2>1, OutcomeKept DEF Respond, Conn!GetResponse, Conn!Next, Conn!ServerNext
<1> QED
  BY <1>1, <1>2, <1>3, <1>4 DEF HandleNext, ServerNext

LEMMA CallInit == HandleInit => CallInv
BY InitAll DEF HandleInit, CallInv, Conn!Init

(* The loop of handle with the real get_response in it (handle.rs) does    *)
(* what Connection says of it: whatever hooks, routes and the error        *)
(* handler do, the outcome of get_response is one that the loop expects.   *)
THEOREM LoopRefinement == HandleSpec => ImplementsConnection
<1>1. HandleInit => Conn!Init
  BY DEF HandleInit
<1> QED
  BY <1>1, CallInit, CallStep, RefinesConnection, PTL
     DEF HandleSpec, ImplementsConnection, Conn!Spec

(* So what holds of a connection holds of this loop.                       *)
LEMMA SameSettings == Settings \subseteq C!SettingType
BY SettingsAssumption DEF SettingType, C!SettingType

LEMMA SameInOrder == InOrder <=> C!InOrder
<1>1. Conn!TypeOK <=> C!TypeOK
  BY DEF Conn!TypeOK, C!TypeOK,
         Conn!Requests, C!Requests,
         Conn!Kinds, C!Kinds, Conn!Units, C!Units,
         Conn!RequestErrors, C!RequestErrors, Conn!Flags, C!Flags
<1> QED
  BY <1>1 DEF InOrder, Conn!InOrder, C!InOrder

LEMMA SameNoRequestLost == NoRequestLost <=> C!NoRequestLost
BY DEF NoRequestLost, Conn!NoRequestLost, C!NoRequestLost,
       Conn!Requests, C!Requests, Conn!Answered, C!Answered

LEMMA SameErrorsAreDeserved == ErrorsAreDeserved <=> C!ErrorsAreDeserved
BY DEF ErrorsAreDeserved, Conn!ErrorsAreDeserved, C!ErrorsAreDeserved

(* Replies go out in the order of the requests, and nothing follows an     *)
(* error or a closing reply, whatever hooks run around them (handle.rs).   *)
THEOREM LoopKeepsOrder == HandleSpec => []InOrder
<1>1. C!Spec => []C!InOrder
  BY SameSettings, MaxRequestsAssumption, C!RepliesInOrder
<1> QED
  BY <1>1, LoopRefinement, SameSpec, SameInOrder, PTL DEF ImplementsConnection

(* No request of a client that waits is lost between two from_socket       *)
(* calls, whatever hooks run in between (handle.rs).                       *)
THEOREM LoopAnswersRequests == HandleSpec => []NoRequestLost
<1>1. C!Spec => []C!NoRequestLost
  BY SameSettings, MaxRequestsAssumption, C!EveryRequestAnswered
<1> QED
  BY <1>1, LoopRefinement, SameSpec, SameNoRequestLost, PTL DEF ImplementsConnection

(* A request that was sent whole and is valid gets no error response, and  *)
(* the thread dies of nothing but user code and what the client sent.      *)
THEOREM LoopErrsWithCause == HandleSpec => []ErrorsAreDeserved
<1>1. C!Spec => []C!ErrorsAreDeserved
  BY SameSettings, MaxRequestsAssumption, C!NoUndeservedError
<1> QED
  BY <1>1, LoopRefinement, SameSpec, SameErrorsAreDeserved, PTL DEF ImplementsConnection

-----------------------------------------------------------------------------
(* Where the pipeline is when handle is at each of its places.             *)
EndsDone == pc = "end" /\ pos = 0 /\ out.flag # "End"
EndPoisoned == setting.usersHoldSocket /\ HookSaid("end", "panic")
Poisoners == setting.usersHoldSocket /\ (Panicked({"pre", "route", "post", "end"}) \/ endPoisoned)

(* A mutex that an end hook has poisoned is found so by the next response. *)
StageInv ==
  /\ at = "read" => (poisoned => EndPoisoned) /\ (endReq => EndsDone)
  /\ at = "respond" => /\ ~HookRan("end")
                       /\ poisoned => setting.usersHoldSocket /\ endPoisoned
  /\ at = "write" => /\ pc = "send" /\ out.flag # "End"
                     /\ poisoned => Poisoners
  /\ at = "next" => /\ pc = "end" /\ out.flag # "End" /\ (poisoned => EndPoisoned)
                    /\ replies # <<>> /\ replies[Len(replies)].to = request
  /\ at = "closed" /\ flag # "End" => EndsDone
  /\ DeathsHaveCauses

(* Which end hooks run.                                                    *)
EndInv ==
  /\ endReq => req = "ok"
  /\ pc = "end" /\ pos > 0 => endReq
  /\ pc = "end" /\ endReq /\ out.flag # "End" =>
       \A i \in (pos + 1)..NMiddle : \E e \in Entries : e.hook = "end" /\ e.at = i
  /\ HookRan("end") =>
       /\ req = "ok"
       /\ result # "panic" => replies # <<>> /\ replies[Len(replies)].to = request

(* get_response itself runs no end hook.                                   *)
LEMMA NoEndHook ==
  ASSUME Inv, GetResponse, ~HookRan("end")
  PROVE  ~HookRan("end")' /\ pc' # "end"
<1> USE DEF HookRan
<1>1. LogType
  BY DEF Inv, TypeInv
<1>2. ASSUME NEW hook \in {"pre", "route", "post", "error_handler"}, NEW i, NEW verdict,
             Ran(hook, i, verdict)
      PROVE  ~HookRan("end")'
  BY <1>1, <1>2, RanEntries, NewEntry
<1>3. ASSUME UNCHANGED log
      PROVE  ~HookRan("end")'
  BY <1>3 DEF Entries
<1> QED
  BY <1>2, <1>3 DEF GetResponse, PreDefault, PreContinue, PreAbort, PreSend, PrePanic, PreCalled,
     CallHandler, Return, RouteSkipped, RouteReplies, RoutePanics, NoRoute, ToPost, PostDefault,
     PostContinue, PostAbort, PostSend, PostPanic, PostCalled, Resolve, ErrorHandler,
     ErrorHandlerPanics

(* The request goes to the end hooks only if there is one.                 *)
LEMMA EndReqStep ==
  ASSUME CallInv, endReq => req = "ok", GetResponse
  PROVE  endReq' => req' = "ok"
<1>1. UNCHANGED <<raw, req>>
  BY RequestKept DEF CallInv, Next
<1> QED
  BY <1>1 DEF GetResponse, PreDefault, PreContinue, PreAbort, PreSend, PrePanic, PreCalled,
     CallHandler, Return, RouteSkipped, RouteReplies, RoutePanics, NoRoute, ToPost, PostDefault,
     PostContinue, PostAbort, PostSend, PostPanic, PostCalled, Resolve, ErrorHandler,
     ErrorHandlerPanics

(* The steps that leave the pipeline and the replies alone.                *)
Aside == ClientSteps \/ Fill \/ Respond \/ WritePanics \/ Continue \/ Stopped \/ UNCHANGED allVars

LEMMA AsideKeeps ==
  ASSUME Aside
  PROVE  UNCHANGED vars /\ UNCHANGED <<replies, request, result>>
BY DEF Aside, ClientSteps, Fill, Respond, WritePanics, Continue, Stopped, allVars, connVars,
       Conn!ClientNext, Conn!ClientSends, Conn!ClientFinishes, Conn!ClientResets, Conn!Fill,
       Conn!Respond, Conn!WritePanics, Conn!Continue, Conn!Stopped, Conn!vars

LEMMA Replied ==
  ASSUME C!TypeOK, NEW full, replies' = Append(replies, Conn!Reply(full))
  PROVE  /\ replies' # <<>> /\ replies'[Len(replies')].to = request
         /\ replies'[Len(replies')].full = full
<1>1. replies' = Append(replies, Conn!Reply(full))
  OBVIOUS
<1>2. replies \in Seq([to : 0..MaxRequests, error : BOOLEAN, flag : C!Flags, full : BOOLEAN])
  BY DEF C!TypeOK
<1>3. Conn!Reply(full).to = request /\ Conn!Reply(full).full = full
  BY DEF Conn!Reply
<1>4. Len(replies) \in Nat /\ Len(replies') = Len(replies) + 1
      /\ replies'[Len(replies) + 1] = Conn!Reply(full)
  BY <1>1, <1>2
<1> QED
  BY <1>3, <1>4

LEMMA EndStep ==
  ASSUME CallInv, C!TypeOK, StageInv, EndInv, [HandleNext]_allVars
  PROVE  EndInv'
<1>1. LogType /\ LaterLog /\ pos \in 0..NMiddle
  BY DEF CallInv, Inv, TypeInv, ChainInv, TypeOK
<1>2. CASE FromSocket
  <2>1. endReq' = FALSE /\ pc' = "pre" /\ Entries' = {}
    BY <1>2, CallStarts DEF CallInv, Init, Entries
  <2> QED
    BY <2>1 DEF EndInv, HookRan
<1>3. CASE InGetResponse
  <2>1. GetResponse /\ ~HookRan("end")
    BY <1>3 DEF InGetResponse, StageInv
  <2>2. ~HookRan("end")' /\ pc' # "end"
    BY <2>1, NoEndHook DEF CallInv
  <2>3. endReq' => req' = "ok"
    BY <2>1, EndReqStep DEF EndInv
  <2> QED
    BY <2>2, <2>3 DEF EndInv
<1>4. CASE Write
  <2>1. /\ pc = "send" /\ pc' = "end" /\ UNCHANGED <<req, out, endReq, log>>
        /\ pos' = IF endReq /\ out.flag # "End" THEN NMiddle ELSE 0
    BY <1>4 DEF Write, Send
  <2>2. Entries' = Entries /\ ~HookRan("end")
    BY <1>1, <2>1 DEF Entries, LaterLog, HookRan
  <2> QED
    BY <2>1, <2>2, NMiddleAssumption DEF EndInv, HookRan
<1>5. CASE RunEndHook
  <2>1. at = "next" /\ EndHook /\ UNCHANGED <<replies, request>>
    BY <1>5 DEF RunEndHook, connVars, Conn!EndHookPoisons
  <2>2. PICK verdict : Ran("end", pos, verdict)
    BY <2>1 DEF EndHook
  <2>3. /\ pc = "end" /\ pos > 0 /\ pos' = pos - 1 /\ UNCHANGED <<pc, req, out, endReq>>
        /\ UNCHANGED <<replies, request>>
    BY <2>1 DEF EndHook, ToNext
  <2>4. Entries' = Entries \cup {Entry("end", pos, verdict)}
    BY <1>1, <2>2, RanEntries
  <2>5. endReq /\ req = "ok" /\ out.flag # "End"
    BY <2>1, <2>3 DEF EndInv, StageInv
  <2>6. \A i \in (pos' + 1)..NMiddle : \E e \in Entries' : e.hook = "end" /\ e.at = i
    <3>1. \A i \in (pos + 1)..NMiddle : \E e \in Entries : e.hook = "end" /\ e.at = i
      BY <2>3, <2>5 DEF EndInv
    <3>2. \A i \in (pos' + 1)..NMiddle : i = pos \/ i \in (pos + 1)..NMiddle
      BY <1>1, <2>3, NMiddleAssumption
    <3> QED
      BY <2>4, <3>1, <3>2, NewEntry
  <2>7. replies # <<>> /\ replies[Len(replies)].to = request
    BY <2>1 DEF StageInv
  <2> QED
    BY <2>3, <2>5, <2>6, <2>7 DEF EndInv
<1>6. CASE Aside
  <2>1. UNCHANGED vars /\ UNCHANGED <<replies, request, result>>
    BY <1>6, AsideKeeps
  <2> QED
    BY <2>1 DEF vars, EndInv, HookRan, Entries
<1>7. CASE FromSocketPanics
  <2>1. UNCHANGED vars /\ result' = "panic"
    BY <1>7 DEF FromSocketPanics, Conn!ReadPanics
  <2> QED
    BY <2>1 DEF vars, EndInv, HookRan, Entries
<1>8. CASE WriteBodyPanics
  <2>1. UNCHANGED vars /\ at = "write" /\ pc = "send"
    BY <1>8 DEF WriteBodyPanics, Conn!WriteBodyPanics, StageInv
  <2>2. Entries' = Entries /\ ~HookRan("end")
    BY <1>1, <2>1 DEF vars, Entries, LaterLog, HookRan
  <2> QED
    BY <2>1, <2>2 DEF vars, EndInv, HookRan
<1> QED
  BY <1>2, <1>3, <1>4, <1>5, <1>6, <1>7, <1>8 DEF HandleNext, ServerNext, Aside

LEMMA StageStep ==
  ASSUME CallInv, C!TypeOK, C!StreamInv, StageInv, [HandleNext]_allVars
  PROVE  StageInv'
<1> USE DEF EndsDone, EndPoisoned, Poisoners, Panicked, HookSaid, HookRan
<1>1. CASE FromSocket
  <2>1. /\ at' = "respond" /\ UNCHANGED <<poisoned, setting>> /\ at = "read"
        /\ endPoisoned' = (poisoned /\ HookSaid("end", "panic"))
    BY <1>1 DEF FromSocket, Conn!Returning, Conn!ReadRequest, Conn!ReadMalformed,
                Conn!ReadClosed, Conn!ReadTruncated, Conn!ReadFails, Conn!Returns, Conn!clientVars
  <2>2. Entries' = {}
    BY <1>1, CallStarts DEF CallInv, Init, Entries
  <2> QED
    BY <2>1, <2>2 DEF StageInv, DeathsHaveCauses
<1>2. CASE InGetResponse
  <2>1. ~HookRan("end")' /\ at = "respond" /\ UNCHANGED <<connVars, endPoisoned>>
    BY <1>2, NoEndHook DEF InGetResponse, StageInv, CallInv
  <2> QED
    BY <2>1 DEF StageInv, DeathsHaveCauses, connVars
<1>3. CASE Respond
  <2>1. /\ at = "respond" /\ pc \in {"send", "crashed"} /\ flag' = Outcome
        /\ at' = Conn!AfterResponse(Outcome)
        /\ UNCHANGED <<pc, out, log, setting, endPoisoned>>
    BY <1>3 DEF Respond, Conn!Respond, Conn!clientVars, vars
  <2>2. out.flag \in Flags /\ (pc = "crashed" => HookSaid("error_handler", "panic"))
    BY DEF CallInv, Inv, TypeInv, TypeOK, Responses, NoResponse, Flags, PanicContained
  <2>3. poisoned' => Poisoners
    BY <1>3, <2>1 DEF Respond, Conn!Respond, Conn!MayPoison, StageInv
  <2>4. Entries' = Entries
    BY <2>1 DEF Entries
  <2>5. CASE pc = "crashed"
    BY <2>1, <2>2, <2>4, <2>5 DEF Outcome, Conn!AfterResponse, StageInv, DeathsHaveCauses
  <2>6. CASE pc = "send"
    BY <2>1, <2>2, <2>3, <2>4, <2>6 DEF Outcome, Conn!AfterResponse, StageInv, DeathsHaveCauses,
                                        Flags
  <2> QED
    BY <2>1, <2>5, <2>6
<1>4. CASE Write
  <2>1. /\ at = "write" /\ at' = "next" /\ ~poisoned /\ pc' = "end"
        /\ UNCHANGED <<poisoned, out, request>>
    BY <1>4 DEF Write, Conn!Write, Send
  <2>2. \E full : replies' = Append(replies, Conn!Reply(full))
    BY <1>4 DEF Write, Conn!Write
  <2> QED
    BY <2>1, <2>2, Replied DEF StageInv, DeathsHaveCauses
<1>5. CASE RunEndHook
  <2>1. /\ at = "next" /\ UNCHANGED <<pc, out, setting, at, replies, request, endPoisoned>>
        /\ EndHook
    BY <1>5 DEF RunEndHook, EndHook, connVars, Conn!EndHookPoisons, Conn!clientVars
  <2>2. PICK verdict : Ran("end", pos, verdict)
    BY <2>1 DEF EndHook
  <2>3. LogType /\ pos \in 0..NMiddle
    BY DEF CallInv, Inv, TypeInv, TypeOK
  <2>4. Entries' = Entries \cup {Entry("end", pos, verdict)}
    BY <2>2, <2>3, RanEntries
  <2>5. CASE UNCHANGED connVars
    BY <2>1, <2>4, <2>5 DEF StageInv, DeathsHaveCauses, connVars
  <2>6. CASE Conn!EndHookPoisons /\ log'[Len(log')].verdict = "panic"
    <3>1. setting.usersHoldSocket
      BY <2>6 DEF Conn!EndHookPoisons, Conn!MayPoison
    <3>2. log'[Len(log')] = Entry("end", pos, verdict)
      BY <2>2, <2>3 DEF Ran, LogType, Entry
    <3>3. HookSaid("end", "panic")'
      BY <2>4, <2>6, <3>2, NewEntry
    <3> QED
      BY <2>1, <3>1, <3>3 DEF StageInv, DeathsHaveCauses
  <2> QED
    BY <1>5, <2>5, <2>6 DEF RunEndHook
<1>6. CASE WritePanics
  <2>1. /\ at = "write" /\ poisoned /\ at' = "dead" /\ UNCHANGED <<log, setting, endPoisoned>>
    BY <1>6 DEF WritePanics, Conn!WritePanics, Conn!clientVars, vars
  <2> QED
    BY <2>1 DEF StageInv, DeathsHaveCauses, Entries
<1>7. CASE Continue
  <2>1. /\ at = "next" /\ at' \in {"read", "closed", "dead"} /\ pc = "end" /\ pos = 0
        /\ at' = "dead" => poisoned
        /\ UNCHANGED <<poisoned, pc, pos, out, endReq, log, setting>>
    BY <1>7 DEF Continue, Conn!Continue, Conn!clientVars, Done, vars
  <2> QED
    BY <2>1 DEF StageInv, DeathsHaveCauses, Entries
<1>8. CASE ClientSteps \/ Fill \/ Stopped \/ UNCHANGED allVars
  <2>1. /\ UNCHANGED vars
        /\ UNCHANGED <<setting, kind, at, poisoned, flag, replies, request, result, endPoisoned>>
        /\ at = "dead" => UNCHANGED sent
    BY <1>8 DEF ClientSteps, Fill, Stopped, allVars, connVars, Conn!ClientNext, Conn!ClientSends,
                Conn!ClientFinishes, Conn!ClientResets, Conn!Fill, Conn!clientVars, Conn!Stopped,
                Conn!vars, Conn!Ended
  <2> QED
    BY <2>1 DEF vars, StageInv, DeathsHaveCauses, Entries
<1>9. CASE FromSocketPanics
  <2>1. /\ at' = "dead" /\ result' = "panic" /\ request' = buf[1].of /\ UNCHANGED <<kind, sent>>
    BY <1>9 DEF FromSocketPanics, Conn!ReadPanics, Conn!clientVars
  <2>2. kind[buf[1].of] = "fatal" \/ sent < 2 * buf[1].of
    BY <1>9, SameServer, SameSettings, MaxRequestsAssumption, C!PanicCause DEF FromSocketPanics
  <2> QED
    BY <2>1, <2>2 DEF StageInv, DeathsHaveCauses
<1>10. CASE WriteBodyPanics
  <2>1. /\ at' = "dead" /\ replies' = Append(replies, Conn!Reply(FALSE))
        /\ setting.bodiesFail /\ UNCHANGED <<setting, request>>
    BY <1>10 DEF WriteBodyPanics, Conn!WriteBodyPanics, Conn!clientVars
  <2>2. /\ replies' # <<>> /\ replies'[Len(replies')].to = request
        /\ ~replies'[Len(replies')].full
    BY <2>1, Replied
  <2> QED
    BY <2>1, <2>2 DEF StageInv, DeathsHaveCauses
<1> QED
  BY <1>1, <1>2, <1>3, <1>4, <1>5, <1>6, <1>7, <1>8, <1>9, <1>10 DEF HandleNext, ServerNext

LEMMA LoopInit == HandleInit => StageInv /\ EndInv
<1> SUFFICES ASSUME HandleInit PROVE StageInv /\ EndInv
  OBVIOUS
<1>1. pc = "pre" /\ endReq = FALSE /\ Entries = {} /\ at = "read" /\ poisoned = FALSE
  BY DEF HandleInit, Init, Entries, Conn!Init
<1> QED
  BY <1>1 DEF StageInv, EndInv, DeathsHaveCauses, HookRan

(* The inductive invariant of the loop: where the pipeline is at each of   *)
(* its places, for the request that was read, and which end hooks have run *)
(* for it (handle in handle.rs).                                           *)
THEOREM LoopInvariance == HandleSpec => [](CallInv /\ StageInv /\ EndInv)
<1>2. C!Spec => []C!Inv
  BY SameSettings, MaxRequestsAssumption, C!Invariance
<1>3. C!Inv => C!TypeOK /\ C!StreamInv
  BY DEF C!Inv
<1>4. HandleSpec => [](C!TypeOK /\ C!StreamInv)
  BY <1>2, <1>3, LoopRefinement, SameSpec, PTL DEF ImplementsConnection
<1>5. CallInv /\ (C!TypeOK /\ C!StreamInv) /\ StageInv /\ EndInv /\ [HandleNext]_allVars => StageInv' /\ EndInv'
  BY StageStep, EndStep
<1> QED
  BY <1>4, <1>5, CallInit, CallStep, LoopInit, PTL DEF HandleSpec

(* A thread dies of the error handler's panic, at what the client sent, of *)
(* a streamed body's panic, or because a hook or route of this request, or *)
(* an end hook of the one before, panicked with the socket locked; poison  *)
(* does not outlive the next response (handle and Response::write).        *)
THEOREM DeathsAreExplained == HandleSpec => []DeathsHaveCauses
<1>1. StageInv => DeathsHaveCauses
  BY DEF StageInv
<1> QED
  BY <1>1, LoopInvariance, PTL

(* End hooks run after the reply to a request that was read, and all that  *)
(* are due before the next request is (the end of handle's loop).          *)
THEOREM EndHooksAreInTime == HandleSpec => []EndHooksFollowReplies
<1>1. CallInv /\ StageInv /\ EndInv => EndHooksFollowReplies
  BY DEF CallInv, StageInv, EndInv, EndsDone, EndHooksFollowReplies, Middle
<1> QED
  BY <1>1, LoopInvariance, PTL
=============================================================================
