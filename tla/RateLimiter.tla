---------------------------- MODULE RateLimiter ----------------------------
(***************************************************************************)
(* The RateLimiter middleware (src/lib/extensions/ratelimit.rs), one       *)
(* instance shared by all threads that handle requests.                    *)
(*                                                                         *)
(* Its pre hook reads the count of the client's address; its end hook      *)
(* resets the table when it is due and then counts the request.  The       *)
(* table's lock and the atomic last_reset are taken one at a time, so      *)
(* every step below is one lock or one atomic access, and other threads    *)
(* run in between.                                                         *)
(*                                                                         *)
(* Times are kept as ages: how many seconds ago they were.  That makes the *)
(* state finite while time goes on for ever.                               *)
(*                                                                         *)
(* Definitions named ...Mutant are described in the README ("Mutants").    *)
(***************************************************************************)
EXTENDS Integers, FiniteSets

CONSTANTS
  Workers,      \* the threads that handle requests
  Addresses,    \* the addresses of the clients
  NoAddress,    \* of a thread that handles no request
  Limit,        \* req_limit
  Timeout,      \* req_timeout, in seconds
  MaxDelay      \* bound: how long a thread may be inside check_reset

ASSUME WorkersAssumption == IsFiniteSet(Workers) /\ Workers # {}
ASSUME NoAddressAssumption == NoAddress \notin Addresses
ASSUME LimitAssumption == Limit \in Nat \ {0}
ASSUME TimeAssumption == Timeout \in Nat /\ MaxDelay \in 0..Timeout

VARIABLES
  count,      \* the table of requests; it need not count beyond Limit
  lastAge,    \* the age of last_reset
  pc,         \* where each thread is in the request it handles
  from,       \* the address its request comes from
  verdict,    \* what the pre hooks decided about it
  timeAge,    \* the age of the local `time` of check_reset
  recorded,   \* history: the admitted requests that were counted since the last reset
  ownAge      \* history: how long ago, at most Apart, each thread cleared the table

vars == <<count, lastAge, pc, from, verdict, timeAge, recorded, ownAge>>
history == <<recorded, ownAge>>

MaxAge == Timeout + MaxDelay    \* a last_reset that old is due for any `time`
Apart == Timeout - MaxDelay     \* how far apart one thread's resets are at least

TypeOK ==
  /\ count \in [Addresses -> 0..Limit]
  /\ lastAge \in 0..MaxAge
  /\ pc \in [Workers -> {"idle", "answer", "load", "clear", "store", "add"}]
  /\ from \in [Workers -> Addresses \cup {NoAddress}]
  /\ verdict \in [Workers -> {"none", "admitted", "rejected"}]
  /\ timeAge \in [Workers -> 0..MaxDelay]
  /\ recorded \in [Addresses -> Nat]
  /\ ownAge \in [Workers -> 0..Apart]

(* last_reset is 0, the epoch: longer ago than any timeout.                *)
Init ==
  /\ count = [i \in Addresses |-> 0]
  /\ lastAge = MaxAge
  /\ pc = [w \in Workers |-> "idle"]
  /\ from = [w \in Workers |-> NoAddress]
  /\ verdict = [w \in Workers |-> "none"]
  /\ timeAge = [w \in Workers |-> 0]
  /\ recorded = [i \in Addresses |-> 0]
  /\ ownAge = [w \in Workers |-> Apart]

Goes(w, at, to) ==
  /\ pc[w] = at
  /\ pc' = [pc EXCEPT ![w] = to]

Leaves(w) ==
  /\ from' = [from EXCEPT ![w] = NoAddress]
  /\ verdict' = [verdict EXCEPT ![w] = "none"]

-----------------------------------------------------------------------------
(* A request of address i and what the pre hooks decide about it.          *)

OverMutant(i) == count[i] > Limit
Over(i) == count[i] >= Limit

Arrive(w, i, v) ==
  /\ Goes(w, "idle", "answer")
  /\ from' = [from EXCEPT ![w] = i]
  /\ verdict' = [verdict EXCEPT ![w] = v]
  /\ UNCHANGED <<count, lastAge, timeAge, history>>

Admit(w, i) == Arrive(w, i, "admitted") /\ ~Over(i)

(* The handler for requests over the limit returns a response ...          *)
Reject(w, i) == Arrive(w, i, "rejected") /\ Over(i)

(* ... or None; or another middleware ended the pre chain before this one. *)
Excuse(w, i) == Arrive(w, i, "none")

(* No end hook runs for a request that is answered by an error response    *)
(* (404, or a panic of its route) or by a response with the End flag: it   *)
(* was admitted and is never counted.                                      *)
EndSkipped(w) ==
  /\ Goes(w, "answer", "idle")
  /\ Leaves(w)
  /\ UNCHANGED <<count, lastAge, timeAge, history>>

-----------------------------------------------------------------------------
(* The end hook: check_reset, then add_request.                            *)

ReadClock(w) ==
  /\ Goes(w, "answer", "load")
  /\ timeAge' = [timeAge EXCEPT ![w] = 0]
  /\ UNCHANGED <<count, lastAge, from, verdict, history>>

(* last_reset + req_timeout <= time                                        *)
DueEarlyMutant(w) == lastAge - timeAge[w] + 1 >= Timeout
Due(w) == lastAge - timeAge[w] >= Timeout

AfterCheckSlidingMutant(w) == IF Due(w) THEN "clear" ELSE "store"
AfterCheck(w) == IF Due(w) THEN "clear" ELSE "add"

Check(w) ==
  /\ Goes(w, "load", AfterCheck(w))
  /\ timeAge' = IF AfterCheck(w) = "add" THEN [timeAge EXCEPT ![w] = 0] ELSE timeAge
  /\ UNCHANGED <<count, lastAge, from, verdict, history>>

Clear(w) ==
  /\ Goes(w, "clear", "store")
  /\ count' = [i \in Addresses |-> 0]
  /\ recorded' = [i \in Addresses |-> 0]
  /\ ownAge' = [ownAge EXCEPT ![w] = 0]
  /\ UNCHANGED <<lastAge, from, verdict, timeAge>>

Store(w) ==
  /\ Goes(w, "store", "add")
  /\ lastAge' = timeAge[w]
  /\ timeAge' = [timeAge EXCEPT ![w] = 0]
  /\ UNCHANGED <<count, from, verdict, history>>

Counted(n) == IF n < Limit THEN n + 1 ELSE n

Add(w) ==
  /\ Goes(w, "add", "idle")
  /\ count' = [count EXCEPT ![from[w]] = Counted(@)]
  /\ recorded' = [recorded EXCEPT ![from[w]] =
                    IF verdict[w] = "admitted" THEN @ + 1 ELSE @]
  /\ Leaves(w)
  /\ UNCHANGED <<lastAge, timeAge, ownAge>>

-----------------------------------------------------------------------------
InCheck(w) == pc[w] \in {"load", "clear", "store"}

Older(age, cap) == IF age < cap THEN age + 1 ELSE age

(* A second goes by.                                                       *)
Tick ==
  /\ \A w \in Workers : InCheck(w) => timeAge[w] < MaxDelay
  /\ lastAge' = Older(lastAge, MaxAge)
  /\ timeAge' = [w \in Workers |-> IF InCheck(w) THEN timeAge[w] + 1 ELSE timeAge[w]]
  /\ ownAge' = [w \in Workers |-> Older(ownAge[w], Apart)]
  /\ UNCHANGED <<count, pc, from, verdict, recorded>>

Pre(w, i) == Admit(w, i) \/ Reject(w, i) \/ Excuse(w, i)

Handle(w) ==
  EndSkipped(w) \/ ReadClock(w) \/ Check(w) \/ Clear(w) \/ Store(w) \/ Add(w)

Next ==
  \/ \E w \in Workers : (\E i \in Addresses : Pre(w, i)) \/ Handle(w)
  \/ Tick

Spec == Init /\ [][Next]_vars

(* Threads run and time passes; clients need not send anything.            *)
FairSpec == Spec /\ WF_vars(Tick) /\ \A w \in Workers : WF_vars(Handle(w))

-----------------------------------------------------------------------------
(* The requests of an address that were admitted and are not counted yet.  *)
Pending(i) ==
  {w \in Workers : /\ pc[w] # "idle"
                   /\ verdict[w] = "admitted" /\ from[w] = i}

(* Counting only when a request ends lets an address exceed the limit, but *)
(* by less than one request per thread: the admitted requests of an        *)
(* address that were counted since the last reset, and those that are      *)
(* being handled, are no more than Limit - 1 + Workers together, whatever  *)
(* the interleaving of pre hooks, end hooks and resets.  It bounds nothing *)
(* else: a request whose end hook is skipped does not count at all, so an  *)
(* address that asks for pages that do not exist is never limited.         *)
OvershootBounded ==
  /\ TypeOK
  /\ \A i \in Addresses :
       recorded[i] + Cardinality(Pending(i)) <= Limit - 1 + Cardinality(Workers)

(* Threads may race to reset, even move last_reset back, and the table be  *)
(* cleared several times in one period; but by each thread only once.      *)
OwnResetsApart ==
  [][\A w \in Workers : Clear(w) => ownAge[w] >= Apart]_vars

(* An address that goes on sending, however fast, is served again and      *)
(* again, since rejected requests do not extend the period - as long as    *)
(* the end hook runs for them, and the limit exceeds what the threads may  *)
(* count at once right after the reset.                                    *)
Ending(i) == \E w \in Workers : pc[w] = "load" /\ from[w] = i
Served(i) == \E w \in Workers : /\ pc[w] = "answer" /\ from[w] = i
                                /\ verdict[w] # "rejected"
Recovers == \A i \in Addresses : []<>Ending(i) => []<>Served(i)
=============================================================================
