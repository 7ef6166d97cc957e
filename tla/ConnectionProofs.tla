-------------------------- MODULE ConnectionProofs --------------------------
(***************************************************************************)
(* Proofs about one connection, for any number of requests and any set of  *)
(* servers, routes and clients.                                            *)
(*                                                                         *)
(* The argument: what the server has taken off the stream is its first     *)
(* Cursor units, and buf and inbox are the units after them, in order.     *)
(* While the server reads, every reply was to a request that lies wholly   *)
(* before the cursor, and each of them allowed the loop to go on.  If the  *)
(* client waits for replies, the cursor is between two requests, and all   *)
(* those before it are answered.                                           *)
(***************************************************************************)
EXTENDS Connection, SequenceTheorems, TLAPS

(* How much of the stream the server has taken (while no reset has         *)
(* discarded any of it).                                                   *)
Cursor == sent - Len(buf) - Len(inbox)
NothingLeft == client = "finished" /\ inbox = <<>> /\ buf = <<>>

Replies == 1..Len(replies)
Working == pc \in {"respond", "write"}

(* The steps that put a reply, or part of one, on the wire.                *)
Replying == Write \/ WriteBodyPanics

StreamInv ==
  /\ client = "gone" => inbox = <<>>
  /\ client # "gone" =>
       /\ \A i \in 1..Len(buf) : buf[i] = Unit(Cursor + i)
       /\ \A i \in 1..Len(inbox) : inbox[i] = Unit(Cursor + Len(buf) + i)
  /\ pc # "read" => buf = <<>>

(* A reply after which the loop reads on.                                  *)
Goes(n) ==
  /\ ~replies[n].error /\ replies[n].to # 0
  /\ kind[replies[n].to] = "keep-alive" /\ setting.keepAlive
  /\ replies[n].flag # "Close"

(* The request at hand is later than those that were answered; so are the  *)
(* units that are still to be read.                                        *)
OrderInv ==
  /\ \A n \in Replies : \A m \in 1..(n - 1) : replies[n].to = 0 \/ replies[m].to < replies[n].to
  /\ \A n \in 1..(Len(replies) - 1) : Goes(n)
  /\ pc = "read" \/ Working => \A n \in Replies : Goes(n)
  /\ pc = "read" => \A n \in Replies : \A i \in 1..Len(buf) : replies[n].to < buf[i].of
  /\ pc = "read" /\ client # "gone" =>
       NothingLeft \/ \A n \in Replies : 2 * replies[n].to <= Cursor
  /\ Working => request = 0 \/ \A n \in Replies : replies[n].to < request

(* What is known of the request at hand.                                   *)
RequestInv ==
  Working \/ pc = "next" =>
    /\ result = "ok" => request # 0
    /\ keepAlive => result = "ok" /\ kind[request] = "keep-alive"
    /\ result = "ok" /\ client # "gone" => NothingLeft \/ 2 * request <= Cursor

LastInv ==
  /\ pc \in {"write", "next"} => flag \in Flags
  /\ pc = "next" => /\ Len(replies) > 0
                    /\ replies[Len(replies)] = Reply(replies[Len(replies)].full)

(* A client that waits for each reply.                                     *)
Waits == ~setting.pipelining /\ client # "gone"
WaitInv ==
  Waits =>
    /\ \A r \in Requests : 2 * r < sent => Answered(r)
    /\ pc = "read" =>
         /\ \A r \in Requests : 2 * r <= Cursor => Answered(r)
         /\ NothingLeft \/ Unit(Cursor + 1).part = 1
    /\ (Working \/ pc = "next") /\ result = "ok" =>
         /\ \A r \in Requests : 2 * r <= Cursor => Answered(r) \/ r = request
         /\ NothingLeft \/ Unit(Cursor + 1).part = 1

(* What a thread died of.                                                  *)
DeathHasCause ==
  \/ flag = "crash"
  \/ result = "panic" /\ (kind[request] = "fatal" \/ sent < 2 * request)
  \/ setting.bodiesFail /\ replies # <<>> /\ ~replies[Len(replies)].full
  \/ setting.usersHoldSocket /\ poisoned

(* An error is the request's own fault.                                    *)
Deserved(r) == r = 0 \/ kind[r] = "bad" \/ (client = "finished" /\ sent < 2 * r)
DeservedInv ==
  /\ Waits /\ ~setting.timeout =>
       /\ \A n \in Replies : replies[n].error => Deserved(replies[n].to)
       /\ Working /\ result # "ok" => Deserved(request)
  /\ poisoned => setting.usersHoldSocket \/ pc = "dead"
  /\ pc = "dead" => DeathHasCause

Inv == /\ TypeOK /\ StreamInv /\ OrderInv /\ RequestInv /\ LastInv /\ WaitInv
       /\ DeservedInv
-----------------------------------------------------------------------------
(* A request is the units 2 * r - 1 and 2 * r of the stream.               *)
LEMMA UnitFacts ==
  ASSUME NEW n \in Nat
  PROVE  /\ Unit(n).of \in Nat
         /\ Unit(n).part = 1 => 2 * Unit(n).of = n + 1 /\ Unit(n + 1).part = 2
         /\ Unit(n).part # 1 => 2 * Unit(n).of = n /\ Unit(n + 1).part = 1
         /\ Unit(n).part \in 1..2
<1>1. /\ Unit(n).of = (n + 1) \div 2 /\ Unit(n).part = IF n % 2 = 1 THEN 1 ELSE 2
      /\ Unit(n + 1).part = IF (n + 1) % 2 = 1 THEN 1 ELSE 2
  BY DEF Unit
<1>2. CASE n % 2 = 1
  BY <1>1, <1>2
<1>3. CASE n % 2 # 1
  BY <1>1, <1>3
<1> QED
  BY <1>2, <1>3

LEMMA UnitType ==
  ASSUME NEW n \in 1..(2 * MaxRequests)
  PROVE  Unit(n) \in Units
<1>1. Unit(n).of \in Requests /\ Unit(n).part \in 1..2
  BY UnitFacts, MaxRequestsAssumption DEF Requests
<1> QED
  BY <1>1 DEF Unit, Units

(* What the types say of the sequences.                                    *)
LEMMA Lengths ==
  ASSUME TypeOK
  PROVE  /\ Len(inbox) \in Nat /\ Len(buf) \in Nat /\ Len(replies) \in Nat
         /\ sent \in Nat /\ Cursor \in Nat
         /\ \A i \in 1..Len(buf) : buf[i] \in Units
         /\ \A i \in 1..Len(inbox) : inbox[i] \in Units
         /\ \A n \in Replies : replies[n].to \in 0..MaxRequests
<1> USE MaxRequestsAssumption
<1>1. /\ Len(inbox) \in Nat /\ Len(buf) \in Nat /\ Len(replies) \in Nat
      /\ sent \in Nat /\ Len(inbox) + Len(buf) <= sent
  BY DEF TypeOK
<1>2. /\ \A i \in 1..Len(buf) : buf[i] \in Units
      /\ \A i \in 1..Len(inbox) : inbox[i] \in Units
  BY ElementOfSeq DEF TypeOK
<1>3. \A n \in Replies : replies[n] \in [to : 0..MaxRequests, error : BOOLEAN, flag : Flags, full : BOOLEAN]
  BY ElementOfSeq DEF TypeOK, Replies
<1> QED
  BY <1>1, <1>2, <1>3 DEF Cursor

(* A Fill moves units from the socket to the reader and loses none.        *)
LEMMA FillFacts ==
  ASSUME TypeOK, NEW n \in 1..Len(inbox),
         buf' = buf \o SubSeq(inbox, 1, n), inbox' = SubSeq(inbox, n + 1, Len(inbox))
  PROVE  /\ buf' \in Seq(Units) /\ inbox' \in Seq(Units)
         /\ Len(buf') = Len(buf) + n /\ Len(inbox') = Len(inbox) - n
         /\ \A i \in 1..Len(buf') :
              buf'[i] = IF i <= Len(buf) THEN buf[i] ELSE inbox[i - Len(buf)]
         /\ \A i \in 1..Len(inbox') : inbox'[i] = inbox[n + i]
<1> DEFINE took == SubSeq(inbox, 1, n)
           left == SubSeq(inbox, n + 1, Len(inbox))
<1>1. inbox \in Seq(Units) /\ buf \in Seq(Units) /\ Len(inbox) \in Nat /\ Len(buf) \in Nat
  BY DEF TypeOK
<1>2. took \in Seq(Units) /\ Len(took) = n /\ \A i \in 1..n : took[i] = inbox[i]
  BY <1>1, SubSeqProperties
<1>3. /\ left \in Seq(Units) /\ Len(left) = Len(inbox) - n
      /\ \A i \in 1..(Len(inbox) - n) : left[i] = inbox[n + i]
  BY <1>1, SubSeqProperties
<1> HIDE DEF took, left
<1>4. /\ buf \o took \in Seq(Units) /\ Len(buf \o took) = Len(buf) + n
      /\ \A i \in 1..(Len(buf) + n) :
           (buf \o took)[i] = IF i <= Len(buf) THEN buf[i] ELSE took[i - Len(buf)]
  BY <1>1, <1>2, ConcatProperties
<1>5. buf' = buf \o took /\ inbox' = left
  BY DEF took, left
<1>6. Len(buf') = Len(buf) + n /\ Len(inbox') = Len(inbox) - n
  BY <1>3, <1>4, <1>5
<1>7. ASSUME NEW i \in 1..Len(buf')
      PROVE  buf'[i] = IF i <= Len(buf) THEN buf[i] ELSE inbox[i - Len(buf)]
  BY <1>1, <1>2, <1>4, <1>5, <1>6, <1>7
<1> QED
  BY <1>3, <1>4, <1>5, <1>6, <1>7

(* Every way from_socket returns is one Returns, and says what was read.   *)
Reads(r, outcome, keep) ==
  /\ Returns(r, outcome, keep)
  /\ r = IF buf = <<>> THEN 0 ELSE buf[1].of
  /\ outcome \in {"ok"} \cup RequestErrors
  /\ keep \in BOOLEAN
  /\ keep => outcome = "ok" /\ kind[r] = "keep-alive"
  /\ outcome = "ok" => Valid /\ (Len(buf) >= 2 \/ AtEof)
  /\ outcome # "ok" => \/ buf = <<>>
                       \/ ~Valid
                       \/ AtEof /\ Len(buf) = 1
                       \/ setting.timeout \/ client = "gone"

LEMMA ReturnCases ==
  ASSUME Returning
  PROVE  pc = "read" /\ \E r, outcome, keep : Reads(r, outcome, keep)
<1> USE DEF Reads
<1>1. CASE ReadRequest
  <2>1. Reads(buf[1].of, "ok", kind[buf[1].of] = "keep-alive")
    BY <1>1 DEF ReadRequest, Valid, StartsRequest
  <2> QED
    BY <1>1, <2>1 DEF ReadRequest
<1>2. CASE ReadMalformed
  <2>1. Reads(buf[1].of, "Parse", FALSE)
    BY <1>2 DEF ReadMalformed, RequestErrors
  <2> QED
    BY <1>2, <2>1 DEF ReadMalformed
<1>3. CASE ReadClosed
  <2>1. Reads(0, "Parse", FALSE)
    BY <1>3 DEF ReadClosed, RequestErrors
  <2> QED
    BY <1>3, <2>1 DEF ReadClosed
<1>4. CASE ReadTruncated
  <2>1. buf # <<>> /\ Valid /\ AtEof /\ Len(buf) = 1 /\ pc = "read"
    BY <1>4 DEF ReadTruncated, Valid, StartsRequest
  <2>2. CASE \E error \in {"Parse", "Stream"} : Returns(buf[1].of, error, FALSE)
    BY <2>1, <2>2 DEF RequestErrors
  <2>3. CASE \E keep \in {FALSE, kind[buf[1].of] = "keep-alive"} : Returns(buf[1].of, "ok", keep)
    BY <2>1, <2>3
  <2> QED
    BY <1>4, <2>2, <2>3 DEF ReadTruncated
<1>5. CASE ReadFails
  <2>1. PICK error \in {"Stream", "Io"} : Returns(IF buf = <<>> THEN 0 ELSE buf[1].of, error, FALSE)
    BY <1>5 DEF ReadFails
  <2>2. Reads(IF buf = <<>> THEN 0 ELSE buf[1].of, error, FALSE)
    BY <1>5, <2>1 DEF ReadFails, RequestErrors
  <2> QED
    BY <1>5, <2>2 DEF ReadFails
<1> QED
  BY <1>1, <1>2, <1>3, <1>4, <1>5 DEF Returning

-----------------------------------------------------------------------------
LEMMA InitInv == Init => Inv
<1> SUFFICES ASSUME Init PROVE Inv
  OBVIOUS
<1> USE MaxRequestsAssumption
<1>0. Len(inbox) = 0 /\ Len(buf) = 0 /\ sent = 0
  BY EmptySeq DEF Init
<1>1. TypeOK
  <2>1. sent \in 0..(2 * MaxRequests) /\ Len(inbox) + Len(buf) <= sent
    BY <1>0
  <2>2. /\ inbox \in Seq(Units) /\ buf \in Seq(Units)
        /\ replies \in Seq([to : 0..MaxRequests, error : BOOLEAN, flag : Flags, full : BOOLEAN])
    BY EmptySeq DEF Init
  <2>3. /\ setting \in Settings /\ kind \in [Requests -> Kinds] /\ client = "open"
        /\ pc = "read" /\ request \in 0..MaxRequests /\ result = "ok" /\ keepAlive \in BOOLEAN
        /\ flag \in Flags /\ poisoned \in BOOLEAN
    <3>1. request = 0 => request \in 0..MaxRequests
      OBVIOUS
    <3> QED
      BY <3>1, Zenon DEF Init, Flags
  <2> QED
    BY <2>1, <2>2, <2>3 DEF TypeOK
<1>2. StreamInv /\ OrderInv /\ RequestInv /\ LastInv
  BY DEF Init, StreamInv, OrderInv, RequestInv, LastInv, Replies, Working
<1>3. Unit(1).part = 1 /\ Cursor = 0
  <2>1. Unit(1).part = 1
    BY 1 % 2 = 1 DEF Unit
  <2> QED
    BY <1>0, <2>1 DEF Cursor
<1>4. WaitInv /\ DeservedInv
  BY <1>3 DEF Init, WaitInv, DeservedInv, Requests, Waits, Working, Replies
<1> QED
  BY <1>1, <1>2, <1>4 DEF Inv

-----------------------------------------------------------------------------
LEMMA TypeStep == TypeOK /\ LastInv /\ [Next]_vars => TypeOK'
<1> SUFFICES ASSUME TypeOK, LastInv, [Next]_vars PROVE TypeOK'
  OBVIOUS
<1> USE MaxRequestsAssumption
<1>1. CASE ClientSends
  <2>1. sent' \in 0..(2 * MaxRequests) /\ sent' = sent + 1
    BY <1>1 DEF ClientSends, TypeOK
  <2>2. Unit(sent + 1) \in Units
    BY <2>1, UnitType DEF TypeOK
  <2>3. inbox' \in Seq(Units) /\ Len(inbox') = Len(inbox) + 1
    BY <1>1, <2>2, AppendProperties DEF ClientSends, TypeOK
  <2> QED
    BY <1>1, <2>1, <2>3, Lengths DEF ClientSends, TypeOK
<1>2. CASE ClientFinishes \/ ClientResets
  <2>1. inbox' \in Seq(Units) /\ Len(inbox') <= Len(inbox) /\ Len(inbox') \in Nat
    <3>1. inbox' = inbox \/ inbox' = <<>>
      BY <1>2 DEF ClientFinishes, ClientResets
    <3>2. <<>> \in Seq(Units) /\ Len(<<>>) = 0
      BY EmptySeq
    <3>3. inbox \in Seq(Units) /\ Len(inbox) \in Nat
      BY DEF TypeOK
    <3>4. CASE inbox' = inbox
      BY <3>3, <3>4
    <3>5. CASE inbox' = <<>>
      <4>1. Len(inbox') = 0 /\ inbox' \in Seq(Units)
        BY <3>2, <3>5, Zenon
      <4> QED
        BY <3>3, <4>1
    <3> QED
      BY <3>1, <3>4, <3>5
  <2> QED
    BY <1>2, <2>1, Lengths DEF ClientFinishes, ClientResets, TypeOK
<1>3. CASE Fill
  <2>1. PICK n \in 1..Len(inbox) :
          buf' = buf \o SubSeq(inbox, 1, n) /\ inbox' = SubSeq(inbox, n + 1, Len(inbox))
    BY <1>3 DEF Fill
  <2>2. /\ buf' \in Seq(Units) /\ inbox' \in Seq(Units)
        /\ Len(buf') = Len(buf) + n /\ Len(inbox') = Len(inbox) - n
    BY <2>1, FillFacts
  <2>3. Len(inbox') + Len(buf') <= sent
    BY <2>2, Lengths DEF TypeOK
  <2> QED
    BY <1>3, <2>2, <2>3 DEF Fill, clientVars, TypeOK
<1>4. CASE Returning
  <2>1. PICK r, outcome, keep : Reads(r, outcome, keep)
    BY <1>4, ReturnCases
  <2>2. r \in 0..MaxRequests
    <3>1. buf # <<>> => 1 \in 1..Len(buf)
      BY EmptySeq, Lengths DEF TypeOK
    <3> QED
      BY <2>1, <3>1, Lengths DEF Reads, Units, Requests
  <2> QED
    BY <2>1, <2>2, Lengths DEF Reads, Returns, Leftover, Kept, clientVars, TypeOK
<1>5. CASE GetResponse
  <2>1. flag' \in Flags \cup {"crash"}
    BY <1>5 DEF GetResponse, Respond, Outcomes, Flags
  <2>2. pc' \in {"dead", "closed", "write"}
    BY <1>5 DEF GetResponse, Respond, AfterResponse
  <2> QED
    BY <1>5, <2>1, <2>2 DEF GetResponse, Respond, clientVars, TypeOK
<1>6. CASE Replying
  <2>1. PICK full \in BOOLEAN : replies' = Append(replies, Reply(full))
    BY <1>6 DEF Replying, Write, WriteBodyPanics
  <2>2. Reply(full) \in [to : 0..MaxRequests, error : BOOLEAN, flag : Flags, full : BOOLEAN]
    BY <1>6 DEF Replying, Write, WriteBodyPanics, Reply, LastInv, TypeOK
  <2>3. replies' \in Seq([to : 0..MaxRequests, error : BOOLEAN, flag : Flags, full : BOOLEAN])
    BY <2>1, <2>2, AppendProperties DEF TypeOK
  <2> QED
    BY <1>6, <2>3 DEF Replying, Write, WriteBodyPanics, clientVars, TypeOK
<1>7. CASE WritePanics \/ EndHookPoisons \/ Continue \/ UNCHANGED vars \/ Stopped
  BY <1>7 DEF WritePanics, EndHookPoisons, Continue, Stopped, clientVars, vars, TypeOK
<1>8. CASE ReadPanics
  <2>1. /\ request' = buf[1].of /\ buf # <<>> /\ buf' = <<>>
        /\ UNCHANGED <<inbox, sent>>
    BY <1>8 DEF ReadPanics, Valid, StartsRequest, Leftover, clientVars
  <2>2. request' \in 0..MaxRequests
    <3>1. 1 \in 1..Len(buf)
      BY <2>1, EmptySeq, Lengths DEF TypeOK
    <3> QED
      BY <2>1, <3>1, Lengths DEF Units, Requests
  <2>3. buf' \in Seq(Units) /\ Len(inbox') + Len(buf') <= sent'
    <3>1. <<>> \in Seq(Units) /\ Len(<<>>) = 0
      BY EmptySeq
    <3>2. buf' \in Seq(Units) /\ Len(buf') = 0
      BY <2>1, <3>1, Zenon
    <3> QED
      BY <2>1, <3>2, Lengths DEF TypeOK
  <2>4. /\ pc' = "dead" /\ result' = "panic" /\ keepAlive' = FALSE /\ poisoned' = TRUE
        /\ UNCHANGED <<setting, kind, sent, client, inbox, flag, replies>>
    BY <1>8 DEF ReadPanics, clientVars
  <2> QED
    BY <2>2, <2>3, <2>4 DEF TypeOK
<1> QED
  BY <1>1, <1>2, <1>3, <1>4, <1>5, <1>6, <1>7, <1>8 DEF Next, ClientNext, ServerNext, Replying
-----------------------------------------------------------------------------
(* How each kind of step moves the cursor.                                 *)
LEMMA SendsMove ==
  ASSUME TypeOK, ClientSends
  PROVE  /\ Cursor' = Cursor /\ Len(inbox') = Len(inbox) + 1
         /\ \A i \in 1..Len(inbox') : inbox'[i] = IF i <= Len(inbox) THEN inbox[i] ELSE Unit(sent + 1)
<1>1. inbox \in Seq(Units) /\ Len(inbox) \in Nat /\ Len(buf) \in Nat /\ sent \in Nat
  BY Lengths DEF TypeOK
<1>2. Unit(sent + 1) \in Units
  BY UnitType, MaxRequestsAssumption DEF ClientSends, TypeOK
<1>3. /\ Len(inbox') = Len(inbox) + 1
      /\ \A i \in 1..Len(inbox') : inbox'[i] = IF i <= Len(inbox) THEN inbox[i] ELSE Unit(sent + 1)
  BY <1>1, <1>2, AppendProperties DEF ClientSends
<1>4. sent' = sent + 1 /\ buf' = buf
  BY DEF ClientSends
<1> QED
  BY <1>1, <1>3, <1>4 DEF Cursor

LEMMA FillMoves ==
  ASSUME TypeOK, StreamInv, Fill
  PROVE  /\ Cursor' = Cursor /\ client # "gone" /\ inbox # <<>>
         /\ buf' # <<>> /\ \A i \in 1..Len(buf') : buf'[i] = Unit(Cursor + i)
         /\ \A i \in 1..Len(inbox') : inbox'[i] = Unit(Cursor + Len(buf') + i)
<1>1. PICK n \in 1..Len(inbox) :
        buf' = buf \o SubSeq(inbox, 1, n) /\ inbox' = SubSeq(inbox, n + 1, Len(inbox))
  BY DEF Fill
<1>2. Len(inbox) \in Nat /\ Len(buf) \in Nat /\ sent \in Nat /\ n \in Nat /\ n > 0 /\ n <= Len(inbox)
  BY <1>1, Lengths
<1>3. inbox # <<>>
  BY <1>2, EmptySeq
<1>4. client # "gone"
  BY <1>3 DEF StreamInv
<1>5. /\ Len(buf') = Len(buf) + n /\ Len(inbox') = Len(inbox) - n
      /\ \A i \in 1..Len(buf') : buf'[i] = IF i <= Len(buf) THEN buf[i] ELSE inbox[i - Len(buf)]
      /\ \A i \in 1..Len(inbox') : inbox'[i] = inbox[n + i]
  BY <1>1, FillFacts
<1>6. buf' # <<>>
  BY <1>2, <1>5, EmptySeq
<1>7. Cursor' = Cursor
  <2>1. sent' = sent
    BY DEF Fill, clientVars
  <2> QED
    BY <1>2, <1>5, <2>1 DEF Cursor
<1>8. /\ \A i \in 1..Len(buf) : buf[i] = Unit(Cursor + i)
      /\ \A i \in 1..Len(inbox) : inbox[i] = Unit(Cursor + Len(buf) + i)
  BY <1>4 DEF StreamInv
<1>9. Cursor \in Nat
  BY Lengths
<1>10. ASSUME NEW i \in 1..Len(buf')
       PROVE  buf'[i] = Unit(Cursor + i)
  <2>1. CASE i <= Len(buf)
    BY <1>2, <1>5, <1>8, <1>10, <2>1
  <2>2. CASE i > Len(buf)
    <3>1. i - Len(buf) \in 1..Len(inbox) /\ Cursor + Len(buf) + (i - Len(buf)) = Cursor + i
      BY <1>2, <1>5, <1>9, <1>10, <2>2
    <3>2. buf'[i] = inbox[i - Len(buf)] /\ inbox[i - Len(buf)] = Unit(Cursor + Len(buf) + (i - Len(buf)))
      BY <1>2, <1>5, <1>8, <1>10, <2>2, <3>1
    <3> QED
      BY <3>1, <3>2
  <2> QED
    BY <1>2, <1>10, <2>1, <2>2
<1>11. ASSUME NEW i \in 1..Len(inbox')
       PROVE  inbox'[i] = Unit(Cursor + Len(buf') + i)
  <2>1. n + i \in 1..Len(inbox) /\ Cursor + Len(buf) + (n + i) = Cursor + Len(buf') + i
    BY <1>2, <1>5, <1>9, <1>11
  <2>2. inbox'[i] = inbox[n + i] /\ inbox[n + i] = Unit(Cursor + Len(buf) + (n + i))
    BY <1>5, <1>8, <1>11, <2>1
  <2> QED
    BY <2>1, <2>2
<1> QED
  BY <1>3, <1>4, <1>6, <1>7, <1>10, <1>11

LEMMA ReturnMoves ==
  ASSUME TypeOK, NEW r, NEW outcome, NEW keep, Returns(r, outcome, keep)
  PROVE  /\ Cursor' = Cursor + Len(buf) /\ Len(buf') = 0 /\ buf' = <<>>
<1>1. buf' = <<>> /\ UNCHANGED <<sent, inbox>>
  BY DEF Returns, Leftover, clientVars
<1>2. Len(buf') = 0
  BY <1>1, EmptySeq
<1>3. Len(inbox) \in Nat /\ Len(buf) \in Nat /\ sent \in Nat
  BY Lengths
<1> QED
  BY <1>1, <1>2, <1>3 DEF Cursor

(* The thread's other steps leave the stream alone.                        *)
Elsewhere ==
  \/ GetResponse \/ Replying \/ WritePanics \/ EndHookPoisons \/ Continue
  \/ Stopped \/ UNCHANGED vars

LEMMA Steps ==
  ASSUME [Next]_vars
  PROVE  \/ ClientSends \/ ClientFinishes \/ ClientResets \/ Fill \/ Returning \/ ReadPanics \/ Elsewhere
BY DEF Next, ClientNext, ServerNext, Elsewhere, Replying

LEMMA ElsewhereStays ==
  ASSUME Elsewhere
  PROVE  UNCHANGED <<setting, kind, sent, client, inbox, buf, request, result, keepAlive, Cursor>>
<1>1. UNCHANGED <<setting, kind, sent, client, inbox, buf, request, result, keepAlive>>
  BY DEF Elsewhere, GetResponse, Respond, Replying, Write, WriteBodyPanics, WritePanics,
         EndHookPoisons, Continue, Stopped, vars, clientVars
<1> QED
  BY <1>1 DEF Cursor

(* A panic of from_socket takes the buffer with it.                        *)
LEMMA PanicMoves ==
  ASSUME ReadPanics
  PROVE  /\ pc = "read" /\ pc' = "dead" /\ buf' = <<>>
         /\ UNCHANGED <<setting, kind, sent, client, inbox, flag, replies>>
BY DEF ReadPanics, Leftover, clientVars

(* buf and inbox hold the stream from the cursor on.                       *)
LEMMA StreamStep == TypeOK /\ StreamInv /\ [Next]_vars => StreamInv'
<1> SUFFICES ASSUME TypeOK, StreamInv, [Next]_vars PROVE StreamInv'
  OBVIOUS
<1>1. CASE ClientSends
  <2>1. /\ Cursor' = Cursor /\ Len(inbox') = Len(inbox) + 1
        /\ \A i \in 1..Len(inbox') : inbox'[i] = IF i <= Len(inbox) THEN inbox[i] ELSE Unit(sent + 1)
    BY <1>1, SendsMove
  <2>2. Len(inbox) \in Nat /\ Len(buf) \in Nat /\ sent \in Nat /\ Cursor + Len(buf) + Len(inbox) = sent
    BY Lengths DEF Cursor
  <2>3. client # "gone" /\ client' # "gone" /\ buf' = buf /\ pc' = pc
    BY <1>1 DEF ClientSends
  <2>4. Cursor \in Nat
    BY Lengths
  <2>5. ASSUME NEW i \in 1..Len(inbox')
        PROVE  inbox'[i] = Unit(Cursor + Len(buf) + i)
    <3>1. CASE i <= Len(inbox)
      BY <2>1, <2>2, <2>3, <2>5, <3>1 DEF StreamInv
    <3>2. CASE i > Len(inbox)
      <4>1. i = Len(inbox) + 1 /\ Cursor + Len(buf) + i = sent + 1
        BY <2>1, <2>2, <2>4, <2>5, <3>2
      <4>2. inbox'[i] = Unit(sent + 1)
        BY <2>1, <2>2, <2>5, <3>2
      <4> QED
        BY <4>1, <4>2
    <3> QED
      BY <2>1, <2>2, <2>5, <3>1, <3>2
  <2> QED
    BY <2>1, <2>3, <2>5 DEF StreamInv
<1>2. CASE ClientFinishes
  <2>1. UNCHANGED <<buf, inbox, Cursor, pc>> /\ client # "gone" /\ client' # "gone"
    BY <1>2 DEF ClientFinishes, Cursor
  <2> QED
    BY <2>1 DEF StreamInv
<1>3. CASE ClientResets
  BY <1>3 DEF ClientResets, StreamInv
<1>4. CASE Fill
  <2>1. pc = "read" /\ pc' = "read" /\ client' = client
    BY <1>4 DEF Fill, clientVars
  <2> QED
    BY <1>4, <2>1, FillMoves DEF StreamInv
<1>5. CASE Returning
  <2>1. PICK r, outcome, keep : Returns(r, outcome, keep) /\ pc = "read"
    BY <1>5, ReturnCases DEF Reads
  <2>2. Cursor' = Cursor + Len(buf) /\ Len(buf') = 0 /\ buf' = <<>>
    BY <2>1, ReturnMoves
  <2>3. inbox' = inbox /\ client' = client
    BY <2>1 DEF Returns, clientVars
  <2>4. Cursor + Len(buf) + 0 = Cursor + Len(buf) /\ Len(buf) \in Nat /\ Cursor \in Nat
    BY Lengths
  <2> QED
    BY <2>2, <2>3, <2>4 DEF StreamInv
<1>6. CASE Elsewhere
  <2>1. pc # "read" \/ pc' = pc
    BY <1>6 DEF Elsewhere, GetResponse, Respond, AfterResponse, Replying, Write, WriteBodyPanics,
                WritePanics, EndHookPoisons, Continue, Stopped, vars
  <2> QED
    BY <1>6, <2>1, ElsewhereStays DEF StreamInv
<1>7. CASE ReadPanics
  <2>1. Cursor' = Cursor + Len(buf) /\ Len(buf') = 0 /\ buf' = <<>> /\ UNCHANGED <<inbox, client>>
    <3>1. Len(inbox) \in Nat /\ Len(buf) \in Nat /\ sent \in Nat
      BY Lengths
    <3>2. Len(buf') = 0
      BY <1>7, PanicMoves, EmptySeq
    <3> QED
      BY <1>7, <3>1, <3>2, PanicMoves DEF Cursor
  <2>2. Cursor + Len(buf) + 0 = Cursor + Len(buf) /\ Len(buf) \in Nat /\ Cursor \in Nat
    BY Lengths
  <2> QED
    BY <2>1, <2>2 DEF StreamInv
<1> QED
  BY <1>1, <1>2, <1>3, <1>4, <1>5, <1>6, <1>7, Steps
-----------------------------------------------------------------------------
(* The first unit of the buffer, and the request it starts.                *)
LEMMA FirstUnit ==
  ASSUME TypeOK, StreamInv, buf # <<>>
  PROVE  /\ 1 \in 1..Len(buf) /\ buf[1].of \in Requests /\ buf[1].of # 0
         /\ client # "gone" => buf[1] = Unit(Cursor + 1)
         /\ client # "gone" /\ buf[1].part = 1 => 2 * buf[1].of = Cursor + 2
<1>1. 1 \in 1..Len(buf) /\ Cursor \in Nat
  BY EmptySeq, Lengths DEF TypeOK
<1>2. buf[1].of \in Requests /\ buf[1].of # 0
  BY <1>1, Lengths, MaxRequestsAssumption DEF Units, Requests
<1>3. client # "gone" => buf[1] = Unit(Cursor + 1)
  BY <1>1 DEF StreamInv
<1>4. Unit(Cursor + 1).part = 1 => 2 * Unit(Cursor + 1).of = Cursor + 1 + 1
  <2> DEFINE c == Cursor + 1
  <2>1. c \in Nat
    BY <1>1
  <2> HIDE DEF c
  <2>2. Unit(c).part = 1 => 2 * Unit(c).of = c + 1
    BY <2>1, UnitFacts
  <2> QED
    BY <2>2 DEF c
<1> QED
  BY <1>1, <1>2, <1>3, <1>4

(* What the thread is at: a step keeps it, or moves it on.                 *)
LEMMA Moves ==
  ASSUME [Next]_vars
  PROVE  /\ Working' => Returning \/ (Working /\ UNCHANGED replies)
         /\ pc' = "next" => Write \/ (pc = "next" /\ UNCHANGED <<replies, flag>>)
         /\ pc' = "read" => /\ UNCHANGED replies
                           /\ \/ pc = "read" /\ ~Returning
                              \/ Continue /\ ~Closes
         /\ ~Replying => UNCHANGED replies
<1>1. CASE ClientNext \/ Fill \/ Stopped \/ UNCHANGED vars
  <2>1. UNCHANGED <<pc, replies, flag>>
    BY <1>1 DEF ClientNext, ClientSends, ClientFinishes, ClientResets, Fill, Stopped, vars
  <2>2. pc' = "read" => ~Returning
    BY <2>1, ReturnCases DEF Reads, Returns
  <2> QED
    BY <2>1, <2>2 DEF Working
<1>2. CASE Returning
  <2>1. pc' = "respond" /\ UNCHANGED replies
    BY <1>2, ReturnCases DEF Reads, Returns
  <2> QED
    BY <1>2, <2>1
<1>3. CASE GetResponse \/ WritePanics
  <2>1. /\ UNCHANGED replies /\ pc' \in {"dead", "closed", "write"} /\ Working
    BY <1>3 DEF GetResponse, Respond, AfterResponse, WritePanics, Working
  <2> QED
    BY <2>1
<1>4. CASE Replying
  BY <1>4 DEF Replying, Write, WriteBodyPanics, Working
<1>5. CASE Continue
  BY <1>5 DEF Continue, Working
<1>6. CASE ReadPanics
  BY <1>6, PanicMoves DEF Working
<1>7. CASE EndHookPoisons
  BY <1>7 DEF EndHookPoisons, Working
<1> QED
  BY <1>1, <1>2, <1>3, <1>4, <1>5, <1>6, <1>7 DEF Next, ServerNext, Replying

(* What is known of the request at hand while it is at hand.               *)
LEMMA RequestStep == TypeOK /\ StreamInv /\ RequestInv /\ [Next]_vars => RequestInv'
<1> SUFFICES ASSUME TypeOK, StreamInv, RequestInv, [Next]_vars PROVE RequestInv'
  OBVIOUS
<1> DEFINE Busy == Working \/ pc = "next"
           Past == result = "ok" /\ client # "gone" => NothingLeft \/ 2 * request <= Cursor
<1>1. CASE Returning
  <2>1. PICK r, outcome, keep : Reads(r, outcome, keep)
    BY <1>1, ReturnCases
  <2>2. /\ Cursor' = Cursor + Len(buf) /\ buf' = <<>>
        /\ request' = r /\ result' = outcome /\ keepAlive' = keep
        /\ UNCHANGED <<client, inbox, kind>>
    BY <2>1, ReturnMoves DEF Reads, Returns, Kept, clientVars
  <2>3. outcome = "ok" => /\ buf # <<>> /\ buf[1].part = 1 /\ r = buf[1].of
                          /\ Len(buf) >= 2 \/ AtEof
    BY <2>1 DEF Reads, Valid, StartsRequest
  <2>4. outcome = "ok" => r # 0
    BY <2>3, FirstUnit
  <2>5. outcome = "ok" /\ client # "gone" => 2 * r = Cursor + 2
    BY <2>3, FirstUnit
  <2>6. Past'
    <3>1. Cursor \in Nat /\ Len(buf) \in Nat
      BY Lengths
    <3>2. Len(buf) >= 2 => Cursor + 2 <= Cursor + Len(buf)
      BY <3>1
    <3>3. AtEof => NothingLeft'
      BY <2>2 DEF AtEof, NothingLeft
    <3> QED
      BY <2>2, <2>3, <2>5, <3>1, <3>2, <3>3
  <2>7. keep => outcome = "ok" /\ kind[r] = "keep-alive"
    BY <2>1 DEF Reads
  <2> QED
    BY <2>2, <2>4, <2>6, <2>7 DEF RequestInv
<1>2. CASE ~Returning
  <2>1. Busy' => Busy
    BY <1>2, Moves DEF Write, Working
  <2>2. CASE ClientSends \/ ClientFinishes \/ ClientResets \/ Fill
    <3>1. UNCHANGED <<pc, result, request, keepAlive, kind>>
      BY <2>2 DEF ClientSends, ClientFinishes, ClientResets, Fill, clientVars
    <3>2. Busy => Past'
      <4>1. CASE ClientSends
        BY <3>1, <4>1, SendsMove DEF ClientSends, RequestInv, NothingLeft
      <4>2. CASE ClientFinishes
        BY <3>1, <4>2 DEF ClientFinishes, RequestInv, NothingLeft, Cursor
      <4>3. CASE ClientResets
        BY <4>3 DEF ClientResets
      <4>4. CASE Fill
        BY <4>4 DEF Fill, Working
      <4> QED
        BY <2>2, <4>1, <4>2, <4>3, <4>4
    <3> QED
      BY <2>1, <3>1, <3>2 DEF RequestInv, Working
  <2>3. CASE Elsewhere
    BY <2>1, <2>3, ElsewhereStays DEF RequestInv, NothingLeft
  <2>4. CASE ReadPanics
    BY <2>4, PanicMoves DEF RequestInv, Working
  <2> QED
    BY <1>2, <2>2, <2>3, <2>4, Steps
<1> QED
  BY <1>1, <1>2

LEMMA LastStep == TypeOK /\ LastInv /\ [Next]_vars => LastInv'
<1> SUFFICES ASSUME TypeOK, LastInv, [Next]_vars PROVE LastInv'
  OBVIOUS
<1>1. CASE Write
  <2>1. PICK full \in BOOLEAN : replies' = Append(replies, Reply(full))
    BY <1>1 DEF Write
  <2>2. Len(replies') = Len(replies) + 1 /\ replies'[Len(replies')] = Reply(full) /\ Len(replies) \in Nat
    BY <2>1, Lengths DEF TypeOK
  <2>3. Reply(full).full = full
    BY DEF Reply
  <2>4. UNCHANGED <<request, result, flag>> /\ pc' = "next" /\ flag \in Flags
    BY <1>1 DEF Write, LastInv
  <2> QED
    BY <2>2, <2>3, <2>4 DEF LastInv, Reply
<1>2. CASE GetResponse
  BY <1>2 DEF GetResponse, Respond, AfterResponse, Outcomes, Flags, LastInv
<1>3. CASE ClientNext \/ Fill \/ Stopped \/ UNCHANGED vars
  BY <1>3 DEF ClientNext, ClientSends, ClientFinishes, ClientResets, Fill, Stopped, vars, LastInv, Reply
<1>4. CASE Returning
  <2>1. pc' = "respond"
    BY <1>4, ReturnCases DEF Reads, Returns
  <2> QED
    BY <2>1 DEF LastInv
<1>5. CASE WritePanics \/ WriteBodyPanics \/ ReadPanics \/ Continue
  BY <1>5 DEF WritePanics, WriteBodyPanics, ReadPanics, Continue, LastInv
<1>6. CASE EndHookPoisons
  BY <1>6 DEF EndHookPoisons, LastInv, Reply
<1> QED
  BY <1>1, <1>2, <1>3, <1>4, <1>5, <1>6 DEF Next, ServerNext
-----------------------------------------------------------------------------
(* A write adds one reply, and changes none of those before it.            *)
LEMMA WriteAdds ==
  ASSUME TypeOK, Replying
  PROVE  \E full \in BOOLEAN :
           /\ replies' = Append(replies, Reply(full))
           /\ Len(replies) \in Nat /\ Len(replies') = Len(replies) + 1
           /\ replies'[Len(replies) + 1] = Reply(full)
           /\ \A n \in Replies : replies'[n] = replies[n]
           /\ Replies' = Replies \cup {Len(replies) + 1}
<1>1. PICK full \in BOOLEAN : replies' = Append(replies, Reply(full))
  BY DEF Replying, Write, WriteBodyPanics
<1>2. /\ Len(replies) \in Nat /\ Len(replies') = Len(replies) + 1
      /\ replies'[Len(replies) + 1] = Reply(full)
      /\ \A n \in 1..Len(replies) : replies'[n] = replies[n]
  BY <1>1, Lengths DEF TypeOK
<1>3. 1..(Len(replies) + 1) = 1..Len(replies) \cup {Len(replies) + 1}
  BY <1>2
<1> QED
  BY <1>1, <1>2, <1>3 DEF Replies

(* The replies stay in order, and the request at hand after them.          *)
LEMMA OrderStep ==
  TypeOK /\ StreamInv /\ OrderInv /\ RequestInv /\ LastInv /\ StreamInv' /\ [Next]_vars => OrderInv'
<1> SUFFICES ASSUME TypeOK, StreamInv, OrderInv, RequestInv, LastInv, StreamInv', [Next]_vars
             PROVE  OrderInv'
  OBVIOUS
<1>0. /\ Len(replies) \in Nat /\ Cursor \in Nat /\ Len(buf) \in Nat
      /\ \A n \in Replies : replies[n].to \in Nat
  BY Lengths, MaxRequestsAssumption
<1>1. CASE ClientSends \/ ClientFinishes \/ ClientResets
  <2>1. UNCHANGED <<pc, replies, kind, setting, request, buf, Replies>>
    BY <1>1 DEF ClientSends, ClientFinishes, ClientResets, Replies
  <2>2. client' # "gone" =>
          /\ client # "gone" /\ Cursor' = Cursor /\ (NothingLeft => NothingLeft')
    BY <1>1, SendsMove DEF ClientSends, ClientFinishes, ClientResets, Cursor, NothingLeft
  <2> QED
    BY <2>1, <2>2 DEF OrderInv, Goes, Working
<1>2. CASE Fill
  <2>1. UNCHANGED <<pc, replies, kind, setting, request, Replies, client>> /\ pc = "read"
    BY <1>2 DEF Fill, clientVars, Replies
  <2>2. /\ Cursor' = Cursor /\ client # "gone" /\ ~NothingLeft
        /\ \A i \in 1..Len(buf') : buf'[i] = Unit(Cursor + i)
    BY <1>2, FillMoves DEF NothingLeft
  <2>3. \A n \in Replies : 2 * replies[n].to <= Cursor
    BY <2>1, <2>2 DEF OrderInv
  <2>4. ASSUME NEW n \in Replies, NEW i \in 1..Len(buf')
        PROVE  replies[n].to < buf'[i].of
    <3> DEFINE c == Cursor + i
    <3>1. c \in Nat /\ c > Cursor
      BY <1>0, <2>4
    <3>2. buf'[i] = Unit(c)
      BY <2>2, <2>4
    <3> HIDE DEF c
    <3>3. 2 * Unit(c).of = c + 1 \/ 2 * Unit(c).of = c
      BY <3>1, UnitFacts
    <3>4. Unit(c).of \in Nat
      BY <3>1, UnitFacts
    <3> QED
      BY <1>0, <2>3, <2>4, <3>1, <3>2, <3>3, <3>4
  <2> QED
    BY <2>1, <2>2, <2>3, <2>4 DEF OrderInv, Goes, Working
<1>3. CASE Returning
  <2>1. PICK r, outcome, keep : Reads(r, outcome, keep)
    BY <1>3, ReturnCases
  <2>2. /\ pc = "read" /\ pc' = "respond" /\ request' = r
        /\ UNCHANGED <<replies, kind, setting, Replies>>
    BY <1>3, <2>1, ReturnCases DEF Reads, Returns, clientVars, Replies
  <2>3. r = 0 \/ \A n \in Replies : replies[n].to < r
    <3>1. CASE buf = <<>>
      BY <2>1, <3>1 DEF Reads
    <3>2. CASE buf # <<>>
      BY <2>1, <2>2, <3>2, FirstUnit DEF Reads, OrderInv
    <3> QED
      BY <3>1, <3>2
  <2> QED
    BY <2>2, <2>3 DEF OrderInv, Goes, Working
<1>4. CASE Replying
  <2>1. PICK full \in BOOLEAN :
           /\ Len(replies') = Len(replies) + 1
           /\ replies'[Len(replies) + 1] = Reply(full)
           /\ \A n \in Replies : replies'[n] = replies[n]
           /\ Replies' = Replies \cup {Len(replies) + 1}
    BY <1>4, WriteAdds
  <2>2. Working /\ pc' \in {"next", "dead"} /\ UNCHANGED <<kind, setting>>
    BY <1>4 DEF Replying, Write, WriteBodyPanics, Working, clientVars
  <2>3. Reply(full).to = request
    BY DEF Reply
  <2>4. ASSUME NEW n \in Replies', NEW m \in 1..(n - 1)
        PROVE  replies'[n].to = 0 \/ replies'[m].to < replies'[n].to
    <3>1. m \in Replies
      BY <1>0, <2>1, <2>4 DEF Replies
    <3>2. CASE n = Len(replies) + 1
      BY <2>1, <2>2, <2>3, <3>1, <3>2 DEF OrderInv
    <3>3. CASE n \in Replies
      BY <2>1, <2>4, <3>1, <3>3 DEF OrderInv
    <3> QED
      BY <2>1, <3>2, <3>3
  <2>5. \A n \in 1..(Len(replies') - 1) : Goes(n)'
    BY <1>0, <2>1, <2>2 DEF OrderInv, Goes, Replies
  <2> QED
    BY <2>2, <2>4, <2>5 DEF OrderInv, Working
<1>5. CASE Continue /\ ~Closes
  <2>1. /\ pc = "next" /\ pc' = "read"
        /\ UNCHANGED <<setting, kind, client, inbox, buf, replies, Cursor, Replies>>
    BY <1>5, ElsewhereStays DEF Continue, Elsewhere, Replies
  <2>2. keepAlive /\ flag # "Close" /\ setting.keepAlive
    BY <1>5 DEF Closes
  <2>3. result = "ok" /\ kind[request] = "keep-alive" /\ request # 0
    BY <2>1, <2>2 DEF RequestInv
  <2>4. /\ Len(replies) \in Replies
        /\ replies[Len(replies)].to = request /\ ~replies[Len(replies)].error
        /\ replies[Len(replies)].flag = flag
    <3>1. Len(replies) \in Replies
      BY <1>0, <2>1 DEF LastInv, Replies
    <3>2. replies[Len(replies)] = Reply(replies[Len(replies)].full)
      BY <2>1 DEF LastInv
    <3>3. \A full : Reply(full).to = request /\ Reply(full).error = (result # "ok") /\ Reply(full).flag = flag
      BY DEF Reply
    <3> QED
      BY <2>3, <3>1, <3>2, <3>3
  <2>5. \A n \in Replies : Goes(n)
    <3>1. Goes(Len(replies))
      BY <2>2, <2>3, <2>4 DEF Goes
    <3>2. \A n \in Replies : n = Len(replies) \/ n \in 1..(Len(replies) - 1)
      BY <1>0 DEF Replies
    <3> QED
      BY <3>1, <3>2 DEF OrderInv
  <2>6. \A n \in Replies : replies[n].to <= request
    <3>1. \A n \in Replies : n = Len(replies) \/ n \in 1..(Len(replies) - 1)
      BY <1>0 DEF Replies
    <3>2. \A n \in 1..(Len(replies) - 1) : replies[n].to < request
      BY <2>3, <2>4 DEF OrderInv
    <3> QED
      BY <1>0, <2>4, <3>1, <3>2
  <2>7. client # "gone" => NothingLeft \/ \A n \in Replies : 2 * replies[n].to <= Cursor
    <3>1. client # "gone" => NothingLeft \/ 2 * request <= Cursor
      BY <2>1, <2>3 DEF RequestInv
    <3>2. request \in Nat
      BY <2>4, <1>0
    <3> QED
      BY <1>0, <2>6, <3>1, <3>2
  <2>8. Len(buf) = 0
    BY <2>1, EmptySeq DEF StreamInv
  <2>9. \A n \in Replies : \A i \in 1..Len(buf) : replies[n].to < buf[i].of
    BY <2>8
  <2> QED
    BY <2>1, <2>5, <2>7, <2>9 DEF OrderInv, Goes, NothingLeft, Working
<1>6. CASE Elsewhere /\ ~Replying /\ ~(Continue /\ ~Closes)
  <2>1. UNCHANGED <<setting, kind, client, inbox, buf, request, replies, Cursor, Replies>>
    BY <1>6, Moves, ElsewhereStays DEF Replies
  <2>2. (pc' = "read" => pc = "read") /\ (Working' => Working)
    BY <1>6 DEF Elsewhere, GetResponse, Respond, AfterResponse, WritePanics, EndHookPoisons,
                Continue, Stopped, vars, Working
  <2> QED
    BY <2>1, <2>2 DEF OrderInv, Goes, NothingLeft
<1>7. CASE ReadPanics
  <2>1. pc' = "dead" /\ UNCHANGED <<setting, kind, replies, Replies>>
    BY <1>7, PanicMoves DEF Replies
  <2> QED
    BY <2>1 DEF OrderInv, Goes, Working
<1> QED
  BY <1>1, <1>2, <1>3, <1>4, <1>5, <1>6, <1>7, Steps DEF Elsewhere
-----------------------------------------------------------------------------
(* What was answered stays answered.                                       *)
LEMMA AnsweredStays ==
  ASSUME TypeOK, [Next]_vars
  PROVE  /\ \A r : Answered(r) => Answered(r)'
         /\ Write => Answered(request)'
<1>1. CASE Replying
  <2>1. PICK full \in BOOLEAN :
           /\ Len(replies) \in Nat /\ Len(replies') = Len(replies) + 1
           /\ replies'[Len(replies) + 1] = Reply(full)
           /\ \A n \in Replies : replies'[n] = replies[n]
    BY <1>1, WriteAdds
  <2>2. Len(replies) + 1 \in 1..Len(replies') /\ Reply(full).to = request /\ request' = request
    <3>1. request' = request
      BY <1>1 DEF Replying, Write, WriteBodyPanics
    <3>2. Reply(full).to = request
      BY DEF Reply
    <3> QED
      BY <2>1, <3>1, <3>2
  <2>3. \A n \in 1..Len(replies) : n \in 1..Len(replies')
    BY <2>1
  <2> QED
    BY <2>1, <2>2, <2>3 DEF Answered, Replies
<1>2. CASE ~Replying
  BY <1>2, Moves DEF Answered, Replying
<1> QED
  BY <1>1, <1>2

(* What a read request leaves of the stream, for a client that waits: only *)
(* the requests before it, and itself, are behind the cursor.              *)
LEMMA ReadLeaves ==
  ASSUME TypeOK, StreamInv, OrderInv, WaitInv, Waits, pc = "read",
         buf # <<>>, buf[1].part = 1, Len(buf) >= 2
  PROVE  /\ Len(buf) = 2 /\ sent = Cursor + 2
         /\ \A r \in Requests : 2 * r <= sent => Answered(r) \/ r = buf[1].of
<1> DEFINE q == buf[1].of
<1>1. q \in Requests /\ 2 * q = Cursor + 2
  BY FirstUnit DEF Waits
<1>2. ~Answered(q)
  <2>1. \A n \in Replies : replies[n].to < q
    BY FirstUnit DEF OrderInv
  <2>2. \A n \in Replies : replies[n].to \in Int /\ q \in Int
    BY <1>1, Lengths DEF Requests
  <2> QED
    BY <2>1, <2>2 DEF Answered, Replies
<1>3. ~(2 * q < sent)
  BY <1>1, <1>2 DEF WaitInv
<1>4. sent \in Nat /\ Len(buf) \in Nat /\ Len(inbox) \in Nat /\ Cursor = sent - Len(buf) - Len(inbox)
      /\ Cursor \in Nat /\ q \in Nat
  BY <1>1, Lengths DEF Cursor, Requests
<1>5. Len(buf) = 2 /\ sent = Cursor + 2 /\ sent = 2 * q
  <2>1. \A s, b, i, c, k \in Nat :
          c = s - b - i /\ 2 * k = c + 2 /\ ~(2 * k < s) /\ b >= 2 => b = 2 /\ s = c + 2 /\ s = 2 * k
    OBVIOUS
  <2> QED
    BY <1>1, <1>3, <1>4, <2>1
<1>6. ASSUME NEW r \in Requests, 2 * r <= sent
      PROVE  Answered(r) \/ r = q
  <2>1. 2 * r < sent \/ r = q
    BY <1>1, <1>4, <1>5, <1>6, MaxRequestsAssumption DEF Requests
  <2> QED
    BY <1>6, <2>1 DEF WaitInv
<1> QED
  BY <1>5, <1>6

(* A client that waits for replies: what is behind the cursor is answered, *)
(* and the cursor is between two requests.                                 *)
LEMMA WaitStep ==
  TypeOK /\ StreamInv /\ OrderInv /\ RequestInv /\ LastInv /\ WaitInv /\ [Next]_vars => WaitInv'
<1> SUFFICES ASSUME TypeOK, StreamInv, OrderInv, RequestInv, LastInv, WaitInv, [Next]_vars, Waits'
             PROVE  WaitInv'
  BY DEF WaitInv
<1>0. /\ sent \in Nat /\ Cursor \in Nat /\ Len(buf) \in Nat
      /\ \A r \in Requests : r \in Nat
      /\ \A r \in Requests : Answered(r) => Answered(r)'
  BY Lengths, AnsweredStays DEF Requests
<1>1. Waits
  <2>1. setting' = setting /\ (client = "gone" => client' = "gone")
    <3>1. CASE ClientSends \/ ClientFinishes \/ ClientResets \/ Fill \/ Elsewhere
      BY <3>1, ElsewhereStays DEF ClientSends, ClientFinishes, ClientResets, Fill, clientVars
    <3>2. CASE Returning
      BY <3>2, ReturnCases DEF Reads, Returns, clientVars
    <3>3. CASE ReadPanics
      BY <3>3, PanicMoves
    <3> QED
      BY <3>1, <3>2, <3>3, Steps
  <2> QED
    BY <2>1 DEF Waits
<1>2. CASE ClientSends
  <2>1. /\ UNCHANGED <<pc, buf, request, result, setting>> /\ sent' = sent + 1 /\ client = "open"
        /\ Cursor' = Cursor
    BY <1>2, SendsMove DEF ClientSends
  <2>2. ASSUME NEW r \in Requests, 2 * r < sent + 1
        PROVE  Answered(r)'
    <3>1. CASE 2 * r < sent
      BY <1>0, <1>1, <3>1 DEF WaitInv
    <3>2. CASE 2 * r = sent
      <4>1. r >= 1
        BY DEF Requests
      <4>2. Unit(sent + 1).part = 1 /\ Unit(sent + 1).of = r + 1
        <5> DEFINE c == sent + 1
        <5>1. c \in Nat
          BY <1>0
        <5>2. Unit(c).of \in Nat /\ (Unit(c).part = 1 => 2 * Unit(c).of = c + 1)
              /\ (Unit(c).part # 1 => 2 * Unit(c).of = c)
          BY <5>1, UnitFacts
        <5> QED
          BY <1>0, <2>2, <3>2, <5>2
      <4>3. MayStart(r + 1)
        BY <1>2, <4>2 DEF ClientSends
      <4>4. r + 1 # 1 /\ r + 1 - 1 = r
        BY <1>0, <4>1
      <4> QED
        BY <1>0, <1>1, <4>3, <4>4 DEF MayStart, Waits
    <3> QED
      BY <1>0, <2>2, <3>1, <3>2
  <2>3. NothingLeft' = NothingLeft
    BY <1>2, <2>1 DEF NothingLeft, ClientSends
  <2> QED
    BY <1>0, <1>1, <2>1, <2>2, <2>3 DEF WaitInv, Working, NothingLeft
<1>3. CASE ClientFinishes \/ ClientResets
  <2>1. UNCHANGED <<pc, buf, request, result, setting, sent, inbox, Cursor>> /\ (NothingLeft => NothingLeft')
    BY <1>3 DEF ClientFinishes, ClientResets, Cursor, NothingLeft, Waits
  <2> QED
    BY <1>0, <1>1, <2>1 DEF WaitInv, Working
<1>4. CASE Fill
  <2>1. UNCHANGED <<pc, request, result, setting, sent>> /\ Cursor' = Cursor /\ ~NothingLeft
    BY <1>4, FillMoves DEF Fill, clientVars, NothingLeft
  <2> QED
    BY <1>0, <1>1, <2>1 DEF WaitInv, Working
<1>5. CASE Returning
  <2>1. PICK r, outcome, keep : Reads(r, outcome, keep)
    BY <1>5, ReturnCases
  <2>2. /\ pc = "read" /\ pc' = "respond" /\ request' = r /\ result' = outcome
        /\ UNCHANGED <<sent, inbox, client>> /\ Cursor' = Cursor + Len(buf) /\ buf' = <<>>
    BY <1>5, <2>1, ReturnCases, ReturnMoves DEF Reads, Returns, clientVars
  <2>3. \A k \in Requests : 2 * k < sent' => Answered(k)'
    BY <1>0, <1>1, <2>2 DEF WaitInv
  <2>4. CASE outcome = "ok"
    <3>1. /\ buf # <<>> /\ buf[1].part = 1 /\ r = buf[1].of
          /\ Len(buf) >= 2 \/ AtEof
      BY <2>1, <2>4 DEF Reads, Valid, StartsRequest
    <3>2. CASE Len(buf) >= 2
      <4>1. /\ Len(buf) = 2 /\ sent = Cursor + 2
            /\ \A k \in Requests : 2 * k <= sent => Answered(k) \/ k = r
        BY <1>1, <2>2, <3>1, <3>2, ReadLeaves
      <4>2. Unit(Cursor + 2 + 1).part = 1
        <5> DEFINE c == Cursor + 1
        <5>1. c \in Nat /\ c + 1 \in Nat /\ c + 1 + 1 = Cursor + 2 + 1
          BY <1>0
        <5>2. Unit(c).part = 1
          BY <1>1, <3>1, FirstUnit DEF Waits
        <5> HIDE DEF c
        <5>3. Unit(c + 1).part = 2
          BY <5>1, <5>2, UnitFacts
        <5>4. Unit(c + 1 + 1).part = 1
          BY <5>1, <5>3, UnitFacts
        <5> QED
          BY <5>1, <5>4
      <4> QED
        BY <1>0, <2>2, <2>3, <4>1, <4>2 DEF WaitInv, Working
    <3>3. CASE Len(buf) < 2 /\ AtEof
      <4>1. Len(buf) = 1 /\ NothingLeft' /\ Len(inbox) = 0
        <5>1. 1 \in 1..Len(buf)
          BY <3>1, FirstUnit
        <5>2. Len(buf) = 1
          <6>1. \A k \in Nat : 1 \in 1..k /\ k < 2 => k = 1
            OBVIOUS
          <6> QED
            BY <1>0, <3>3, <5>1, <6>1
        <5>3. NothingLeft'
          BY <2>2, <3>3 DEF AtEof, NothingLeft
        <5>4. Len(inbox) = 0
          BY <3>3, EmptySeq DEF AtEof
        <5> QED
          BY <5>2, <5>3, <5>4
      <4>2. sent = Cursor + 1 /\ Cursor' = sent
        BY <1>0, <2>2, <4>1 DEF Cursor
      <4>3. 2 * r = Cursor + 2
        BY <1>1, <3>1, FirstUnit DEF Waits
      <4>4. r \in Nat
        BY <1>0, <3>1, FirstUnit
      <4>5. \A k \in Requests : 2 * k <= sent => 2 * k < sent
        BY <1>0, <4>2, <4>3, <4>4
      <4> QED
        BY <2>2, <2>3, <4>1, <4>2, <4>5 DEF WaitInv, Working
    <3> QED
      BY <1>0, <3>1, <3>2, <3>3
  <2>5. CASE outcome # "ok"
    BY <2>2, <2>3, <2>5 DEF WaitInv, Working
  <2> QED
    BY <2>4, <2>5
<1>6. CASE Elsewhere
  <2>1. UNCHANGED <<setting, sent, client, inbox, buf, request, result, Cursor, NothingLeft>>
    BY <1>6, ElsewhereStays DEF NothingLeft
  <2>2. \A r \in Requests : 2 * r < sent' => Answered(r)'
    BY <1>0, <1>1, <2>1 DEF WaitInv
  <2>3. CASE Continue /\ ~Closes
    <3>1. pc = "next" /\ pc' = "read" /\ result = "ok"
      BY <2>3 DEF Continue, Closes, RequestInv
    <3>2. Answered(request)
      <4>1. Len(replies) \in 1..Len(replies)
        BY <3>1, Lengths DEF LastInv
      <4>2. replies[Len(replies)].to = request
        BY <3>1 DEF LastInv, Reply
      <4> QED
        BY <4>1, <4>2 DEF Answered
    <3> QED
      BY <1>0, <1>1, <2>1, <2>2, <3>1, <3>2 DEF WaitInv, Working
  <2>4. CASE ~(Continue /\ ~Closes)
    <3>1. (pc' = "read" => pc = "read") /\ (Working' \/ pc' = "next" => Working \/ pc = "next")
      BY <1>6, <2>4 DEF Elsewhere, GetResponse, Respond, AfterResponse, Replying, Write, WriteBodyPanics,
                        WritePanics, EndHookPoisons, Continue, Stopped, vars, Working
    <3> QED
      BY <1>0, <1>1, <2>1, <2>2, <3>1 DEF WaitInv
  <2> QED
    BY <2>3, <2>4
<1>7. CASE ReadPanics
  <2>1. pc' = "dead" /\ UNCHANGED <<sent, replies>>
    BY <1>7, PanicMoves
  <2> QED
    BY <1>0, <1>1, <2>1 DEF WaitInv, Working
<1> QED
  BY <1>2, <1>3, <1>4, <1>5, <1>6, <1>7, Steps
-----------------------------------------------------------------------------
(* from_socket panics at a header, or at the end of what there is of it.   *)
LEMMA PanicCause ==
  ASSUME TypeOK, StreamInv, ReadPanics
  PROVE  kind[buf[1].of] = "fatal" \/ sent < 2 * buf[1].of
<1>1. CASE AtEof /\ Len(buf) = 1
  <2>1. 2 * buf[1].of = Cursor + 2
    BY <1>1, FirstUnit DEF AtEof, ReadPanics, Valid, StartsRequest
  <2>2. Len(inbox) = 0 /\ sent \in Nat /\ Cursor \in Nat
    BY <1>1, EmptySeq, Lengths DEF AtEof
  <2>3. sent = Cursor + 1
    BY <1>1, <2>2 DEF Cursor
  <2> QED
    BY <2>1, <2>2, <2>3
<1> QED
  BY <1>1 DEF ReadPanics

(* An error is the request's own fault, and the thread's death has one of  *)
(* the causes listed.                                                      *)
LEMMA DeservedStep ==
  TypeOK /\ StreamInv /\ WaitInv /\ DeservedInv /\ [Next]_vars => DeservedInv'
<1> SUFFICES ASSUME TypeOK, StreamInv, WaitInv, DeservedInv, [Next]_vars PROVE DeservedInv'
  OBVIOUS
<1> DEFINE Sound == \A n \in Replies : replies[n].error => Deserved(replies[n].to)
           Due == Working /\ result # "ok" => Deserved(request)
           Fatal == /\ poisoned => setting.usersHoldSocket \/ pc = "dead"
                    /\ pc = "dead" => DeathHasCause
<1>1. Waits /\ ~setting.timeout => Sound /\ Due
  BY DEF DeservedInv
<1>2. SUFFICES (Waits /\ ~setting.timeout => Sound /\ Due)' /\ Fatal'
  BY DEF DeservedInv
<1>3. Fatal
  BY DEF DeservedInv
<1>4. CASE ClientSends \/ ClientFinishes \/ ClientResets
  <2>1. /\ UNCHANGED <<pc, replies, kind, setting, request, result, Replies, flag, poisoned>>
        /\ pc = "dead" => sent' = sent
    BY <1>4 DEF ClientSends, ClientFinishes, ClientResets, Replies, Ended
  <2>2. Waits' => Waits /\ \A r : Deserved(r) => Deserved(r)'
    BY <1>4, <2>1 DEF ClientSends, ClientFinishes, ClientResets, Waits, Deserved
  <2> QED
    BY <1>1, <1>3, <2>1, <2>2 DEF Working, DeathHasCause
<1>5. CASE Fill
  <2>1. UNCHANGED <<pc, replies, kind, setting, request, result, Replies, flag, poisoned, client, sent>>
    BY <1>5 DEF Fill, clientVars, Replies
  <2> QED
    BY <1>1, <1>3, <2>1 DEF Working, Waits, Deserved, DeathHasCause
<1>6. CASE Returning
  <2>1. PICK r, outcome, keep : Reads(r, outcome, keep)
    BY <1>6, ReturnCases
  <2>2. /\ pc = "read" /\ pc' = "respond" /\ request' = r /\ result' = outcome
        /\ UNCHANGED <<replies, kind, setting, Replies, flag, poisoned, client, sent, inbox>>
    BY <1>6, <2>1, ReturnCases DEF Reads, Returns, clientVars, Replies
  <2>3. ASSUME Waits, ~setting.timeout, outcome # "ok"
        PROVE  Deserved(r)
    <3>1. CASE buf = <<>>
      BY <2>1, <3>1 DEF Reads, Deserved
    <3>2. CASE buf # <<>>
      <4>1. /\ r = buf[1].of /\ buf[1] = Unit(Cursor + 1)
            /\ buf[1].part = 1 => 2 * r = Cursor + 2
        BY <2>1, <2>3, <3>2, FirstUnit DEF Reads, Waits
      <4>2. buf[1].part = 1 /\ 2 * r = Cursor + 2
        BY <2>2, <2>3, <3>2, <4>1 DEF WaitInv, NothingLeft
      <4>3. CASE ~Valid
        BY <3>2, <4>1, <4>2, <4>3 DEF Valid, StartsRequest, Deserved
      <4>4. CASE AtEof /\ Len(buf) = 1
        <5>1. Len(inbox) = 0 /\ sent \in Nat /\ Cursor \in Nat
          BY <4>4, EmptySeq, Lengths DEF AtEof
        <5>2. sent = Cursor + 1
          BY <4>4, <5>1 DEF Cursor
        <5>3. sent < 2 * r
          BY <4>2, <5>1, <5>2
        <5> QED
          BY <4>4, <5>3 DEF AtEof, Deserved
      <4> QED
        BY <2>1, <2>3, <3>2, <4>3, <4>4 DEF Reads, Waits
    <3> QED
      BY <3>1, <3>2
  <2> QED
    BY <1>1, <1>3, <2>2, <2>3 DEF Waits, Deserved
<1>7. CASE Replying
  <2>1. PICK full \in BOOLEAN :
           /\ replies'[Len(replies) + 1] = Reply(full)
           /\ \A n \in Replies : replies'[n] = replies[n]
           /\ Replies' = Replies \cup {Len(replies) + 1}
    BY <1>7, WriteAdds
  <2>2. /\ Working /\ pc = "write" /\ pc' \in {"next", "dead"} /\ ~poisoned
        /\ UNCHANGED <<kind, setting, client, sent>>
    BY <1>7 DEF Replying, Write, WriteBodyPanics, Working, clientVars
  <2>3. Reply(full).to = request /\ (Reply(full).error => result # "ok")
    BY DEF Reply
  <2>4. Waits /\ ~setting.timeout => Sound'
    BY <1>1, <2>1, <2>2, <2>3 DEF Deserved
  <2>5. Fatal'
    <3>1. CASE Write
      BY <2>2, <3>1 DEF Write
    <3>2. CASE WriteBodyPanics
      <4>1. replies' = Append(replies, Reply(FALSE)) /\ setting.bodiesFail
        BY <3>2 DEF WriteBodyPanics
      <4>2. /\ Len(replies') = Len(replies) + 1 /\ Len(replies) \in Nat
            /\ replies'[Len(replies')] = Reply(FALSE)
        <5> DEFINE rep == Reply(FALSE)
        <5>1. replies' = Append(replies, rep)
          BY <4>1
        <5> HIDE DEF rep
        <5>2. Len(replies') = Len(replies) + 1 /\ Len(replies) \in Nat /\ replies'[Len(replies')] = rep
          BY <5>1, Lengths DEF TypeOK
        <5> QED
          BY <5>2 DEF rep
      <4>3. Reply(FALSE).full = FALSE
        BY DEF Reply
      <4>4. replies' # <<>>
        BY <4>2, EmptySeq
      <4> QED
        BY <2>2, <3>2, <4>1, <4>2, <4>3, <4>4 DEF WriteBodyPanics, DeathHasCause
    <3> QED
      BY <1>7, <3>1, <3>2 DEF Replying
  <2> QED
    BY <2>2, <2>4, <2>5 DEF Working, Waits
<1>8. CASE Elsewhere /\ ~Replying
  <2>1. UNCHANGED <<setting, kind, sent, client, request, result, replies, Replies>>
    BY <1>8, Moves, ElsewhereStays DEF Replies
  <2>2. Working' => Working
    BY <1>8 DEF Elsewhere, GetResponse, Respond, WritePanics, EndHookPoisons, Continue, Stopped,
                vars, Working
  <2>3. Fatal'
    <3>1. CASE GetResponse
      BY <1>3, <2>1, <3>1 DEF GetResponse, Respond, AfterResponse, MayPoison, DeathHasCause
    <3>2. CASE WritePanics
      BY <1>3, <2>1, <3>2 DEF WritePanics, DeathHasCause
    <3>3. CASE EndHookPoisons
      BY <1>3, <2>1, <3>3 DEF EndHookPoisons, MayPoison
    <3>4. CASE Continue
      BY <1>3, <2>1, <3>4 DEF Continue, DeathHasCause
    <3>5. CASE Stopped \/ UNCHANGED vars
      BY <1>3, <2>1, <3>5 DEF Stopped, vars, DeathHasCause
    <3> QED
      BY <1>8, <3>1, <3>2, <3>3, <3>4, <3>5 DEF Elsewhere
  <2> QED
    BY <1>1, <2>1, <2>2, <2>3 DEF Waits, Deserved
<1>9. CASE ReadPanics
  <2>1. /\ pc' = "dead" /\ result' = "panic" /\ request' = buf[1].of /\ buf # <<>>
        /\ UNCHANGED <<setting, kind, sent, client, replies, Replies>>
    BY <1>9, PanicMoves DEF ReadPanics, Valid, StartsRequest, Replies
  <2>2. kind[buf[1].of] = "fatal" \/ sent < 2 * buf[1].of
    BY <1>9, PanicCause
  <2> QED
    BY <1>1, <2>1, <2>2 DEF Working, Waits, Deserved, DeathHasCause
<1> QED
  BY <1>4, <1>5, <1>6, <1>7, <1>8, <1>9, Steps DEF Elsewhere

-----------------------------------------------------------------------------
(* The connection's inductive invariant: where the stream is, and how the  *)
(* replies and the request at hand relate to it.                           *)
THEOREM Invariance == Spec => []Inv
<1>1. Inv /\ [Next]_vars => Inv'
  BY TypeStep, StreamStep, OrderStep, RequestStep, LastStep, WaitStep, DeservedStep DEF Inv
<1> QED
  BY <1>1, InitInv, PTL DEF Spec

(* Replies go out in the order of the requests, and nothing follows an     *)
(* error or a closing reply (the loop of handle in src/lib/internal/       *)
(* handle.rs), for any number of requests, pipelined or not.               *)
THEOREM RepliesInOrder == Spec => []InOrder
<1>1. Inv => InOrder
  <2> SUFFICES ASSUME Inv PROVE InOrder
    OBVIOUS
  <2>1. TypeOK /\ OrderInv /\ Len(replies) \in Nat
    BY Lengths DEF Inv
  <2>2. ASSUME NEW n \in 2..Len(replies)
        PROVE  replies[n].to = 0 \/ replies[n - 1].to < replies[n].to
    <3>1. n \in Replies /\ n - 1 \in 1..(n - 1)
      BY <2>1, <2>2 DEF Replies
    <3> QED
      BY <2>1, <3>1 DEF OrderInv
  <2> QED
    BY <2>1, <2>2 DEF OrderInv, Goes, InOrder
<1> QED
  BY <1>1, Invariance, PTL

(* A client that waits for each reply gets one to every request.           *)
THEOREM EveryRequestAnswered == Spec => []NoRequestLost
<1>1. Inv => NoRequestLost
  <2> SUFFICES ASSUME Inv, ~setting.pipelining, pc = "read", buf = <<>>, inbox = <<>>, client # "gone",
                      NEW r \in Requests, 2 * r <= sent
               PROVE  Answered(r)
    BY DEF NoRequestLost
  <2>1. Cursor = sent
    <3>1. sent \in Nat /\ Len(buf) = 0 /\ Len(inbox) = 0
      BY Lengths, EmptySeq DEF Inv
    <3> QED
      BY <3>1 DEF Cursor
  <2> QED
    BY <2>1 DEF Inv, WaitInv, Waits
<1> QED
  BY <1>1, Invariance, PTL

(* And no error that its request does not deserve: from_socket loses no    *)
(* byte between two requests (src/lib/request.rs).  The thread ends of the *)
(* error handler's panic, of from_socket's at a header or where a request  *)
(* is cut short, of a body's, or of a poisoned mutex, and of nothing else. *)
THEOREM NoUndeservedError == Spec => []ErrorsAreDeserved
<1>1. Inv => ErrorsAreDeserved
  <2> SUFFICES ASSUME Inv PROVE ErrorsAreDeserved
    OBVIOUS
  <2>1. DeservedInv
    BY DEF Inv
  <2>2. ASSUME ~setting.pipelining, ~setting.timeout, NEW n \in 1..Len(replies),
               replies[n].error, replies[n].to # 0, client # "gone"
        PROVE  kind[replies[n].to] = "bad" \/ sent < 2 * replies[n].to
    BY <2>1, <2>2 DEF DeservedInv, Waits, Replies, Deserved
  <2> QED
    BY <2>1, <2>2 DEF ErrorsAreDeserved, DeservedInv, DeathHasCause
<1> QED
  BY <1>1, Invariance, PTL
=============================================================================
