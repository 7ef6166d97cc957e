----------------------------- MODULE QuoteBook -----------------------------
(***************************************************************************)
(* The quote book application (src/examples/application_quote_book.rs):    *)
(* its quotes live in a map behind an RwLock and are saved, all of them,   *)
(* to a file after each new one; the file is loaded at the start.          *)
(*                                                                         *)
(* A quote is the number of the request that brought it.  The file is the  *)
(* map of its whole lines, and whether a piece of a line is among them.    *)
(***************************************************************************)
EXTENDS Integers, FiniteSets, Functions

CONSTANTS Workers,      \* the threads that handle requests
          MaxQuotes,    \* bound: how many quotes are posted
          MaxCrashes    \* bound: how often the process dies

ASSUME WorkersAssumption == Workers # {}
ASSUME BoundsAssumption == MaxQuotes \in Nat /\ MaxCrashes \in Nat

VARIABLES
  phase,      \* "down", "up", or "broken": the file cannot be loaded
  quotes,     \* App::quotes: the ids in use and their quotes
  file,       \* quotes.txt
  pc,         \* where each worker is in the handler of POST /api/new
  given,      \* the id it has given, and to which quote
  out,        \* the text save has built, as a map
  posted,     \* how many quotes were posted
  crashes,    \* how often the process has died
  promised,   \* the ids and quotes of the redirects sent so far
  mishaps     \* what has happened that may lose quotes

vars == <<phase, quotes, file, pc, given, out, posted, crashes, promised, mishaps>>

(* A piece of a line may read as a quote nobody posted.                    *)
Damaged == 0
Ids == 0..(MaxQuotes + MaxCrashes)
IsMap(map) == DOMAIN map \subseteq Ids /\ \A k \in DOMAIN map : map[k] \in 0..MaxQuotes
Empty == <<>>
Blank == [lines |-> Empty, piece |-> FALSE]

(* A stale save takes from the file what another worker has saved; a mixed *)
(* one fills a file that another worker has filled since it was emptied.   *)
Mishaps == {"crash while saving", "failed write", "stale save", "mixed save"}

TypeOK ==
  /\ phase \in {"down", "up", "broken"}
  /\ IsMap(quotes)
  /\ IsMap(file.lines) /\ file.piece \in BOOLEAN
  /\ pc \in [Workers -> {"idle", "inserted", "saving", "writing"}]
  /\ given \in [Workers -> Ids \X (0..MaxQuotes)]
  /\ \A w \in Workers : IsMap(out[w])
  /\ posted \in 0..MaxQuotes /\ crashes \in 0..MaxCrashes
  /\ promised \subseteq (Ids \X (1..MaxQuotes))
  /\ mishaps \subseteq Mishaps

(* A file that does not exist loads like an empty one.                     *)
Init ==
  /\ phase = "down"
  /\ quotes = Empty
  /\ file = Blank
  /\ pc = [w \in Workers |-> "idle"]
  /\ given = [w \in Workers |-> <<0, 0>>]
  /\ out = [w \in Workers |-> Empty]
  /\ posted = 0 /\ crashes = 0
  /\ promised = {}
  /\ mishaps = {}

Sub(map, ids) == Restrict(map, ids \cap DOMAIN map)
Put(map, key, value) == [k \in DOMAIN map \cup {key} |-> IF k = key THEN value ELSE map[k]]
Count(map) == Cardinality(DOMAIN map)

-----------------------------------------------------------------------------
LoadNeedsFileMutant ==
  /\ phase = "down"
  /\ IF file = Blank THEN phase' = "broken" /\ UNCHANGED quotes
     ELSE phase' = "up" /\ quotes' = file.lines
  /\ UNCHANGED <<file, pc, given, out, posted, crashes, promised, mishaps>>

(* App::load.  A piece of a line has no ':' or ends within a '%' escape    *)
(* and load panics, lacks a field and is skipped, or reads as a damaged    *)
(* quote, perhaps under the end of another quote's id.                     *)
Load ==
  /\ phase = "down"
  /\ \/ /\ phase' = "up"
        /\ \/ quotes' = file.lines
           \/ file.piece /\ \E k \in Ids : quotes' = Put(file.lines, k, Damaged)
     \/ file.piece /\ phase' = "broken" /\ UNCHANGED quotes
  /\ UNCHANGED <<file, pc, given, out, posted, crashes, promised, mishaps>>

IdFromOneMutant == Count(quotes) + 1

NewId == Count(quotes)

(* The write lock is held from the length to the insertion.                *)
Insert(w) ==
  /\ phase = "up" /\ pc[w] = "idle"
  /\ posted < MaxQuotes
  /\ posted' = posted + 1
  /\ given' = [given EXCEPT ![w] = <<NewId, posted + 1>>]
  /\ quotes' = Put(quotes, NewId, posted + 1)
  /\ pc' = [pc EXCEPT ![w] = "inserted"]
  /\ UNCHANGED <<phase, file, out, crashes, promised, mishaps>>

SnapshotBeforeInsertMutant(w) == Sub(quotes, DOMAIN quotes \ {given[w][1]})
Snapshot(w) == quotes

(* App::save: the text is built under the read lock ...                    *)
Collect(w) ==
  /\ pc[w] = "inserted"
  /\ out' = [out EXCEPT ![w] = Snapshot(w)]
  /\ pc' = [pc EXCEPT ![w] = "saving"]
  /\ UNCHANGED <<phase, quotes, file, given, posted, crashes, promised, mishaps>>

(* ... and written when it is released: fs::write empties the file ...     *)
Truncate(w) ==
  /\ pc[w] = "saving"
  /\ file' = Blank
  /\ pc' = [pc EXCEPT ![w] = "writing"]
  /\ mishaps' = mishaps \cup (IF DOMAIN file.lines \subseteq DOMAIN out[w] THEN {}
                              ELSE {"stale save"})
  /\ UNCHANGED <<phase, quotes, given, out, posted, crashes, promised>>

(* ... and fills it.  Two workers write from the start of the same file:   *)
(* of a longer text that was there, the end remains.                       *)
Overlay(map, old) ==
  IF old = Blank THEN {[lines |-> map, piece |-> FALSE]}
  ELSE [lines : {[k \in DOMAIN map \cup T |-> IF k \in T THEN old.lines[k] ELSE map[k]] :
                   T \in SUBSET DOMAIN old.lines},
        piece : BOOLEAN]

Write(w) ==
  /\ pc[w] = "writing"
  /\ file' \in Overlay(out[w], file)
  /\ pc' = [pc EXCEPT ![w] = "idle"]
  /\ out' = [out EXCEPT ![w] = Empty]
  /\ promised' = promised \cup {given[w]}
  /\ mishaps' = mishaps \cup (IF file # Blank THEN {"mixed save"} ELSE {})
  /\ UNCHANGED <<phase, quotes, given, posted, crashes>>

(* What of a text is in the file when writing it stops: in a HashMap's     *)
(* order, some lines and a piece of the next one.                          *)
Parts(map) ==
  {[lines |-> Sub(map, D), piece |-> p] : D \in SUBSET DOMAIN map, p \in BOOLEAN}
    \ {[lines |-> map, piece |-> TRUE]}

(* The unwrap of fs::write panics and the client gets a 500; the quote     *)
(* stays in the map.                                                       *)
WriteFails(w) ==
  /\ pc[w] = "writing"
  /\ file' \in Parts(out[w])
  /\ pc' = [pc EXCEPT ![w] = "idle"]
  /\ out' = [out EXCEPT ![w] = Empty]
  /\ mishaps' = mishaps \cup {"failed write"}
  /\ UNCHANGED <<phase, quotes, given, posted, crashes, promised>>

(* The process dies, perhaps while it fills the file.                      *)
Crash ==
  /\ phase = "up" /\ crashes < MaxCrashes
  /\ phase' = "down"
  /\ crashes' = crashes + 1
  /\ LET writers == {w \in Workers : pc[w] = "writing"}
     IN  /\ file' \in {file} \cup UNION {Parts(out[w]) : w \in writers}
         /\ mishaps' = mishaps \cup (IF writers # {} THEN {"crash while saving"} ELSE {})
  /\ quotes' = Empty
  /\ pc' = [w \in Workers |-> "idle"]
  /\ out' = [w \in Workers |-> Empty]
  /\ UNCHANGED <<given, posted, promised>>

Done ==
  /\ phase = "broken" \/ (phase = "up" /\ posted = MaxQuotes /\ \A w \in Workers : pc[w] = "idle")
  /\ UNCHANGED vars

Next ==
  \/ Load \/ Crash \/ Done
  \/ \E w \in Workers :
       Insert(w) \/ Collect(w) \/ Truncate(w) \/ Write(w) \/ WriteFails(w)

Spec == Init /\ [][Next]_vars

-----------------------------------------------------------------------------
(* GET /quote/{id}: NotFound, a panic of the unwrap, or the quote.         *)
Get(k) ==
  IF k >= Count(quotes) THEN [page |-> "NotFound"]
  ELSE IF k \notin DOMAIN quotes THEN [page |-> "Panic"] ELSE [quote |-> quotes[k]]

(* The page a client was redirected to shows its quote, also after         *)
(* restarts, unless writing the file was cut short or two saves crossed.   *)
PromisesKept ==
  mishaps = {} /\ phase = "up" => \A p \in promised : Get(p[1]) = [quote |-> p[2]]

(* The application starts again after a crash, with the same exceptions.   *)
StartsAgain == phase = "broken" => mishaps # {}

(* Ids are given without gaps, so that no quote replaces another one and   *)
(* no page panics, while no piece of the file was lost.                    *)
Intact == mishaps \cap {"crash while saving", "failed write", "mixed save"} = {}
NoGaps == Intact /\ phase = "up" => DOMAIN quotes = 0..(Count(quotes) - 1)
NothingReplaced == TypeOK /\ NoGaps
=============================================================================
