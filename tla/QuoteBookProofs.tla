-------------------------- MODULE QuoteBookProofs --------------------------
(***************************************************************************)
(* Proofs about the quote book, for any workers and any number of quotes   *)
(* and crashes.                                                            *)
(*                                                                         *)
(* The argument: a piece of a line comes into the file only by a mishap,   *)
(* and without one every map there is - the quotes, the texts being saved, *)
(* the lines of the file - is a beginning of the sequence of ids, because  *)
(* each is a copy of another one or has the next id added.  For what was   *)
(* promised to clients (PromiseInv, below): without a mishap, either the   *)
(* file or a text that is about to be written has all of it.               *)
(***************************************************************************)
EXTENDS QuoteBook, FiniteSetTheorems, TLAPS

PieceInv ==
  /\ file.piece => ~Intact
  /\ phase = "broken" => ~Intact

(* A map with the ids below some number.                                   *)
Gapless(map) == \E n \in Nat : DOMAIN map = 0..(n - 1)

GapInv ==
  Intact => /\ Gapless(quotes)
            /\ Gapless(file.lines)
            /\ \A w \in Workers : Gapless(out[w])

(* The texts are of the workers.                                           *)
OutInv == out = [w \in Workers |-> out[w]]

IInv == PieceInv /\ GapInv /\ OutInv
-----------------------------------------------------------------------------
(* Such a map has as many ids as its first free one says.                  *)
LEMMA CountGapless ==
  ASSUME NEW map, Gapless(map)
  PROVE  /\ Count(map) \in Nat
         /\ DOMAIN map = 0..(Count(map) - 1)
<1>1. PICK n \in Nat : DOMAIN map = 0..(n - 1)
  BY DEF Gapless
<1>2. Cardinality(0..(n - 1)) = n
  <2>1. CASE n = 0
    <3>1. 0..(0 - 1) = {}
      OBVIOUS
    <3> QED
      BY <2>1, <3>1, FS_EmptySet
  <2>2. CASE n # 0
    <3>1. n - 1 \in Int /\ 0 <= n - 1
      BY <2>2
    <3> QED
      BY <3>1, FS_Interval
  <2> QED
    BY <2>1, <2>2
<1> QED
  BY <1>1, <1>2 DEF Count

(* The empty map is one.                                                   *)
LEMMA EmptyGapless == Gapless(Empty)
<1>1. DOMAIN Empty = 0..(0 - 1)
  BY DEF Empty
<1> QED
  BY <1>1 DEF Gapless

(* Inserting under the next id leaves no gap.                              *)
LEMMA PutGapless ==
  ASSUME NEW map, NEW value, Gapless(map)
  PROVE  Gapless(Put(map, Count(map), value))
<1>1. Count(map) \in Nat /\ DOMAIN map = 0..(Count(map) - 1)
  BY CountGapless
<1>2. DOMAIN Put(map, Count(map), value) = DOMAIN map \cup {Count(map)}
  BY DEF Put
<1>3. 0..(Count(map) - 1) \cup {Count(map)} = 0..((Count(map) + 1) - 1)
  BY <1>1
<1>4. Count(map) + 1 \in Nat /\ DOMAIN Put(map, Count(map), value) = 0..((Count(map) + 1) - 1)
  BY <1>1, <1>2, <1>3
<1> QED
  BY <1>4, Zenon DEF Gapless

LEMMA InitInv == Init => IInv
<1> SUFFICES ASSUME Init PROVE IInv
  OBVIOUS
<1>1. PieceInv
  BY DEF Init, PieceInv, Blank
<1>2. GapInv
  BY EmptyGapless DEF Init, GapInv, Blank
<1>3. OutInv
  BY DEF Init, OutInv
<1> QED
  BY <1>1, <1>2, <1>3 DEF IInv

LEMMA LoadStep ==
  ASSUME IInv, Load
  PROVE  IInv'
<1>1. UNCHANGED <<file, out, mishaps>> /\ Intact' = Intact
  BY DEF Load, Intact
<1>2. PieceInv'
  BY <1>1 DEF Load, IInv, PieceInv
<1>3. GapInv'
  <2> SUFFICES ASSUME Intact' PROVE GapInv'
    BY DEF GapInv
  <2>1. ~file.piece
    BY <1>1 DEF IInv, PieceInv
  <2>2. quotes' = file.lines
    BY <2>1 DEF Load
  <2> QED
    BY <1>1, <2>2 DEF IInv, GapInv, Gapless
<1>4. OutInv'
  BY <1>1 DEF IInv, OutInv
<1> QED
  BY <1>2, <1>3, <1>4 DEF IInv

LEMMA InsertStep ==
  ASSUME NEW w \in Workers, IInv, Insert(w)
  PROVE  IInv'
<1>1. UNCHANGED <<phase, file, out, mishaps>> /\ Intact' = Intact
  BY DEF Insert, Intact
<1>2. GapInv'
  <2> SUFFICES ASSUME Intact PROVE GapInv'
    BY <1>1 DEF GapInv
  <2>1. Gapless(quotes')
    BY PutGapless DEF Insert, NewId, IInv, GapInv
  <2> QED
    BY <1>1, <2>1 DEF IInv, GapInv, Gapless
<1> QED
  BY <1>1, <1>2 DEF IInv, PieceInv, OutInv

LEMMA CollectStep ==
  ASSUME NEW w \in Workers, IInv, Collect(w)
  PROVE  IInv'
<1>1. UNCHANGED <<phase, quotes, file, mishaps>> /\ Intact' = Intact
  BY DEF Collect, Intact
<1>2. out' = [v \in Workers |-> IF v = w THEN quotes ELSE out[v]]
  BY DEF Collect, Snapshot, IInv, OutInv
<1>3. GapInv'
  <2> SUFFICES ASSUME Intact PROVE GapInv'
    BY <1>1 DEF GapInv
  <2>1. \A v \in Workers : Gapless(out'[v])
    BY <1>2 DEF IInv, GapInv
  <2> QED
    BY <1>1, <2>1 DEF IInv, GapInv, Gapless
<1> QED
  BY <1>1, <1>2, <1>3 DEF IInv, PieceInv, OutInv

LEMMA TruncateStep ==
  ASSUME NEW w \in Workers, IInv, Truncate(w)
  PROVE  IInv'
<1>1. UNCHANGED <<phase, quotes, out>> /\ file' = Blank /\ (Intact' => Intact)
  BY DEF Truncate, Intact
<1>2. GapInv'
  BY <1>1, EmptyGapless DEF IInv, GapInv, Gapless, Blank
<1> QED
  BY <1>1, <1>2 DEF IInv, PieceInv, OutInv, Blank

LEMMA WriteStep ==
  ASSUME NEW w \in Workers, IInv, Write(w)
  PROVE  IInv'
<1>1. /\ UNCHANGED <<phase, quotes>>
      /\ Intact' => Intact /\ file = Blank
      /\ out' = [v \in Workers |-> IF v = w THEN Empty ELSE out[v]]
  BY DEF Write, Intact, IInv, OutInv
<1>2. Intact' => file' = [lines |-> out[w], piece |-> FALSE]
  BY <1>1 DEF Write, Overlay
<1>3. PieceInv'
  BY <1>1, <1>2 DEF IInv, PieceInv
<1>4. GapInv'
  BY <1>1, <1>2, EmptyGapless DEF IInv, GapInv, Gapless
<1> QED
  BY <1>1, <1>3, <1>4 DEF IInv, OutInv

LEMMA WriteFailsStep ==
  ASSUME NEW w \in Workers, IInv, WriteFails(w)
  PROVE  IInv'
<1>1. ~Intact' /\ out' = [v \in Workers |-> IF v = w THEN Empty ELSE out[v]]
  BY DEF WriteFails, Intact, IInv, OutInv
<1> QED
  BY <1>1 DEF IInv, PieceInv, GapInv, OutInv

LEMMA CrashStep ==
  ASSUME IInv, Crash
  PROVE  IInv'
<1> DEFINE writers == {w \in Workers : pc[w] = "writing"}
<1>1. /\ phase' = "down" /\ quotes' = Empty
      /\ out' = [w \in Workers |-> Empty]
      /\ Intact' => Intact /\ writers = {}
  BY DEF Crash, Intact
<1>2. Intact' => file' = file
  BY <1>1 DEF Crash
<1>3. GapInv'
  BY <1>1, <1>2, EmptyGapless DEF IInv, GapInv, Gapless
<1> QED
  BY <1>1, <1>2, <1>3 DEF IInv, PieceInv, OutInv

LEMMA StutterStep == IInv /\ UNCHANGED vars => IInv'
BY DEF vars, IInv, PieceInv, GapInv, Gapless, OutInv, Intact

(* The inductive invariant: pieces come by mishaps, maps have no gaps.     *)
THEOREM Invariance == Spec => []IInv
<1>1. IInv /\ [Next]_vars => IInv'
  BY LoadStep, InsertStep, CollectStep, TruncateStep, WriteStep, WriteFailsStep, CrashStep,
     StutterStep DEF Next, Done
<1> QED
  BY <1>1, InitInv, PTL DEF Spec

(* The application starts again after a crash unless the file was damaged  *)
(* by one, by a failed write, or by two saves at a time (App::load).       *)
THEOREM Restarts == Spec => []StartsAgain
<1>1. IInv => StartsAgain
  BY DEF IInv, PieceInv, StartsAgain, Intact
<1> QED
  BY <1>1, Invariance, PTL

(* While no piece of the file was lost, ids are given without gaps, across *)
(* restarts and with any number of threads.                                *)
THEOREM IdsHaveNoGaps == Spec => []NoGaps
<1>1. IInv => NoGaps
  BY CountGapless DEF IInv, GapInv, NoGaps
<1> QED
  BY <1>1, Invariance, PTL
-----------------------------------------------------------------------------
(* Types, with the number of ids: each Load that reads a piece of a line   *)
(* adds at most one that no request brought, and a crash must come first.  *)
PhaseInv ==
  /\ phase # "up" => \A w \in Workers : pc[w] = "idle"
  /\ \A w \in Workers : pc[w] \in {"idle", "inserted"} => out[w] = Empty
  /\ \A w \in Workers : pc[w] # "idle" => given[w] \in Ids \X (1..MaxQuotes)

CountInv ==
  /\ phase = "up" =>
       /\ Count(quotes) <= posted + crashes
       /\ DOMAIN file.lines \subseteq DOMAIN quotes
       /\ \A w \in Workers : DOMAIN out[w] \subseteq DOMAIN quotes
  /\ phase = "down" =>
       Count(file.lines) + (IF file.piece THEN 1 ELSE 0) <= posted + crashes

TypeInv == TypeOK /\ PhaseInv /\ CountInv

LEMMA EmptyMap == IsMap(Empty) /\ Count(Empty) = 0
<1>1. DOMAIN Empty = {}
  BY DEF Empty
<1> QED
  BY <1>1, FS_EmptySet DEF IsMap, Count

(* Maps are finite; one with fewer ids has a smaller count.                *)
LEMMA CountSmaller ==
  ASSUME NEW f, NEW g, IsMap(g), DOMAIN f \subseteq DOMAIN g
  PROVE  Count(f) \in Nat /\ Count(g) \in Nat /\ Count(f) <= Count(g)
<1>1. IsFiniteSet(Ids)
  BY FS_Interval, BoundsAssumption DEF Ids
<1>2. IsFiniteSet(DOMAIN g)
  BY <1>1, FS_Subset DEF IsMap
<1>3. IsFiniteSet(DOMAIN f) /\ Cardinality(DOMAIN f) <= Cardinality(DOMAIN g)
  BY <1>2, FS_Subset
<1> QED
  BY <1>2, <1>3, FS_CardinalityType DEF Count

LEMMA PutMap ==
  ASSUME NEW map, IsMap(map), NEW k \in Ids, NEW v \in 0..MaxQuotes
  PROVE  /\ IsMap(Put(map, k, v))
         /\ DOMAIN map \subseteq DOMAIN Put(map, k, v)
         /\ Count(Put(map, k, v)) \in Nat /\ Count(map) \in Nat
         /\ Count(Put(map, k, v)) <= Count(map) + 1
<1>1. DOMAIN Put(map, k, v) = DOMAIN map \cup {k}
  BY DEF Put
<1>2. IsMap(Put(map, k, v))
  BY <1>1 DEF Put, IsMap
<1>3. IsFiniteSet(DOMAIN map)
  <2>1. IsFiniteSet(Ids)
    BY FS_Interval, BoundsAssumption DEF Ids
  <2> QED
    BY <2>1, FS_Subset DEF IsMap
<1>4. Count(Put(map, k, v)) <= Count(map) + 1
  <2>1. Cardinality(DOMAIN map \cup {k}) \in {Cardinality(DOMAIN map), Cardinality(DOMAIN map) + 1}
    BY <1>3, FS_AddElement
  <2>2. Cardinality(DOMAIN map) \in Nat
    BY <1>3, FS_CardinalityType
  <2> QED
    BY <1>1, <2>1, <2>2 DEF Count
<1> QED
  BY <1>1, <1>2, <1>4, CountSmaller

(* What a write that stops leaves in the file is of the text.              *)
LEMMA PartsOfMap ==
  ASSUME NEW map, NEW f \in Parts(map)
  PROVE  /\ DOMAIN f.lines \subseteq DOMAIN map
         /\ \A k \in DOMAIN f.lines : f.lines[k] = map[k]
         /\ f.piece \in BOOLEAN
<1>1. PICK D \in SUBSET DOMAIN map, p \in BOOLEAN : f = [lines |-> Sub(map, D), piece |-> p]
  BY DEF Parts
<1>2. Sub(map, D) = [k \in D \cap DOMAIN map |-> map[k]]
  BY DEF Sub, Restrict
<1> QED
  BY <1>1, <1>2

(* What is in a file that two workers write is of their texts.             *)
LEMMA OverlayOfMaps ==
  ASSUME NEW map, NEW old, NEW f \in Overlay(map, old)
  PROVE  /\ DOMAIN f.lines \subseteq DOMAIN map \cup DOMAIN old.lines
         /\ \A k \in DOMAIN f.lines :
              \/ k \in DOMAIN map /\ f.lines[k] = map[k]
              \/ k \in DOMAIN old.lines /\ f.lines[k] = old.lines[k]
         /\ f.piece \in BOOLEAN
<1>1. CASE old = Blank
  <2>1. f = [lines |-> map, piece |-> FALSE]
    BY <1>1 DEF Overlay
  <2> QED
    BY <2>1
<1>2. CASE old # Blank
  <2>1. PICK T \in SUBSET DOMAIN old.lines, p \in BOOLEAN :
          f = [lines |-> [k \in DOMAIN map \cup T |-> IF k \in T THEN old.lines[k] ELSE map[k]],
               piece |-> p]
    BY <1>2 DEF Overlay
  <2> QED
    BY <2>1
<1> QED
  BY <1>1, <1>2

LEMMA InitType == Init => TypeInv
<1> SUFFICES ASSUME Init PROVE TypeInv
  OBVIOUS
<1>1. TypeOK
  BY EmptyMap, BoundsAssumption DEF Init, TypeOK, Blank, Ids
<1>2. PhaseInv
  BY DEF Init, PhaseInv
<1>3. CountInv
  BY EmptyMap DEF Init, CountInv, Blank
<1> QED
  BY <1>1, <1>2, <1>3 DEF TypeInv

LEMMA LoadType ==
  ASSUME TypeInv, Load
  PROVE  TypeInv'
<1>1. UNCHANGED <<file, pc, given, out, posted, crashes, promised, mishaps>> /\ phase = "down"
  BY DEF Load
<1>2. /\ posted \in Nat /\ crashes \in Nat /\ IsMap(file.lines) /\ IsMap(quotes)
      /\ Count(file.lines) + (IF file.piece THEN 1 ELSE 0) <= posted + crashes
  BY <1>1, BoundsAssumption DEF TypeInv, TypeOK, CountInv
<1>3. \A w \in Workers : out[w] = Empty
  BY <1>1 DEF TypeInv, PhaseInv
<1>4. CASE phase' = "broken"
  <2>1. quotes' = quotes
    BY <1>4 DEF Load
  <2> QED
    BY <1>1, <1>4, <2>1 DEF TypeInv, TypeOK, PhaseInv, CountInv
<1>5. CASE phase' = "up"
  <2>1. /\ IsMap(quotes') /\ DOMAIN file.lines \subseteq DOMAIN quotes'
        /\ Count(quotes') <= posted + crashes
    <3>1. CASE quotes' = file.lines
      BY <1>2, <3>1, CountSmaller
    <3>2. ASSUME NEW k \in Ids, file.piece, quotes' = Put(file.lines, k, Damaged)
          PROVE  /\ IsMap(quotes') /\ DOMAIN file.lines \subseteq DOMAIN quotes'
                 /\ Count(quotes') <= posted + crashes
      <4>1. Damaged \in 0..MaxQuotes
        BY BoundsAssumption DEF Damaged
      <4> QED
        BY <1>2, <3>2, <4>1, PutMap
    <3> QED
      BY <1>5, <3>1, <3>2 DEF Load
  <2>2. DOMAIN Empty \subseteq DOMAIN quotes'
    BY DEF Empty
  <2>3. CountInv'
    BY <1>1, <1>3, <1>5, <2>1, <2>2 DEF CountInv
  <2> QED
    BY <1>1, <1>5, <2>1, <2>3 DEF TypeInv, TypeOK, PhaseInv
<1> QED
  BY <1>4, <1>5 DEF Load

LEMMA InsertType ==
  ASSUME NEW w \in Workers, TypeInv, Insert(w)
  PROVE  TypeInv'
<1>1. /\ UNCHANGED <<phase, file, out, crashes, promised, mishaps>> /\ phase = "up"
      /\ posted' = posted + 1 /\ posted < MaxQuotes
      /\ quotes' = Put(quotes, Count(quotes), posted + 1)
      /\ given' = [given EXCEPT ![w] = <<Count(quotes), posted + 1>>]
      /\ pc' = [pc EXCEPT ![w] = "inserted"] /\ pc[w] = "idle"
  BY DEF Insert, NewId
<1>2. posted \in 0..MaxQuotes /\ crashes \in 0..MaxCrashes /\ IsMap(quotes)
  BY DEF TypeInv, TypeOK
<1>3. Count(quotes) \in Nat /\ Count(quotes) <= posted + crashes
  BY <1>1, <1>2, CountSmaller DEF TypeInv, CountInv
<1>4. Count(quotes) \in Ids /\ posted + 1 \in 1..MaxQuotes
  BY <1>1, <1>2, <1>3, BoundsAssumption DEF Ids
<1>5. /\ IsMap(quotes') /\ DOMAIN quotes \subseteq DOMAIN quotes'
      /\ Count(quotes') \in Nat /\ Count(quotes') <= Count(quotes) + 1
  BY <1>1, <1>2, <1>4, PutMap
<1>6. TypeOK'
  BY <1>1, <1>4, <1>5 DEF TypeInv, TypeOK
<1>7. PhaseInv'
  BY <1>1, <1>4 DEF TypeInv, TypeOK, PhaseInv
<1>8. CountInv'
  <2>1. Count(quotes') <= posted' + crashes'
    BY <1>1, <1>2, <1>3, <1>5
  <2> QED
    BY <1>1, <1>5, <2>1 DEF TypeInv, CountInv
<1> QED
  BY <1>6, <1>7, <1>8 DEF TypeInv

LEMMA CollectType ==
  ASSUME NEW w \in Workers, TypeInv, OutInv, Collect(w)
  PROVE  TypeInv'
<1>1. /\ UNCHANGED <<phase, quotes, file, given, posted, crashes, promised, mishaps>>
      /\ pc' = [pc EXCEPT ![w] = "saving"] /\ pc[w] = "inserted"
      /\ out' = [v \in Workers |-> IF v = w THEN quotes ELSE out[v]]
  BY DEF Collect, Snapshot, OutInv
<1>2. TypeOK'
  BY <1>1 DEF TypeInv, TypeOK
<1>3. PhaseInv'
  BY <1>1 DEF TypeInv, TypeOK, PhaseInv
<1>4. CountInv'
  BY <1>1 DEF TypeInv, CountInv
<1> QED
  BY <1>2, <1>3, <1>4 DEF TypeInv

LEMMA TruncateType ==
  ASSUME NEW w \in Workers, TypeInv, Truncate(w)
  PROVE  TypeInv'
<1>1. /\ UNCHANGED <<phase, quotes, given, out, posted, crashes, promised>>
      /\ pc' = [pc EXCEPT ![w] = "writing"] /\ pc[w] = "saving"
      /\ file' = Blank /\ mishaps' \subseteq mishaps \cup {"stale save"}
  BY DEF Truncate
<1>2. TypeOK'
  BY <1>1, EmptyMap DEF TypeInv, TypeOK, Blank, Mishaps
<1>3. PhaseInv'
  BY <1>1 DEF TypeInv, TypeOK, PhaseInv
<1>4. CountInv'
  <2>1. phase = "up"
    BY <1>1 DEF TypeInv, TypeOK, PhaseInv
  <2>2. DOMAIN Empty \subseteq DOMAIN quotes
    BY DEF Empty
  <2> QED
    BY <1>1, <2>1, <2>2 DEF TypeInv, CountInv, Blank
<1> QED
  BY <1>2, <1>3, <1>4 DEF TypeInv

(* Write and WriteFails end a save: what is in the file is of quotes.      *)
LEMMA SaveEndsType ==
  ASSUME NEW w \in Workers, TypeInv, OutInv, Write(w) \/ WriteFails(w)
  PROVE  TypeInv'
<1>1. /\ UNCHANGED <<phase, quotes, given, posted, crashes>>
      /\ pc' = [pc EXCEPT ![w] = "idle"] /\ pc[w] = "writing"
      /\ out' = [v \in Workers |-> IF v = w THEN Empty ELSE out[v]]
      /\ promised' \subseteq promised \cup {given[w]}
      /\ mishaps' \subseteq mishaps \cup {"mixed save", "failed write"}
      /\ file' \in Overlay(out[w], file) \cup Parts(out[w])
  BY DEF Write, WriteFails, OutInv
<1>2. phase = "up"
  BY <1>1 DEF TypeInv, TypeOK, PhaseInv
<1>3. IsMap(out[w]) /\ IsMap(file.lines)
  BY DEF TypeInv, TypeOK
<1>4. /\ DOMAIN file'.lines \subseteq DOMAIN out[w] \cup DOMAIN file.lines
      /\ \A k \in DOMAIN file'.lines :
           \/ k \in DOMAIN out[w] /\ file'.lines[k] = out[w][k]
           \/ k \in DOMAIN file.lines /\ file'.lines[k] = file.lines[k]
      /\ file'.piece \in BOOLEAN
  <2>1. CASE file' \in Overlay(out[w], file)
    BY <2>1, OverlayOfMaps
  <2>2. CASE file' \in Parts(out[w])
    BY <2>2, PartsOfMap
  <2> QED
    BY <1>1, <2>1, <2>2
<1>5. IsMap(file'.lines)
  BY <1>3, <1>4 DEF IsMap
<1>6. given[w] \in Ids \X (1..MaxQuotes)
  BY <1>1 DEF TypeInv, PhaseInv
<1>7. TypeOK'
  BY <1>1, <1>4, <1>5, <1>6, EmptyMap DEF TypeInv, TypeOK, Mishaps
<1>8. PhaseInv'
  BY <1>1, <1>2 DEF TypeInv, TypeOK, PhaseInv
<1>9. CountInv'
  <2>1. DOMAIN Empty \subseteq DOMAIN quotes
    BY DEF Empty
  <2> QED
    BY <1>1, <1>2, <1>4, <2>1 DEF TypeInv, CountInv
<1> QED
  BY <1>7, <1>8, <1>9 DEF TypeInv

LEMMA CrashType ==
  ASSUME TypeInv, Crash
  PROVE  TypeInv'
<1>1. /\ UNCHANGED <<given, posted, promised>> /\ phase = "up" /\ phase' = "down"
      /\ quotes' = Empty
      /\ pc' = [w \in Workers |-> "idle"] /\ out' = [w \in Workers |-> Empty]
      /\ mishaps' \subseteq mishaps \cup {"crash while saving"}
      /\ file' = file \/ \E w \in Workers : file' \in Parts(out[w])
  BY DEF Crash
<1>2. /\ IsMap(quotes) /\ IsMap(file'.lines) /\ file'.piece \in BOOLEAN
      /\ DOMAIN file'.lines \subseteq DOMAIN quotes
  <2>1. CASE file' = file
    BY <1>1, <2>1 DEF TypeInv, TypeOK, CountInv
  <2>2. ASSUME NEW w \in Workers, file' \in Parts(out[w])
        PROVE  /\ IsMap(quotes) /\ IsMap(file'.lines) /\ file'.piece \in BOOLEAN
               /\ DOMAIN file'.lines \subseteq DOMAIN quotes
    <3>1. /\ DOMAIN file'.lines \subseteq DOMAIN out[w]
          /\ \A k \in DOMAIN file'.lines : file'.lines[k] = out[w][k]
          /\ file'.piece \in BOOLEAN
      BY <2>2, PartsOfMap
    <3>2. IsMap(out[w]) /\ IsMap(quotes) /\ DOMAIN out[w] \subseteq DOMAIN quotes
      BY <1>1 DEF TypeInv, TypeOK, CountInv
    <3>3. IsMap(file'.lines)
      BY <3>1, <3>2 DEF IsMap
    <3> QED
      BY <3>1, <3>2, <3>3
  <2> QED
    BY <1>1, <2>1, <2>2
<1>3. TypeOK'
  <2>1. posted' \in 0..MaxQuotes /\ crashes' \in 0..MaxCrashes
    <3>1. posted \in 0..MaxQuotes /\ crashes \in 0..MaxCrashes
      BY DEF TypeInv, TypeOK
    <3>2. posted' = posted /\ crashes < MaxCrashes /\ crashes' = crashes + 1
      BY Zenon DEF Crash
    <3> QED
      BY <3>1, <3>2, BoundsAssumption
  <2>2. /\ given' \in [Workers -> Ids \X (0..MaxQuotes)]
        /\ promised' \subseteq (Ids \X (1..MaxQuotes))
        /\ mishaps' \subseteq Mishaps
    BY <1>1 DEF TypeInv, TypeOK, Mishaps
  <2>3. IsMap(quotes') /\ \A w \in Workers : IsMap(out'[w])
    BY <1>1, EmptyMap
  <2> QED
    BY <1>1, <1>2, <2>1, <2>2, <2>3 DEF TypeOK
<1>4. PhaseInv'
  BY <1>1 DEF PhaseInv
<1>5. Count(file'.lines) + 1 <= posted' + crashes' /\ Count(file'.lines) \in Nat
  <2>1. /\ posted \in Nat /\ crashes \in Nat /\ posted' = posted /\ crashes' = crashes + 1
        /\ Count(quotes) <= posted + crashes
    <3>1. posted \in 0..MaxQuotes /\ crashes \in 0..MaxCrashes
      BY DEF TypeInv, TypeOK
    <3>2. posted' = posted /\ crashes' = crashes + 1 /\ phase = "up"
      BY Zenon DEF Crash
    <3>3. Count(quotes) <= posted + crashes
      BY <3>2 DEF TypeInv, CountInv
    <3> QED
      BY <3>1, <3>2, <3>3, BoundsAssumption
  <2>2. /\ Count(file'.lines) \in Nat /\ Count(quotes) \in Nat
        /\ Count(file'.lines) <= Count(quotes)
    BY <1>2, CountSmaller
  <2> QED
    BY <2>1, <2>2
<1>6. CountInv'
  <2>1. posted' + crashes' \in Int
    BY <1>3, BoundsAssumption DEF TypeOK
  <2>2. (IF file'.piece THEN 1 ELSE 0) \in {0, 1}
    OBVIOUS
  <2>3. Count(file'.lines) + (IF file'.piece THEN 1 ELSE 0) <= posted' + crashes'
    BY <1>5, <2>1, <2>2
  <2> QED
    BY <1>1, <2>3 DEF CountInv
<1> QED
  BY <1>3, <1>4, <1>6 DEF TypeInv

(* Every variable keeps its type, and with it the counts of ids.           *)
LEMMA TypeInvariance == Spec => []TypeInv
<1>1. TypeInv /\ IInv /\ [Next]_vars => TypeInv'
  <2> SUFFICES ASSUME TypeInv, IInv, [Next]_vars PROVE TypeInv'
    OBVIOUS
  <2>1. CASE UNCHANGED vars
    BY <2>1 DEF vars, TypeInv, TypeOK, PhaseInv, CountInv
  <2> QED
    BY <2>1, LoadType, InsertType, CollectType, TruncateType, SaveEndsType, CrashType
       DEF Next, Done, IInv
<1> QED
  BY <1>1, InitType, Invariance, PTL DEF Spec

(* No id is given twice while the file was never damaged, across restarts  *)
(* and with any number of threads; every variable keeps its type.          *)
THEOREM NothingIsReplaced == Spec => []NothingReplaced
<1>1. TypeInv => TypeOK
  BY DEF TypeInv
<1> QED
  BY <1>1, TypeInvariance, IdsHaveNoGaps, PTL DEF NothingReplaced

-----------------------------------------------------------------------------
(* Promises.  Without a mishap, all that was promised is in the file or in *)
(* a text that is about to be written: of two workers that write at a time *)
(* at most one can finish, and the texts of one run of the program are     *)
(* beginnings of the same map, so that the longer one has what both of     *)
(* their clients are promised.                                             *)
Has(map, p) == p[1] \in DOMAIN map /\ map[p[1]] = p[2]
Covers(map) == \A p \in promised : Has(map, p)
Agrees(map) == \A k \in DOMAIN map : k \in DOMAIN quotes /\ map[k] = quotes[k]

Safe ==
  \/ Covers(file.lines)
  \/ \E w \in Workers : pc[w] = "writing" /\ Covers(out[w])

AgreeInv ==
  phase = "up" => /\ Covers(quotes)
                  /\ Agrees(file.lines)
                  /\ \A w \in Workers : Agrees(out[w])

GivenInv ==
  \A w \in Workers :
    /\ pc[w] # "idle" => Has(quotes, given[w])
    /\ pc[w] \in {"saving", "writing"} => Has(out[w], given[w])

PromiseInv == mishaps = {} => Safe /\ AgreeInv /\ GivenInv

LEMMA EmptyAgrees == Agrees(Empty)
<1>1. DOMAIN Empty = {}
  BY DEF Empty
<1> QED
  BY <1>1 DEF Agrees

LEMMA InitPromise == Init => PromiseInv
<1> SUFFICES ASSUME Init PROVE PromiseInv
  OBVIOUS
<1>1. Safe
  BY DEF Init, Safe, Covers
<1> QED
  BY <1>1 DEF Init, PromiseInv, AgreeInv, GivenInv

(* Loading takes the file's quotes over: nobody writes, so it has all that *)
(* was promised.                                                           *)
LEMMA LoadPromise ==
  ASSUME TypeInv, IInv, PromiseInv, Load
  PROVE  PromiseInv'
<1> SUFFICES ASSUME mishaps' = {} PROVE (Safe /\ AgreeInv /\ GivenInv)'
  BY DEF PromiseInv
<1>1. UNCHANGED <<file, pc, given, out, posted, crashes, promised, mishaps>> /\ phase = "down"
  BY DEF Load
<1>2. Safe /\ ~file.piece
  BY <1>1 DEF PromiseInv, IInv, PieceInv, Intact
<1>3. \A w \in Workers : pc[w] = "idle" /\ out[w] = Empty
  BY <1>1 DEF TypeInv, PhaseInv
<1>4. Covers(file.lines)
  BY <1>2, <1>3 DEF Safe
<1>5. quotes' = file.lines
  BY <1>2 DEF Load
<1>6. DOMAIN Empty = {}
  BY DEF Empty
<1> QED
  BY <1>1, <1>3, <1>4, <1>5, <1>6 DEF Safe, Covers, AgreeInv, Agrees, GivenInv

(* The new quote gets an id of its own.                                    *)
LEMMA InsertPromise ==
  ASSUME NEW w \in Workers, TypeInv, IInv, PromiseInv, Insert(w)
  PROVE  PromiseInv'
<1> SUFFICES ASSUME mishaps' = {} PROVE (Safe /\ AgreeInv /\ GivenInv)'
  BY DEF PromiseInv
<1>1. /\ UNCHANGED <<phase, file, out, crashes, promised, mishaps>> /\ phase = "up"
      /\ quotes' = Put(quotes, Count(quotes), posted + 1)
      /\ given' = [given EXCEPT ![w] = <<Count(quotes), posted + 1>>]
      /\ pc' = [pc EXCEPT ![w] = "inserted"] /\ pc[w] = "idle"
  BY DEF Insert, NewId
<1>2. Safe /\ AgreeInv /\ GivenInv
  BY <1>1 DEF PromiseInv
<1>3. Count(quotes) \notin DOMAIN quotes
  <2>1. Gapless(quotes)
    BY <1>1 DEF IInv, GapInv, Intact
  <2> QED
    BY <2>1, CountGapless
<1>4. /\ \A k \in DOMAIN quotes : k \in DOMAIN quotes' /\ quotes'[k] = quotes[k]
      /\ Has(quotes', <<Count(quotes), posted + 1>>)
  BY <1>1, <1>3 DEF Put, Has
<1>5. Safe'
  <2>1. ASSUME NEW v \in Workers, pc[v] = "writing" PROVE pc'[v] = "writing"
    BY <1>1, <2>1 DEF TypeInv, TypeOK
  <2> QED
    BY <1>1, <1>2, <2>1 DEF Safe, Covers
<1>6. AgreeInv'
  BY <1>1, <1>2, <1>4 DEF AgreeInv, Covers, Agrees, Has
<1>7. GivenInv'
  <2> SUFFICES ASSUME NEW v \in Workers
               PROVE  /\ pc'[v] # "idle" => Has(quotes', given'[v])
                      /\ pc'[v] \in {"saving", "writing"} => Has(out'[v], given'[v])
    BY DEF GivenInv
  <2>1. CASE v = w
    BY <1>1, <1>4, <2>1 DEF TypeInv, TypeOK
  <2>2. CASE v # w
    BY <1>1, <1>2, <1>4, <2>2 DEF TypeInv, TypeOK, GivenInv, Has
  <2> QED
    BY <2>1, <2>2
<1> QED
  BY <1>5, <1>6, <1>7

LEMMA CollectPromise ==
  ASSUME NEW w \in Workers, TypeInv, IInv, PromiseInv, Collect(w)
  PROVE  PromiseInv'
<1> SUFFICES ASSUME mishaps' = {} PROVE (Safe /\ AgreeInv /\ GivenInv)'
  BY DEF PromiseInv
<1>1. /\ UNCHANGED <<phase, quotes, file, given, posted, crashes, promised, mishaps>>
      /\ pc' = [pc EXCEPT ![w] = "saving"] /\ pc[w] = "inserted"
      /\ out' = [v \in Workers |-> IF v = w THEN quotes ELSE out[v]]
  BY DEF Collect, Snapshot, IInv, OutInv
<1>2. Safe /\ AgreeInv /\ GivenInv
  BY <1>1 DEF PromiseInv
<1>3. \A v \in Workers \ {w} : pc'[v] = pc[v] /\ out'[v] = out[v]
  BY <1>1 DEF TypeInv, TypeOK
<1>4. pc'[w] = "saving" /\ out'[w] = quotes
  BY <1>1 DEF TypeInv, TypeOK
<1>5. Safe'
  BY <1>1, <1>2, <1>3 DEF Safe, Covers
<1>6. AgreeInv'
  BY <1>1, <1>2, <1>3, <1>4 DEF AgreeInv, Covers, Agrees
<1>7. GivenInv'
  BY <1>1, <1>2, <1>3, <1>4 DEF GivenInv
<1> QED
  BY <1>5, <1>6, <1>7

(* A save that is not stale takes over what the file it empties has.       *)
LEMMA TruncatePromise ==
  ASSUME NEW w \in Workers, TypeInv, IInv, PromiseInv, Truncate(w)
  PROVE  PromiseInv'
<1> SUFFICES ASSUME mishaps' = {} PROVE (Safe /\ AgreeInv /\ GivenInv)'
  BY DEF PromiseInv
<1>1. /\ UNCHANGED <<phase, quotes, given, out, posted, crashes, promised>>
      /\ pc' = [pc EXCEPT ![w] = "writing"] /\ pc[w] = "saving"
      /\ file' = Blank /\ mishaps = {}
      /\ DOMAIN file.lines \subseteq DOMAIN out[w]
  BY DEF Truncate
<1>2. Safe /\ AgreeInv /\ GivenInv
  BY <1>1 DEF PromiseInv
<1>3. phase = "up"
  BY <1>1 DEF TypeInv, TypeOK, PhaseInv
<1>4. pc'[w] = "writing" /\ \A v \in Workers \ {w} : pc'[v] = pc[v]
  BY <1>1 DEF TypeInv, TypeOK
<1>5. Safe'
  <2>1. CASE Covers(file.lines)
    <3>1. Covers(out[w])
      BY <1>1, <1>2, <1>3, <2>1 DEF Covers, Has, AgreeInv, Agrees
    <3> QED
      BY <1>1, <1>4, <3>1 DEF Safe, Covers
  <2>2. ASSUME NEW v \in Workers, pc[v] = "writing", Covers(out[v])
        PROVE  Safe'
    BY <1>1, <1>4, <2>2 DEF Safe, Covers
  <2> QED
    BY <1>2, <2>1, <2>2 DEF Safe
<1>6. AgreeInv'
  BY <1>1, <1>2, EmptyAgrees DEF AgreeInv, Covers, Agrees, Blank
<1>7. GivenInv'
  BY <1>1, <1>2, <1>4 DEF GivenInv
<1> QED
  BY <1>5, <1>6, <1>7

(* Of two texts of the same run one has all that the other one has.        *)
LEMMA TextsAreNested ==
  ASSUME NEW f, NEW g, Gapless(f), Gapless(g), Agrees(f), Agrees(g)
  PROVE  \/ \A p : Has(f, p) => Has(g, p)
         \/ \A p : Has(g, p) => Has(f, p)
<1>1. PICK n \in Nat : DOMAIN f = 0..(n - 1)
  BY DEF Gapless
<1>2. PICK m \in Nat : DOMAIN g = 0..(m - 1)
  BY DEF Gapless
<1>3. DOMAIN f \subseteq DOMAIN g \/ DOMAIN g \subseteq DOMAIN f
  BY <1>1, <1>2
<1> QED
  BY <1>3 DEF Has, Agrees

LEMMA WritePromise ==
  ASSUME NEW w \in Workers, TypeInv, IInv, PromiseInv, Write(w)
  PROVE  PromiseInv'
<1> SUFFICES ASSUME mishaps' = {} PROVE (Safe /\ AgreeInv /\ GivenInv)'
  BY DEF PromiseInv
<1>1. /\ UNCHANGED <<phase, quotes, given, posted, crashes>>
      /\ pc' = [pc EXCEPT ![w] = "idle"] /\ pc[w] = "writing"
      /\ out' = [v \in Workers |-> IF v = w THEN Empty ELSE out[v]]
      /\ promised' = promised \cup {given[w]}
      /\ mishaps = {} /\ file = Blank
  BY DEF Write, IInv, OutInv
<1>2. file' = [lines |-> out[w], piece |-> FALSE]
  BY <1>1 DEF Write, Overlay
<1>3. Safe /\ AgreeInv /\ GivenInv
  BY <1>1 DEF PromiseInv
<1>4. phase = "up"
  BY <1>1 DEF TypeInv, TypeOK, PhaseInv
<1>5. pc'[w] = "idle" /\ \A v \in Workers \ {w} : pc'[v] = pc[v] /\ out'[v] = out[v]
  BY <1>1 DEF TypeInv, TypeOK
<1>6. Has(out[w], given[w]) /\ Has(quotes, given[w])
  BY <1>1, <1>3 DEF GivenInv
<1>7. Safe'
  <2>1. CASE Covers(out[w])
    BY <1>1, <1>2, <1>6, <2>1 DEF Safe, Covers
  <2>2. CASE Covers(file.lines)
    <3>1. DOMAIN Blank.lines = {}
      BY DEF Blank, Empty
    <3>2. promised = {}
      BY <1>1, <2>2, <3>1 DEF Covers, Has
    <3> QED
      BY <2>1, <3>2 DEF Covers
  <2>3. ASSUME NEW v \in Workers, v # w, pc[v] = "writing", Covers(out[v])
        PROVE  Safe'
    <3>1. \A u \in Workers : Gapless(out[u]) /\ Agrees(out[u])
      BY <1>1, <1>3, <1>4 DEF IInv, GapInv, Intact, AgreeInv
    <3>2. CASE \A p : Has(out[v], p) => Has(out[w], p)
      BY <2>1, <2>3, <3>2 DEF Covers
    <3>3. CASE \A p : Has(out[w], p) => Has(out[v], p)
      BY <1>1, <1>5, <1>6, <2>3, <3>3 DEF Safe, Covers
    <3> QED
      BY <3>1, <3>2, <3>3, TextsAreNested
  <2> QED
    BY <1>3, <2>1, <2>2, <2>3 DEF Safe
<1>8. AgreeInv'
  BY <1>1, <1>2, <1>3, <1>4, <1>5, <1>6, EmptyAgrees DEF AgreeInv, Covers, Agrees
<1>9. GivenInv'
  BY <1>1, <1>3, <1>5 DEF GivenInv
<1> QED
  BY <1>7, <1>8, <1>9

(* A crash that is no mishap finds nobody writing.                         *)
LEMMA CrashPromise ==
  ASSUME TypeInv, IInv, PromiseInv, Crash
  PROVE  PromiseInv'
<1> SUFFICES ASSUME mishaps' = {} PROVE (Safe /\ AgreeInv /\ GivenInv)'
  BY DEF PromiseInv
<1> DEFINE writers == {w \in Workers : pc[w] = "writing"}
<1>1. /\ promised' = promised /\ phase' = "down" /\ mishaps = {} /\ writers = {}
      /\ pc' = [w \in Workers |-> "idle"]
  BY DEF Crash
<1>2. file' = file
  BY <1>1 DEF Crash
<1>3. Covers(file.lines)
  BY <1>1 DEF PromiseInv, Safe
<1> QED
  BY <1>1, <1>2, <1>3 DEF Safe, Covers, AgreeInv, GivenInv

(* The page a client was redirected to shows its quote, also after         *)
(* crashes and however saves follow each other, unless a mishap that the   *)
(* property names has happened (App::save, application_quote_book.rs).     *)
THEOREM PromisesAreKept == Spec => []PromisesKept
<1>1. TypeInv /\ IInv /\ PromiseInv /\ [Next]_vars => PromiseInv'
  <2> SUFFICES ASSUME TypeInv, IInv, PromiseInv, [Next]_vars PROVE PromiseInv'
    OBVIOUS
  <2>1. ASSUME NEW w \in Workers, WriteFails(w) PROVE PromiseInv'
    BY <2>1 DEF WriteFails, PromiseInv
  <2>2. CASE UNCHANGED vars
    BY <2>2 DEF vars, PromiseInv, Safe, AgreeInv, GivenInv, Covers, Agrees
  <2> QED
    BY <2>1, <2>2, LoadPromise, InsertPromise, CollectPromise, TruncatePromise, WritePromise,
       CrashPromise DEF Next, Done
<1>2. IInv /\ PromiseInv => PromisesKept
  <2> SUFFICES ASSUME IInv, PromiseInv, mishaps = {}, phase = "up", NEW p \in promised
               PROVE  Get(p[1]) = [quote |-> p[2]]
    BY DEF PromisesKept
  <2>1. Has(quotes, p)
    BY DEF PromiseInv, AgreeInv, Covers
  <2>2. Gapless(quotes)
    BY DEF IInv, GapInv, Intact
  <2>3. p[1] < Count(quotes)
    BY <2>1, <2>2, CountGapless DEF Has
  <2>4. ~(p[1] >= Count(quotes))
    BY <2>1, <2>2, <2>3, CountGapless DEF Has
  <2> QED
    BY <2>1, <2>4 DEF Get, Has
<1> QED
  BY <1>1, <1>2, InitPromise, TypeInvariance, Invariance, PTL DEF Spec
=============================================================================
