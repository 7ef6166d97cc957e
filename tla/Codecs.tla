------------------------------- MODULE Codecs -------------------------------
(***************************************************************************)
(* The conversions of afire as operators: base64 and percent coding        *)
(* (src/lib/internal/encoding), the date header (extensions/date.rs) and   *)
(* the splitting of a multipart body (http/multipart.rs).                  *)
(*                                                                         *)
(* A text is a sequence of code points.  A base64 digit is its value,      *)
(* Pad or Bad: which character stands for it is left out.  A function      *)
(* that returns Option<T> or slices returns [ok |-> value], None or Panic. *)
(*                                                                         *)
(* Definitions named ...Mutant are described in the README ("Mutants").    *)
(***************************************************************************)
EXTENDS Integers, Sequences, SequencesExt, Bitwise

Some(v) == [ok |-> v]
None == [err |-> "none"]
Panic == [err |-> "panic"]

(* collect::<Result<Vec<_>, _>>: all values, or the first failure.         *)
Collected(results) ==
  LET failed == {k \in DOMAIN results : "ok" \notin DOMAIN results[k]}
  IN  IF failed # {} THEN results[CHOOSE k \in failed : \A j \in failed : k <= j]
      ELSE Some([k \in DOMAIN results |-> results[k].ok])

(* The members of S within 1..n, in order.                                 *)
Sorted(S, n) == SelectSeq([k \in 1..n |-> k], LAMBDA k : k \in S)

-----------------------------------------------------------------------------
(* base64.rs                                                               *)

Pad == 64       \* '='
Bad == 65       \* any character that is no digit
Chunks(s, n) ==
  [k \in 1..((Len(s) + n - 1) \div n) |->
     SubSeq(s, n * (k - 1) + 1, IF n * k < Len(s) THEN n * k ELSE Len(s))]

EncodeChunk(c) ==
  LET b(k) == IF k <= Len(c) THEN c[k] ELSE 0
      digits == << b(1) \div 4, (b(1) % 4) * 16 + b(2) \div 16,
                   (b(2) % 16) * 4 + b(3) \div 64, b(3) % 64 >>
  IN  [k \in 1..4 |-> IF k <= Len(c) + 1 THEN digits[k] ELSE Pad]

Base64Encode(inp) ==
  LET chunks == Chunks(inp, 3)
  IN  FlattenSeq([k \in DOMAIN chunks |-> EncodeChunk(chunks[k])])

(* Where the i-th digit of a chunk goes, i from 0: '+' and '/' are shifted *)
(* the other way round.                                                    *)
DigitBits(d, i) == d * 2^(6 * (IF d < 62 THEN 3 - i ELSE i))

BytesBeforeMutant(bytes, i) == SubSeq(bytes, 1, i)
BytesBefore(bytes, i) == SubSeq(bytes, 1, i - 1)   \* to_be_bytes()[1..i]

DecodeChunk(c) ==
  LET pads == {i \in 0..(Len(c) - 1) : c[i + 1] = Pad}
      stop == IF pads = {} THEN Len(c) ELSE CHOOSE i \in pads : \A j \in pads : i <= j
      bits[i \in 0..stop] == IF i = 0 THEN 0 ELSE bits[i - 1] | DigitBits(c[i], i - 1)
      bytes == << bits[stop] \div 65536, (bits[stop] \div 256) % 256, bits[stop] % 256 >>
  IN  CASE \E i \in 1..stop : c[i] = Bad -> None
        [] pads = {} -> Some(bytes)
        [] stop = 0 -> Panic
        [] OTHER -> Some(BytesBefore(bytes, stop))

Base64Decode(inp) ==
  LET chunks == Chunks(inp, 4)
      done == Collected([k \in DOMAIN chunks |-> DecodeChunk(chunks[k])])
  IN  IF "ok" \in DOMAIN done THEN Some(FlattenSeq(done.ok)) ELSE done

-----------------------------------------------------------------------------
(* url.rs                                                                  *)

Space == 32
Percent == 37
Plus == 43

Allowed(c) ==
  c \in 65..90 \/ c \in 97..122 \/ c \in 48..57 \/ c \in {45, 46, 95, 126}

HexDigit(n) == IF n < 10 THEN 48 + n ELSE 55 + n
HexValue(c) ==
  CASE c \in 48..57 -> c - 48 [] c \in 65..70 -> c - 55 [] c \in 97..102 -> c - 87

IsHex(c) == c \in 48..57 \cup 65..70 \cup 97..102

(* `i as u8`: a character above 255 loses its high bits.                   *)
UrlEncode(s) ==
  FlattenSeq([k \in DOMAIN s |->
    IF Allowed(s[k]) THEN <<s[k]>>
    ELSE <<Percent, HexDigit((s[k] % 256) \div 16), HexDigit(s[k] % 16)>>])

(* u8::from_str_radix(hex, 16), which takes a leading '+' for a sign.      *)
FromHex(a, b) ==
  CASE IsHex(a) /\ IsHex(b) -> Some(16 * HexValue(a) + HexValue(b))
    [] a = Plus /\ IsHex(b) -> Some(HexValue(b))
    [] OTHER -> None

RECURSIVE UrlDecodeTo(_, _)
UrlDecodeTo(out, s) ==
  CASE s = <<>> -> Some(out)
    [] s # <<>> /\ s[1] = Plus -> UrlDecodeTo(Append(out, Space), Tail(s))
    [] s # <<>> /\ s[1] = Percent ->
         IF Len(s) < 3 \/ FromHex(s[2], s[3]) = None THEN None
         ELSE UrlDecodeTo(Append(out, FromHex(s[2], s[3]).ok), SubSeq(s, 4, Len(s)))
    [] OTHER -> UrlDecodeTo(Append(out, s[1]), Tail(s))

UrlDecode(s) == UrlDecodeTo(<<>>, s)

-----------------------------------------------------------------------------
(* date.rs.  The time is given in days; the time of day is left out.       *)

DaysInMonth(month, year) ==
  CASE month \in {1, 3, 5, 7, 8, 10, 12} -> 31
    [] month \in {4, 6, 9, 11} -> 30
    [] month = 2 -> IF year % 4 = 0 THEN 29 ELSE 28

(* The loop subtracts month after month, and so year after year: the       *)
(* months but February have 337 days.                                      *)
PastMutant(days, length) == days > length
Past(days, length) == days >= length

RECURSIVE InYear(_, _, _)
InYear(days, month, year) ==
  IF Past(days, DaysInMonth(month, year))
  THEN InYear(days - DaysInMonth(month, year), month + 1, year)
  ELSE [day |-> days + 1, month |-> month, year |-> year]

RECURSIVE DateFrom(_, _)
DateFrom(days, year) ==
  LET length == 337 + DaysInMonth(2, year)
  IN  IF Past(days, length) THEN DateFrom(days - length, year + 1)
      ELSE InYear(days, 1, year)

(* `as u16` wraps.                                                         *)
ImpDate(epochDays) ==
  LET days == epochDays % 65536
  IN  [weekday |-> (days + 4) % 7, date |-> DateFrom(days, 1970)]

-----------------------------------------------------------------------------
(* multipart.rs.  Positions count from 1.                                  *)

At(data, boundary, k) ==
  /\ k + Len(boundary) - 1 <= Len(data)
  /\ SubSeq(data, k, k + Len(boundary) - 1) = boundary

(* The slices between the boundaries.  data[start..s] panics if the next   *)
(* boundary starts before the last one ends.                               *)
AfterBoundary(k, boundary) == k + Len(boundary)

SplitBoundary(data, boundary) ==
  LET indexes == Sorted({k \in DOMAIN data : At(data, boundary, k)}, Len(data))
      n == Len(indexes)
      start == [k \in 1..(n + 1) |->
                  IF k = 1 THEN 1 ELSE AfterBoundary(indexes[k - 1], boundary)]
      end == [k \in 1..(n + 1) |-> IF k <= n THEN indexes[k] ELSE Len(data) + 1]
  IN  IF \E k \in 1..(n + 1) : start[k] > end[k] THEN Panic
      ELSE Some([k \in 1..(n + 1) |-> SubSeq(data, start[k], end[k] - 1)])
=============================================================================
