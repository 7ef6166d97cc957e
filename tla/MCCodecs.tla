------------------------------ MODULE MCCodecs ------------------------------
(***************************************************************************)
(* Checking of the operators of Codecs and Paths on bounded inputs, and of *)
(* those of MCMessages: each initial state is one input.                   *)
(***************************************************************************)
EXTENDS MCMessages

CONSTANTS
  ByteValues, \* the bytes to encode in base64
  MaxBytes,   \* how many at most
  Digits,     \* the digits of codes to decode, Pad not among them
  Chars,      \* the characters of path parameters
  MaxPath,    \* the length of request paths over {"/", "a"} at most
  Years,      \* of the dates
  MaxBody     \* the length of multipart bodies over {"-", "x"} at most

ASSUME YearsAssumption == Years \subseteq 1970..2099

LastDay(month, year) ==
  CASE month \in {4, 6, 9, 11} -> 30
    [] month = 2 -> IF year % 4 = 0 /\ (year % 100 # 0 \/ year % 400 = 0) THEN 29 ELSE 28
    [] OTHER -> 31

Param(name) == <<OpenBrace, name, CloseBrace>>

Tokens == {<<A>>, <<>>, <<Star>>, <<Star, Star>>, Param(A)}
Patterns == {Join(t, Slash) : t \in Texts(Tokens, 3) \ {<<>>}}
Paths == Texts({Slash, A}, MaxPath)
Boundaries == {<<Dash, Dash>> \o b : b \in Texts({Dash, X}, 2)}

Base64Samples == [of : {"bytes"}, bytes : Texts(ByteValues, MaxBytes)]
CodeSamples == [of : {"code"}, code : [1..4 -> Digits]]
DateSamples ==
  {s \in [of : {"date"}, year : Years, month : 1..12, day : {1, 2, 28, 29, 30, 31}] :
     s.day <= LastDay(s.month, s.year)}
BodySamples == [of : {"body"}, data : Texts({Dash, X}, MaxBody), boundary : Boundaries]
MatchSamples == [of : {"match"}, pattern : Patterns, path : Paths]
ParamSamples == [of : {"params"}, values : [1..2 -> Texts(Chars, 2) \ {<<>>}]]
RouteSamples ==
  [of : {"routes"}, method : {GET, POST},
   paths : [1..2 -> {<<>>, <<A>>, <<Star>>, <<A, Slash, Star>>}],
   path : Texts({Slash, A}, 3)]

Init ==
  \/ sample \in Base64Samples
  \/ sample \in CodeSamples
  \/ sample \in DateSamples
  \/ sample \in BodySamples
  \/ sample \in MatchSamples
  \/ sample \in ParamSamples
  \/ sample \in RouteSamples
  \/ MessageSamples(sample)

Next == UNCHANGED sample
Spec == Init /\ [][Next]_sample

-----------------------------------------------------------------------------
(* "Decodes a base64 string into a byte slice" (base64.rs:42): decode is   *)
(* the inverse of encode.                                                  *)
Base64Inverse ==
  sample.of = "bytes" => Base64Decode(Base64Encode(sample.bytes)) = Some(sample.bytes)

(* It is, of texts without '+' and '/', whatever the padding; and encode   *)
(* is then the inverse of decode.                                          *)
Base64RoundTrip ==
  /\ sample.of = "bytes" =>
       LET code == Base64Encode(sample.bytes)
       IN  (\A k \in DOMAIN code : code[k] \notin {62, 63})
             => Base64Decode(code) = Some(sample.bytes)
  /\ sample.of = "code" => Base64Encode(Base64Decode(sample.code).ok) = sample.code

(* The month loop and the 16-bit day count agree with the calendar         *)
(* (days of a date by counting years that start in March, weekday by       *)
(* Zeller's congruence) until 2099, for every month's first and last days. *)
EpochDays(y, m, d) ==
  LET start == IF m <= 2 THEN y - 1 ELSE y
      month == IF m <= 2 THEN m + 9 ELSE m - 3
  IN  365 * start + start \div 4 - start \div 100 + start \div 400
        + (153 * month + 2) \div 5 + d - 1 - 719468
Zeller(y, m, d) ==
  LET year == IF m <= 2 THEN y - 1 ELSE y
      month == IF m <= 2 THEN m + 12 ELSE m
      k == year % 100
      j == year \div 100
  IN  (d + (13 * (month + 1)) \div 5 + k + k \div 4 + j \div 4 + 5 * j + 6) % 7
DateIsCalendar ==
  sample.of = "date" =>
    ImpDate(EpochDays(sample.year, sample.month, sample.day))
      = [weekday |-> Zeller(sample.year, sample.month, sample.day),
         date |-> [day |-> sample.day, month |-> sample.month, year |-> sample.year]]

(* Splitting a multipart body at a boundary that cannot overlap itself     *)
(* loses nothing and leaves no boundary in a part; only with one that can  *)
(* ("--" followed by nothing, or ending in '-') a slice may panic.         *)
OverlapsItself(b) ==
  \E n \in 1..(Len(b) - 1) : SubSeq(b, 1, n) = SubSeq(b, Len(b) - n + 1, Len(b))
PartsAreWhole ==
  sample.of = "body" /\ ~OverlapsItself(sample.boundary) =>
    LET parts == SplitBoundary(sample.data, sample.boundary)
    IN  /\ parts # Panic
        /\ sample.data = FlattenSeq([k \in DOMAIN parts.ok |->
             IF k = 1 THEN parts.ok[k] ELSE sample.boundary \o parts.ok[k]])
        /\ \A k \in DOMAIN parts.ok : \A i \in DOMAIN parts.ok[k] :
             ~At(parts.ok[k], sample.boundary, i)

(* What a pattern means (server.rs:285): the path is the pattern with      *)
(* something without '/' for each parameter and '*', and anything for "**" *)
(* and what follows; slashes around either do not matter.                  *)
Strings(s) == {SubSeq(s, i, j) : i \in 1..(Len(s) + 1), j \in 0..Len(s)}
Slashes(n) == [k \in 1..n |-> Slash]
Bare(path) ==
  CHOOSE s \in Strings(path) :
    /\ s = <<>> \/ (s[1] # Slash /\ Last(s) # Slash)
    /\ \E i, j \in 0..Len(path) : path = Slashes(i) \o s \o Slashes(j)
Denotes(pattern, path) ==
  LET segs == Segments(Bare(pattern))
      wild == {k \in DOMAIN segs : FromSegment(segs[k]).part # "Normal"}
      open == {k \in DOMAIN segs : segs[k] = <<Star, Star>>}
      n == IF open = {} THEN Len(segs) ELSE CHOOSE k \in open : \A j \in open : k <= j
      text == Bare(path)
  IN  \E w \in [wild \cap 1..n -> Strings(text)] :
        /\ \A k \in DOMAIN w : k \in open \/ \A i \in DOMAIN w[k] : w[k][i] # Slash
        /\ text = Join([k \in 1..n |-> IF k \in wild THEN w[k] ELSE segs[k]], Slash)
PatternsMatch ==
  sample.of = "match" =>
    (MatchPath(NewPath(sample.pattern), sample.path) # None
       <=> Denotes(sample.pattern, sample.path))

(* Parameters arrive as they were sent: a percent-encoded value is one     *)
(* segment, whatever it contains, and is captured and decoded in its place *)
(* (a character beyond ASCII into one for each byte of its UTF-8).         *)
ParamsArrive ==
  sample.of = "params" =>
    MatchPath(NewPath(<<Slash>> \o Param(A) \o <<Slash>> \o Param(B)),
              <<Slash>> \o ClientEncode(sample.values[1])
                \o <<Slash>> \o ClientEncode(sample.values[2]))
      = Some(<<[name |-> <<A>>, value |-> DecodedText(sample.values[1])],
               [name |-> <<B>>, value |-> DecodedText(sample.values[2])]>>)

(* A catch-all route added first (examples/basic/routing.rs:23) runs for   *)
(* every request that no other route matches, and for no other; between    *)
(* two routes that match, the one added last runs.                         *)
CatchAllRunsLast ==
  sample.of = "routes" =>
    LET route(method, path) == [method |-> method, parts |-> NewPath(path)]
        routes == <<route(ANY, <<Star, Star>>), route(GET, sample.paths[1]),
                    route(POST, sample.paths[2])>>
        req == [method |-> sample.method, path |-> sample.path]
        used == RouteFor(routes, req)
    IN  /\ used # 0
        /\ \A k \in {2, 3} : Matches(routes[k], req) # None => used >= k

-----------------------------------------------------------------------------
(* What the run checks, beside Base64RoundTrip, DateIsCalendar and         *)
(* EventRoundTrip, put together from the parts above.                      *)

(* A request is handled by the route that the documentation says: patterns *)
(* mean what they are said to, and a later route goes before an earlier.   *)
RoutesAsDocumented == PatternsMatch /\ CatchAllRunsLast

(* What a client sends is what the server's code gets, through all         *)
(* encodings on the way: requests, path parameters, the cookies that the   *)
(* server has set itself, and an application's texts; up to the characters *)
(* beyond ASCII that a client percent-encodes, of which the code gets the  *)
(* bytes.                                                                  *)
RequestRoundTrip == RequestArrives /\ ParamsArrive /\ CookiesComeBack /\ PastesStay

(* So it is with forms, whose parts are neither cut nor run together.      *)
MultipartRoundTrip == FormArrives /\ PartsAreWhole

(* A static file is the one its path names, none outside of the directory, *)
(* and gets the type of its extension.                                     *)
ServesNamedFile == OpensNamedFile /\ StaysInDirectory /\ TypesAreFound

(* What the server answers, through any of its own extensions, is what its *)
(* client reads, and starts and ends where the client thinks, but for a    *)
(* body under a status that has none, and the length in an answer to HEAD  *)
(* by a Head that is told not to measure streams.                          *)
AnswerRoundTrip ==
  sample.of = "exchange" => AnswerReads(sample, Got(sample, sample.method))
=============================================================================
