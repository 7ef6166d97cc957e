------------------------------ MODULE Messages ------------------------------
(***************************************************************************)
(* The texts of HTTP as afire reads and writes them: the request line and  *)
(* headers (src/lib/request.rs, http/header.rs), cookies (http/cookie.rs), *)
(* queries (http/query.rs), multipart forms (http/multipart.rs), methods   *)
(* (http/method.rs) and events (http/server_sent_events.rs).               *)
(*                                                                         *)
(* A text is a sequence of code points and of words.  A word stands for    *)
(* one of the names the code knows: Canonical(w) as the code prints it and *)
(* w itself in other letters, which compare equal if case is ignored.      *)
(* A list of named values is a sequence of [name, value].                  *)
(***************************************************************************)
EXTENDS Paths

LF == 10
CR == 13
Quote == 34
Ampersand == 38
Dash == 45
Dot == 46
Zero == 48
Colon == 58
Semicolon == 59
Equals == 61
Question == 63
Backslash == 92
CRLF == <<CR, LF>>

(* Words are no code points: 2000 and more in canonical letters.           *)
Canonical(w) == IF w < 2000 THEN w + 1000 ELSE w
HeaderWords == 1001..1020       \* the names of HeaderType
ConnectionWord == 2005
ContentLengthWord == 2007
ContentTypeWord == 2008
CookieWord == 2009
DateWord == 2010
ServerWord == 2014
SetCookieWord == 2015
TransferEncodingWord == 2016
DispositionWord == 2031         \* Content-Disposition is none of them
KeepAliveWord == 2041
MultipartWord == 2042
MethodWords == 1051..1058       \* the methods but ANY
GET == 2051
POST == 2052
HEAD == 2056
TRACE == 2058
HttpWord == 2061
ChunkedWord == 2062
CloseWord == 2063

IsSpace(c) == c \in {9, LF, CR, Space}
IsWide(c) == c \in 128..999     \* takes more than one byte

Positions(s, Test(_)) == {k \in DOMAIN s : Test(s[k])}
Least(S) == CHOOSE k \in S : \A j \in S : k <= j
Greatest(S) == CHOOSE k \in S : \A j \in S : k >= j
Before(s, k) == SubSeq(s, 1, k - 1)
After(s, k) == SubSeq(s, k + 1, Len(s))

(* str::split, str::split_once, str::trim.                                 *)
Split(s, IsSep(_)) ==
  LET ends == <<0>> \o Sorted(Positions(s, IsSep) \cup {Len(s) + 1}, Len(s) + 1)
  IN  [k \in 1..(Len(ends) - 1) |-> SubSeq(s, ends[k] + 1, ends[k + 1] - 1)]
SplitOnce(s, sep) ==
  LET at == Positions(s, LAMBDA c : c = sep)
  IN  IF at = {} THEN None ELSE Some(<<Before(s, Least(at)), After(s, Least(at))>>)
Trim(s) ==
  LET kept == Positions(s, LAMBDA c : ~IsSpace(c))
  IN  IF kept = {} THEN <<>> ELSE SubSeq(s, Least(kept), Greatest(kept))
Concat(texts) == FlattenSeq(texts)

Pair(name, value) == [name |-> name, value |-> value]

(* find(|x| x.name == name): the first one decides.                        *)
FirstNamed(list, name) ==
  LET named == {k \in DOMAIN list : list[k].name = name}
  IN  IF named = {} THEN None ELSE Some(list[Least(named)].value)

DecodedOr(s) == IF UrlDecode(s) = None THEN s ELSE UrlDecode(s).ok

-----------------------------------------------------------------------------
(* header.rs                                                               *)

(* HeaderType::from_str, and its Display: the spelling of a name of the    *)
(* enum is forgotten, that of another one (Custom) is kept and compared.   *)
HeaderType(name) ==
  IF Len(name) = 1 /\ (name[1] \in HeaderWords \/ name[1] - 1000 \in HeaderWords)
  THEN <<Canonical(name[1])>> ELSE name

HeaderOf(name, value) == Pair(HeaderType(name), value)
HeadersGet(headers, name) == FirstNamed(headers, HeaderType(name))
HeadersHas(headers, name) == HeadersGet(headers, name) # None
HeadersAdd(headers, name, value) == Append(headers, HeaderOf(name, value))

HeaderFromString(text) ==
  LET parts == SplitOnce(text, Colon)
  IN  IF parts = None THEN None
      ELSE Some(HeaderOf(Trim(parts.ok[1]), Trim(parts.ok[2])))

HeaderToString(h) == h.name \o <<Colon, Space>> \o h.value

(* HeaderParams::new: a part without '=' ends the list.                    *)
ParamsUpTo(given) ==
  LET bad == {k \in DOMAIN given : given[k] = None}
      n == IF bad = {} THEN Len(given) ELSE Least(bad) - 1
  IN  [k \in 1..n |-> Pair(Trim(given[k].ok[1]), Trim(given[k].ok[2]))]
HeaderParams(text) ==
  LET parts == Split(text, LAMBDA c : c = Semicolon)
  IN  [value |-> parts[1],
       params |-> ParamsUpTo([k \in 1..(Len(parts) - 1) |-> SplitOnce(parts[k + 1], Equals)])]

-----------------------------------------------------------------------------
(* query.rs                                                                *)

QuerySplit(part) == SplitOnce(part, Equals)

(* from_body: what has no '=' is left out.                                 *)
QueryFromBody(body) ==
  LET parts == Split(body, LAMBDA c : c = Ampersand)
      pairs == SelectSeq([k \in DOMAIN parts |-> QuerySplit(parts[k])], LAMBDA p : p # None)
  IN  [k \in DOMAIN pairs |-> Pair(DecodedOr(pairs[k].ok[1]), DecodedOr(pairs[k].ok[2]))]

(* Display: nothing is encoded.                                            *)
QueryToString(query) ==
  LET parts == [k \in DOMAIN query |-> query[k].name \o <<Equals>> \o query[k].value]
  IN  IF query = <<>> THEN <<>>
      ELSE <<Question>> \o Concat([k \in DOMAIN parts |->
             IF k = 1 THEN parts[k] ELSE <<Ampersand>> \o parts[k]])

QueryGet(query, key) == FirstNamed(query, key)

-----------------------------------------------------------------------------
(* cookie.rs                                                               *)

CookieText(s) == DecodedOr(Trim(s))

CookiesFromString(text) ==
  LET parts == Split(text, LAMBDA c : c = Semicolon)
      pairs == SelectSeq([k \in DOMAIN parts |-> SplitOnce(parts[k], Equals)], LAMBDA p : p # None)
  IN  [k \in DOMAIN pairs |-> Pair(CookieText(pairs[k].ok[1]), CookieText(pairs[k].ok[2]))]

JarGet(jar, name) == FirstNamed(jar, name)

(* SetCookie::new, its modifiers and Display: name and value go out as     *)
(* they are, and a ';' stays at the end.                                   *)
SetCookie(name, value) ==
  [cookie |-> Pair(name, value), maxAge |-> None, domain |-> None, path |-> None,
   secure |-> FALSE]
MaxAge(c, seconds) == [c EXCEPT !.maxAge = Some(seconds)]
Domain(c, domain) == [c EXCEPT !.domain = Some(domain)]
CookiePath(c, path) == [c EXCEPT !.path = Some(path)]
Secure(c, secure) == [c EXCEPT !.secure = secure]

MaxAgeWord == 2091
DomainWord == 2092
PathWord == 2093
SecureWord == 2094
Attribute(word, value) ==
  IF value = None THEN <<>> ELSE <<word, Equals>> \o value.ok \o <<Semicolon, Space>>
SetCookieToString(c) ==
  Front(c.cookie.name \o <<Equals>> \o c.cookie.value \o <<Semicolon, Space>>
          \o Attribute(MaxAgeWord, c.maxAge) \o Attribute(DomainWord, c.domain)
          \o Attribute(PathWord, c.path)
          \o (IF c.secure THEN <<SecureWord, Semicolon, Space>> ELSE <<>>))

-----------------------------------------------------------------------------
(* request.rs                                                              *)

(* Method::from_str ignores case.                                          *)
MethodOf(text) ==
  IF Len(text) = 1 /\ (text[1] \in MethodWords \/ text[1] - 1000 \in MethodWords)
  THEN Some(Canonical(text[1])) ELSE None

KeepAlive(headers) ==
  LET value == HeadersGet(headers, <<ConnectionWord>>)
  IN  value # None /\ Len(value.ok) = 1 /\ Canonical(value.ok[1]) = KeepAliveWord

(* The loop over raw_path: one '/' for slashes and backslashes in a row.   *)
IsSlash(c) == c \in {Slash, Backslash}
Collapse(raw) ==
  LET kept == SelectSeq([k \in DOMAIN raw |-> k],
                        LAMBDA k : ~(IsSlash(raw[k]) /\ k > 1 /\ IsSlash(raw[k - 1])))
  IN  [k \in DOMAIN kept |-> IF IsSlash(raw[kept[k]]) THEN Slash ELSE raw[kept[k]]]

ParseRequestLine(line) ==
  LET parts == SelectSeq(Split(line, IsSpace), LAMBDA p : p # <<>>)
      target == SplitOnce(parts[2], Question)
  IN  CASE parts = <<>> -> [err |-> "NoMethod"]
        [] parts # <<>> /\ MethodOf(parts[1]) = None -> [err |-> "InvalidMethod"]
        [] Len(parts) \in {1, 2} /\ MethodOf(parts[1]) # None -> [err |-> "NoVersion"]
        [] OTHER -> Some([method |-> MethodOf(parts[1]).ok, version |-> parts[3],
                          path |-> Collapse(IF target = None THEN parts[2] ELSE target.ok[1]),
                          query |-> QueryFromBody(IF target = None THEN <<>> ELSE target.ok[2])])

(* read_until(LF): the lines with their ends, the last one perhaps without.*)
Lines(text) ==
  LET ends == <<0>> \o Sorted(Positions(text, LAMBDA c : c = LF) \cup {Len(text)}, Len(text))
  IN  [k \in 1..(Len(ends) - 1) |-> SubSeq(text, ends[k] + 1, ends[k + 1])]

(* line.len() counts bytes, and so does line[..line.len() - 2], which      *)
(* panics within a wide character; the line ends in LF, after a code point.*)
IsBlank(line) == Len(line) <= 2 /\ \A k \in DOMAIN line : line[k] < 128
HeaderLine(line) ==
  IF IsWide(line[Len(line) - 1]) THEN Panic
  ELSE LET h == HeaderFromString(SubSeq(line, 1, Len(line) - 2))
       IN  IF h = None THEN [err |-> "InvalidHeader"] ELSE h

(* parse::<usize>, and 0 for what is no number.                           *)
ParseUsize(text) ==
  LET digits == IF text # <<>> /\ text[1] = Plus THEN Tail(text) ELSE text
  IN  IF digits # <<>> /\ \A k \in DOMAIN digits : digits[k] \in 48..57
      THEN Some(FoldLeft(LAMBDA n, c : 10 * n + c - 48, 0, digits)) ELSE None
Number(text) == IF ParseUsize(text) = None THEN 0 ELSE ParseUsize(text).ok

(* Request::param, of the parameters that the route captured.              *)
RequestParam(params, name) == FirstNamed(params, name)

CookiesReplacedMutant(list) == IF list = <<>> THEN <<>> ELSE Last(list)
CookiesExtend(list) == Concat(list)

(* A request of its parts; what follows the body is left for later.        *)
RequestFrom(line, parsed, rest) ==
  LET isCookie(h) == h.name = <<CookieWord>>
      headers == SelectSeq(parsed.ok, LAMBDA h : ~isCookie(h))
      cookies == SelectSeq(parsed.ok, isCookie)
      length == FirstNamed(headers, <<ContentLengthWord>>)
      size == IF length = None THEN 0 ELSE Number(length.ok)
  IN  IF "err" \in DOMAIN line THEN line
      ELSE IF "err" \in DOMAIN parsed THEN parsed
      ELSE IF size > Len(rest) THEN [err |-> "UnexpectedEof"]
      ELSE Some([method |-> line.ok.method, path |-> line.ok.path,
                 version |-> line.ok.version, query |-> line.ok.query, headers |-> headers,
                 cookies |-> CookiesExtend([k \in DOMAIN cookies |->
                                              CookiesFromString(cookies[k].value)]),
                 body |-> SubSeq(rest, 1, size)])

(* Request::from_socket, of a whole text: the headers end at an empty line *)
(* or where the text ends.                                                 *)
ParseRequest(text) ==
  LET lines == Lines(text)
      blank == {k \in DOMAIN lines : k > 1 /\ IsBlank(lines[k])}
      last == IF blank = {} THEN Len(lines) ELSE Least(blank) - 1
  IN  RequestFrom(ParseRequestLine(IF lines = <<>> THEN <<>> ELSE lines[1]),
                  Collected([k \in 1..(last - 1) |-> HeaderLine(lines[k + 1])]),
                  Concat(SubSeq(lines, last + 2, Len(lines))))

-----------------------------------------------------------------------------
(* multipart.rs                                                            *)

Unquoted(text) ==
  IF Len(text) >= 2 /\ text[1] = Quote /\ Last(text) = Quote
  THEN Some(SubSeq(text, 2, Len(text) - 1)) ELSE None

LastMatchMutant(S) == Greatest(S)
FirstMatch(S) == Least(S)

(* Only the name loses its quotes.                                         *)
EntryFrom(headers, data) ==
  LET disposition == HeadersGet(headers, <<DispositionWord>>)
      params == HeaderParams(disposition.ok).params
      name == FirstNamed(params, <<110>>)
  IN  IF disposition = None \/ name = None THEN [err |-> "InvalidEntry"]
      ELSE IF Unquoted(name.ok) = None THEN [err |-> "InvalidEntry"]
      ELSE Some([name |-> Unquoted(name.ok).ok, filename |-> FirstNamed(params, <<102>>),
                 data |-> data])

(* MultipartEntry::try_from: the data is all that follows the empty line,  *)
(* the line break in front of the next boundary included.                  *)
ParseEntry(part) ==
  LET ends == {k \in DOMAIN part : At(part, CRLF \o CRLF, k)}
      stop == FirstMatch(ends) + 3
      lines == SelectSeq(Lines(SubSeq(part, 1, stop)), LAMBDA l : l \notin {<<LF>>, CRLF})
      headers == Collected([k \in DOMAIN lines |-> HeaderFromString(Trim(lines[k]))])
  IN  IF ends = {} THEN [err |-> "InvalidEntry"]
      ELSE IF headers = None THEN [err |-> "InvalidEntry"]
      ELSE EntryFrom(headers.ok, After(part, stop))

ParseMultipart(headers, body) ==
  LET type == HeadersGet(headers, <<ContentTypeWord>>)
      params == HeaderParams(type.ok)
      boundary == FirstNamed(params.params, <<98>>)
      parts == SplitBoundary(body, <<Dash, Dash>> \o boundary.ok)
  IN  IF type = None THEN [err |-> "InvalidContentType"]
      ELSE IF boundary = None THEN [err |-> "InvalidBoundary"]
      ELSE IF params.value # <<MultipartWord>> THEN [err |-> "InvalidContentType"]
      ELSE IF parts = Panic THEN Panic
      ELSE IF Len(parts.ok) < 3 THEN [err |-> "InvalidData"]
      ELSE Collected([k \in 1..(Len(parts.ok) - 2) |-> ParseEntry(parts.ok[k + 1])])

-----------------------------------------------------------------------------
(* server_sent_events.rs: Event.  The fields' names are words; no id is the *)
(* empty text.  Data is added to what there is.                            *)

EventNew(type) == [id |-> <<>>, event |-> type, data |-> <<>>]
EventId(e, id) == [e EXCEPT !.id = id]
EventData(e, data) == [e EXCEPT !.data = @ \o data]

IdWord == 2071
EventWord == 2072
DataWord == 2073
Field(word, value) == <<word, Colon, Space>> \o value \o <<LF>>

DataWholeMutant(data) == <<data>>
DataLines(data) == Split(data, LAMBDA c : c = LF)

EventToString(e) ==
  LET data == DataLines(e.data)
  IN  (IF e.id = <<>> THEN <<>> ELSE Field(IdWord, e.id))
        \o Field(EventWord, e.event)
        \o Concat([k \in DOMAIN data |-> Field(DataWord, data[k])]) \o <<LF>>
=============================================================================
