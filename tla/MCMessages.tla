----------------------------- MODULE MCMessages -----------------------------
(***************************************************************************)
(* Checking of Messages, Statics and Exchange on bounded inputs, against   *)
(* the other end of the wire: clients that write requests, forms and       *)
(* cookies, and read responses and events, as the HTTP standards say.      *)
(***************************************************************************)
EXTENDS PasteBin

VARIABLE sample

Texts(S, n) == UNION {[1..k -> S] : k \in 0..n}
A == 97
B == 98
X == 120
Wide == 233
Join(segs, sep) ==
  FlattenSeq([k \in DOMAIN segs |-> IF k = 1 THEN segs[k] ELSE <<sep>> \o segs[k]])
Line(name, value) == name \o <<Colon, Space>> \o value \o CRLF
HostLine == Line(<<2011>>, <<X>>)

-----------------------------------------------------------------------------
(* Requests.  A client encodes what is no part of a name or value, as the  *)
(* bytes of its UTF-8 (RFC 3986, 2.5), but may leave '=' in a query's      *)
(* value as it is, and may send several headers of one name, with its own  *)
(* capitals.                                                               *)

Utf8(c) == IF c < 128 THEN <<c>> ELSE <<192 + c \div 64, 128 + (c % 64)>>
Bytes8(text) == FlattenSeq([k \in DOMAIN text |-> Utf8(text[k])])
PercentByte(b) == <<Percent, HexDigit(b \div 16), HexDigit(b % 16)>>
ClientEncode(text) ==
  LET bytes == Bytes8(text)
  IN  FlattenSeq([k \in DOMAIN bytes |->
        IF Allowed(bytes[k]) THEN <<bytes[k]>> ELSE PercentByte(bytes[k])])

(* What the code makes of an encoded text: "u8 as char" (url.rs:18) takes  *)
(* each byte of a character beyond ASCII for a character of its own.       *)
DecodedText(text) == Bytes8(text)
DecodedPairs(pairs) == [k \in DOMAIN pairs |-> Pair(pairs[k].name, DecodedText(pairs[k].value))]

Quiet == [of |-> "request", method |-> GET, path |-> <<Slash>>, query |-> <<>>,
          headers |-> <<>>, cookies |-> <<>>, body |-> <<>>]
Values == Texts({A, Space, Percent, Ampersand, Equals, Wide}, 2)
Pairs == {Pair(<<A>>, v) : v \in Values}
FewPairs == {Pair(<<A>>, <<>>), Pair(<<A>>, <<A>>), Pair(<<B>>, <<Plus>>)}
SomeHeaders == {Pair(<<1005>>, <<1041>>), Pair(<<2005>>, <<CloseWord>>),
                Pair(<<A>>, <<A, Colon, Wide>>), Pair(<<1018>>, <<>>)}
RequestSamples ==
  {[Quiet EXCEPT !.method = m, !.path = p] :
     m \in {GET, 1052, 1056}, p \in {<<Slash>>, <<Slash, A>>, <<Slash, A, Slash, B>>}}
  \cup {[Quiet EXCEPT !.query = q] : q \in {<<p>> : p \in Pairs} \cup Texts(FewPairs, 3)}
  \cup {[Quiet EXCEPT !.headers = h] : h \in Texts(SomeHeaders, 2)}
  \cup {[Quiet EXCEPT !.cookies = c] : c \in Texts({<<p>> : p \in FewPairs}, 2)
                                              \cup {<<<<p>>>> : p \in Pairs}
                                              \cup {<<<<p, q>>>> : p, q \in FewPairs}}
  \cup {[Quiet EXCEPT !.body = b] : b \in Texts({A, CR, LF}, 3)}

QueryValue(v) ==
  FlattenSeq([k \in DOMAIN v |-> IF v[k] = Equals THEN <<Equals>> ELSE ClientEncode(<<v[k]>>)])
CookieLine(cookies) ==
  Line(<<1009>>, FlattenSeq([k \in DOMAIN cookies |->
    (IF k = 1 THEN <<>> ELSE <<Semicolon, Space>>)
      \o cookies[k].name \o <<Equals>> \o ClientEncode(cookies[k].value)]))
LengthHeader(body) ==
  IF body = <<>> THEN <<>> ELSE <<Pair(<<1007>>, NumberText(Len(body), 10))>>
QueryText(query) ==
  IF query = <<>> THEN <<>>
  ELSE <<Question>> \o Join([k \in DOMAIN query |->
         query[k].name \o <<Equals>> \o QueryValue(query[k].value)], Ampersand)
ClientRequest(r) ==
  <<r.method, Space>> \o r.path \o QueryText(r.query)
    \o <<Space, HttpWord>> \o CRLF
    \o FlattenSeq([k \in DOMAIN r.headers |-> Line(r.headers[k].name, r.headers[k].value)])
    \o FlattenSeq([k \in DOMAIN r.cookies |-> CookieLine(r.cookies[k])])
    \o FlattenSeq([k \in DOMAIN LengthHeader(r.body) |->
                     Line(LengthHeader(r.body)[k].name, LengthHeader(r.body)[k].value)])
    \o CRLF \o r.body

(* A request arrives as it was sent (request.rs:101 "Read a request"):     *)
(* path, query, headers, the cookies of all its Cookie headers, body; and  *)
(* a name that HeaderType has is found in any letters.  A query that has   *)
(* nothing to encode is printed as it came.  The code differs from the     *)
(* standard in one way that is part of this statement: an encoded          *)
(* character beyond ASCII, in a query or a cookie, arrives as one          *)
(* character for each byte of its UTF-8.                                   *)
CanonicalName(name) == IF name[1] < 1000 THEN name ELSE <<Canonical(name[1])>>
ArrivesAs(r, sent, got) ==
  LET plain == \A k \in DOMAIN r.query :
                 \A i \in DOMAIN r.query[k].value : Allowed(r.query[k].value[i])
  IN  /\ got = Some([method |-> Canonical(r.method), path |-> r.path, version |-> <<HttpWord>>,
                     query |-> DecodedPairs(r.query),
                     headers |-> [k \in DOMAIN sent |->
                                    Pair(CanonicalName(sent[k].name), sent[k].value)],
                     cookies |-> DecodedPairs(FlattenSeq(r.cookies)), body |-> r.body])
      /\ KeepAlive(got.ok.headers)
           <=> \E k \in DOMAIN sent : /\ sent[k].value = <<1041>>
                                      /\ \A j \in 1..(k - 1) : sent[j].name[1] # 2005
      /\ \A q \in Range(r.query) :
           QueryGet(got.ok.query, q.name) = FirstNamed(DecodedPairs(r.query), q.name)
      /\ plain => QueryToString(got.ok.query) = QueryText(r.query)
RequestArrives ==
  sample.of = "request" =>
    ArrivesAs(sample, sample.headers \o LengthHeader(sample.body),
              ParseRequest(ClientRequest(sample)))

-----------------------------------------------------------------------------
(* Forms.  The boundary is "x", and no data has "--x" in it.               *)

Entry(name, filename, data) == [name |-> name, filename |-> filename, data |-> data]
FormData == Texts({A, Dash, CR, LF}, 4) \cup {CRLF \o CRLF \o CRLF}
Entries ==
  {Entry(<<A>>, None, d) : d \in FormData} \cup {Entry(<<>>, Some(<<A, Dot, B>>), <<A>>)}
FormSamples ==
  {[of |-> "form", entries |-> <<e>>] : e \in Entries}
  \cup {[of |-> "form", entries |-> <<e, Entry(<<B>>, Some(<<A>>), <<Dash>>)>>] :
          e \in {Entry(<<A>>, None, d) : d \in Texts({Dash, CR, LF}, 3)}}

Boundary == <<Dash, Dash, X>>
Quoted(text) == <<Quote>> \o text \o <<Quote>>
FormParam(name, value) == <<Semicolon, Space, name, Equals>> \o Quoted(value)
ClientPart(e) ==
  Boundary \o CRLF
    \o Line(<<DispositionWord>>, <<X>> \o FormParam(110, e.name)
              \o (IF e.filename = None THEN <<>> ELSE FormParam(102, e.filename.ok)))
    \o CRLF \o e.data \o CRLF

(* A form arrives with its parts in their order, whole and apart.  The     *)
(* code differs from the standard in two ways that are part of this        *)
(* statement: the line break in front of a boundary stays with the data,   *)
(* and a file name keeps its quotes (multipart.rs:123, 152).               *)
FormArrives ==
  sample.of = "form" =>
    LET type == HeaderOf(<<1008>>, <<MultipartWord, Semicolon, Space, B, Equals, X>>)
        body == FlattenSeq([k \in DOMAIN sample.entries |-> ClientPart(sample.entries[k])])
                  \o Boundary \o <<Dash, Dash>> \o CRLF
    IN  ParseMultipart(<<type>>, body) =
          Some([k \in DOMAIN sample.entries |->
                  [sample.entries[k] EXCEPT
                     !.data = @ \o CRLF,
                     !.filename = IF @ = None THEN None ELSE Some(Quoted(@.ok))]])

-----------------------------------------------------------------------------
(* Events, and cookies that a client sends back.                           *)

EventSamples ==
  {[of |-> "event", event |-> EventData(EventData(e, d), rest)] :
     e \in {EventNew(<<>>), EventNew(<<A>>), EventId(EventNew(<<A>>), <<48>>)},
     d \in Texts({A, Space, LF, Colon}, 3), rest \in Texts({A, Space, LF, Colon}, 1)}

(* An EventSource reads lines "field: value" up to an empty line, drops    *)
(* one space after the colon and joins the data of several lines.          *)
FieldsOf(lines, word) ==
  LET given == SelectSeq(lines, LAMBDA l : l # <<>> /\ l[1] = word)
      value(l) == IF Len(l) >= 3 /\ l[3] = Space THEN After(l, 3) ELSE After(l, 2)
  IN  [k \in DOMAIN given |-> value(given[k])]
EventSource(text) ==
  LET whole == Lines(text)
      lines == [n \in DOMAIN whole |-> Front(whole[n])]
      stop == Least({n \in DOMAIN lines : lines[n] = <<>>})
      block == SubSeq(lines, 1, stop - 1)
  IN  [id |-> FlattenSeq(FieldsOf(block, IdWord)), event |-> FlattenSeq(FieldsOf(block, EventWord)),
       data |-> Join(FieldsOf(block, DataWord), LF), rest |-> SubSeq(lines, stop + 1, Len(lines))]

(* An event arrives as one event with the data it was given, line breaks   *)
(* included (server_sent_events.rs:171).                                   *)
EventRoundTrip ==
  sample.of = "event" =>
    EventSource(EventToString(sample.event))
      = [id |-> sample.event.id, event |-> sample.event.event,
         data |-> sample.event.data, rest |-> <<>>]

CookieSamples ==
  [of : {"cookie"}, values : [1..2 -> Texts({A, Space, Percent, Semicolon, Equals}, 2)],
   with : {"nothing", "an age", "a path"}]

(* A user agent keeps name and value, up to the first ';', without spaces  *)
(* around, and sends back all it has in one header.                        *)
StoredCookie(text) == Before(text, Least({k \in DOMAIN text : text[k] = Semicolon}))

(* A cookie that is set with an encoded value comes back with the value:   *)
(* set and parse are not inverse (cookie.rs:71, 305), encode makes up for  *)
(* it.                                                                     *)
CookiesComeBack ==
  sample.of = "cookie" =>
    LET cookie(name, v) ==
          LET plain == SetCookie(name, UrlEncode(v))
          IN  CASE sample.with = "nothing" -> plain
                [] sample.with = "an age" -> MaxAge(plain, <<48>>)
                [] OTHER -> CookiePath(Secure(plain, TRUE), <<Slash>>)
        set(name, v) == HeadersGet(Cookie(New, cookie(name, v)).headers, <<1015>>).ok
        sent == StoredCookie(set(<<A>>, sample.values[1])) \o <<Semicolon, Space>>
                  \o StoredCookie(set(<<B>>, sample.values[2]))
        jar == CookiesFromString(sent)
    IN  JarGet(jar, <<A>>) = Some(sample.values[1]) /\ JarGet(jar, <<B>>) = Some(sample.values[2])

-----------------------------------------------------------------------------
(* Pastes, from a program, from a browser's form, and from a form without  *)
(* a text.                                                                 *)

PasteTexts == Texts({A, Space, Percent}, 2) \cup {<<A, A, Space>>, <<A, A, Space, A>>}
PasteSamples ==
  [of : {"pastes"}, posts : Texts([way : {"program", "browser"}, text : PasteTexts], 2)]
  \cup
  [of : {"pastes"},
   posts : [1..3 -> [way : {"program", "browser", "no text"}, text : {<<A>>}]]]

(* A browser writes '+' for a space.                                       *)
FormField(field, text) ==
  <<field, Equals>> \o FlattenSeq([k \in DOMAIN text |->
                         IF text[k] = Space THEN <<Plus>> ELSE ClientEncode(<<text[k]>>)])
PostOf(p) ==
  CASE p.way = "program" ->
         [Quiet EXCEPT !.method = POST, !.path = <<Slash, NewWord>>, !.body = p.text,
                       !.headers = <<Pair(<<NameHeader>>, <<X>>)>>]
    [] p.way = "browser" ->
         [Quiet EXCEPT !.method = POST, !.path = <<Slash, NewFormWord>>,
                       !.body = FormField(NameField, <<X>>) \o <<Ampersand>>
                                  \o FormField(BodyField, p.text)]
    [] OTHER -> [Quiet EXCEPT !.method = POST, !.path = <<Slash, NewFormWord>>,
                              !.body = FormField(NameField, <<X>>)]
Sent(pastes, r) == Handle(pastes, ParseRequest(ClientRequest(r)).ok)
AfterPosts(posts) ==
  LET leaves(x, done) == [pastes |-> done.pastes, results |-> Append(x.results, done.res)]
      post(x, p) == leaves(x, Sent(x.pastes, PostOf(p)))
  IN  FoldLeft(post, [pastes |-> <<>>, results |-> <<>>], posts)

(* A text is shown where its sender was sent, as it came, whatever else    *)
(* was posted; one that is too long or none is not kept.  Texts are of     *)
(* ASCII characters.  One of the form with '%' is decoded twice            *)
(* (application_paste_bin.rs:77) and left out.                             *)
ShownAt(pastes, path) == Sent(pastes, [Quiet EXCEPT !.path = path]).res
Kept(p, result, pastes) ==
  CASE p.way = "no text" -> result = Panicked
    [] p.way # "no text" /\ Len(p.text) > DataLimit -> Code(result.ok.status) = 404
    [] p.way = "browser" /\ Percent \in Range(p.text) -> TRUE
    [] OTHER -> ShownAt(pastes, HeadersGet(result.ok.headers, <<LocationWord>>).ok)
                  = Some(Text(New, p.text))
PastesAreKept(posts, end) ==
  \A k \in DOMAIN posts : Kept(posts[k], end.results[k], end.pastes)
PastesStay == sample.of = "pastes" => PastesAreKept(sample.posts, AfterPosts(sample.posts))

-----------------------------------------------------------------------------
(* Static files, of a directory "a/b" in the working directory.            *)

Cwd == <<<<X>>>>
Dir == <<A, Slash, B>>
Served == Cwd \o <<<<A>>, <<B>>>>
Site == Static!New(Dir)
Index == <<<<Static!IndexWord, Dot, Static!HtmlWord>>>>
PathSamples == [of : {"path"}, raw : Texts({Slash, Backslash, Dot, A}, 6)]
TypeSamples == [of : {"type"}, ext : 1..56]
SetupSamples == [of : {"setup"}, path : {<<Slash>>, <<Slash, A>>, <<Slash, A, Slash, B>>}]

(* "Prevents path traversals" (serve_static.rs:346): whatever the path, no *)
(* file outside the directory is opened.                                   *)
StaysInDirectory ==
  sample.of = "path" =>
    LET file == Static!Walk(Cwd, Static!FilePath(Site, Collapse(sample.raw)))
    IN  Len(file) >= Len(Served) /\ SubSeq(file, 1, Len(Served)) = Served

(* The file that is opened is the one the path names once its dot segments *)
(* are removed (RFC 3986, 5.2.4), the index for a directory.  The code     *)
(* takes "." for a name that ".." removes, and forgets that a final ".."   *)
(* makes a directory: those paths are left out.                            *)
Named(segs) ==
  LET step(at, seg) == CASE seg = <<>> -> at
                         [] seg = <<Dot, Dot>> -> IF at = <<>> THEN at ELSE Front(at)
                         [] OTHER -> Append(at, seg)
  IN  FoldLeft(step, <<>>, segs)
OpensNamedFile ==
  sample.of = "path" =>
    LET path == Collapse(sample.raw)
        segs == Segments(path)
        last == Last(segs)
        isFile == Dot \in Range(last)
        file == Served \o Named(segs) \o (IF isFile THEN <<>> ELSE Index)
        answer == Static!PostRaw(Site, path, {file}, Cwd)
    IN  last # <<Dot, Dot>> /\ <<Dot>> \notin Range(segs)
          => answer # None /\ "file" \in DOMAIN answer.ok /\ answer.ok.file = file

(* Every extension of TYPES gets its own type, whatever the user adds: the *)
(* table is "sorted in alphabetical order by extension"                    *)
(* (serve_static.rs:367), which binary search needs.                       *)
TypesAreFound ==
  sample.of = "type" =>
    LET ext == <<Static!ExtensionWord(sample.ext)>>
        site == Static!MimeType(Static!MimeType(Site, ext, <<X>>), <<A>>, <<B>>)
    IN  /\ Static!TypeOf(site, Dir \o <<Dot>> \o ext) = [known |-> sample.ext]
        /\ Static!TypeOf(site, Dir \o <<Dot, A>>) = [own |-> <<B>>]

(* "Set path to serve static files on" (serve_static.rs:275): a file of    *)
(* the directory is served under the path that is set.                     *)
ServesUnderItsPath ==
  sample.of = "setup" =>
    LET name == <<Slash, X, Dot, Static!HtmlWord>>
        path == (IF sample.path = <<Slash>> THEN <<>> ELSE sample.path) \o name
        file == Static!Walk(Cwd, Dir \o name)
        answer == Static!PostRaw(Static!Path(Site, sample.path), path, {file}, Cwd)
    IN  answer # None /\ "file" \in DOMAIN answer.ok

-----------------------------------------------------------------------------
(* Exchanges.  The only route is GET /a; "/b" is a file or not.            *)

Extensions ==
  { [is |-> "Head", streaming |-> TRUE], [is |-> "Head", streaming |-> FALSE],
    TraceInclude(TraceExclude(TraceExclude(TraceNew, <<X>>), <<2011>>), <<1011>>),
    [is |-> "RequestId", header |-> <<B>>, id |-> 12],
    [is |-> "Date"],
    [is |-> "ServeStatic", static |-> Site] }
Results ==
  { Some(New), Some(Close(Text(New, <<>>))), Some(Stream(New, <<A, B, X>>)),
    Some(Stream(New, <<>>)), Some(AddHeader(Stream(New, <<A, B>>), <<1007>>, <<50>>)),
    Some(Status(Text(New, <<>>), 204)), Some(Status(New, 204)), Some(Reason(Status(New, 299), <<B>>)),
    Some(Cookies(Bytes(New, <<A, B>>), <<SetCookie(<<A>>, <<B>>), SetCookie(<<X>>, <<A>>)>>)),
    Some(Cookie(New, Domain(MaxAge(SetCookie(<<A>>, <<B>>), <<48>>), <<X>>))), Panicked }
FileB == Served \o <<<<B>>>> \o Index
Attached ==
  {l \in Texts(Extensions, 3) : \A j, k \in DOMAIN l : l[j].is = l[k].is => j = k}
ExchangeSamples ==
  [of : {"exchange"}, method : {GET, HEAD, TRACE}, middleware : Attached,
   path : {<<Slash, A>>}, result : Results, files : {{}}]
  \cup
  [of : {"exchange"}, method : {GET, HEAD, TRACE}, middleware : Attached,
   path : {<<Slash, B>>}, result : {Panicked}, files : {{}, {FileB}}]

ServerOf(s) ==
  DefaultHeader(
    [routes |-> <<[method |-> GET, parts |-> NewPath(<<Slash, A>>), result |-> s.result]>>,
     middleware |-> s.middleware, defaults |-> <<Pair(<<ServerWord>>, <<X>>)>>,
     files |-> s.files, cwd |-> Cwd], <<1019>>, <<X>>)
RequestOf(s, method) ==
  <<method, Space>> \o s.path \o <<Space, HttpWord>> \o CRLF
    \o HostLine \o Line(<<X>>, <<A>>) \o Line(<<1009>>, <<A, Equals, B>>) \o CRLF
Attaches(s, extension) == \E k \in DOMAIN s.middleware : s.middleware[k].is = extension
AttachedBefore(s, e, f) ==
  \E j, k \in DOMAIN s.middleware :
    j < k /\ s.middleware[j].is = e /\ s.middleware[k].is = f

(* A client reads a response (RFC 9112, 6.3): none has a body that answers *)
(* HEAD or has status 1xx, 204 or 304; others are chunked or have a length *)
(* or last until the connection closes.                                    *)
Bodiless(code) == code \in {204, 304} \cup 100..199
RECURSIVE Dechunk(_, _)
Dechunk(body, text) ==
  LET ends == {k \in DOMAIN text : At(text, CRLF, k)}
      size == HexValue(text[1])
      start == Least(ends) + 1
  IN  IF ends = {} \/ Least(ends) # 2 THEN [body |-> body, rest |-> <<"no chunk">>]
      ELSE IF size = 0
      THEN IF At(text, CRLF, start + 1) THEN [body |-> body, rest |-> After(text, start + 2)]
           ELSE [body |-> body, rest |-> <<"no end">>]
      ELSE Dechunk(body \o SubSeq(text, start + 1, start + size), After(text, start + size + 2))

ReadHeader(line) ==
  LET parts == SplitOnce(line, Colon)
  IN  Pair(CanonicalName(parts.ok[1]), Trim(parts.ok[2]))
ReadBody(method, code, headers, text) ==
  LET length == FirstNamed(headers, <<ContentLengthWord>>)
      body == CASE method = HEAD \/ Bodiless(code) ->
                     [body |-> <<>>, rest |-> text]
                [] FirstNamed(headers, <<TransferEncodingWord>>) = Some(<<ChunkedWord>>) ->
                     Dechunk(<<>>, text)
                [] length # None -> [body |-> SubSeq(text, 1, Number(length.ok)),
                                     rest |-> After(text, Number(length.ok))]
                [] OTHER -> [body |-> text, rest |-> <<>>]
  IN  body @@ [code |-> code, headers |-> headers]
ReadResponse(method, text) ==
  LET stop == Least({k \in DOMAIN text : At(text, CRLF \o CRLF, k)})
      lines == Lines(SubSeq(text, 1, stop + 1))
  IN  ReadBody(method, lines[1][3] - 3000,
               [k \in 1..(Len(lines) - 1) |-> ReadHeader(lines[k + 1])], After(text, stop + 3))

Got(s, method) == ReadResponse(method, Answer(ServerOf(s), RequestOf(s, method)).ok)

(* Head only sees responses that are in place when its post hook runs.     *)
HeadSees(s) ==
  /\ Attaches(s, "Head")
  /\ \/ s.path = <<Slash, A>> /\ s.result # Panicked
     \/ s.path = <<Slash, B>> /\ AttachedBefore(s, "Head", "ServeStatic")

(* The framing of every answer is what its client takes it to be, so that  *)
(* the next answer on the connection starts where it is expected: fixed    *)
(* bodies, streams with and without a length of their own, files, errors,  *)
(* and answers to HEAD as far as Head sees them.  The response's headers   *)
(* and the server's arrive.  The code differs from the standard in one way *)
(* that is part of this statement: a body that the user leaves or puts     *)
(* under a status that has none is written all the same ("OK", if the user *)
(* gave none; response.rs:72, 297, 359), and the client takes it for the   *)
(* start of the next answer.                                               *)
BodyFor(code, data) ==
  IF Bodiless(code) THEN [body |-> <<>>, rest |-> Body(data)]
  ELSE [body |-> data.bytes, rest |-> <<>>]
ReadAs(got, res) ==
  /\ got.code = Code(res.status)
  /\ [body |-> got.body, rest |-> got.rest] = BodyFor(got.code, res.data)
  /\ Range(res.headers) \cup {HeaderOf(<<1019>>, <<X>>)} \subseteq Range(got.headers)
FramingAgrees(s, got) ==
  (s.method = HEAD => HeadSees(s)) =>
    ReadAs(got, GetResponse(ServerOf(s), ParseRequest(RequestOf(s, s.method))))

(* Head (head.rs:10): the answer to HEAD has the status GET has, and the   *)
(* length of the body that GET writes, even where GET streams it without   *)
(* one.  With streaming(false) it should then have none (head.rs:13, 25),  *)
(* but gets the length of the empty body that Head leaves                  *)
(* (response.rs:297): 0.                                                   *)
Unmeasured(s) ==
  /\ [is |-> "Head", streaming |-> FALSE] \in Range(s.middleware)
  /\ s.result # Panicked
  /\ s.result.ok.data.stream /\ ~HeadersHas(s.result.ok.headers, <<ContentLengthWord>>)
Describes(head, get, length) ==
  /\ head.code = get.code
  /\ FirstNamed(head.headers, <<ContentLengthWord>>) = Some(NumberText(length, 10))
HeadDescribesGet(s, got) ==
  s.method = HEAD /\ HeadSees(s) =>
    LET get == Got(s, GET)
    IN  Describes(got, get, IF Unmeasured(s) THEN 0 ELSE Len(get.body) + Len(get.rest))

(* Trace (extensions/trace.rs:6): the body of the answer is the request,   *)
(* without its cookies and the headers excluded, and with what other       *)
(* extensions had added by then.                                           *)
TraceEchoes(s, got) ==
  s.method = TRACE /\ Attaches(s, "Trace") =>
    LET echo == ParseRequest(got.body)
        id == IF AttachedBefore(s, "Trace", "RequestId")
              THEN <<Pair(<<B>>, <<49, 50>>)>> ELSE <<>>
    IN  echo = Some([method |-> TRACE, path |-> s.path, version |-> <<HttpWord>>,
                     query |-> <<>>, headers |-> <<Pair(<<2011>>, <<X>>)>> \o id,
                     cookies |-> <<>>, body |-> <<>>])

AnswerReads(s, got) ==
  FramingAgrees(s, got) /\ HeadDescribesGet(s, got) /\ TraceEchoes(s, got)

MessageSamples(s) ==
  \/ s \in RequestSamples
  \/ s \in FormSamples
  \/ s \in EventSamples
  \/ s \in CookieSamples
  \/ s \in PasteSamples
  \/ s \in PathSamples
  \/ s \in TypeSamples
  \/ s \in SetupSamples
  \/ s \in ExchangeSamples
=============================================================================
