------------------------------ MODULE Exchange ------------------------------
(***************************************************************************)
(* One request and its answer, as texts: the composition of Messages (what *)
(* is read), Paths (which route), Statics and the other extensions that    *)
(* keep no state between requests (src/lib/extensions/{head, trace,        *)
(* request_id, date, serve_static}.rs), and Response::write (response.rs), *)
(* in the order of internal/handle.rs.  Module Pipeline has that order for *)
(* hooks that do anything; here are the hooks that afire comes with.       *)
(*                                                                         *)
(* A server is [routes, middleware, defaults, files, cwd]; a middleware is *)
(* a record with the extension as its "is".                                *)
(***************************************************************************)
EXTENDS Messages, FiniteSets

Static == INSTANCE Statics

HeadMark == <<2032>>        \* afire::head
True == <<2064>>
MessageHttp == <<2065>>     \* message/http; charset=utf-8
TextPlain == <<2066>>       \* text/plain; charset=utf-8
NotFoundPage == <<2082>>    \* the texts of ServeStatic's and the default
ErrorPage == <<2083>>       \* error handler's pages, and of 400
BadRequestPage == <<2084>>
Contents == <<2085>>        \* of a file
Now == <<2086>>

-----------------------------------------------------------------------------
(* status.rs: a status of the enum is named by its code.                   *)

NamedCodes ==
  {100, 101, 103} \cup 200..206 \cup 300..305 \cup {307, 308} \cup 400..418
    \cup {421, 425, 426, 428, 429, 431, 451} \cup 500..506 \cup {510, 511}

StatusFrom(code) == IF code \in NamedCodes THEN [named |-> code] ELSE [custom |-> code]
Code(status) == IF "named" \in DOMAIN status THEN status.named ELSE status.custom
ReasonPhrase(status) ==
  IF Code(status) \in NamedCodes THEN <<4000 + Code(status)>> ELSE <<4200>>

-----------------------------------------------------------------------------
(* response.rs: the builder.                                               *)

Fixed(bytes) == [stream |-> FALSE, bytes |-> bytes]
Streamed(bytes) == [stream |-> TRUE, bytes |-> bytes]

New == [status |-> [named |-> 200], data |-> Fixed(<<79, 75>>), headers |-> <<>>,
        reason |-> <<>>, flag |-> "None"]
Status(res, code) == [res EXCEPT !.status = StatusFrom(code)]
Reason(res, text) == [res EXCEPT !.reason = text]
Text(res, text) == [res EXCEPT !.data = Fixed(text)]
Bytes(res, bytes) == [res EXCEPT !.data = Fixed(bytes)]
Stream(res, bytes) == [res EXCEPT !.data = Streamed(bytes)]
AddHeader(res, name, value) == [res EXCEPT !.headers = HeadersAdd(@, name, value)]
Content(res, type) == AddHeader(res, <<ContentTypeWord>>, type)
Cookie(res, cookie) == AddHeader(res, <<SetCookieWord>>, SetCookieToString(cookie))
AddHeaders(res, headers) == [res EXCEPT !.headers = @ \o headers]
Cookies(res, cookies) ==
  AddHeaders(res, [k \in DOMAIN cookies |->
                     HeaderOf(<<SetCookieWord>>, SetCookieToString(cookies[k]))])
Close(res) == [res EXCEPT !.flag = "Close"]

-----------------------------------------------------------------------------
(* Response::write.                                                        *)

NumberText(n, base) ==
  LET text[k \in Nat] == IF k < base THEN <<HexDigit(k)>>
                         ELSE text[k \div base] \o <<HexDigit(k % base)>>
  IN  text[n]

(* A default header is left out if the response has one of its name.       *)
AddMissing(headers, h) ==
  IF HeadersHas(headers, h.name) THEN headers ELSE Append(headers, h)

WithLength(headers, data) ==
  IF data.stream THEN headers
  ELSE AddMissing(headers, HeaderOf(<<ContentLengthWord>>, NumberText(Len(data.bytes), 10)))

WithClose(headers, flag) ==
  IF flag = "Close" THEN AddMissing(headers, HeaderOf(<<ConnectionWord>>, <<CloseWord>>))
  ELSE headers

WithEncoding(headers, data) ==
  IF data.stream THEN AddMissing(headers, HeaderOf(<<TransferEncodingWord>>, <<ChunkedWord>>))
  ELSE headers

(* out[..out.len() - 2] underflows without headers.                        *)
HeadersToString(headers) ==
  IF headers = <<>> THEN Panic
  ELSE Some(Concat([k \in DOMAIN headers |->
         IF k = 1 THEN HeaderToString(headers[k]) ELSE CRLF \o HeaderToString(headers[k])]))

ChunkSize == 2      \* CHUNK_SIZE; reads are as long as they can be
LastChunk == <<48>> \o CRLF \o CRLF
Body(data) ==
  LET chunks == Chunks(data.bytes, ChunkSize)
  IN  IF ~data.stream THEN data.bytes
      ELSE Concat([k \in DOMAIN chunks |->
             NumberText(Len(chunks[k]), 16) \o CRLF \o chunks[k] \o CRLF]) \o LastChunk

Write(res, defaults) ==
  LET headers == WithEncoding(WithClose(WithLength(FoldLeft(AddMissing, res.headers, defaults),
                                                   res.data), res.flag), res.data)
      reason == IF res.reason = <<>> THEN ReasonPhrase(res.status) ELSE res.reason
      text == HeadersToString(headers)
  IN  IF text = Panic THEN Panic
      ELSE Some(<<HttpWord, Space, 3000 + Code(res.status), Space>> \o reason \o CRLF
                  \o text.ok \o CRLF \o CRLF \o Body(res.data))

(* Server::default_header.                                                 *)
DefaultHeader(server, name, value) ==
  [server EXCEPT !.defaults = Append(@, HeaderOf(name, value))]

-----------------------------------------------------------------------------
(* The extensions' hooks.  A pre hook continues with a request, sends a    *)
(* response or panics; a post hook gives the response.                     *)

Continue(req) == [req |-> req]
Send(res) == [sent |-> res]

HeadPre(req) ==
  IF req.method # HEAD THEN Continue(req)
  ELSE Continue([req EXCEPT !.method = GET, !.headers = HeadersAdd(@, HeadMark, True)])

(* The headers of a response whose body HeadPost takes away.               *)
LengthLeftOutMutant(this, res) == res.headers
Described(this, res) ==
  IF res.data.stream /\ ~this.streaming THEN res.headers
  ELSE AddMissing(res.headers,
                  HeaderOf(<<ContentLengthWord>>, NumberText(Len(res.data.bytes), 10)))
HeadPost(this, req, res) ==
  IF ~HeadersHas(req.headers, HeadMark) THEN res
  ELSE [res EXCEPT !.data = Fixed(<<>>), !.headers = Described(this, res)]

TraceNew == [is |-> "Trace", exclude |-> {<<CookieWord>>}]
TraceExclude(this, header) == [this EXCEPT !.exclude = @ \cup {HeaderType(header)}]
TraceInclude(this, header) == [this EXCEPT !.exclude = @ \ {HeaderType(header)}]
Shown(this, headers) == SelectSeq(headers, LAMBDA h : h.name \notin this.exclude)

(* headers[..headers.len() - 2] underflows if none is shown.               *)
TracePre(this, req) ==
  LET shown == HeadersToString(Shown(this, req.headers))
      out == <<req.method, Space>> \o req.path \o <<Space>> \o req.version \o CRLF
               \o shown.ok \o CRLF \o CRLF
  IN  IF req.method # TRACE THEN Continue(req)
      ELSE IF shown = Panic THEN Panic ELSE Send(Content(Text(New, out), MessageHttp))

RequestIdPre(this, req) ==
  Continue([req EXCEPT !.headers = HeadersAdd(@, this.header, NumberText(this.id, 10))])

DatePost(res) == AddHeader(res, <<DateWord>>, Now)

(* ServeStatic's post_raw gets every result; the length is the file's. Its *)
(* type is Statics' concern, here it is always the same.                   *)
NotFound == [err |-> "NotFound"]
FileResponse(file) ==
  IF "file" \in DOMAIN file
  THEN AddHeader(Stream(AddHeader(New, <<ContentLengthWord>>, NumberText(Len(Contents), 10)),
                        Contents), <<ContentTypeWord>>, TextPlain)
  ELSE Content(Text(Status(New, 404), NotFoundPage), TextPlain)
StaticPost(this, server, req, res) ==
  LET file == Static!PostRaw(this.static, req.path, server.files, server.cwd)
  IN  IF res # NotFound \/ file = None THEN res ELSE Some(FileResponse(file.ok))

PreHook(m, req) ==
  CASE m.is = "Head" -> HeadPre(req)
    [] m.is = "Trace" -> TracePre(m, req)
    [] m.is = "RequestId" -> RequestIdPre(m, req)
    [] OTHER -> Continue(req)

PostHook(m, server, req, res) ==
  CASE m.is = "ServeStatic" -> StaticPost(m, server, req, res)
    [] m.is = "Head" /\ "ok" \in DOMAIN res -> Some(HeadPost(m, req, res.ok))
    [] m.is = "Date" /\ "ok" \in DOMAIN res -> Some(DatePost(res.ok))
    [] OTHER -> res

-----------------------------------------------------------------------------
(* get_response.  Before routing the response is Err(Error::None).         *)

NoResponse == [err |-> "None"]
Panicked == [err |-> "Panic"]

RunPre(server, req) ==
  LET step(x, m) ==
        LET hook == PreHook(m, x.req.ok)
        IN  IF x.res # NoResponse \/ "err" \in DOMAIN x.req THEN x
            ELSE IF hook = Panic THEN [x EXCEPT !.res = Panicked]
            ELSE IF "sent" \in DOMAIN hook THEN [x EXCEPT !.res = Some(hook.sent)]
            ELSE [x EXCEPT !.req = Some(hook.req)]
  IN  FoldLeft(step, [req |-> req, res |-> NoResponse], Reverse(server.middleware))

HandleRoute(server, req) ==
  LET used == RouteFor(server.routes, req)
  IN  IF used = 0 THEN NotFound ELSE server.routes[used].result

ErrorResponse(err, req) ==
  CASE err = Panicked -> Content(Text(Status(New, 500), ErrorPage), TextPlain)
    [] err = NotFound -> Content(Text(Status(New, 404),
                                      <<req.ok.method, Space>> \o req.ok.path), TextPlain)
    [] OTHER -> Text(Status(New, 400), BadRequestPage)

RoutePost(server, req, given) ==
  LET routed == IF given # NoResponse \/ "err" \in DOMAIN req THEN given
                ELSE HandleRoute(server, req.ok)
      step(res, m) == IF "err" \in DOMAIN req THEN res ELSE PostHook(m, server, req.ok, res)
  IN  IF given = Panicked THEN Panicked
      ELSE FoldLeft(step, routed, Reverse(server.middleware))

ResponseOf(res, req) ==
  IF "ok" \in DOMAIN res THEN res.ok
  ELSE ErrorResponse(IF "err" \in DOMAIN req THEN req ELSE res, req)

GetResponse(server, req) ==
  LET pre == RunPre(server, req)
  IN  ResponseOf(RoutePost(server, pre.req, pre.res), pre.req)

Answer(server, text) == Write(GetResponse(server, ParseRequest(text)), server.defaults)
=============================================================================
