------------------------------ MODULE PasteBin ------------------------------
(***************************************************************************)
(* The paste bin (src/examples/application_paste_bin.rs): an application   *)
(* whose state is a list, from the text of a request to its answer.  It    *)
(* has one thread.                                                         *)
(***************************************************************************)
EXTENDS Exchange

LocationWord == 2012
NewWord == 2401             \* the paths
NewFormWord == 2402
PastesWord == 2403
Letter == 112               \* "p"
Id == <<105>>
NameHeader == 2404
NameField == 2405           \* of the form
BodyField == 2406
Untitled == 2407
TooBigPage == 2408
FormPage == 2409
MovedPage == 2410
TextHtml == <<2411>>

DataLimit == 3              \* 10,000 in the code

Paste(name, body) == [name |-> name, body |-> body]

PasteRoutes == <<
  [method |-> GET, parts |-> NewPath(<<Slash>>)],
  [method |-> POST, parts |-> NewPath(<<Slash, NewWord>>)],
  [method |-> POST, parts |-> NewPath(<<Slash, NewFormWord>>)],
  [method |-> GET,
   parts |-> NewPath(<<Slash, Letter, Slash, OpenBrace>> \o Id \o <<CloseBrace>>)],
  [method |-> GET, parts |-> NewPath(<<Slash, PastesWord>>)] >>

(* What a handler makes of the list, and its result.                       *)
Leaves(pastes, res) == [pastes |-> pastes, res |-> res]

(* Both handlers that add a paste end like this.                           *)
Push(pastes, paste) ==
  IF Len(paste.body) > DataLimit
  THEN Leaves(pastes, Some(Text(Status(New, 404), <<TooBigPage>>)))
  ELSE Leaves(Append(pastes, paste),
              Some(AddHeader(Text(Status(New, 301), <<MovedPage>>), <<LocationWord>>,
                             <<Slash, Letter, Slash>> \o NumberText(Len(pastes), 10))))

PostNew(pastes, req) ==
  LET name == HeadersGet(req.headers, <<NameHeader>>)
  IN  Push(pastes, Paste(IF name = None THEN <<Untitled>> ELSE name.ok, req.body))

(* from_body has decoded the fields; here they are decoded again.          *)
PushFields(pastes, name, body) ==
  IF name = None \/ body = None THEN Leaves(pastes, Panicked)
  ELSE Push(pastes, Paste(name.ok, body.ok))
PostForm(pastes, req) ==
  LET given(field) == QueryGet(QueryFromBody(req.body), <<field>>)
      decoded(text) == IF text = None THEN None ELSE UrlDecode(text.ok)
      name == IF given(NameField) = None THEN Some(<<Untitled>>) ELSE given(NameField)
  IN  PushFields(pastes, decoded(name), decoded(given(BodyField)))

(* A number that is none, or has no paste, panics; the lock is not         *)
(* poisoned by a reader.                                                   *)
GetPaste(pastes, params) ==
  LET id == ParseUsize(RequestParam(params, Id).ok)
  IN  IF id = None THEN Panicked
      ELSE IF id.ok \notin 0..(Len(pastes) - 1) THEN Panicked
      ELSE Some(Text(New, pastes[id.ok + 1].body))

(* The ages of the pastes are left out.                                    *)
ListPastes(pastes) ==
  Some(Content(Text(New, Concat([k \in DOMAIN pastes |->
                                   pastes[k].name \o <<Slash>> \o NumberText(k - 1, 10)])),
               TextHtml))

(* The k-th route's handler.                                               *)
Run(k, pastes, req) ==
  CASE k = 0 -> Leaves(pastes, NotFound)
    [] k = 1 -> Leaves(pastes, Some(Content(Text(New, <<FormPage>>), TextHtml)))
    [] k = 2 -> PostNew(pastes, req)
    [] k = 3 -> PostForm(pastes, req)
    [] k = 4 -> Leaves(pastes, GetPaste(pastes, Matches(PasteRoutes[4], req).ok))
    [] k = 5 -> Leaves(pastes, ListPastes(pastes))
Handle(pastes, req) == Run(RouteFor(PasteRoutes, req), pastes, req)
=============================================================================
