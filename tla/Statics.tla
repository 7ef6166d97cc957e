------------------------------- MODULE Statics -------------------------------
(***************************************************************************)
(* The static file server (src/lib/extensions/serve_static.rs): which file *)
(* it opens for a path and what type it gives it.                          *)
(*                                                                         *)
(* Names are texts of Messages; an extension that TYPES has is one word.   *)
(* The file system is a set of files, each the sequence of its names from  *)
(* the root, and a working directory.                                      *)
(***************************************************************************)
EXTENDS Messages, TLC

IndexWord == 2081
DotDot == <<Dot, Dot>>
JoinWith(texts, sep) ==
  Concat([k \in DOMAIN texts |-> IF k = 1 THEN texts[k] ELSE <<sep>> \o texts[k]])

-----------------------------------------------------------------------------
(* TYPES and get_type.  The k-th extension is the word 2100 + k and has    *)
(* the k-th type; binary_search_by finds it only where the order of the    *)
(* spellings leads.                                                        *)

Types == <<
  "7z", "aac", "avi", "bin", "bmp", "bz", "bz2", "cda", "css", "csv", "epub",
  "gif", "gz", "htm", "html", "ico", "ics", "jar", "jpeg", "jpg", "js", "json",
  "jsonld", "mid", "midi", "mjs", "mp3", "mp4", "mpeg", "oga", "ogv", "ogx",
  "opus", "otf", "pdf", "png", "rar", "rtf", "sh", "svg", "swf", "tar", "tif",
  "tiff", "ts", "ttf", "txt", "wav", "weba", "webm", "webp", "woff", "woff2",
  "xhtml", "xml", "zip" >>

ExtensionWord(k) == 2100 + k
HtmlWord == ExtensionWord(15)

Alphabet == "0123456789abcdefghijklmnopqrstuvwxyz"
Letter(s, k) == CHOOSE i \in 1..36 : SubSeq(Alphabet, i, i) = SubSeq(s, k, k)
Precedes(s, t) ==
  LET same(n) == SubSeq(s, 1, n) = SubSeq(t, 1, n)
  IN  \E n \in 0..Len(s) : /\ n < Len(t)
                           /\ same(n)
                           /\ n = Len(s) \/ Letter(s, n + 1) < Letter(t, n + 1)

RECURSIVE Search(_, _, _)
Search(ext, low, high) ==
  LET mid == (low + high) \div 2
  IN  CASE low > high -> None
        [] low <= high /\ Types[mid] = ext -> Some(mid)
        [] OTHER -> IF Precedes(Types[mid], ext) THEN Search(ext, mid + 1, high)
                    ELSE Search(ext, low, mid - 1)

(* The type of an extension is named by its place in TYPES.                *)
GetType(ext) ==
  IF Len(ext) = 1 /\ ext[1] - 2100 \in DOMAIN Types
  THEN Search(Types[ext[1] - 2100], 1, Len(Types)) ELSE None

-----------------------------------------------------------------------------
(* ServeStatic::new and its modifiers.                                     *)

New(dir) ==
  [servePath |-> NormalizePath(<<Slash>>), dataDir |-> dir, disabled |-> <<>>, types |-> <<>>]
Path(this, path) == [this EXCEPT !.servePath = NormalizePath(path)]
Disable(this, file) == [this EXCEPT !.disabled = Append(@, file)]
MimeType(this, ext, type) == [this EXCEPT !.types = Append(@, Pair(ext, type))]

LeadingDotsMutant(path) == At(path, <<Slash>> \o DotDot, 1)
HasDots(path) == \E k \in DOMAIN path : At(path, DotDot, k)
Parent(out) == IF out = <<>> THEN out ELSE Front(out)

SafePath(path) ==
  LET step(out, seg) == IF seg = DotDot THEN Parent(out) ELSE Append(out, seg)
  IN  IF ~HasDots(path) THEN path
      ELSE JoinWith(FoldLeft(step, <<>>, Split(path, IsSlash)), Slash)

IsFileName(name) == \E k \in DOMAIN name : name[k] = Dot

FilePath(this, path) ==
  LET index == <<IndexWord, Dot, HtmlWord>>
      asked == this.dataDir \o <<Slash>> \o SafePath(After(path, Len(this.servePath)))
      file == IF Last(asked) = Slash THEN asked \o index ELSE asked
      name == Last(Split(file, LAMBDA c : c = Slash))
  IN  IF IsFileName(name) THEN file ELSE file \o <<Slash>> \o index

(* The text after the first data_dir, which is in front.                   *)
IsDisabled(this, file) ==
  \E k \in DOMAIN this.disabled : this.disabled[k] = After(file, Len(this.dataDir))

(* File::open: the system walks from the working directory.                *)
Walk(from, path) ==
  LET step(at, seg) == CASE seg \in {<<>>, <<Dot>>} -> at
                         [] seg = DotDot -> IF at = <<>> THEN at ELSE Front(at)
                         [] OTHER -> Append(at, seg)
  IN  FoldLeft(step, from, Split(path, LAMBDA c : c = Slash))

TypeOf(this, file) ==
  LET ext == Last(Split(file, LAMBDA c : c = Dot))
      own == FirstNamed(this.types, ext)
  IN  CASE GetType(ext) # None -> [known |-> GetType(ext).ok]
        [] GetType(ext) = None /\ own # None -> [own |-> own.ok]
        [] OTHER -> [default |-> "application/octet-stream"]

(* process_req: what not_found is told, or the file and its type.          *)
OpenFile(this, file, files, cwd) ==
  IF IsDisabled(this, file) THEN [blocked |-> TRUE]
  ELSE IF Walk(cwd, file) \notin files THEN [blocked |-> FALSE]
  ELSE [file |-> Walk(cwd, file), type |-> TypeOf(this, file)]
ProcessReq(this, path, files, cwd) == OpenFile(this, FilePath(this, path), files, cwd)

(* post_raw, of a request that no route matched: None leaves the response  *)
(* as it is.                                                               *)
PostRaw(this, path, files, cwd) ==
  IF At(path, this.servePath, 1) THEN Some(ProcessReq(this, path, files, cwd)) ELSE None
=============================================================================
