-------------------------------- MODULE Paths --------------------------------
(***************************************************************************)
(* Route paths (src/lib/internal/path.rs) and the choice of a route        *)
(* (route.rs, internal/handle.rs): a path is tokenised when its route is   *)
(* added, and matched against the path of each request.                    *)
(***************************************************************************)
EXTENDS Codecs

Slash == 47
Star == 42
OpenBrace == 123
CloseBrace == 125

(* path.split('/'): n slashes make n + 1 segments, empty ones included.    *)
Segments(path) ==
  LET slashes == {k \in DOMAIN path : path[k] = Slash}
      ends == <<0>> \o Sorted(slashes \cup {Len(path) + 1}, Len(path) + 1)
  IN  [k \in 1..(Len(ends) - 1) |-> SubSeq(path, ends[k] + 1, ends[k + 1] - 1)]

NormalizePath(path) ==
  LET kept == {k \in DOMAIN path : path[k] # Slash}
  IN  IF kept = {} THEN <<>>
      ELSE SubSeq(path, CHOOSE k \in kept : \A j \in kept : k <= j,
                        CHOOSE k \in kept : \A j \in kept : k >= j)

FromSegment(seg) ==
  CASE seg = <<Star>> -> [part |-> "Any"]
    [] seg = <<Star, Star>> -> [part |-> "AnyAfter"]
    [] Len(seg) > 1 /\ seg[1] = OpenBrace /\ Last(seg) = CloseBrace ->
         [part |-> "Param", name |-> SubSeq(seg, 2, Len(seg) - 1)]
    [] OTHER -> [part |-> "Normal", text |-> seg]

NewPath(path) ==
  LET segs == Segments(NormalizePath(path))
  IN  [k \in DOMAIN segs |-> FromSegment(segs[k])]

Capture(seg) == IF UrlDecode(seg) = None THEN seg ELSE UrlDecode(seg).ok

Captures(parts, segs, n) ==
  LET params == SelectSeq([k \in 1..n |-> k], LAMBDA k : parts[k].part = "Param")
  IN  [k \in DOMAIN params |-> [name |-> parts[params[k]].name,
                                value |-> Capture(segs[params[k]])]]

(* The loop over the zipped parts and segments returns at the first        *)
(* AnyAfter or unequal Normal part; without one the lengths decide.        *)
MatchSegments(parts, segs) ==
  LET both == 1..(IF Len(parts) <= Len(segs) THEN Len(parts) ELSE Len(segs))
      Returns(k) == \/ parts[k].part = "AnyAfter"
                    \/ parts[k].part = "Normal" /\ parts[k].text # segs[k]
      returns == {k \in both : Returns(k)}
      first == CHOOSE k \in returns : \A j \in returns : k <= j
  IN  IF Len(parts) = 1 /\ parts[1].part = "AnyAfter" THEN Some(<<>>)
      ELSE IF returns # {}
        THEN IF parts[first].part = "AnyAfter"
             THEN Some(Captures(parts, segs, first - 1)) ELSE None
        ELSE IF Len(parts) = Len(segs)
             THEN Some(Captures(parts, segs, Len(parts))) ELSE None
MatchPath(parts, path) == MatchSegments(parts, Segments(NormalizePath(path)))

(* Methods are words (module Messages); Method::ANY is one of routes only. *)
ANY == 2059
Matches(route, req) ==
  IF route.method # ANY /\ route.method # req.method THEN None
  ELSE MatchPath(route.parts, req.path)

(* routes.iter().rev(): 0 if there is none.                                *)
FirstRouteMutant(matching) == CHOOSE k \in matching : \A j \in matching : k <= j
PreferredRoute(matching) == CHOOSE k \in matching : \A j \in matching : j <= k

RouteFor(routes, req) ==
  LET matching == {k \in DOMAIN routes : Matches(routes[k], req) # None}
  IN  IF matching = {} THEN 0 ELSE PreferredRoute(matching)
=============================================================================
