------------------------------ MODULE Outcomes ------------------------------
(***************************************************************************)
(* What the request pipeline (module Pipeline) guarantees the connection   *)
(* loop (module Connection) about one request: the interface on which the  *)
(* two are checked separately.                                             *)
(***************************************************************************)

(* ResponseFlag: keep the connection, close it after the response, or end  *)
(* it without one.                                                         *)
Flags == {"None", "Close", "End"}

(* Errors of Request::from_socket.                                         *)
RequestErrors == {"Stream", "Parse", "Io"}

(* The flags a response to a request can have, and "crash" for a panic     *)
(* that leaves get_response and ends the thread.  Without raw hooks, no    *)
(* user code sees a request that could not be read: it gets the plain      *)
(* error response.                                                         *)
Outcomes(request) ==
  IF request \in RequestErrors THEN {"None"} ELSE Flags \cup {"crash"}
=============================================================================
