---------------------------- MODULE MCConnection ----------------------------
(***************************************************************************)
(* What the documentation says of a connection that the code does not do,  *)
(* of a waiting client and of bodies that may fail, without timeouts.      *)
(***************************************************************************)
EXTENDS Connection

BodySettings ==
  {[pipelining |-> FALSE, keepAlive |-> TRUE, timeout |-> FALSE,
    bodiesFail |-> TRUE, usersHoldSocket |-> FALSE]}

(* Response::write "will take care of ... closing the connection if        *)
(* needed" (response.rs:280): nothing follows a response that broke off.   *)
BrokenOffIsLast ==
  \A n \in 1..(Len(replies) - 1) : replies[n].full
=============================================================================
