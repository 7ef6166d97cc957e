---------------------------- MODULE MCSseStream ----------------------------
(***************************************************************************)
(* Model checking of SseStream: two streams on one connection.             *)
(***************************************************************************)
EXTENDS SseStream
=============================================================================
