--------------------------- MODULE MCRateLimiter ---------------------------
(***************************************************************************)
(* Model checking of RateLimiter, and what the documentation says of it    *)
(* that the code does not do.                                              *)
(***************************************************************************)
EXTENDS RateLimiter

(* "For this example, we'll limit requests to 1 every 2 seconds"           *)
(* (examples/basic/rate_limit.rs:24), on a server with one thread: a       *)
(* client that goes on sending is served again and again.                  *)
OneEveryPeriod == Recovers
=============================================================================
