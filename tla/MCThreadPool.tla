---------------------------- MODULE MCThreadPool ----------------------------
(***************************************************************************)
(* Model checking of ThreadPool.  The workers are numbers, since drop      *)
(* joins them in order: they are not symmetric.                            *)
(***************************************************************************)
EXTENDS ThreadPool
=============================================================================
