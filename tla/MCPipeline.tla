----------------------------- MODULE MCPipeline -----------------------------
(* The instance of Pipeline that TLC checks.                               *)
EXTENDS Pipeline
=============================================================================
