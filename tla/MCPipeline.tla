----------------------------- MODULE MCPipeline -----------------------------
(* Attempts of up to two turns and three trace steps.                      *)
EXTENDS Pipeline
=============================================================================
