--------------------------- MODULE MCOrchestrator ---------------------------
(* Three model turns; two tools, two search intents, two calls to a reply. *)
EXTENDS Orchestrator

CONSTANTS intent1, intent2
=============================================================================
