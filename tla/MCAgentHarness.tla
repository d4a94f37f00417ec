--------------------------- MODULE MCAgentHarness ---------------------------
(* TLC instances of AgentHarness: the configurations choose the callers,   *)
(* the API calls and model answers in use, and the bounds.                 *)
EXTENDS AgentHarness
=============================================================================
