----------------------------- MODULE MCAgentViews -----------------------------
(* A tool call and the application, and a server that is closed, again if that *)
(* fails.                                                                      *)
EXTENDS AgentViews

CONSTANTS c1, c2, k1
=============================================================================
