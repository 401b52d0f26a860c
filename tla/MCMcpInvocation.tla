-------------------------- MODULE MCMcpInvocation --------------------------
(***************************************************************************)
(* Two overlapping requests for one logical call and two ActionRequest ids.*)
(***************************************************************************)
EXTENDS McpInvocation

CONSTANTS a, b, r1, r2

MCHandlers == {a, b}
MCRequests == {r1, r2}
=============================================================================
