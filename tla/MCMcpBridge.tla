------------------------------ MODULE MCMcpBridge ------------------------------
(***************************************************************************)
(* Instance of McpBridge for TLC.                                          *)
(***************************************************************************)
EXTENDS McpBridge

CONSTANTS c1, c2
=================================================================================
