----------------------------- MODULE MCMcpUpdate -----------------------------
(***************************************************************************)
(* One update of the execution node and its Windows companion. The node's  *)
(* workspace is trusted (mcp_update runs on no other), the companion's     *)
(* asks for confirmations.                                                 *)
(***************************************************************************)
EXTENDS McpUpdate

MCGuarded == {"windows"}
MCAlreadyOut == {{"windows"}, {"candidate"}, {"edge", "release"}}
=============================================================================
