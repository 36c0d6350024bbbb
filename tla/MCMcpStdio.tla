----------------------------- MODULE MCMcpStdio -----------------------------
(***************************************************************************)
(* Five lines and two permits: a tool call that may hang, a blank line, a  *)
(* notification and two more requests, so that tasks queue for a permit    *)
(* and two answers compete for stdout.                                     *)
(***************************************************************************)
EXTENDS McpStdio

MCKind == <<"request", "blank", "request", "silent", "request">>
MCHanging == {1}
=============================================================================
