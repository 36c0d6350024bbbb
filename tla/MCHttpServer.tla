---------------------------- MODULE MCHttpServer ----------------------------
(***************************************************************************)
(* Two requests, one of which parses a page.  A tick stands for five       *)
(* seconds: a drain of ten (two) or none, a balancer that polls every five *)
(* (one).  The handlers' twenty seconds are shortened to two ticks, the    *)
(* monitor's sixty and ten to three ticks and two.                         *)
(***************************************************************************)
EXTENDS HttpServer

CONSTANTS q1, q2

MCRequests == {q1, q2}
MCParsing == {q1}
=============================================================================
