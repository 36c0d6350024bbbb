-------------------------- MODULE MCSearchGateway --------------------------
(***************************************************************************)
(* Three searches for the same words, two of them over HTTP and one over   *)
(* MCP, two with one safe_search level and the third with another.  A tick *)
(* stands for about five seconds: the route gives up after one (4s), the   *)
(* engine after two (10s).                                                 *)
(***************************************************************************)
EXTENDS SearchGateway, TLC

CONSTANTS s1, s2, s3

Ask(level) == [query |-> "q", page |-> 1, safe |-> level, lang |-> "none"]

MCRequests == {s1, s2, s3}
MCHttpRequests == {s1, s3}
MCParams == (s1 :> Ask(1)) @@ (s2 :> Ask(1)) @@ (s3 :> Ask(2))
=============================================================================
