------------------------- MODULE MCExtractPipeline -------------------------
(***************************************************************************)
(* A small instance of ExtractPipeline: two HTTP calls and one MCP call,   *)
(* two of them for the same page.  One tick stands for twenty seconds:     *)
(* the route gives up after 20s (one tick), run_extract after 30s (two).   *)
(***************************************************************************)
EXTENDS ExtractPipeline, TLC

CONSTANTS r1, r2, r3, k1, k2

MCRequests == {r1, r2, r3}
MCKeys == {k1, k2}
MCKeyOf == (r1 :> k1) @@ (r2 :> k2) @@ (r3 :> k1)
MCHttpRequests == {r1, r2}
=============================================================================
