-------------------------- MODULE MCLazyRedisCache --------------------------
(***************************************************************************)
(* An HTTP request, which a TimeoutLayer drops, and an MCP call, which     *)
(* nothing drops, share the cache, again and again.  One tick stands for   *)
(* two seconds or a little more: 4s, 5s and 10s become 2, 3 and 5 ticks.   *)
(***************************************************************************)
EXTENDS LazyRedisCache

CONSTANTS o1, o2, c1, c2, c3

MCOps == {o1, o2}
MCDeadlined == {o1}
MCConns == {c1, c2, c3}
=============================================================================
